------------------------- MODULE SubprocessBackground -------------------------
(***************************************************************************)
(* The background API of os.c on POSIX: jsl_subprocess_background_start,   *)
(* send_stdin, receive_output, poll, kill and wait, and cleanup.  One      *)
(* thread makes the calls, on any handle in any order; the children read,  *)
(* write, exit and die between any two steps of a call that blocks.        *)
(*                                                                         *)
(* A pipe holds a number of chunks.  A captured child has one captured     *)
(* stream: the second is drained by the same code, see SubprocessBatch.    *)
(***************************************************************************)
EXTENDS Naturals, FiniteSets

CONSTANTS
  N,            \* the handles are 1 .. N
  Feeds,        \* handles with stdin_kind = MEMORY
  Captures,     \* handles whose output goes to a sink
  InputLen,     \* chunks of stdin_memory
  OutputLen,    \* chunks a captured child writes
  PipeCap,      \* chunks a kernel pipe holds
  Arrays,       \* the procs arguments given to wait
  IoErrors,     \* read() and write() on a pipe may fail for good
  HostReaps,    \* handles whose zombies the program around may wait for itself
  Interrupts,   \* a signal with another handler may end the waitpid() of cleanup
  Calls         \* bound: the calls the client makes

Procs == 1 .. N
Timeouts == {"infinite", "zero", "positive"}

ASSUME HandlesAssumption == N \in Nat \ {0}
Configuration ==
  /\ Feeds \subseteq Procs /\ Captures \subseteq Procs
  /\ InputLen \in Nat /\ OutputLen \in Nat /\ PipeCap \in Nat \ {0}
  /\ Arrays \subseteq SUBSET Procs
  /\ IoErrors \in BOOLEAN /\ HostReaps \subseteq Procs /\ Interrupts \in BOOLEAN
  /\ Calls \subseteq {"send_stdin", "receive_output", "poll", "kill", "wait", "cleanup"}
ASSUME ConfigAssumption == Configuration

VARIABLES
  (* the children and the kernel *)
  os,           \* "none", "running", "exited" or "signalled" (zombies), "reaped",
                \* "taken" (by the program around)
  inPipe,       \* chunks in the child's stdin pipe
  readsStdin,   \* the child has its end of the stdin pipe open
  sawEof,       \* the child has read end-of-file from its stdin
  holders,      \* other living children with the write end of a stdin pipe
  outPipe,      \* chunks in the output pipe
  produced,     \* chunks the child has written
  killed,       \* living children sent SIGKILL
  selfPipe,     \* the SIGCHLD self-pipe holds a byte
  expired,      \* the timeout of the call has passed
  interrupted,  \* history: handles whose cleanup a signal has cut short
  (* the handles *)
  valid,        \* the sentinel is in place
  status, background, pid, stdinFd, offset, readFd, sunk, lastErrno,
  (* the call *)
  pc, i, subject, timeout, slots, waiting, ioFailed, ready, last

childVars == <<os, inPipe, readsStdin, sawEof, holders, outPipe, produced>>
kernelVars == <<killed, selfPipe, expired, interrupted>>
pipeEnds == <<stdinFd, offset, readFd, sunk, lastErrno>>
handleVars == <<valid, status, background, pid, pipeEnds>>
callVars == <<pc, i, subject, timeout, slots, waiting, ioFailed, ready>>
vars == <<childVars, kernelVars, handleVars, callVars, last>>

Zombie == {"exited", "signalled"}
Terminal == {"EXITED", "KILLED_BY_SIGNAL"}
Results == {"none", "SUCCESS", "START_FAILED", "IO_FAILED", "TIMEOUT_REACHED",
            "WAIT_FAILED", "ALLOCATION_FAILED"}
Ops == {"none", "start", "send_stdin", "receive_output", "poll", "kill", "wait", "cleanup"}

ChildTypes ==
  /\ os \in [Procs -> {"none", "running", "reaped", "taken"} \cup Zombie]
  /\ inPipe \in [Procs -> 0 .. PipeCap] /\ outPipe \in [Procs -> 0 .. PipeCap]
  /\ readsStdin \in [Procs -> BOOLEAN] /\ sawEof \in [Procs -> BOOLEAN]
  /\ holders \in [Procs -> SUBSET Procs]
  /\ produced \in [Procs -> 0 .. OutputLen]
  /\ killed \subseteq Procs /\ selfPipe \in BOOLEAN /\ expired \in BOOLEAN
  /\ interrupted \subseteq Procs

HandleTypes ==
  /\ valid \in [Procs -> BOOLEAN] /\ background \in [Procs -> BOOLEAN]
  /\ status \in [Procs -> {"NOT_STARTED", "RUNNING", "FAILED_TO_START"} \cup Terminal]
  /\ pid \in [Procs -> BOOLEAN] /\ stdinFd \in [Procs -> BOOLEAN]
  /\ readFd \in [Procs -> BOOLEAN] /\ lastErrno \in [Procs -> BOOLEAN]
  /\ offset \in [Procs -> 0 .. InputLen] /\ sunk \in [Procs -> 0 .. OutputLen]

CallTypes ==
  /\ pc \in {"idle", "polling", "prereap", "predrain", "block", "pump", "reap", "check", "collect"}
  /\ i \in 1 .. N + 1 /\ timeout \in Timeouts
  /\ subject \subseteq Procs /\ slots \subseteq Procs /\ waiting \subseteq slots
  /\ ioFailed \subseteq slots /\ ready \subseteq Procs
  /\ last \in [op : Ops, on : SUBSET Procs, result : Results]

TypeOK == ChildTypes /\ HandleTypes /\ CallTypes

Everywhere(value) == [p \in Procs |-> value]

Init ==
  /\ os = Everywhere("none")
  /\ inPipe = Everywhere(0) /\ outPipe = Everywhere(0) /\ produced = Everywhere(0)
  /\ readsStdin = Everywhere(FALSE) /\ sawEof = Everywhere(FALSE)
  /\ holders = Everywhere({})
  /\ killed = {} /\ selfPipe = FALSE /\ expired = FALSE /\ interrupted = {}
  /\ valid = Everywhere(TRUE) /\ background = Everywhere(FALSE)
  /\ status = Everywhere("NOT_STARTED") /\ pid = Everywhere(FALSE)
  /\ stdinFd = Everywhere(FALSE) /\ readFd = Everywhere(FALSE)
  /\ offset = Everywhere(0) /\ sunk = Everywhere(0) /\ lastErrno = Everywhere(FALSE)
  /\ pc = "idle" /\ i = 1 /\ subject = {} /\ timeout = "zero"
  /\ slots = {} /\ waiting = {} /\ ioFailed = {} /\ ready = {}
  /\ last = [op |-> "none", on |-> {}, result |-> "none"]

-----------------------------------------------------------------------------
(* The children.                                                           *)

ChildReads(p) ==
  /\ os[p] = "running" /\ readsStdin[p] /\ inPipe[p] > 0
  /\ inPipe' = [inPipe EXCEPT ![p] = @ - 1]
  /\ UNCHANGED <<os, readsStdin, sawEof, holders, outPipe, produced>>
  /\ UNCHANGED <<kernelVars, handleVars, callVars, last>>

ChildSeesEof(p) ==
  /\ os[p] = "running" /\ readsStdin[p] /\ ~sawEof[p]
  /\ inPipe[p] = 0 /\ ~stdinFd[p] /\ holders[p] = {}
  /\ sawEof' = [sawEof EXCEPT ![p] = TRUE]
  /\ UNCHANGED <<os, inPipe, readsStdin, holders, outPipe, produced>>
  /\ UNCHANGED <<kernelVars, handleVars, callVars, last>>

ChildWrites(p) ==
  /\ os[p] = "running" /\ readFd[p] /\ produced[p] < OutputLen /\ outPipe[p] < PipeCap
  /\ outPipe' = [outPipe EXCEPT ![p] = @ + 1]
  /\ produced' = [produced EXCEPT ![p] = @ + 1]
  /\ UNCHANGED <<os, inPipe, readsStdin, sawEof, holders>>
  /\ UNCHANGED <<kernelVars, handleVars, callVars, last>>

(* The handler of SIGCHLD fills the self-pipe.                              *)
Dies(p, how) ==
  /\ os[p] = "running"
  /\ os' = [os EXCEPT ![p] = how]
  /\ inPipe' = [inPipe EXCEPT ![p] = 0]
  /\ readsStdin' = [readsStdin EXCEPT ![p] = FALSE]
  /\ sawEof' = [sawEof EXCEPT ![p] = FALSE]
  /\ holders' = [q \in Procs |-> holders[q] \ {p}]
  /\ killed' = killed \ {p}
  /\ selfPipe' = TRUE
  /\ UNCHANGED <<outPipe, produced, expired, interrupted>>
  /\ UNCHANGED <<handleVars, callVars, last>>

Finished(p) ==
  /\ readsStdin[p] => sawEof[p]
  /\ readFd[p] => produced[p] = OutputLen

ChildFinishes(p) == Finished(p) /\ Dies(p, "exited")
ChildCrashes(p) == \E how \in Zombie : Dies(p, how)
ChildKilled(p) == p \in killed /\ Dies(p, "signalled")

(* The program around waits for any child, and gets this one.               *)
HostCollects(p) ==
  /\ p \in HostReaps /\ os[p] \in Zombie
  /\ os' = [os EXCEPT ![p] = "taken"]
  /\ UNCHANGED <<inPipe, readsStdin, sawEof, holders, outPipe, produced>>
  /\ UNCHANGED <<kernelVars, handleVars, callVars, last>>

TimePasses ==
  /\ pc # "idle" /\ timeout = "positive" /\ ~expired
  /\ expired' = TRUE
  /\ UNCHANGED <<childVars, killed, selfPipe, interrupted, handleVars, callVars, last>>

-----------------------------------------------------------------------------
(* What the calls are made of.                                             *)

Least(a, b) == IF a < b THEN a ELSE b
CallUnderWay == last' = [op |-> "none", on |-> {}, result |-> "none"]
Returns(op, on, result) == last' = [op |-> op, on |-> on, result |-> result]
Callable(p) == pc = "idle" /\ valid[p] /\ background[p]

WriteFailures(p) ==
  IF IoErrors /\ stdinFd[p] /\ offset[p] < InputLen THEN BOOLEAN ELSE {FALSE}
ReadFailures(p) == IF IoErrors /\ readFd[p] THEN BOOLEAN ELSE {FALSE}

(* Mutant: every write is given the length of the whole memory.             *)
PumpStdinWholeLength(p, bad) ==
  LET amount == IF bad \/ ~readsStdin[p] \/ ~stdinFd[p] THEN 0
                ELSE Least(InputLen, PipeCap - inPipe[p])
  IN  /\ inPipe' = [inPipe EXCEPT ![p] = @ + amount]
      /\ offset' = [offset EXCEPT ![p] = @ + amount]
      /\ stdinFd' = [stdinFd EXCEPT ![p] =
                       @ /\ readsStdin[p] /\ ~bad /\ offset[p] + amount < InputLen]

(* jsl__subprocess_posix_pump_stdin_once: `bad` is an error other than      *)
(* EPIPE, EAGAIN and EINTR.                                                 *)
PumpStdin(p, bad) ==
  LET amount == IF bad \/ ~readsStdin[p] \/ ~stdinFd[p] THEN 0
                ELSE Least(InputLen - offset[p], PipeCap - inPipe[p])
  IN  /\ inPipe' = [inPipe EXCEPT ![p] = @ + amount]
      /\ offset' = [offset EXCEPT ![p] = @ + amount]
      /\ stdinFd' = [stdinFd EXCEPT ![p] =
                       @ /\ readsStdin[p] /\ ~bad /\ offset[p] + amount < InputLen]

(* Mutant: an exited child's stream is closed before it is read.            *)
PumpOutputClosesFirst(p, bad) ==
  LET amount == IF readFd[p] /\ os[p] = "running" THEN outPipe[p] ELSE 0
  IN  /\ sunk' = [sunk EXCEPT ![p] = @ + (IF bad THEN 0 ELSE amount)]
      /\ outPipe' = [outPipe EXCEPT ![p] = @ - amount]
      /\ readFd' = [readFd EXCEPT ![p] = @ /\ ~bad /\ os[p] = "running"]

(* jsl__subprocess_posix_pump_output_once: read until the pipe is empty, at *)
(* end-of-file or on an error (`bad`) close it.                             *)
PumpOutput(p, bad) ==
  LET amount == IF readFd[p] THEN outPipe[p] ELSE 0
  IN  /\ sunk' = [sunk EXCEPT ![p] = @ + (IF bad THEN 0 ELSE amount)]
      /\ outPipe' = [outPipe EXCEPT ![p] = @ - amount]
      /\ readFd' = [readFd EXCEPT ![p] = @ /\ ~bad /\ os[p] = "running"]

Reported(p) == IF os[p] = "exited" THEN "EXITED" ELSE "KILLED_BY_SIGNAL"

(* Mutant: the pid stays in the handle.                                     *)
CollectKeepsPid(p) ==
  /\ os' = [os EXCEPT ![p] = "reaped"]
  /\ status' = [status EXCEPT ![p] = Reported(p)]
  /\ UNCHANGED pid

(* waitpid() has returned the pid: the status is decoded, the pid dropped.  *)
Collect(p) ==
  /\ os' = [os EXCEPT ![p] = "reaped"]
  /\ status' = [status EXCEPT ![p] = Reported(p)]
  /\ pid' = [pid EXCEPT ![p] = FALSE]

-----------------------------------------------------------------------------
(* The calls that do not block.                                            *)

(* The pipes are not close-on-exec: a child keeps the write end of every    *)
(* stdin pipe the parent has open.                                          *)
InheritedBy(p) == {q \in Procs : stdinFd[q]}

Start(p) ==
  /\ pc = "idle" /\ valid[p] /\ status[p] = "NOT_STARTED"
  /\ os' = [os EXCEPT ![p] = "running"]
  /\ readsStdin' = [readsStdin EXCEPT ![p] = p \in Feeds]
  /\ holders' = [q \in Procs |-> holders[q] \cup (IF q \in InheritedBy(p) THEN {p} ELSE {})]
  /\ pid' = [pid EXCEPT ![p] = TRUE]
  /\ stdinFd' = [stdinFd EXCEPT ![p] = p \in Feeds]
  /\ readFd' = [readFd EXCEPT ![p] = p \in Captures]
  /\ status' = [status EXCEPT ![p] = "RUNNING"]
  /\ background' = [background EXCEPT ![p] = TRUE]
  /\ Returns("start", {p}, "SUCCESS")
  /\ UNCHANGED <<inPipe, sawEof, outPipe, produced, kernelVars>>
  /\ UNCHANGED <<valid, offset, sunk, lastErrno, callVars>>

(* prepare or spawn fails: the pipes made so far are closed again.          *)
StartFails(p) ==
  /\ pc = "idle" /\ valid[p] /\ status[p] = "NOT_STARTED"
  /\ status' = [status EXCEPT ![p] = "FAILED_TO_START"]
  /\ Returns("start", {p}, "START_FAILED")
  /\ UNCHANGED <<childVars, kernelVars, valid, background, pid, pipeEnds, callVars>>

SendStdin(p) ==
  /\ Callable(p)
  /\ \E bad \in WriteFailures(p) :
       /\ PumpStdin(p, bad)
       /\ lastErrno' = [lastErrno EXCEPT ![p] = @ \/ bad]
       /\ Returns("send_stdin", {p}, IF bad THEN "IO_FAILED" ELSE "SUCCESS")
  /\ UNCHANGED <<os, readsStdin, sawEof, holders, outPipe, produced, kernelVars>>
  /\ UNCHANGED <<valid, status, background, pid, readFd, sunk, callVars>>

ReceiveOutput(p) ==
  /\ Callable(p)
  /\ \E bad \in ReadFailures(p) :
       /\ PumpOutput(p, bad)
       /\ lastErrno' = [lastErrno EXCEPT ![p] = @ \/ bad]
       /\ Returns("receive_output", {p}, IF bad THEN "IO_FAILED" ELSE "SUCCESS")
  /\ UNCHANGED <<os, inPipe, readsStdin, sawEof, holders, produced, kernelVars>>
  /\ UNCHANGED <<valid, status, background, pid, stdinFd, offset, callVars>>

(* A zombie takes the signal and nothing comes of it.                       *)
Kill(p) ==
  /\ Callable(p)
  /\ killed' = IF status[p] \notin Terminal /\ pid[p] /\ os[p] = "running"
               THEN killed \cup {p} ELSE killed
  /\ Returns("kill", {p}, "SUCCESS")
  /\ UNCHANGED <<childVars, selfPipe, expired, interrupted, handleVars, callVars>>

-----------------------------------------------------------------------------
(* The end of a call that blocks: its locals are gone.                      *)
CallEnds ==
  /\ pc' = "idle" /\ i' = 1 /\ subject' = {} /\ timeout' = "zero" /\ expired' = FALSE
  /\ slots' = {} /\ waiting' = {} /\ ioFailed' = {} /\ ready' = {}

(* poll: waitpid(), blocking or again and again until the timeout.          *)
PollTerminal(p) ==
  /\ Callable(p) /\ status[p] \in Terminal
  /\ Returns("poll", {p}, "SUCCESS")
  /\ UNCHANGED <<childVars, kernelVars, handleVars, callVars>>

PollBegin(p, t) ==
  /\ Callable(p) /\ status[p] \notin Terminal
  /\ pc' = "polling" /\ subject' = {p} /\ timeout' = t
  /\ CallUnderWay
  /\ UNCHANGED <<childVars, kernelVars, handleVars, i, slots, waiting, ioFailed, ready>>

PollCollects(p) ==
  /\ pc = "polling" /\ p \in subject /\ os[p] \in Zombie
  /\ Collect(p)
  /\ CallEnds
  /\ Returns("poll", {p}, "SUCCESS")
  /\ UNCHANGED <<inPipe, readsStdin, sawEof, holders, outPipe, produced, killed, selfPipe, interrupted>>
  /\ UNCHANGED <<valid, background, pipeEnds>>

PollStillRunning(p) ==
  /\ pc = "polling" /\ p \in subject /\ os[p] = "running"
  /\ timeout = "zero" \/ (timeout = "positive" /\ expired)
  /\ CallEnds
  /\ Returns("poll", {p}, "SUCCESS")
  /\ UNCHANGED <<childVars, killed, selfPipe, interrupted, handleVars>>

(* waitpid() knows no such child: the handle keeps its status and its pid.  *)
PollFails(p) ==
  /\ pc = "polling" /\ p \in subject /\ os[p] = "taken"
  /\ CallEnds
  /\ Returns("poll", {p}, "WAIT_FAILED")
  /\ UNCHANGED <<childVars, killed, selfPipe, interrupted, handleVars>>

(* cleanup closes the pipes and gives the handle up.                        *)
GivenUp(p) ==
  /\ stdinFd' = [stdinFd EXCEPT ![p] = FALSE]
  /\ readFd' = [readFd EXCEPT ![p] = FALSE]
  /\ pid' = [pid EXCEPT ![p] = FALSE]
  /\ background' = [background EXCEPT ![p] = FALSE]
  /\ valid' = [valid EXCEPT ![p] = FALSE]

OwnsChild(p) == background[p] /\ pid[p] /\ status[p] = "RUNNING"

(* Mutant: the child is killed and not waited for.                          *)
CleanupWithoutWait(p) ==
  /\ pc = "idle" /\ valid[p]
  /\ killed' = IF OwnsChild(p) /\ os[p] = "running" THEN killed \cup {p} ELSE killed
  /\ GivenUp(p)
  /\ Returns("cleanup", {p}, "SUCCESS")
  /\ UNCHANGED <<childVars, selfPipe, expired, interrupted, status, offset, sunk, lastErrno, callVars>>

Cleanup(p) ==
  /\ pc = "idle" /\ valid[p] /\ ~OwnsChild(p)
  /\ GivenUp(p)
  /\ Returns("cleanup", {p}, "SUCCESS")
  /\ UNCHANGED <<childVars, kernelVars, status, offset, sunk, lastErrno, callVars>>

CleanupKills(p) ==
  /\ pc = "idle" /\ valid[p] /\ OwnsChild(p)
  /\ killed' = IF os[p] = "running" THEN killed \cup {p} ELSE killed
  /\ pc' = "collect" /\ subject' = {p} /\ timeout' = "infinite"
  /\ CallUnderWay
  /\ UNCHANGED <<childVars, selfPipe, expired, interrupted, handleVars>>
  /\ UNCHANGED <<i, slots, waiting, ioFailed, ready>>

(* The one waitpid() returns, and what it returns is not looked at: with    *)
(* the child, with no such child, or because of a signal before the child   *)
(* is dead.  The status of the handle stays RUNNING.                        *)
CleanupEnds(p) ==
  /\ pc = "collect" /\ p \in subject
  /\ GivenUp(p)
  /\ CallEnds
  /\ Returns("cleanup", {p}, "SUCCESS")
  /\ UNCHANGED <<inPipe, readsStdin, sawEof, holders, outPipe, produced, killed, selfPipe>>
  /\ UNCHANGED <<status, offset, sunk, lastErrno>>

CleanupCollects(p) ==
  /\ os[p] \in Zombie
  /\ CleanupEnds(p)
  /\ os' = [os EXCEPT ![p] = "reaped"]
  /\ UNCHANGED interrupted

CleanupFindsNone(p) ==
  /\ os[p] = "taken"
  /\ CleanupEnds(p)
  /\ UNCHANGED <<os, interrupted>>

CleanupInterrupted(p) ==
  /\ Interrupts /\ os[p] = "running"
  /\ CleanupEnds(p)
  /\ interrupted' = interrupted \cup {p}
  /\ UNCHANGED os

-----------------------------------------------------------------------------
(* wait.  The handles of `subject` that are valid, started and not failed   *)
(* have a slot; those still running are waited for.                         *)

Live(a) == {p \in a : valid[p] /\ background[p] /\ status[p] = "RUNNING"}
Done(a) == {p \in a : valid[p] /\ background[p] /\ status[p] \in Terminal}

WaitNothing(a) ==
  /\ pc = "idle" /\ Live(a) \cup Done(a) = {}
  /\ Returns("wait", a, "SUCCESS")
  /\ UNCHANGED <<childVars, kernelVars, handleVars, callVars>>

WaitBegin(a, t) ==
  /\ pc = "idle" /\ Live(a) \cup Done(a) # {}
  /\ subject' = a /\ timeout' = t
  /\ slots' = Live(a) \cup Done(a) /\ waiting' = Live(a)
  /\ ioFailed' = {}
  /\ pc' = "prereap" /\ i' = 1
  /\ CallUnderWay
  /\ UNCHANGED <<childVars, kernelVars, handleVars, ready>>

(* The slots, the self-pipe or the poll() arrays cannot be had, or poll()   *)
(* itself fails.                                                            *)
WaitFails ==
  /\ \/ pc = "prereap" /\ i = 1 /\ Returns("wait", subject, "WAIT_FAILED")
     \/ pc = "prereap" /\ i = 1 /\ Returns("wait", subject, "ALLOCATION_FAILED")
     \/ pc = "predrain" /\ i = N + 1 /\ Returns("wait", subject, "ALLOCATION_FAILED")
     \/ pc = "block" /\ waiting # {} /\ Returns("wait", subject, "WAIT_FAILED")
  /\ CallEnds
  /\ UNCHANGED <<childVars, killed, selfPipe, interrupted, handleVars>>

PreReap ==
  /\ pc = "prereap" /\ i <= N
  /\ IF i \in waiting /\ os[i] \in Zombie
     THEN Collect(i) /\ waiting' = waiting \ {i}
     ELSE UNCHANGED <<os, status, pid, waiting>>
  /\ i' = i + 1
  /\ UNCHANGED <<inPipe, readsStdin, sawEof, holders, outPipe, produced, kernelVars>>
  /\ UNCHANGED <<valid, background, pipeEnds, pc, subject, timeout, slots, ioFailed, ready, last>>

PreDrain ==
  /\ pc = "predrain" /\ i <= N
  /\ IF i \in slots
     THEN \E bad \in ReadFailures(i) :
            /\ PumpOutput(i, bad)
            /\ lastErrno' = [lastErrno EXCEPT ![i] = @ \/ bad]
            /\ ioFailed' = IF bad THEN ioFailed \cup {i} ELSE ioFailed
            /\ waiting' = IF bad THEN waiting \ {i} ELSE waiting
     ELSE UNCHANGED <<outPipe, sunk, readFd, lastErrno, ioFailed, waiting>>
  /\ i' = i + 1
  /\ UNCHANGED <<os, inPipe, readsStdin, sawEof, holders, produced, kernelVars>>
  /\ UNCHANGED <<valid, status, background, pid, stdinFd, offset>>
  /\ UNCHANGED <<pc, subject, timeout, slots, ready, last>>

StdinReady == {p \in waiting : stdinFd[p] /\ (inPipe[p] < PipeCap \/ ~readsStdin[p])}
OutputReady == {p \in waiting : readFd[p] /\ (outPipe[p] > 0 \/ os[p] # "running")}

Block ==
  /\ pc = "block" /\ waiting # {}
  /\ \/ StdinReady # {} \/ OutputReady # {} \/ selfPipe
     \/ timeout = "zero" \/ (timeout = "positive" /\ expired)
  /\ ready' = StdinReady
  /\ selfPipe' = FALSE
  /\ pc' = "pump" /\ i' = 1
  /\ UNCHANGED <<childVars, killed, expired, interrupted, handleVars>>
  /\ UNCHANGED <<subject, timeout, slots, waiting, ioFailed, last>>

(* Mutant: a failed output leaves the wait without being remembered.        *)
PumpForgetsFailure ==
  /\ pc = "pump" /\ i <= N
  /\ IF i \in waiting
     THEN \E badRead \in ReadFailures(i) :
            /\ PumpOutput(i, badRead)
            /\ lastErrno' = [lastErrno EXCEPT ![i] = @ \/ badRead]
            /\ waiting' = IF badRead THEN waiting \ {i} ELSE waiting
     ELSE UNCHANGED <<outPipe, sunk, readFd, lastErrno, waiting>>
  /\ i' = i + 1
  /\ UNCHANGED <<os, inPipe, readsStdin, sawEof, holders, produced, kernelVars>>
  /\ UNCHANGED <<valid, status, background, pid, stdinFd, offset, pc, subject, timeout>>
  /\ UNCHANGED <<slots, ioFailed, ready, last>>

(* Errors of stdin reach last_errno only; one of an output drops the handle *)
(* from the wait.                                                           *)
Pump ==
  /\ pc = "pump" /\ i <= N
  /\ IF i \in waiting
     THEN \E badRead \in ReadFailures(i), badWrite \in WriteFailures(i) :
            /\ IF i \in ready THEN PumpStdin(i, badWrite)
               ELSE ~badWrite /\ UNCHANGED <<inPipe, offset, stdinFd>>
            /\ PumpOutput(i, badRead)
            /\ lastErrno' = [lastErrno EXCEPT ![i] = @ \/ badRead \/ badWrite]
            /\ ioFailed' = IF badRead THEN ioFailed \cup {i} ELSE ioFailed
            /\ waiting' = IF badRead THEN waiting \ {i} ELSE waiting
     ELSE UNCHANGED <<inPipe, offset, stdinFd, outPipe, sunk, readFd, lastErrno, ioFailed, waiting>>
  /\ i' = i + 1
  /\ UNCHANGED <<os, readsStdin, sawEof, holders, produced, kernelVars>>
  /\ UNCHANGED <<valid, status, background, pid, pc, subject, timeout, slots, ready, last>>

(* A last drain follows the reaping; its error reaches last_errno only.     *)
Reap ==
  /\ pc = "reap" /\ i <= N
  /\ IF i \in waiting /\ os[i] \in Zombie
     THEN /\ Collect(i)
          /\ waiting' = waiting \ {i}
          /\ \E bad \in ReadFailures(i) :
               PumpOutput(i, bad) /\ lastErrno' = [lastErrno EXCEPT ![i] = @ \/ bad]
     ELSE UNCHANGED <<os, status, pid, waiting, outPipe, sunk, readFd, lastErrno>>
  /\ i' = i + 1
  /\ UNCHANGED <<inPipe, readsStdin, sawEof, holders, produced, kernelVars>>
  /\ UNCHANGED <<valid, background, stdinFd, offset>>
  /\ UNCHANGED <<pc, subject, timeout, slots, ioFailed, ready, last>>

Following == [prereap |-> "predrain", predrain |-> "block", pump |-> "reap", reap |-> "check"]

PassDone ==
  /\ pc \in DOMAIN Following /\ i = N + 1
  /\ pc' = Following[pc] /\ i' = 1 /\ ready' = {}
  /\ UNCHANGED <<childVars, kernelVars, handleVars>>
  /\ UNCHANGED <<subject, timeout, slots, waiting, ioFailed, last>>

(* Mutant: a timeout is reported whenever it has passed.                    *)
WaitDoneLate ==
  /\ pc \in {"block", "check"} /\ waiting = {}
  /\ Returns("wait", subject, IF expired THEN "TIMEOUT_REACHED"
                              ELSE IF ioFailed # {} THEN "IO_FAILED" ELSE "SUCCESS")
  /\ CallEnds
  /\ UNCHANGED <<childVars, killed, selfPipe, interrupted, handleVars>>

WaitDone ==
  /\ pc \in {"block", "check"} /\ waiting = {}
  /\ Returns("wait", subject, IF ioFailed # {} THEN "IO_FAILED" ELSE "SUCCESS")
  /\ CallEnds
  /\ UNCHANGED <<childVars, killed, selfPipe, interrupted, handleVars>>

WaitTimesOut ==
  /\ pc = "check" /\ waiting # {}
  /\ timeout = "zero" \/ (timeout = "positive" /\ expired)
  /\ Returns("wait", subject, "TIMEOUT_REACHED")
  /\ CallEnds
  /\ UNCHANGED <<childVars, killed, selfPipe, interrupted, handleVars>>

WaitGoesOn ==
  /\ pc = "check" /\ waiting # {}
  /\ timeout # "zero" /\ ~(timeout = "positive" /\ expired)
  /\ pc' = "block"
  /\ UNCHANGED <<childVars, kernelVars, handleVars>>
  /\ UNCHANGED <<i, subject, timeout, slots, waiting, ioFailed, ready, last>>

-----------------------------------------------------------------------------
(* The client may make any call whenever none is under way, and need not.   *)
NewCall ==
  \/ \E p \in Procs :
       \/ Start(p) \/ StartFails(p)
       \/ "send_stdin" \in Calls /\ SendStdin(p)
       \/ "receive_output" \in Calls /\ ReceiveOutput(p)
       \/ "kill" \in Calls /\ Kill(p)
       \/ "poll" \in Calls /\ PollTerminal(p)
       \/ "poll" \in Calls /\ \E t \in Timeouts : PollBegin(p, t)
       \/ "cleanup" \in Calls /\ (Cleanup(p) \/ CleanupKills(p))
  \/ \E a \in Arrays :
       "wait" \in Calls /\ (WaitNothing(a) \/ \E t \in Timeouts : WaitBegin(a, t))

CallStep ==
  \/ \E p \in Procs :
       \/ PollCollects(p) \/ PollStillRunning(p) \/ PollFails(p)
       \/ CleanupCollects(p) \/ CleanupFindsNone(p)
  \/ PreReap \/ PreDrain \/ Block \/ Pump \/ Reap \/ PassDone
  \/ WaitDone \/ WaitTimesOut \/ WaitGoesOn

ChildStep(p) ==
  ChildReads(p) \/ ChildSeesEof(p) \/ ChildWrites(p) \/ ChildCrashes(p) \/ ChildKilled(p)

Next ==
  \/ NewCall \/ CallStep \/ WaitFails \/ TimePasses
  \/ \E p \in Procs : ChildStep(p) \/ HostCollects(p) \/ CleanupInterrupted(p)

(* The thread in a call runs, time passes, and the children read, write and *)
(* finish as long as they are not held up.                                  *)
Fairness ==
  /\ WF_vars(CallStep) /\ WF_vars(TimePasses)
  /\ \A p \in Procs :
       WF_vars(ChildReads(p) \/ ChildSeesEof(p) \/ ChildWrites(p) \/ ChildFinishes(p) \/ ChildKilled(p))

Spec == Init /\ [][Next]_vars /\ Fairness

-----------------------------------------------------------------------------
(* A handle names the pid of its own child, alive or zombie, as long as it  *)
(* is the child's: kill and waitpid reach another process only where the    *)
(* program around has collected the child first, and then the pid stays.    *)
(* That is the only failure of a poll, and a child that the handle has      *)
(* collected is always reported.                                            *)
PidNamesOwnChild ==
  /\ \A p \in Procs :
       /\ pid[p] => os[p] \in {"running", "taken"} \cup Zombie
       /\ valid[p] /\ os[p] \in {"running", "taken"} \cup Zombie => pid[p]
       /\ valid[p] /\ os[p] = "reaped" => status[p] \in Terminal
  /\ last.op = "poll" /\ last.result = "WAIT_FAILED" =>
       \A p \in last.on : os[p] = "taken" /\ pid[p] /\ status[p] = "RUNNING"

(* Whatever happened to a handle before, nothing of it is left after        *)
(* cleanup: no open pipe, no child and no zombie, but for the one whose     *)
(* wait a signal cut short: it is killed, and nobody collects it.           *)
CleanupLeavesNothing ==
  \A p \in Procs : ~valid[p] =>
    /\ ~stdinFd[p] /\ ~readFd[p]
    /\ \/ os[p] \in {"none", "reaped", "taken"}
       \/ p \in interrupted /\ (p \in killed \/ os[p] \in Zombie)

(* Once a handle is reported terminal, one receive_output, or a wait that   *)
(* ends, leaves every chunk of the child in the sink.                       *)
DrainAfterExitComplete ==
  \A p \in last.on :
    /\ last.op = "receive_output" \/ (last.op = "wait" /\ last.result \in {"SUCCESS", "TIMEOUT_REACHED"})
    /\ valid[p] /\ status[p] \in Terminal /\ ~lastErrno[p]
    => sunk[p] = produced[p]

(* os.h, jsl_subprocess_background_wait, "On return": SUCCESS means every   *)
(* started handle of the array is terminal, TIMEOUT_REACHED that one was    *)
(* still running, IO_FAILED that one has last_errno set.                    *)
WaitContract ==
  last.op = "wait" =>
    LET started == {p \in last.on : valid[p] /\ background[p]} IN
      /\ last.result = "SUCCESS" => \A p \in started : status[p] \in Terminal
      /\ last.result = "TIMEOUT_REACHED" => \E p \in started : status[p] = "RUNNING"
      /\ last.result = "IO_FAILED" => \E p \in started : lastErrno[p]

(* Every call but a poll without timeout returns, whatever earlier calls    *)
(* did to the pipes and to the self-pipe's byte.  That poll pumps nothing,  *)
(* so its child may wait for the caller; a wait without timeout never sees  *)
(* the end of a child that the program around has collected.                *)
Responsive ==
  \/ pc = "idle" \/ (pc = "polling" /\ timeout = "infinite")
  \/ timeout = "infinite" /\ \E p \in waiting : os[p] = "taken"
CallsReturn == []<>Responsive
=============================================================================
