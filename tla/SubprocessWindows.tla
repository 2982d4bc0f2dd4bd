-------------------------- MODULE SubprocessWindows --------------------------
(***************************************************************************)
(* The subprocess API of os.c on Windows: run_blocking_options and the     *)
(* background calls, by overlapped reads and writes.  An operation that is *)
(* pending belongs to the kernel, which completes it in a step of its own, *)
(* before or after the process that held the other end is seen to be gone. *)
(*                                                                         *)
(* A call is a sequence of tasks, `todo`; a task done gives way to the     *)
(* tasks it asks for.  Pipes and scratch buffers hold chunks.  A captured  *)
(* child has one captured stream, as in SubprocessBackground.              *)
(***************************************************************************)
EXTENDS Naturals, FiniteSets, Sequences

CONSTANTS
  N,             \* the handles are 1 .. N
  InputLen,      \* chunks of stdin_memory
  OutputLen,     \* chunks a captured child writes
  PipeCap,       \* chunks a kernel pipe holds
  BufferInitial, BufferMax,   \* JSL__SUBPROCESS_WIN_BUFFER_INITIAL and _MAX
  GroupSize,     \* group_size
  Clients        \* what the client does: see ClientTypes

Procs == 1 .. N

WindowsArguments ==
  /\ {N, InputLen, OutputLen, PipeCap, BufferInitial, BufferMax, GroupSize} \subseteq Nat \ {0}
  /\ BufferInitial <= BufferMax
  /\ Clients \subseteq
       [calls : SUBSET {"send_stdin", "receive_output", "poll", "kill", "wait", "run", "cleanup"},
        feeds : SUBSET Procs, captures : SUBSET Procs,   \* stdin from memory, output to a sink
        arrays : SUBSET (SUBSET Procs),                  \* the procs arguments of wait
        timeouts : SUBSET {"infinite", "zero", "positive"},
        parallel : Procs,                                \* parallelism_count, clamped
        failing : BOOLEAN]                               \* the system may refuse what it is asked

VARIABLES
  client,
  (* the children and the kernel *)
  os,           \* "none", "running" or "gone"
  terminated,   \* children for which TerminateProcess succeeded
  inPipe, received, sawEof, outPipe, produced,
  writeOp,      \* the overlapped write: its state, its length, what has not moved yet
  readOp,       \* the overlapped read: its state, its room, the chunks it has
  expired,      \* the timeout of the call has passed
  (* the handles *)
  valid, status, background,
  processOpen, stdinOpen, readOpen,   \* the HANDLE is neither NULL nor INVALID
  writePending, readPending,          \* stdin_write_pending, stdout_read_pending
  offset, sunk, lastErrno,
  inCap, outCap,                      \* capacity of the scratch buffers, 0 for NULL
  (* the call *)
  todo,         \* tasks: a name and a handle
  pumped,       \* what the last pump returned
  timeout, slots, waiting, ioFailed, group,
  next, spawnFailed, timedOut, waitFailed,
  last

childVars == <<os, terminated, inPipe, received, sawEof, outPipe, produced>>
pipeVars == <<writeOp, readOp>>
startVars == <<valid, status, background, processOpen>>
stdinVars == <<stdinOpen, writePending, offset, inCap>>
outputVars == <<readOpen, readPending, sunk, outCap>>
handleVars == <<startVars, stdinVars, outputVars, lastErrno>>
waitVars == <<slots, waiting, ioFailed, group>>
runVars == <<next, spawnFailed, timedOut, waitFailed>>
callVars == <<pumped, timeout, expired, waitVars, runVars>>
vars == <<client, childVars, pipeVars, handleVars, todo, callVars, last>>

Terminal == {"EXITED", "KILLED_BY_SIGNAL"}
InFlight == {"flight", "cancelled"}
OpStates == InFlight \cup {"none", "data", "broken", "failed", "aborted"}
NoWrite == [st |-> "none", len |-> 0, left |-> 0]
NoRead == [st |-> "none", size |-> 0, got |-> 0]

TypeOK ==
  /\ client \in Clients
  /\ os \in [Procs -> {"none", "running", "gone"}] /\ terminated \subseteq Procs
  /\ inPipe \in [Procs -> 0 .. PipeCap] /\ outPipe \in [Procs -> 0 .. PipeCap]
  /\ received \in [Procs -> 0 .. InputLen] /\ produced \in [Procs -> 0 .. OutputLen]
  /\ offset \in [Procs -> 0 .. InputLen] /\ sunk \in [Procs -> 0 .. OutputLen]
  /\ inCap \in [Procs -> 0 .. BufferMax] /\ outCap \in [Procs -> 0 .. BufferMax]
  /\ writeOp \in [Procs -> [st : OpStates, len : 0 .. BufferMax, left : 0 .. BufferMax]]
  /\ readOp \in [Procs -> [st : OpStates, size : 0 .. BufferMax, got : 0 .. BufferMax]]
  /\ status \in [Procs -> {"NOT_STARTED", "RUNNING", "FAILED_TO_START"} \cup Terminal]
  /\ {sawEof, valid, background, processOpen, stdinOpen, readOpen, writePending,
      readPending, lastErrno} \subseteq [Procs -> BOOLEAN]
  /\ {expired, spawnFailed, timedOut, waitFailed} \subseteq BOOLEAN
  /\ {slots, waiting, ioFailed} \subseteq SUBSET Procs
  /\ pumped \in {"SUCCESS", "IO_FAILED"} /\ timeout \in client.timeouts \cup {"none"}
  /\ group \in 0 .. N /\ next \in 1 .. N + 1

Everywhere(value) == [p \in Procs |-> value]
NoCall == [op |-> "none", on |-> {}, result |-> "none"]

Init ==
  /\ client \in Clients
  /\ os = Everywhere("none") /\ terminated = {}
  /\ inPipe = Everywhere(0) /\ outPipe = Everywhere(0)
  /\ received = Everywhere(0) /\ produced = Everywhere(0) /\ sawEof = Everywhere(FALSE)
  /\ writeOp = Everywhere(NoWrite) /\ readOp = Everywhere(NoRead)
  /\ valid = Everywhere(TRUE) /\ status = Everywhere("NOT_STARTED")
  /\ background = Everywhere(FALSE) /\ processOpen = Everywhere(FALSE)
  /\ stdinOpen = Everywhere(FALSE) /\ readOpen = Everywhere(FALSE)
  /\ writePending = Everywhere(FALSE) /\ readPending = Everywhere(FALSE)
  /\ offset = Everywhere(0) /\ sunk = Everywhere(0) /\ lastErrno = Everywhere(FALSE)
  /\ inCap = Everywhere(0) /\ outCap = Everywhere(0)
  /\ todo = <<>> /\ pumped = "SUCCESS" /\ timeout = "none" /\ expired = FALSE
  /\ slots = {} /\ waiting = {} /\ ioFailed = {} /\ group = 0
  /\ next = 1 /\ spawnFailed = FALSE /\ timedOut = FALSE /\ waitFailed = FALSE
  /\ last = NoCall

-----------------------------------------------------------------------------
(* The children and the kernel.                                            *)

Least(a, b) == IF a < b THEN a ELSE b
LibraryStands == UNCHANGED <<client, handleVars, todo, callVars, last>>

ChildReads(p) ==
  /\ os[p] = "running" /\ inPipe[p] > 0
  /\ inPipe' = [inPipe EXCEPT ![p] = @ - 1]
  /\ received' = [received EXCEPT ![p] = @ + 1]
  /\ UNCHANGED <<os, terminated, sawEof, outPipe, produced, pipeVars>> /\ LibraryStands

ChildSeesEof(p) ==
  /\ os[p] = "running" /\ p \in client.feeds /\ ~sawEof[p]
  /\ inPipe[p] = 0 /\ ~stdinOpen[p] /\ writeOp[p].st \notin InFlight
  /\ sawEof' = [sawEof EXCEPT ![p] = TRUE]
  /\ UNCHANGED <<os, terminated, inPipe, received, outPipe, produced, pipeVars>> /\ LibraryStands

ChildWrites(p) ==
  /\ os[p] = "running" /\ readOpen[p] /\ produced[p] < OutputLen /\ outPipe[p] < PipeCap
  /\ outPipe' = [outPipe EXCEPT ![p] = @ + 1]
  /\ produced' = [produced EXCEPT ![p] = @ + 1]
  /\ UNCHANGED <<os, terminated, inPipe, received, sawEof, pipeVars>> /\ LibraryStands

(* The ends of its pipes are closed with a process; what is pending on the  *)
(* other ends completes later.                                              *)
Dies(p) ==
  /\ os[p] = "running"
  /\ os' = [os EXCEPT ![p] = "gone"]
  /\ inPipe' = [inPipe EXCEPT ![p] = 0]
  /\ sawEof' = [sawEof EXCEPT ![p] = FALSE]
  /\ UNCHANGED <<terminated, received, outPipe, produced, pipeVars>> /\ LibraryStands

Finished(p) ==
  /\ p \in client.feeds => sawEof[p]
  /\ readOpen[p] => produced[p] = OutputLen

ChildFinishes(p) == Finished(p) /\ Dies(p)
ChildTerminated(p) == p \in terminated /\ Dies(p)

(* A pending write moves chunk by chunk as the pipe has room.               *)
WriteMoves(p) ==
  /\ writeOp[p].st \in InFlight /\ os[p] = "running" /\ inPipe[p] < PipeCap
  /\ inPipe' = [inPipe EXCEPT ![p] = @ + 1]
  /\ writeOp' = [writeOp EXCEPT ![p].left = @ - 1,
                                ![p].st = IF writeOp[p].left = 1 THEN "data" ELSE @]
  /\ UNCHANGED <<os, terminated, received, sawEof, outPipe, produced, readOp>> /\ LibraryStands

WriteEnds(p, how) ==
  /\ writeOp[p].st \in InFlight
  /\ \/ how = "broken" /\ os[p] = "gone"
     \/ how = "aborted" /\ writeOp[p].st = "cancelled"
     \/ how = "failed" /\ client.failing
  /\ writeOp' = [writeOp EXCEPT ![p].st = how]
  /\ UNCHANGED <<childVars, readOp>> /\ LibraryStands

ReadTakes(p) ==
  /\ readOp[p].st \in InFlight /\ outPipe[p] > 0
  /\ LET got == Least(outPipe[p], readOp[p].size) IN
       /\ readOp' = [readOp EXCEPT ![p].st = "data", ![p].got = got]
       /\ outPipe' = [outPipe EXCEPT ![p] = @ - got]
  /\ UNCHANGED <<os, terminated, inPipe, received, sawEof, produced, writeOp>> /\ LibraryStands

ReadEnds(p, how) ==
  /\ readOp[p].st \in InFlight
  /\ \/ how = "broken" /\ os[p] = "gone" /\ outPipe[p] = 0
     \/ how = "aborted" /\ readOp[p].st = "cancelled"
     \/ how = "failed" /\ client.failing
  /\ readOp' = [readOp EXCEPT ![p].st = how]
  /\ UNCHANGED <<childVars, writeOp>> /\ LibraryStands

Completes(p) ==
  \/ WriteMoves(p) \/ ReadTakes(p)
  \/ \E how \in {"broken", "aborted"} : WriteEnds(p, how) \/ ReadEnds(p, how)

TimePasses ==
  /\ todo # <<>> /\ timeout = "positive" /\ ~expired
  /\ expired' = TRUE
  /\ UNCHANGED <<client, childVars, pipeVars, handleVars, todo, pumped, timeout>>
  /\ UNCHANGED <<waitVars, runVars, last>>

-----------------------------------------------------------------------------
(* Tasks.                                                                  *)

At(name, p) == todo # <<>> /\ Head(todo) = <<name, p>>
Then(tasks) == todo' = tasks \o Tail(todo)
Refusals == IF client.failing THEN BOOLEAN ELSE {FALSE}

(* jsl__subprocess_win_buffer_ensure, when there is memory.                 *)
Ensured(capacity, grow) ==
  IF capacity = 0 THEN BufferInitial
  ELSE IF grow THEN Least(2 * capacity, BufferMax) ELSE capacity

(* The stdin pump ends: the pipe may be closed with it, an error goes to    *)
(* last_errno.                                                              *)
StdinPumped(p, closes, fails) ==
  /\ Then(<<>>)
  /\ stdinOpen' = [stdinOpen EXCEPT ![p] = @ /\ ~closes]
  /\ lastErrno' = [lastErrno EXCEPT ![p] = @ \/ fails]
  /\ pumped' = IF fails THEN "IO_FAILED" ELSE "SUCCESS"

PumpStdinStands ==
  /\ UNCHANGED <<client, os, terminated, received, sawEof, outPipe, produced, readOp>>
  /\ UNCHANGED <<startVars, outputVars, timeout, expired, waitVars, runVars, last>>

(* jsl__subprocess_win_pump_stdin_once, state B.                            *)
PumpStdin(p) ==
  /\ At("pumpStdin", p)
  /\ LET done == stdinOpen[p] /\ writePending[p] /\ writeOp[p].st \notin InFlight IN
       /\ writePending' = [writePending EXCEPT ![p] = @ /\ ~done]
       /\ writeOp' = IF done THEN [writeOp EXCEPT ![p] = NoWrite] ELSE writeOp
       /\ offset' = IF done /\ writeOp[p].st = "data"
                    THEN [offset EXCEPT ![p] = @ + writeOp[p].len] ELSE offset
       /\ IF stdinOpen[p] /\ (~writePending[p] \/ writeOp[p].st = "data")
          THEN Then(<<<<"write", p>>>>) /\ UNCHANGED <<stdinOpen, lastErrno, pumped>>
          ELSE StdinPumped(p, done, done /\ writeOp[p].st # "broken")
  /\ UNCHANGED <<inPipe, inCap>> /\ PumpStdinStands

(* State A: close, or write the next piece of the memory.  WriteFile may    *)
(* complete at once or leave the operation pending, fail or find the pipe   *)
(* broken.                                                                  *)
Write(p) ==
  /\ At("write", p)
  /\ LET remaining == InputLen - offset[p]
         room == Ensured(inCap[p], remaining > inCap[p])
         chunk == Least(remaining, room)
     IN  \/ /\ remaining = 0
            /\ StdinPumped(p, TRUE, FALSE)
            /\ UNCHANGED <<inPipe, writeOp, writePending, offset, inCap>>
         \/ /\ remaining > 0 /\ client.failing   \* no memory
            /\ StdinPumped(p, TRUE, TRUE)
            /\ UNCHANGED <<inPipe, writeOp, writePending, offset, inCap>>
         \/ /\ remaining > 0
            /\ inCap' = [inCap EXCEPT ![p] = room]
            /\ \/ /\ os[p] = "running" /\ inPipe[p] + chunk <= PipeCap
                  /\ inPipe' = [inPipe EXCEPT ![p] = @ + chunk]
                  /\ offset' = [offset EXCEPT ![p] = @ + chunk]
                  /\ Then(<<<<"write", p>>>>)
                  /\ UNCHANGED <<writeOp, writePending, stdinOpen, lastErrno, pumped>>
               \/ /\ writeOp' = [writeOp EXCEPT ![p] =
                                   [st |-> "flight", len |-> chunk, left |-> chunk]]
                  /\ writePending' = [writePending EXCEPT ![p] = TRUE]
                  /\ StdinPumped(p, FALSE, FALSE)
                  /\ UNCHANGED <<inPipe, offset>>
               \/ /\ os[p] = "gone" \/ client.failing
                  /\ \E fails \in Refusals : (os[p] = "gone" \/ fails) /\ StdinPumped(p, TRUE, fails)
                  /\ UNCHANGED <<inPipe, writeOp, writePending, offset>>
  /\ PumpStdinStands

OutputPumped(p, closes, fails) ==
  /\ Then(<<>>)
  /\ readOpen' = [readOpen EXCEPT ![p] = @ /\ ~closes]
  /\ lastErrno' = [lastErrno EXCEPT ![p] = @ \/ fails]
  /\ pumped' = IF fails THEN "IO_FAILED" ELSE "SUCCESS"

PumpOutputStands ==
  /\ UNCHANGED <<client, os, terminated, inPipe, received, sawEof, produced, writeOp>>
  /\ UNCHANGED <<startVars, stdinVars, timeout, expired, waitVars, runVars, last>>

(* jsl__subprocess_win_pump_output_stream: a read that has completed goes   *)
(* to the sink, and makes room for more if it filled the buffer.            *)
PumpOutput(p) ==
  /\ At("pumpOutput", p)
  /\ LET done == readOpen[p] /\ readPending[p] /\ readOp[p].st \notin InFlight
         got == IF done /\ readOp[p].st = "data" THEN readOp[p].got ELSE 0
     IN  /\ readPending' = [readPending EXCEPT ![p] = @ /\ ~done]
         /\ readOp' = IF done THEN [readOp EXCEPT ![p] = NoRead] ELSE readOp
         /\ sunk' = [sunk EXCEPT ![p] = @ + got]
         /\ IF readOpen[p] /\ (~readPending[p] \/ got > 0)
            THEN /\ Then(<<<<IF got > 0 /\ got = outCap[p] THEN "readMore" ELSE "read", p>>>>)
                 /\ UNCHANGED <<readOpen, lastErrno, pumped>>
            ELSE OutputPumped(p, done, done /\ readOp[p].st \notin {"broken", "data"})
  /\ UNCHANGED <<outPipe, outCap>> /\ PumpOutputStands

(* The next ReadFile completes at once, to be looked at in the next turn of *)
(* the loop, stays pending, fails, or finds the end.                        *)
Read(p) ==
  /\ At("read", p) \/ At("readMore", p)
  /\ LET room == Ensured(outCap[p], At("readMore", p))
         got == Least(outPipe[p], room)
         ended == os[p] = "gone" /\ outPipe[p] = 0
     IN  \/ /\ client.failing   \* no memory
            /\ OutputPumped(p, TRUE, TRUE)
            /\ UNCHANGED <<outPipe, readOp, readPending, outCap>>
         \/ /\ outCap' = [outCap EXCEPT ![p] = room]
            /\ \/ /\ got > 0
                  /\ readOp' = [readOp EXCEPT ![p] = [st |-> "data", size |-> room, got |-> got]]
                  /\ readPending' = [readPending EXCEPT ![p] = TRUE]
                  /\ outPipe' = [outPipe EXCEPT ![p] = @ - got]
                  /\ Then(<<<<"pumpOutput", p>>>>)
                  /\ UNCHANGED <<readOpen, lastErrno, pumped>>
               \/ /\ readOp' = [readOp EXCEPT ![p] = [st |-> "flight", size |-> room, got |-> 0]]
                  /\ readPending' = [readPending EXCEPT ![p] = TRUE]
                  /\ OutputPumped(p, FALSE, FALSE)
                  /\ UNCHANGED outPipe
               \/ /\ ended \/ client.failing
                  /\ \E fails \in Refusals : (ended \/ fails) /\ OutputPumped(p, TRUE, fails)
                  /\ UNCHANGED <<outPipe, readOp, readPending>>
  /\ UNCHANGED sunk /\ PumpOutputStands

TaskOnly ==
  UNCHANGED <<client, childVars, pipeVars, handleVars, callVars, last>>

(* jsl__subprocess_win_finalize_pending_reads: pump, wait for what the pump *)
(* left pending, and again until the stream is closed.                      *)
Finalize(p) ==
  /\ At("finalize", p)
  /\ IF readOpen[p]
     THEN Then(<<<<"pumpOutput", p>>, <<"settle", p>>>>) /\ UNCHANGED pumped
     ELSE Then(<<>>) /\ pumped' = "SUCCESS"
  /\ UNCHANGED <<client, childVars, pipeVars, handleVars, timeout, expired>>
  /\ UNCHANGED <<waitVars, runVars, last>>

Settle(p) ==
  /\ At("settle", p)
  /\ IF pumped = "IO_FAILED" \/ ~readOpen[p] THEN Then(<<>>)
     ELSE readOp[p].st \notin InFlight /\ Then(<<<<"finalize", p>>>>)
  /\ TaskOnly

-----------------------------------------------------------------------------
(* The background calls.                                                   *)

Callable(p) == todo = <<>> /\ valid[p] /\ background[p]
CallUnderWay == last' = NoCall
Returns(op, on, result) ==
  last' = [op |-> op, on |-> on, result |-> result]

LocalsGone ==
  /\ pumped' = "SUCCESS" /\ timeout' = "none" /\ expired' = FALSE
  /\ slots' = {} /\ waiting' = {} /\ ioFailed' = {} /\ group' = 0
  /\ next' = 1 /\ spawnFailed' = FALSE /\ timedOut' = FALSE /\ waitFailed' = FALSE

(* The process and the parent's ends of the pipes.                          *)
Launched(p) ==
  /\ os' = [os EXCEPT ![p] = "running"]
  /\ status' = [status EXCEPT ![p] = "RUNNING"]
  /\ processOpen' = [processOpen EXCEPT ![p] = TRUE]
  /\ stdinOpen' = [stdinOpen EXCEPT ![p] = p \in client.feeds]
  /\ readOpen' = [readOpen EXCEPT ![p] = p \in client.captures]

LaunchStands ==
  UNCHANGED <<client, terminated, inPipe, received, sawEof, outPipe, produced, pipeVars,
              valid, writePending, offset, inCap, readPending, sunk, outCap>>

Start(p) ==
  /\ todo = <<>> /\ valid[p] /\ status[p] = "NOT_STARTED"
  /\ Launched(p)
  /\ background' = [background EXCEPT ![p] = TRUE]
  /\ Returns("start", {p}, "SUCCESS")
  /\ LaunchStands /\ UNCHANGED <<lastErrno, todo, callVars>>

(* prepare or spawn fails, having closed what it opened.                    *)
StartFails(p) ==
  /\ todo = <<>> /\ valid[p] /\ status[p] = "NOT_STARTED" /\ client.failing
  /\ status' = [status EXCEPT ![p] = "FAILED_TO_START"]
  /\ Returns("start", {p}, "START_FAILED")
  /\ UNCHANGED <<client, childVars, pipeVars, valid, background, processOpen>>
  /\ UNCHANGED <<stdinVars, outputVars, lastErrno, todo, callVars>>

Pumping == [send_stdin |-> "pumpStdin", receive_output |-> "pumpOutput"]

PumpBegins(op, p) ==
  /\ Callable(p) /\ op \in client.calls
  /\ todo' = <<<<Pumping[op], p>>, <<op, p>>>>
  /\ CallUnderWay
  /\ UNCHANGED <<client, childVars, pipeVars, handleVars, callVars>>

PumpReturns(op, p) ==
  /\ At(op, p)
  /\ Returns(op, {p}, pumped)
  /\ Then(<<>>) /\ LocalsGone
  /\ UNCHANGED <<client, childVars, pipeVars, handleVars>>

(* jsl__subprocess_win_poll.                                                *)
PollTerminal(p) ==
  /\ Callable(p) /\ status[p] \in Terminal
  /\ Returns("poll", {p}, "SUCCESS")
  /\ UNCHANGED <<client, childVars, pipeVars, handleVars, todo, callVars>>

PollBegins(p, t) ==
  /\ Callable(p) /\ status[p] \notin Terminal
  /\ todo' = <<<<"poll", p>>>> /\ timeout' = t /\ expired' = (t = "zero")
  /\ CallUnderWay
  /\ UNCHANGED <<client, childVars, pipeVars, handleVars, pumped, waitVars, runVars>>

(* Mutant: the poll looks at the process only.                              *)
PollIgnoresDeadline(p) ==
  /\ At("poll", p) /\ os[p] = "gone"
  /\ status' = [status EXCEPT ![p] = "EXITED"]
  /\ Returns("poll", {p}, "SUCCESS")
  /\ Then(<<>>) /\ LocalsGone
  /\ UNCHANGED <<client, childVars, pipeVars, valid, background, processOpen>>
  /\ UNCHANGED <<stdinVars, outputVars, lastErrno>>

PollEnds(p) ==
  /\ At("poll", p)
  /\ \/ /\ os[p] = "gone"
        /\ status' = [status EXCEPT ![p] = "EXITED"]
        /\ Returns("poll", {p}, "SUCCESS")
        /\ UNCHANGED lastErrno
     \/ /\ os[p] = "running" /\ expired
        /\ Returns("poll", {p}, "SUCCESS")
        /\ UNCHANGED <<status, lastErrno>>
     \/ /\ client.failing
        /\ lastErrno' = [lastErrno EXCEPT ![p] = TRUE]
        /\ Returns("poll", {p}, "WAIT_FAILED")
        /\ UNCHANGED status
  /\ Then(<<>>) /\ LocalsGone
  /\ UNCHANGED <<client, childVars, pipeVars, valid, background, processOpen>>
  /\ UNCHANGED <<stdinVars, outputVars>>

(* TerminateProcess refuses a process that is gone, or for want of access.  *)
Kill(p) ==
  /\ Callable(p)
  /\ \E refused \in Refusals :
       LET asked == status[p] \notin Terminal /\ processOpen[p]
           done == os[p] = "running" /\ ~refused
       IN  /\ terminated' = IF asked /\ done THEN terminated \cup {p} ELSE terminated
           /\ Returns("kill", {p}, IF asked /\ ~done THEN "WAIT_FAILED" ELSE "SUCCESS")
  /\ UNCHANGED <<client, os, inPipe, received, sawEof, outPipe, produced, pipeVars>>
  /\ UNCHANGED <<handleVars, todo, callVars>>

(* CancelIoEx, of the operations the handle knows to be pending.            *)
WriteCancelled(p) ==
  IF writePending[p] /\ writeOp[p].st = "flight"
  THEN [writeOp[p] EXCEPT !.st = "cancelled"] ELSE writeOp[p]
ReadCancelled(p) ==
  IF readPending[p] /\ readOp[p].st = "flight"
  THEN [readOp[p] EXCEPT !.st = "cancelled"] ELSE readOp[p]

CleanupBegins(p) ==
  /\ todo = <<>> /\ valid[p]
  /\ IF background[p]
     THEN /\ writeOp' = [writeOp EXCEPT ![p] = WriteCancelled(p)]
          /\ readOp' = [readOp EXCEPT ![p] = ReadCancelled(p)]
     ELSE UNCHANGED pipeVars
  /\ todo' = <<<<"release", p>>>>
  /\ CallUnderWay
  /\ UNCHANGED <<client, childVars, handleVars, callVars>>

(* The handles are closed, the buffers freed.                               *)
Freed(p) ==
  /\ \E refused \in Refusals :
       terminated' = IF background[p] /\ status[p] = "RUNNING" /\ os[p] = "running" /\ ~refused
                     THEN terminated \cup {p} ELSE terminated
  /\ stdinOpen' = [stdinOpen EXCEPT ![p] = FALSE]
  /\ readOpen' = [readOpen EXCEPT ![p] = FALSE]
  /\ writePending' = [writePending EXCEPT ![p] = FALSE]
  /\ readPending' = [readPending EXCEPT ![p] = FALSE]
  /\ processOpen' = [processOpen EXCEPT ![p] = FALSE]
  /\ background' = [background EXCEPT ![p] = FALSE]
  /\ inCap' = [inCap EXCEPT ![p] = 0] /\ outCap' = [outCap EXCEPT ![p] = 0]
  /\ valid' = [valid EXCEPT ![p] = FALSE]
  /\ Returns("cleanup", {p}, "SUCCESS")
  /\ Then(<<>>) /\ LocalsGone
  /\ UNCHANGED <<client, os, inPipe, received, sawEof, outPipe, produced, pipeVars>>
  /\ UNCHANGED <<status, offset, sunk, lastErrno>>

(* Mutant: the cancelled operations are not waited for.                     *)
ReleaseAtOnce(p) == At("release", p) /\ Freed(p)

(* GetOverlappedResult waits for what was pending, if only just cancelled.  *)
Release(p) ==
  /\ At("release", p)
  /\ writePending[p] => writeOp[p].st \notin InFlight
  /\ readPending[p] => readOp[p].st \notin InFlight
  /\ Freed(p)

-----------------------------------------------------------------------------
(* jsl_subprocess_background_wait.                                         *)

Live(a) == {p \in a : valid[p] /\ background[p] /\ status[p] = "RUNNING"}
Done(a) == {p \in a : valid[p] /\ background[p] /\ status[p] \in Terminal}
WaitNothing(a) ==
  /\ todo = <<>> /\ Live(a) \cup Done(a) = {}
  /\ Returns("wait", {}, "SUCCESS")
  /\ UNCHANGED <<client, childVars, pipeVars, handleVars, todo, callVars>>

WaitBegins(a, t) ==
  /\ todo = <<>> /\ Live(a) \cup Done(a) # {}
  /\ slots' = Live(a) \cup Done(a) /\ waiting' = Live(a) /\ ioFailed' = {} /\ group' = 0
  /\ timeout' = t /\ expired' = (t = "zero")
  /\ todo' = <<<<"prime", 1>>>>
  /\ CallUnderWay
  /\ UNCHANGED <<client, childVars, pipeVars, handleVars, pumped, runVars>>

(* A pending read for each that runs, the rest of the output of the others. *)
Prime(p) ==
  /\ At("prime", p)
  /\ Then(IF p > N THEN <<<<"loop", 0>>>>
          ELSE (IF p \notin slots THEN <<>>
                ELSE <<<<"pumpStdin", p>>,
                       <<IF p \in waiting THEN "pumpOutput" ELSE "finalize", p>>,
                       <<"primed", p>>>>)
               \o <<<<"prime", p + 1>>>>)
  /\ TaskOnly

Groups(w) == IF w = {} THEN 1 ELSE (Cardinality(w) + GroupSize - 1) \div GroupSize

(* A pump or the finalizer has returned: `leaves` says who goes with it.    *)
Served(p, leaves) ==
  /\ ioFailed' = IF pumped = "IO_FAILED" THEN ioFailed \cup {p} ELSE ioFailed
  /\ waiting' = IF leaves THEN waiting \ {p} ELSE waiting
  /\ Then(<<>>)
  /\ UNCHANGED <<client, childVars, pipeVars, handleVars, pumped, timeout, expired>>
  /\ UNCHANGED <<slots, runVars, last>>

Primed(p) == At("primed", p) /\ Served(p, pumped = "IO_FAILED") /\ UNCHANGED group

(* After a turn of the loop the groups are counted again.                   *)
Drained(p) ==
  /\ At("drained", p) \/ At("reported", p)
  /\ Served(p, At("reported", p) \/ pumped = "IO_FAILED")
  /\ group' = IF Groups(waiting') # Groups(waiting) /\ group >= Groups(waiting') THEN 0 ELSE group

WriteDone(p) == stdinOpen[p] /\ writePending[p] /\ writeOp[p].st \notin InFlight
ReadDone(p) == readOpen[p] /\ readPending[p] /\ readOp[p].st \notin InFlight
Signalled(p) == os[p] = "gone" \/ WriteDone(p) \/ ReadDone(p)

InGroup == {p \in waiting :
              Cardinality({q \in waiting : q < p}) \div GroupSize = group}

(* The top of the loop: done, or late before anything is looked at.         *)
LoopEnds ==
  /\ At("loop", 0) /\ (waiting = {} \/ expired)
  /\ Returns("wait", slots, IF waiting # {} THEN "TIMEOUT_REACHED"
                            ELSE IF ioFailed # {} THEN "IO_FAILED" ELSE "SUCCESS")
  /\ Then(<<>>) /\ LocalsGone
  /\ UNCHANGED <<client, childVars, pipeVars, handleVars>>

(* Mutant: what an exited child left is drained by the plain pump.          *)
WakesWithoutFinalizer(p) ==
  /\ At("loop", 0) /\ ~expired /\ p \in InGroup /\ Signalled(p)
  /\ ~\E q \in InGroup : q < p /\ Signalled(q)
  /\ Then((IF os[p] = "gone" THEN <<<<"pumpOutput", p>>, <<"reported", p>>>>
           ELSE IF WriteDone(p) THEN <<<<"pumpStdin", p>>>>
           ELSE <<<<"pumpOutput", p>>, <<"drained", p>>>>)
          \o <<<<"loop", 0>>>>)
  /\ status' = IF os[p] = "gone" THEN [status EXCEPT ![p] = "EXITED"] ELSE status
  /\ UNCHANGED <<client, childVars, pipeVars, valid, background, processOpen>>
  /\ UNCHANGED <<stdinVars, outputVars, lastErrno, callVars, last>>

(* WaitForMultipleObjectsEx answers with the lowest that is signalled: of   *)
(* each handle the process, the write, the read.                            *)
Wakes(p) ==
  /\ At("loop", 0) /\ ~expired /\ p \in InGroup /\ Signalled(p)
  /\ ~\E q \in InGroup : q < p /\ Signalled(q)
  /\ Then((IF os[p] = "gone" THEN <<<<"finalize", p>>, <<"reported", p>>>>
           ELSE IF WriteDone(p) THEN <<<<"pumpStdin", p>>>>
           ELSE <<<<"pumpOutput", p>>, <<"drained", p>>>>)
          \o <<<<"loop", 0>>>>)
  /\ status' = IF os[p] = "gone" THEN [status EXCEPT ![p] = "EXITED"] ELSE status
  /\ UNCHANGED <<client, childVars, pipeVars, valid, background, processOpen>>
  /\ UNCHANGED <<stdinVars, outputVars, lastErrno, callVars, last>>

(* Nothing happened in the slice of this group: the next one's turn.        *)
SliceEnds ==
  /\ At("loop", 0) /\ ~expired /\ ~\E p \in InGroup : Signalled(p)
  /\ Groups(waiting) > 1
  /\ group' = (group + 1) % Groups(waiting)
  /\ UNCHANGED <<client, childVars, pipeVars, handleVars, todo, pumped, timeout, expired>>
  /\ UNCHANGED <<slots, waiting, ioFailed, runVars, last>>

WaitFails ==
  /\ At("loop", 0) /\ waiting # {} /\ ~expired /\ client.failing
  /\ Returns("wait", slots, "WAIT_FAILED")
  /\ Then(<<>>) /\ LocalsGone
  /\ UNCHANGED <<client, childVars, pipeVars, handleVars>>

-----------------------------------------------------------------------------
(* jsl_subprocess_run_blocking_options, of all handles.                    *)

Running == {p \in Procs : status[p] = "RUNNING"}   \* live_count counts these
AllRunStands == UNCHANGED <<client, childVars, pipeVars, timeout, slots, waiting, group>>

RunBegins(t) ==
  /\ todo = <<>> /\ \A p \in Procs : valid[p] /\ status[p] = "NOT_STARTED"
  /\ lastErrno' = Everywhere(FALSE)
  /\ timeout' = t
  /\ todo' = <<<<"fill", 0>>>>
  /\ CallUnderWay
  /\ UNCHANGED <<client, childVars, pipeVars, startVars, stdinVars, outputVars>>
  /\ UNCHANGED <<pumped, expired, waitVars, runVars>>

Filling ==
  /\ At("fill", 0)
  /\ Cardinality(Running) < client.parallel /\ next <= N /\ ~expired

Spawn ==
  /\ Filling
  /\ Launched(next)
  /\ next' = next + 1
  /\ Then(<<<<"pumpStdin", next>>, <<"pumpOutput", next>>, <<"noted", next>>, <<"fill", 0>>>>)
  /\ LaunchStands
  /\ UNCHANGED <<background, lastErrno, pumped, timeout, expired, waitVars>>
  /\ UNCHANGED <<spawnFailed, timedOut, waitFailed, last>>

SpawnFails ==
  /\ Filling /\ client.failing
  /\ status' = [status EXCEPT ![next] = "FAILED_TO_START"]
  /\ lastErrno' = [lastErrno EXCEPT ![next] = TRUE]
  /\ spawnFailed' = TRUE /\ next' = next + 1
  /\ UNCHANGED <<client, childVars, pipeVars, valid, background, processOpen>>
  /\ UNCHANGED <<stdinVars, outputVars, todo, pumped, timeout, expired, waitVars>>
  /\ UNCHANGED <<timedOut, waitFailed, last>>

(* Slots are full, procs or time used up.                                   *)
Filled ==
  /\ At("fill", 0) /\ ~Filling
  /\ timedOut' = (timedOut \/ (Running # {} /\ expired) \/ (Running = {} /\ next <= N))
  /\ Then(<<<<IF Running = {} \/ expired THEN "end" ELSE "wait", 0>>>>)
  /\ AllRunStands
  /\ UNCHANGED <<handleVars, pumped, expired, ioFailed, next, spawnFailed, waitFailed, last>>

(* Something is signalled and the handles are gone through in order, or     *)
(* nothing is and the time of this wait is up.                              *)
RunWakes ==
  /\ At("wait", 0)
  /\ \/ \E p \in Running : Signalled(p)
     \/ timeout = "zero" \/ expired
  /\ Then(<<<<IF \E p \in Running : Signalled(p) THEN "scan" ELSE "passed", 1>>>>)
  /\ TaskOnly

RunWaitFails ==
  /\ At("wait", 0) /\ client.failing
  /\ waitFailed' = TRUE
  /\ Then(<<<<"end", 0>>>>)
  /\ AllRunStands
  /\ UNCHANGED <<handleVars, pumped, expired, ioFailed, next, spawnFailed, timedOut, last>>

Scan(p) ==
  /\ At("scan", p)
  /\ LET exits == p <= N /\ status[p] = "RUNNING" /\ os[p] = "gone"
         live == p <= N /\ status[p] = "RUNNING" /\ os[p] = "running"
     IN  /\ status' = IF exits THEN [status EXCEPT ![p] = "EXITED"] ELSE status
         /\ Then(IF p > N THEN <<<<"passed", 1>>>>
                 ELSE (IF exits THEN <<<<"finalize", p>>, <<"noted", p>>>>
                       ELSE IF live THEN <<<<"scanWrite", p>>, <<"scanRead", p>>>> ELSE <<>>)
                      \o <<<<"scan", p + 1>>>>)
  /\ UNCHANGED <<client, childVars, pipeVars, valid, background, processOpen>>
  /\ UNCHANGED <<stdinVars, outputVars, lastErrno, callVars, last>>

ScanPipes(p) ==
  /\ \/ At("scanWrite", p) /\ Then(IF WriteDone(p) THEN <<<<"pumpStdin", p>>>> ELSE <<>>)
     \/ /\ At("scanRead", p)
        /\ Then(IF ReadDone(p) THEN <<<<"pumpOutput", p>>, <<"noted", p>>>> ELSE <<>>)
  /\ TaskOnly

(* any_io_failed; a proc that was killed is terminal from here.             *)
Noted(p) ==
  /\ At("noted", p) \/ At("harvested", p)
  /\ ioFailed' = IF pumped = "IO_FAILED" THEN ioFailed \cup {p} ELSE ioFailed
  /\ status' = IF At("harvested", p) THEN [status EXCEPT ![p] = "KILLED_BY_SIGNAL"] ELSE status
  /\ Then(<<>>)
  /\ UNCHANGED <<valid, background, processOpen, stdinVars, outputVars, lastErrno>>
  /\ AllRunStands /\ UNCHANGED <<pumped, expired, runVars, last>>

(* The end of a turn: done, late, or with timeout 0 the wave is killed.     *)
Passed ==
  /\ At("passed", 1)
  /\ LET finished == Running = {} /\ next > N
         wave == ~finished /\ timeout = "zero" /\ Running # {}
     IN  /\ timedOut' = (timedOut \/ wave \/ (~finished /\ expired))
         /\ Then(IF finished \/ expired THEN <<<<"end", 0>>>>
                 ELSE (IF wave THEN <<<<"terminate", 1>>>> ELSE <<>>) \o <<<<"again", 0>>>>)
  /\ AllRunStands
  /\ UNCHANGED <<handleVars, pumped, expired, ioFailed, next, spawnFailed, waitFailed, last>>

Again ==
  /\ At("again", 0)
  /\ Then(<<<<IF (Running # {} \/ next <= N) /\ ~waitFailed THEN "fill" ELSE "end", 0>>>>)
  /\ TaskOnly

EndOfLoop ==
  /\ At("end", 0)
  /\ Then((IF timedOut /\ Running # {} THEN <<<<"terminate", 1>>>> ELSE <<>>)
          \o <<<<"teardown", 0>>>>)
  /\ TaskOnly

(* jsl__subprocess_terminate_and_reap_all.                                  *)
TerminateAll ==
  /\ At("terminate", 1)
  /\ terminated' = terminated \cup {p \in Running : os[p] = "running"}
  /\ Then(<<<<"harvest", 1>>>>)
  /\ UNCHANGED <<client, os, inPipe, received, sawEof, outPipe, produced, pipeVars>>
  /\ UNCHANGED <<handleVars, callVars, last>>

HarvestNext(p) ==
  /\ At("harvest", p) /\ (p > N \/ p \notin Running)
  /\ Then(IF p > N THEN <<>> ELSE <<<<"harvest", p + 1>>>>)
  /\ TaskOnly

Harvest(p) ==
  /\ At("harvest", p) /\ p \in Running /\ os[p] = "gone"
  /\ Then(<<<<"finalize", p>>, <<"harvested", p>>, <<"harvest", p + 1>>>>)
  /\ TaskOnly

(* Not dead after a second: its reads are not waited for.                   *)
HarvestGivesUp(p) ==
  /\ At("harvest", p) /\ p \in Running /\ os[p] = "running" /\ client.failing
  /\ status' = [status EXCEPT ![p] = "KILLED_BY_SIGNAL"]
  /\ waitFailed' = TRUE
  /\ Then(<<<<"harvest", p + 1>>>>)
  /\ AllRunStands
  /\ UNCHANGED <<valid, background, processOpen, stdinVars, outputVars, lastErrno>>
  /\ UNCHANGED <<pumped, expired, ioFailed, next, spawnFailed, timedOut, last>>

Spawned == {p \in Procs : status[p] \in {"RUNNING"} \cup Terminal}
Closed(open) == [p \in Procs |-> open[p] /\ p \notin Spawned]

RunResult ==
  IF waitFailed THEN "WAIT_FAILED" ELSE IF timedOut THEN "TIMEOUT_REACHED"
  ELSE IF spawnFailed THEN "SPAWN_FAILED" ELSE IF ioFailed # {} THEN "IO_FAILED"
  ELSE "SUCCESS"

(* What is pending is cancelled and not waited for, the buffers stay with   *)
(* the handles until cleanup.                                               *)
Teardown ==
  /\ At("teardown", 0)
  /\ writeOp' = [p \in Procs |-> WriteCancelled(p)]
  /\ readOp' = [p \in Procs |-> ReadCancelled(p)]
  /\ stdinOpen' = Closed(stdinOpen) /\ readOpen' = Closed(readOpen)
  /\ processOpen' = Closed(processOpen)
  /\ writePending' = Everywhere(FALSE) /\ readPending' = Everywhere(FALSE)
  /\ Returns("run", Procs, RunResult)
  /\ Then(<<>>) /\ LocalsGone
  /\ UNCHANGED <<client, childVars, valid, status, background, offset, inCap, sunk, outCap, lastErrno>>

-----------------------------------------------------------------------------
(* The client starts the handles it waits for, or runs them all.            *)
Handles == IF "run" \in client.calls THEN Procs ELSE UNION client.arrays

NewCall ==
  /\ todo = <<>>
  /\ \/ \E p \in Handles :
          \/ "run" \notin client.calls /\ (Start(p) \/ StartFails(p))
          \/ \E op \in DOMAIN Pumping : PumpBegins(op, p)
          \/ "kill" \in client.calls /\ Kill(p)
          \/ "poll" \in client.calls /\ PollTerminal(p)
          \/ "poll" \in client.calls /\ \E t \in client.timeouts : PollBegins(p, t)
          \/ "cleanup" \in client.calls /\ CleanupBegins(p)
     \/ \E a \in client.arrays :
          "wait" \in client.calls /\ (WaitNothing(a) \/ \E t \in client.timeouts : WaitBegins(a, t))
     \/ "run" \in client.calls /\ \E t \in client.timeouts : RunBegins(t)

PumpStep(p) ==
  \/ PumpStdin(p) \/ Write(p) \/ PumpOutput(p) \/ Read(p) \/ Finalize(p) \/ Settle(p)

WaitStep ==
  \/ \E p \in 1 .. N + 1 : Prime(p)
  \/ \E p \in Procs : Primed(p) \/ Drained(p) \/ Wakes(p)
  \/ LoopEnds \/ SliceEnds

RunStep ==
  \/ Spawn \/ Filled \/ RunWakes \/ Passed \/ Again \/ EndOfLoop \/ TerminateAll \/ Teardown
  \/ \E p \in 1 .. N + 1 : Scan(p) \/ HarvestNext(p)
  \/ \E p \in Procs : ScanPipes(p) \/ Noted(p) \/ Harvest(p)

CallStep ==
  /\ todo # <<>>
  /\ \/ \E p \in Procs :
          \/ PumpStep(p) \/ PollEnds(p) \/ Release(p)
          \/ \E op \in DOMAIN Pumping : PumpReturns(op, p)
     \/ WaitStep \/ RunStep

Refused ==
  /\ todo # <<>>
  /\ WaitFails \/ RunWaitFails \/ SpawnFails \/ \E p \in Procs : HarvestGivesUp(p)

ChildStep(p) ==
  ChildReads(p) \/ ChildSeesEof(p) \/ ChildWrites(p) \/ Dies(p) \/ Completes(p)

Next ==
  \/ NewCall \/ CallStep \/ Refused \/ TimePasses
  \/ \E p \in Procs : ChildStep(p) \/ WriteEnds(p, "failed") \/ ReadEnds(p, "failed")

(* The thread in a call runs, the kernel completes what it can, time        *)
(* passes, and the children finish as far as they are not held up.          *)
Fairness ==
  /\ WF_vars(CallStep) /\ WF_vars(TimePasses)
  /\ \A p \in Procs :
       /\ WF_vars(Completes(p))
       /\ WF_vars(ChildTerminated(p) \/ ChildReads(p) \/ ChildSeesEof(p) \/ ChildWrites(p)
                  \/ ChildFinishes(p))

Spec == Init /\ [][Next]_vars /\ Fairness

-----------------------------------------------------------------------------
(* Whatever the order in which the end of a process and the completion of   *)
(* the last read reach the library: a wait that ends, and a run, leave      *)
(* every chunk of a child reported terminal in its sink.                    *)
OutputComplete ==
  last.op \in {"wait", "run"} /\ last.result # "WAIT_FAILED" =>
    \A p \in last.on : valid[p] /\ status[p] \in Terminal /\ ~lastErrno[p] => sunk[p] = produced[p]

(* A child reads end-of-file from its stdin once it has all of the memory,  *)
(* as long as the handle is in use and met no error, though a piece may     *)
(* still be with the kernel when the next is due.                           *)
EofAfterWholeInput ==
  \A p \in Procs : sawEof[p] /\ processOpen[p] /\ ~lastErrno[p] => received[p] = InputLen

(* After cleanup, whatever was pending, nothing of the handle is open and   *)
(* the buffers are free.                                                    *)
CleanupLeavesNothing ==
  \A p \in Procs : ~valid[p] =>
    ~stdinOpen[p] /\ ~readOpen[p] /\ ~processOpen[p] /\ inCap[p] = 0 /\ outCap[p] = 0

(* os.h of the results of the wait and of the run.                          *)
ReturnContract ==
  /\ last.op = "wait" =>
       /\ last.result = "SUCCESS" => \A p \in last.on : status[p] \in Terminal
       /\ last.result = "TIMEOUT_REACHED" => \E p \in last.on : status[p] = "RUNNING"
       /\ last.result = "IO_FAILED" => \E p \in last.on : lastErrno[p]
  /\ last.op = "run" /\ last.result # "WAIT_FAILED" =>
       /\ \A p \in Spawned : status[p] \in Terminal /\ os[p] = "gone"
       /\ last.result # "TIMEOUT_REACHED" => \A p \in Procs : status[p] # "NOT_STARTED"
       /\ last.result = "SPAWN_FAILED" => \E p \in Procs : status[p] = "FAILED_TO_START"
       /\ last.result = "IO_FAILED" => \E p \in Procs : lastErrno[p]

(* No call waits for ever but a poll without timeout, which pumps nothing.  *)
Responsive == todo = <<>> \/ (Head(todo)[1] = "poll" /\ timeout = "infinite")
CallsReturn == []<>Responsive

(* "The kernel still owns the pointer until the op completes": a scratch    *)
(* buffer is replaced or freed when no operation is in flight on it, or by  *)
(* the cleanup after a run, which cancelled the operation and did not wait. *)
BuffersHeldForKernel ==
  [][\A p \in Procs :
       \/ inCap'[p] = inCap[p] \/ writeOp[p].st \notin InFlight
       \/ ~background[p] /\ ~valid'[p] /\ writeOp[p].st = "cancelled"]_vars
  /\ [][\A p \in Procs :
       \/ outCap'[p] = outCap[p] \/ readOp[p].st \notin InFlight
       \/ ~background[p] /\ ~valid'[p] /\ readOp[p].st = "cancelled"]_vars
=============================================================================
