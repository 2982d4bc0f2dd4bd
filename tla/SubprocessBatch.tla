--------------------------- MODULE SubprocessBatch ---------------------------
(***************************************************************************)
(* jsl_subprocess_run_blocking_options of os.c on POSIX: one call that     *)
(* spawns N children, at most MaxParallel at a time, feeds their stdin     *)
(* from memory, captures their output, reaps them, and on a timeout kills  *)
(* what is left.  The children are processes of their own: they read,      *)
(* write, close their stdin, exit or crash between any two steps of the    *)
(* call.                                                                   *)
(*                                                                         *)
(* A pipe holds a number of chunks.  The SIGCHLD self-pipe is one bit that *)
(* is set by the exit itself; its signal protocol is module                *)
(* SigchldSelfPipe.                                                        *)
(***************************************************************************)
EXTENDS Naturals, FiniteSets

CONSTANTS
  N,            \* count: the procs are 1 .. N
  MaxParallel,  \* parallelism_count, already clamped to N
  Timeouts,     \* the signs of timeout_ms: "infinite", "zero" or "positive"
  Feeds,        \* procs with stdin_kind = MEMORY; the others inherit stdin
  Captures,     \* the streams of a proc that go to an output sink
  InputLen,     \* chunks of stdin_memory
  OutputLen,    \* chunks a child writes to each captured stream
  PipeCap,      \* chunks a kernel pipe holds
  Cooperative,  \* by timeout, the children that finish once their input
                \* ends and their output is taken
  IoErrors      \* read() and write() on a pipe may fail for good

Procs == 1 .. N
Streams == {"stdout", "stderr"}

Configuration ==
  /\ N \in Nat \ {0} /\ MaxParallel \in 1 .. N
  /\ Timeouts \subseteq {"infinite", "zero", "positive"}
  /\ Feeds \subseteq Procs
  /\ Cooperative \in [Timeouts -> SUBSET Procs]
  /\ Captures \in [Procs -> SUBSET Streams]
  /\ InputLen \in Nat /\ OutputLen \in Nat /\ PipeCap \in Nat \ {0}
  /\ IoErrors \in BOOLEAN

VARIABLES
  (* the children and the kernel *)
  os,           \* "none", "running", "exited" or "signalled" (zombies), "reaped"
  inPipe,       \* chunks in the child's stdin pipe
  received,     \* chunks the child has read
  readsStdin,   \* the child has its end of the stdin pipe open
  sawEof,       \* the child has read end-of-file from its stdin
  holders,      \* children that inherited the write end of a proc's stdin pipe
  outPipe,      \* chunks in each captured stream's pipe
  produced,     \* chunks the child has written to each captured stream
  killed,       \* children sent SIGKILL
  selfPipe,     \* the SIGCHLD self-pipe holds a byte
  timeout,      \* the timeout of the call
  expired,      \* the deadline has passed
  (* the procs array *)
  status,       \* JSLSubProcessStatusEnum
  stdinFd,      \* stdin_write_fd is open
  offset,       \* stdin_write_offset
  readFd,       \* stdout_read_fd and stderr_read_fd are open
  sunk,         \* chunks written to each sink
  lastErrno,    \* last_errno # 0
  (* the call *)
  pc, i, mode, ready, liveCount, nextToSpawn,
  anySpawnFailed, anyIoFailed, timeoutReached, waitFailed, result

childVars == <<os, inPipe, received, readsStdin, sawEof, holders, outPipe, produced>>
clock == <<timeout, expired>>
kernelVars == <<killed, selfPipe, clock>>
procVars == <<status, stdinFd, offset, readFd, sunk, lastErrno>>
flags == <<anySpawnFailed, anyIoFailed, timeoutReached, waitFailed, result>>
control == <<pc, i, mode, ready, liveCount, nextToSpawn>>
vars == <<childVars, kernelVars, procVars, flags, control>>

Zombie == {"exited", "signalled"}
Terminal == {"EXITED", "KILLED_BY_SIGNAL"}
Running == {p \in Procs : status[p] = "RUNNING"}
PerStream(S) == [Procs -> [Streams -> S]]

TypeOK ==
  /\ os \in [Procs -> {"none", "running", "reaped"} \cup Zombie]
  /\ inPipe \in [Procs -> 0 .. PipeCap]
  /\ received \in [Procs -> 0 .. InputLen]
  /\ readsStdin \in [Procs -> BOOLEAN]
  /\ sawEof \in [Procs -> BOOLEAN]
  /\ holders \in [Procs -> SUBSET Procs]
  /\ outPipe \in PerStream(0 .. PipeCap)
  /\ produced \in PerStream(0 .. OutputLen)
  /\ killed \subseteq Procs
  /\ selfPipe \in BOOLEAN /\ timeout \in Timeouts /\ expired \in BOOLEAN
  /\ status \in [Procs -> {"NOT_STARTED", "RUNNING", "FAILED_TO_START"} \cup Terminal]
  /\ stdinFd \in [Procs -> BOOLEAN]
  /\ offset \in [Procs -> 0 .. InputLen]
  /\ readFd \in PerStream(BOOLEAN)
  /\ sunk \in PerStream(0 .. OutputLen)
  /\ lastErrno \in [Procs -> BOOLEAN]
  /\ pc \in {"fill", "poll", "pump", "reap", "check", "finish", "killpoll", "close", "done"}
  /\ i \in 1 .. N + 1
  /\ mode \in {"run", "wave", "final"}
  /\ ready \subseteq Procs
  /\ liveCount \in 0 .. N /\ nextToSpawn \in 1 .. N + 1
  /\ anySpawnFailed \in BOOLEAN /\ anyIoFailed \in BOOLEAN
  /\ timeoutReached \in BOOLEAN /\ waitFailed \in BOOLEAN
  /\ result \in {"none", "SUCCESS", "IO_FAILED", "SPAWN_FAILED", "TIMEOUT_REACHED", "WAIT_FAILED"}

Everywhere(value) == [p \in Procs |-> [s \in Streams |-> value]]

(* Everything before the call, whose first loop starts at pc = "fill".     *)
Untouched ==
  /\ os = [p \in Procs |-> "none"]
  /\ inPipe = [p \in Procs |-> 0] /\ received = [p \in Procs |-> 0]
  /\ readsStdin = [p \in Procs |-> FALSE] /\ sawEof = [p \in Procs |-> FALSE]
  /\ holders = [p \in Procs |-> {}]
  /\ outPipe = Everywhere(0) /\ produced = Everywhere(0)
  /\ killed = {} /\ selfPipe = FALSE /\ timeout \in Timeouts /\ expired = FALSE
  /\ status = [p \in Procs |-> "NOT_STARTED"]
  /\ stdinFd = [p \in Procs |-> FALSE] /\ offset = [p \in Procs |-> 0]
  /\ readFd = Everywhere(FALSE) /\ sunk = Everywhere(0)
  /\ lastErrno = [p \in Procs |-> FALSE]
  /\ i = 1 /\ mode = "run" /\ ready = {}
  /\ liveCount = 0 /\ nextToSpawn = 1
  /\ anySpawnFailed = FALSE /\ anyIoFailed = FALSE
  /\ timeoutReached = FALSE /\ waitFailed = FALSE /\ result = "none"

Init == Untouched /\ pc = "fill"

-----------------------------------------------------------------------------
(* The children.                                                           *)

StdinWriters(p) == {q \in holders[p] : os[q] = "running"}

ChildReads(p) ==
  /\ os[p] = "running" /\ readsStdin[p] /\ inPipe[p] > 0
  /\ inPipe' = [inPipe EXCEPT ![p] = @ - 1]
  /\ received' = [received EXCEPT ![p] = @ + 1]
  /\ UNCHANGED <<os, readsStdin, sawEof, holders, outPipe, produced>>
  /\ UNCHANGED <<kernelVars, procVars, flags, control>>

(* read() returns 0: the pipe is empty and nobody can write to it any more. *)
ChildSeesEof(p) ==
  /\ os[p] = "running" /\ readsStdin[p] /\ ~sawEof[p]
  /\ inPipe[p] = 0 /\ ~stdinFd[p] /\ StdinWriters(p) = {}
  /\ sawEof' = [sawEof EXCEPT ![p] = TRUE]
  /\ UNCHANGED <<os, inPipe, received, readsStdin, holders, outPipe, produced>>
  /\ UNCHANGED <<kernelVars, procVars, flags, control>>

ChildClosesStdin(p) ==
  /\ os[p] = "running" /\ readsStdin[p]
  /\ readsStdin' = [readsStdin EXCEPT ![p] = FALSE]
  /\ inPipe' = [inPipe EXCEPT ![p] = 0]
  /\ UNCHANGED <<os, received, sawEof, holders, outPipe, produced>>
  /\ UNCHANGED <<kernelVars, procVars, flags, control>>

ChildWrites(p, s) ==
  /\ os[p] = "running" /\ readFd[p][s]
  /\ produced[p][s] < OutputLen /\ outPipe[p][s] < PipeCap
  /\ outPipe' = [outPipe EXCEPT ![p][s] = @ + 1]
  /\ produced' = [produced EXCEPT ![p][s] = @ + 1]
  /\ UNCHANGED <<os, inPipe, received, readsStdin, sawEof, holders>>
  /\ UNCHANGED <<kernelVars, procVars, flags, control>>

(* The signal handler writes the self-pipe byte, and may interrupt poll():  *)
(* both loops react to EINTR by starting over.                              *)
Dies(p, how) ==
  /\ os[p] = "running"
  /\ os' = [os EXCEPT ![p] = how]
  /\ inPipe' = [inPipe EXCEPT ![p] = 0]
  /\ readsStdin' = [readsStdin EXCEPT ![p] = FALSE]
  /\ selfPipe' = TRUE
  /\ pc' \in IF pc = "poll" THEN {"poll", "fill"} ELSE {pc}
  /\ UNCHANGED <<received, sawEof, holders, outPipe, produced, killed, clock>>
  /\ UNCHANGED <<procVars, flags, i, mode, ready, liveCount, nextToSpawn>>

ChildExits(p) == \E how \in Zombie : Dies(p, how)

(* A cooperative child is finished when it has read all its input and has   *)
(* written all its output, or can write no more.                            *)
Finished(p) ==
  /\ readsStdin[p] => sawEof[p]
  /\ \A s \in Streams : readFd[p][s] => produced[p][s] = OutputLen

ChildFinishes(p) == Finished(p) /\ Dies(p, "exited")

ChildKilled(p) == p \in killed /\ Dies(p, "signalled")

DeadlinePasses ==
  /\ timeout = "positive" /\ ~expired
  /\ expired' = TRUE
  /\ UNCHANGED <<childVars, killed, selfPipe, timeout, procVars, flags, control>>

-----------------------------------------------------------------------------
(* Filling the free slots.                                                 *)

MayFill ==
  /\ liveCount < MaxParallel /\ nextToSpawn <= N
  /\ ~(timeout = "positive" /\ expired)

(* Mutant: a proc that fails to start keeps the slot it was tried in.       *)
SpawnFailsKeepsSlot ==
  /\ pc = "fill" /\ MayFill
  /\ status' = [status EXCEPT ![nextToSpawn] = "FAILED_TO_START"]
  /\ anySpawnFailed' = TRUE
  /\ nextToSpawn' = nextToSpawn + 1
  /\ liveCount' = liveCount + 1
  /\ UNCHANGED <<childVars, kernelVars, stdinFd, offset, readFd, sunk, lastErrno>>
  /\ UNCHANGED <<anyIoFailed, timeoutReached, waitFailed, result, pc, i, mode, ready>>

(* Mutant: a proc that fails to start frees a slot it never had.            *)
SpawnFailsFreesSlot ==
  /\ pc = "fill" /\ MayFill
  /\ status' = [status EXCEPT ![nextToSpawn] = "FAILED_TO_START"]
  /\ anySpawnFailed' = TRUE
  /\ nextToSpawn' = nextToSpawn + 1
  /\ liveCount' = liveCount - 1
  /\ UNCHANGED <<childVars, kernelVars, stdinFd, offset, readFd, sunk, lastErrno>>
  /\ UNCHANGED <<anyIoFailed, timeoutReached, waitFailed, result, pc, i, mode, ready>>

(* prepare or spawn fails: every pipe made so far is closed again.          *)
SpawnFails ==
  /\ pc = "fill" /\ MayFill
  /\ status' = [status EXCEPT ![nextToSpawn] = "FAILED_TO_START"]
  /\ \E errno \in BOOLEAN : lastErrno' = [lastErrno EXCEPT ![nextToSpawn] = errno]
  /\ anySpawnFailed' = TRUE
  /\ nextToSpawn' = nextToSpawn + 1
  /\ UNCHANGED <<childVars, kernelVars, stdinFd, offset, readFd, sunk>>
  /\ UNCHANGED <<anyIoFailed, timeoutReached, waitFailed, result, pc, i, mode, ready, liveCount>>

(* The pipes are made by pipe() without close-on-exec, and the file actions *)
(* close only the child's own: it keeps the write end of every stdin pipe   *)
(* the parent has open at that moment.                                      *)
InheritedBy(p) == {q \in Procs : stdinFd[q]}

Spawn ==
  /\ pc = "fill" /\ MayFill
  /\ LET p == nextToSpawn IN
       /\ os' = [os EXCEPT ![p] = "running"]
       /\ readsStdin' = [readsStdin EXCEPT ![p] = p \in Feeds]
       /\ holders' = [q \in Procs |-> IF q \in InheritedBy(p) THEN holders[q] \cup {p}
                                                              ELSE holders[q]]
       /\ status' = [status EXCEPT ![p] = "RUNNING"]
       /\ stdinFd' = [stdinFd EXCEPT ![p] = p \in Feeds]
       /\ readFd' = [readFd EXCEPT ![p] = [s \in Streams |-> s \in Captures[p]]]
  /\ liveCount' = liveCount + 1
  /\ nextToSpawn' = nextToSpawn + 1
  /\ UNCHANGED <<inPipe, received, sawEof, outPipe, produced, kernelVars>>
  /\ UNCHANGED <<offset, sunk, lastErrno, flags, pc, i, mode, ready>>

FillDone ==
  /\ pc = "fill" /\ ~MayFill
  /\ pc' = IF liveCount = 0 THEN "finish" ELSE "poll"
  /\ timeoutReached' = (timeoutReached \/ (liveCount = 0 /\ nextToSpawn <= N))
  /\ UNCHANGED <<childVars, kernelVars, procVars, anySpawnFailed, anyIoFailed, waitFailed, result>>
  /\ UNCHANGED <<i, mode, ready, liveCount, nextToSpawn>>

-----------------------------------------------------------------------------
(* Waiting.                                                                *)

StdinReady == {p \in Running : stdinFd[p] /\ (inPipe[p] < PipeCap \/ ~readsStdin[p])}
OutputReady == {p \in Running : \E s \in Streams :
                  readFd[p][s] /\ (outPipe[p][s] > 0 \/ os[p] # "running")}

Poll ==
  /\ pc = "poll"
  /\ \/ StdinReady # {} \/ OutputReady # {} \/ selfPipe
     \/ timeout = "zero"
     \/ timeout = "positive" /\ expired
  /\ ready' = StdinReady
  /\ selfPipe' = FALSE
  /\ pc' = "pump" /\ i' = 1
  /\ UNCHANGED <<childVars, killed, clock, procVars, flags, mode, liveCount, nextToSpawn>>

PollFails ==
  /\ pc = "poll" \/ (pc = "killpoll" /\ liveCount > 0)
  /\ pc' = IF pc = "poll" \/ mode = "wave" THEN "finish" ELSE "close"
  /\ waitFailed' = TRUE
  /\ timeoutReached' = (timeoutReached \/ mode = "wave")
  /\ UNCHANGED <<childVars, kernelVars, procVars, anySpawnFailed, anyIoFailed, result>>
  /\ UNCHANGED <<i, mode, ready, liveCount, nextToSpawn>>

-----------------------------------------------------------------------------
(* Pumping: stdin of the procs poll() reported, then both outputs.         *)

Least(a, b) == IF a < b THEN a ELSE b

(* jsl__subprocess_posix_pump_stdin_once.  `bad` is a write error other     *)
(* than EPIPE, EAGAIN and EINTR; the caller drops its result.               *)
PumpStdin(p, bad) ==
  LET room == PipeCap - inPipe[p]
      amount == IF bad \/ ~readsStdin[p] THEN 0 ELSE Least(InputLen - offset[p], room)
  IN  /\ inPipe' = [inPipe EXCEPT ![p] = @ + amount]
      /\ offset' = [offset EXCEPT ![p] = @ + amount]
      /\ stdinFd' = [stdinFd EXCEPT ![p] =
                       readsStdin[p] /\ ~bad /\ offset[p] + amount < InputLen]

(* jsl__subprocess_posix_pump_output_once: each open stream is read until   *)
(* it is empty; end-of-file or an error (`bad`) closes the read end.        *)
PumpOutput(p, bad) ==
  /\ sunk' = [sunk EXCEPT ![p] = [s \in Streams |->
                IF readFd[p][s] /\ s \notin bad THEN @[s] + outPipe[p][s] ELSE @[s]]]
  /\ outPipe' = [outPipe EXCEPT ![p] = [s \in Streams |-> IF readFd[p][s] THEN 0 ELSE @[s]]]
  /\ readFd' = [readFd EXCEPT ![p] = [s \in Streams |->
                  @[s] /\ s \notin bad /\ os[p] = "running"]]

OpenStreams(p) == {s \in Streams : readFd[p][s]}
ReadFailures(p) == IF IoErrors THEN SUBSET OpenStreams(p) ELSE {{}}
WriteFailures(p) == IF IoErrors /\ offset[p] < InputLen THEN BOOLEAN ELSE {FALSE}

PumpProc ==
  /\ pc = "pump" /\ i <= N /\ status[i] = "RUNNING"
  /\ \E badRead \in ReadFailures(i), badWrite \in WriteFailures(i) :
       /\ IF i \in ready
          THEN PumpStdin(i, badWrite)
          ELSE badWrite = FALSE /\ UNCHANGED <<inPipe, offset, stdinFd>>
       /\ PumpOutput(i, badRead)
       /\ lastErrno' = [lastErrno EXCEPT ![i] = @ \/ badWrite \/ badRead # {}]
       /\ anyIoFailed' = (anyIoFailed \/ badRead # {})
  /\ i' = i + 1
  /\ UNCHANGED <<os, received, readsStdin, sawEof, holders, produced, kernelVars, status>>
  /\ UNCHANGED <<anySpawnFailed, timeoutReached, waitFailed, result>>
  /\ UNCHANGED <<pc, mode, ready, liveCount, nextToSpawn>>

NextProc ==
  /\ pc \in {"pump", "reap"}
  /\ \/ /\ i <= N /\ status[i] # "RUNNING"
        /\ i' = i + 1 /\ pc' = pc
     \/ /\ i = N + 1
        /\ i' = 1
        /\ pc' = IF pc = "pump" THEN "reap" ELSE IF mode = "run" THEN "check" ELSE "killpoll"
  /\ UNCHANGED <<childVars, kernelVars, procVars, flags, mode, ready, liveCount, nextToSpawn>>

-----------------------------------------------------------------------------
(* Reaping: waitpid(WNOHANG), then one last drain whose errors only reach   *)
(* last_errno.                                                              *)

StillRunning ==
  /\ pc = "reap" /\ i <= N /\ status[i] = "RUNNING" /\ os[i] = "running"
  /\ i' = i + 1
  /\ UNCHANGED <<childVars, kernelVars, procVars, flags, pc, mode, ready, liveCount, nextToSpawn>>

(* Mutant: no drain after waitpid().                                        *)
ReapWithoutDrain ==
  /\ pc = "reap" /\ i <= N /\ status[i] = "RUNNING" /\ os[i] \in Zombie
  /\ os' = [os EXCEPT ![i] = "reaped"]
  /\ status' = [status EXCEPT ![i] = IF os[i] = "exited" THEN "EXITED" ELSE "KILLED_BY_SIGNAL"]
  /\ liveCount' = liveCount - 1
  /\ i' = i + 1
  /\ UNCHANGED <<inPipe, received, readsStdin, sawEof, holders, produced, kernelVars, sunk>>
  /\ UNCHANGED <<outPipe, readFd, lastErrno, stdinFd, offset, flags, pc, mode, ready, nextToSpawn>>

Reap ==
  /\ pc = "reap" /\ i <= N /\ status[i] = "RUNNING" /\ os[i] \in Zombie
  /\ os' = [os EXCEPT ![i] = "reaped"]
  /\ status' = [status EXCEPT ![i] = IF os[i] = "exited" THEN "EXITED" ELSE "KILLED_BY_SIGNAL"]
  /\ \E badRead \in ReadFailures(i) :
       /\ PumpOutput(i, badRead)
       /\ lastErrno' = [lastErrno EXCEPT ![i] = @ \/ badRead # {}]
  /\ liveCount' = liveCount - 1
  /\ i' = i + 1
  /\ UNCHANGED <<inPipe, received, readsStdin, sawEof, holders, produced, kernelVars>>
  /\ UNCHANGED <<stdinFd, offset, flags, pc, mode, ready, nextToSpawn>>

-----------------------------------------------------------------------------
(* The end of an iteration, and the kill path.                             *)

AllDone == liveCount = 0 /\ nextToSpawn = N + 1
DeadlineHit == timeout = "positive" /\ expired

Check ==
  /\ pc = "check"
  /\ pc' = CASE AllDone -> "finish"
             [] ~AllDone /\ DeadlineHit -> "finish"
             [] ~AllDone /\ timeout = "zero" /\ liveCount > 0 -> "killpoll"
             [] OTHER -> "fill"
  /\ timeoutReached' = (timeoutReached \/ (~AllDone /\ DeadlineHit))
  /\ mode' = IF pc' = "killpoll" THEN "wave" ELSE mode
  /\ killed' = IF pc' = "killpoll" THEN killed \cup Running ELSE killed
  /\ UNCHANGED <<childVars, selfPipe, clock, procVars>>
  /\ UNCHANGED <<anySpawnFailed, anyIoFailed, waitFailed, result, i, ready, liveCount, nextToSpawn>>

Finish ==
  /\ pc = "finish"
  /\ LET kill == timeoutReached /\ liveCount > 0 IN
       /\ killed' = IF kill THEN killed \cup Running ELSE killed
       /\ pc' = IF kill /\ ~waitFailed THEN "killpoll" ELSE "close"
  /\ mode' = "final"
  /\ UNCHANGED <<childVars, selfPipe, clock, procVars, flags, i, ready, liveCount, nextToSpawn>>

(* jsl__subprocess_kill_and_drain_all: poll() returns within a second, and  *)
(* stdin is not pumped any more.                                            *)
KillPoll ==
  /\ pc = "killpoll" /\ liveCount > 0
  /\ ready' = {}
  /\ selfPipe' = FALSE
  /\ pc' = "pump" /\ i' = 1
  /\ UNCHANGED <<childVars, killed, clock, procVars, flags, mode, liveCount, nextToSpawn>>

(* Mutant: a zero timeout runs only the first wave.                         *)
KillDoneEndsCall ==
  /\ pc = "killpoll" /\ liveCount = 0
  /\ pc' = IF mode = "final" THEN "close" ELSE "finish"
  /\ mode' = IF mode = "wave" THEN "run" ELSE mode
  /\ timeoutReached' = TRUE
  /\ UNCHANGED <<childVars, kernelVars, procVars, anySpawnFailed, anyIoFailed, waitFailed, result>>
  /\ UNCHANGED <<i, ready, liveCount, nextToSpawn>>

KillDone ==
  /\ pc = "killpoll" /\ liveCount = 0
  /\ pc' = IF mode = "final" THEN "close" ELSE IF nextToSpawn <= N THEN "fill" ELSE "finish"
  /\ mode' = IF mode = "wave" THEN "run" ELSE mode
  /\ timeoutReached' = TRUE
  /\ UNCHANGED <<childVars, kernelVars, procVars, anySpawnFailed, anyIoFailed, waitFailed, result>>
  /\ UNCHANGED <<i, ready, liveCount, nextToSpawn>>

ResultCode ==
  IF waitFailed THEN "WAIT_FAILED"
  ELSE IF timeoutReached THEN "TIMEOUT_REACHED"
  ELSE IF anySpawnFailed THEN "SPAWN_FAILED"
  ELSE IF anyIoFailed THEN "IO_FAILED" ELSE "SUCCESS"

Spawned(p) == status[p] \notin {"FAILED_TO_START", "NOT_STARTED"}

Close ==
  /\ pc = "close"
  /\ stdinFd' = [p \in Procs |-> stdinFd[p] /\ ~Spawned(p)]
  /\ readFd' = [p \in Procs |-> [s \in Streams |-> readFd[p][s] /\ ~Spawned(p)]]
  /\ result' = ResultCode
  /\ pc' = "done"
  /\ UNCHANGED <<childVars, kernelVars, status, offset, sunk, lastErrno>>
  /\ UNCHANGED <<anySpawnFailed, anyIoFailed, timeoutReached, waitFailed>>
  /\ UNCHANGED <<i, mode, ready, liveCount, nextToSpawn>>

-----------------------------------------------------------------------------
CallStep ==
  \/ Spawn \/ SpawnFails \/ FillDone
  \/ Poll \/ PumpProc \/ NextProc \/ StillRunning \/ Reap
  \/ Check \/ Finish \/ KillPoll \/ KillDone \/ Close

ChildStep(p) ==
  \/ ChildReads(p) \/ ChildSeesEof(p) \/ ChildClosesStdin(p)
  \/ \E s \in Streams : ChildWrites(p, s)
  \/ ChildExits(p) \/ ChildKilled(p)

Returned == pc = "done" /\ UNCHANGED vars

Next ==
  \/ CallStep
  \/ PollFails
  \/ \E p \in Procs : ChildStep(p)
  \/ DeadlinePasses
  \/ Returned

Cooperates(p) == p \in Cooperative[timeout]

(* The calling thread runs, time passes, a killed child dies.  Only the     *)
(* cooperative children are assumed to read, write and finish.              *)
Fairness ==
  /\ WF_vars(CallStep)
  /\ WF_vars(DeadlinePasses)
  /\ \A p \in Procs : WF_vars(ChildKilled(p))
  /\ \A p \in Procs :
       /\ WF_vars(Cooperates(p) /\ ChildReads(p))
       /\ WF_vars(Cooperates(p) /\ ChildSeesEof(p))
       /\ WF_vars(Cooperates(p) /\ \E s \in Streams : ChildWrites(p, s))
       /\ WF_vars(Cooperates(p) /\ ChildFinishes(p))

Spec == Init /\ [][Next]_vars /\ Fairness

-----------------------------------------------------------------------------
(* live_count is the number of procs in RUNNING and respects the cap, and   *)
(* no more children than that exist: slots freed by failures and reaps are  *)
(* neither lost nor given out twice.                                        *)
LiveCountExact ==
  /\ liveCount = Cardinality(Running)
  /\ Cardinality({p \in Procs : os[p] \in {"running"} \cup Zombie}) = liveCount
  /\ liveCount <= MaxParallel

(* What a return means, by result: every spawned child is collected unless  *)
(* the wait itself failed, a proc stays NOT_STARTED only on a timeout, and  *)
(* SUCCESS is returned only if no child was killed or failed to start.      *)
ReturnContract ==
  pc = "done" =>
    /\ result # "WAIT_FAILED" =>
         \A p \in Procs : Spawned(p) => status[p] \in Terminal /\ os[p] = "reaped"
    /\ (\E p \in Procs : status[p] = "NOT_STARTED")
         => \/ result = "WAIT_FAILED"
            \/ result = "TIMEOUT_REACHED" /\ timeout = "positive"
    /\ result = "SUCCESS" => killed = {} /\ \A p \in Procs : status[p] \in Terminal
    /\ \A p \in Procs : ~stdinFd[p] /\ OpenStreams(p) = {}

(* Once a proc is reported terminal, its sinks hold everything the child    *)
(* wrote, whatever the order of its last writes, its exit and the pumps.    *)
OutputComplete ==
  \A p \in Procs : status[p] \in Terminal /\ ~lastErrno[p] => sunk[p] = produced[p]

(* A child that reads end-of-file has been given the whole of stdin_memory, *)
(* unless a write failed or the wait was abandoned.                         *)
EofAfterWholeInput ==
  \A p \in Procs : sawEof[p] /\ ~lastErrno[p] /\ ~waitFailed => received[p] = InputLen

(* The call returns: with cooperative children, or with a deadline.         *)
CallReturns == <>(pc = "done")

(* os.h, jsl_subprocess_set_stdin_memory: "the stream is closed once fully  *)
(* written", so a child that reads to end-of-file gets there.               *)
FedChildSeesEof ==
  \A p \in Feeds :
    (Cooperates(p) /\ status[p] = "RUNNING" /\ offset[p] = InputLen) ~> (sawEof[p] \/ os[p] # "running" \/ ~readsStdin[p] \/ waitFailed)
=============================================================================
