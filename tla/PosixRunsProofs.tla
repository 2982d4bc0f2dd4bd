--------------------------- MODULE PosixRunsProofs ---------------------------
(***************************************************************************)
(* Proofs about SigchldSelfPipe, for any set of children, whatever the     *)
(* host's handler does and whether or not an earlier call installed the    *)
(* handler.  DoneMeansReaped holds for any number of threads.  NoLostWakeup *)
(* and ChainReachesHost need a single thread: with two, the run             *)
(* SelfPipe_two_threads shows a wake-up lost, and two installations at once *)
(* save the library's own handler.                                         *)
(*                                                                         *)
(* What the runs of MCPosixRuns check on two small batches holds for any   *)
(* two that are well asked, whatever values the constants have: the proofs *)
(* of SubprocessBatch, carried over to its two instances side by side.     *)
(***************************************************************************)
EXTENDS MCPosixRuns, TLAPS

SingleThread == \A s, t \in Threads : s = t

(* The installation protocol as one thread sees it. *)
InstallInv ==
  /\ prevAction # "jsl"
  /\ pipe # NoPipe => disposition = "jsl"
  /\ \A t \in Threads :
       /\ disposition = "jsl" => pipe # NoPipe \/ pc[t] = "publish"
       /\ pc[t] = "sigaction" => disposition = "host"
       /\ pc[t] = "publish" => disposition = "jsl"
       /\ pc[t] \in WaitLocations => pipe # NoPipe

(* A dead child the current pass has already looked at, or that no pass will *)
(* look at before the next poll(), left a byte or a pending signal.          *)
WakeupInv ==
  \A t \in Threads :
    /\ pc[t] = "poll" => polled[t] = pipe /\ sweep[t] = {}
    /\ pc[t] \in {"reap", "poll"} =>
         \A c \in waiting[t] \ sweep[t] : child[c] = "zombie" => pending \/ byte[pipe]

(* A wait begins only once every child is started, and a child leaves the   *)
(* list only by being reaped.                                               *)
ReapInv ==
  \A t \in Threads :
    /\ phase[t] = "wait" => Unborn(t) = {} /\ pc[t] \notin {"idle", "spawn"}
    /\ pc[t] \in WaitLocations \cup {"done"} =>
         /\ phase[t] = "wait"
         /\ \A c \in Owned(t) : c \in waiting[t] \/ child[c] = "reaped"
    /\ pc[t] = "done" => waiting[t] = {}

USE OwnerAssumption DEF OwnerAssumption

-----------------------------------------------------------------------------
LEMMA TypesStart == ASSUME Init PROVE TypeOK
<1>1. pipe \in Threads \cup {NoPipe} /\ disposition \in {"host", "jsl"}
        /\ prevAction \in {"none", "host", "jsl"}
  BY PreinstalledAssumption DEF Init, PreinstalledAssumption
<1> QED
  BY <1>1 DEF Init, TypeOK, ChildStates, Locations

LEMMA TypesKept == ASSUME TypeOK, [Next]_vars PROVE TypeOK'
<1> USE DEF TypeOK, ChildStates, Locations, WaitLocations, Goto
<1>1. ASSUME NEW c \in Children, Exit(c) PROVE TypeOK'
  BY <1>1 DEF Exit, globals, locals
<1>2. ASSUME NEW t \in Threads, Deliver(t) PROVE TypeOK'
  <2>1. byte' \in [Threads -> BOOLEAN]
    BY <1>2 DEF Deliver
  <2>2. child' \in [Children -> ChildStates]
    BY <1>2 DEF Deliver
  <2> QED
    BY <1>2, <2>1, <2>2 DEF Deliver
<1>3. ASSUME NEW t \in Threads, EnsureFails(t) PROVE TypeOK'
  BY <1>3 DEF EnsureFails, kernel, globals
<1>4. ASSUME NEW t \in Threads, PollOtherFd(t) PROVE TypeOK'
  BY <1>4 DEF PollOtherFd, kernel, globals
<1>5. ASSUME NEW t \in Threads, Ensure(t) PROVE TypeOK'
  <2>1. CASE EnsureAlreadyInstalled(t)
    BY <2>1 DEF EnsureAlreadyInstalled, AfterEnsure, EnterReap, Owned, kernel, globals
  <2>2. CASE EnsurePipeCreated(t)
    BY <2>2 DEF EnsurePipeCreated, kernel, globals
  <2>3. CASE EnsureSigaction(t)
    BY <2>3 DEF EnsureSigaction
  <2>4. CASE EnsurePublish(t)
    BY <2>4 DEF EnsurePublish, AfterEnsure, EnterReap, Owned, kernel
  <2> QED
    BY <1>5, <2>1, <2>2, <2>3, <2>4 DEF Ensure
<1>6. ASSUME NEW t \in Threads, BackgroundStart(t) \/ BackgroundWait(t) PROVE TypeOK'
  BY <1>6 DEF BackgroundStart, BackgroundWait, kernel, globals
<1>7. ASSUME NEW t \in Threads, NEW c \in Children, Spawn(t, c) PROVE TypeOK'
  BY <1>7 DEF Spawn, globals
<1>8. ASSUME NEW t \in Threads, WaitStep(t) PROVE TypeOK'
  <2>1. ASSUME NEW c \in Children, ReapNohang(t, c) PROVE TypeOK'
    BY <2>1 DEF ReapNohang, globals
  <2>2. CASE LoopAgain(t)
    BY <2>2 DEF LoopAgain, kernel, globals
  <2>3. CASE PollSelfPipe(t)
    BY <2>3 DEF PollSelfPipe, kernel, globals
  <2>4. CASE Drain(t)
    BY <2>4 DEF Drain, kernel
  <2> QED
    BY <1>8, <2>1, <2>2, <2>3, <2>4 DEF WaitStep
<1>9. CASE UNCHANGED vars
  BY <1>9 DEF vars, kernel, globals, locals
<1> QED
  BY <1>1, <1>2, <1>3, <1>4, <1>5, <1>6, <1>7, <1>8, <1>9 DEF Next, ThreadStep, Terminated

(* Every variable keeps its type, for every set of threads and children. *)
THEOREM TypeCorrect == Spec => []TypeOK
<1>1. Init => TypeOK
  BY TypesStart
<1>2. TypeOK /\ [Next]_vars => TypeOK'
  BY TypesKept
<1> QED
  BY <1>1, <1>2, PTL DEF Spec

-----------------------------------------------------------------------------
LEMMA InstallInvInductive ==
  ASSUME SingleThread, TypeOK, InstallInv, [Next]_vars
  PROVE  InstallInv'
<1> USE DEF TypeOK, InstallInv, Locations, WaitLocations, Goto, SingleThread
<1>1. ASSUME NEW c \in Children, Exit(c) PROVE InstallInv'
  BY <1>1 DEF Exit, globals, locals
<1>2. ASSUME NEW t \in Threads, Deliver(t) PROVE InstallInv'
  BY <1>2 DEF Deliver
<1>3. ASSUME NEW t \in Threads, EnsureFails(t) PROVE InstallInv'
  BY <1>3 DEF EnsureFails, kernel, globals
<1>4. ASSUME NEW t \in Threads, PollOtherFd(t) PROVE InstallInv'
  BY <1>4 DEF PollOtherFd, kernel, globals
<1>5. ASSUME NEW t \in Threads, Ensure(t) PROVE InstallInv'
  <2>1. CASE EnsureAlreadyInstalled(t)
    BY <2>1 DEF EnsureAlreadyInstalled, AfterEnsure, kernel, globals
  <2>2. CASE EnsurePipeCreated(t)
    BY <2>2 DEF EnsurePipeCreated, kernel, globals
  <2>3. CASE EnsureSigaction(t)
    BY <2>3 DEF EnsureSigaction
  <2>4. CASE EnsurePublish(t)
    BY <2>4, NoPipeAssumption DEF EnsurePublish, AfterEnsure, kernel, NoPipeAssumption
  <2> QED
    BY <1>5, <2>1, <2>2, <2>3, <2>4 DEF Ensure
<1>6. ASSUME NEW t \in Threads, BackgroundStart(t) \/ BackgroundWait(t) PROVE InstallInv'
  BY <1>6 DEF BackgroundStart, BackgroundWait, kernel, globals
<1>7. ASSUME NEW t \in Threads, NEW c \in Children, Spawn(t, c) PROVE InstallInv'
  BY <1>7 DEF Spawn, globals
<1>8. ASSUME NEW t \in Threads, WaitStep(t) PROVE InstallInv'
  BY <1>8 DEF WaitStep, ReapNohang, LoopAgain, PollSelfPipe, Drain, kernel, globals
<1>9. CASE UNCHANGED vars
  BY <1>9 DEF vars, kernel, globals, locals
<1> QED
  BY <1>1, <1>2, <1>3, <1>4, <1>5, <1>6, <1>7, <1>8, <1>9 DEF Next, ThreadStep, Terminated

(* The saved signal action is never the library's own handler, so the chain *)
(* in jsl__sigchld_handler ends, as long as one thread uses the API.         *)
THEOREM ChainSafe == ASSUME SingleThread PROVE Spec => []ChainReachesHost
<1>1. Init => InstallInv
  BY DEF Init, InstallInv, WaitLocations
<1>2. SingleThread
  OBVIOUS
<1>3. TypeOK /\ InstallInv /\ [Next]_vars => InstallInv'
  BY InstallInvInductive, <1>2
<1>4. InstallInv => ChainReachesHost
  BY DEF InstallInv, ChainReachesHost
<1> QED
  BY <1>1, <1>3, <1>4, TypeCorrect, PTL DEF Spec

-----------------------------------------------------------------------------
LEMMA WakeupInvInductive ==
  ASSUME SingleThread, TypeOK, InstallInv, InstallInv', WakeupInv, [Next]_vars
  PROVE  WakeupInv'
<1> USE DEF TypeOK, WakeupInv, Locations, WaitLocations, Goto, SingleThread
<1>1. ASSUME NEW c \in Children, Exit(c) PROVE WakeupInv'
  BY <1>1 DEF Exit, globals, locals
<1>2. ASSUME NEW t \in Threads, Deliver(t) PROVE WakeupInv'
  BY <1>2 DEF Deliver, InstallInv
<1>3. ASSUME NEW t \in Threads, EnsureFails(t) PROVE WakeupInv'
  BY <1>3 DEF EnsureFails, kernel, globals
<1>4. ASSUME NEW t \in Threads, PollOtherFd(t) PROVE WakeupInv'
  BY <1>4 DEF PollOtherFd, kernel, globals
<1>5. ASSUME NEW t \in Threads, Ensure(t) PROVE WakeupInv'
  <2>1. CASE EnsureAlreadyInstalled(t)
    BY <2>1 DEF EnsureAlreadyInstalled, AfterEnsure, EnterReap, Owned, kernel, globals
  <2>2. CASE EnsurePipeCreated(t)
    BY <2>2 DEF EnsurePipeCreated, kernel, globals
  <2>3. CASE EnsureSigaction(t)
    BY <2>3 DEF EnsureSigaction
  <2>4. CASE EnsurePublish(t)
    BY <2>4 DEF EnsurePublish, AfterEnsure, EnterReap, Owned, kernel
  <2> QED
    BY <1>5, <2>1, <2>2, <2>3, <2>4 DEF Ensure
<1>6. ASSUME NEW t \in Threads, BackgroundStart(t) \/ BackgroundWait(t) PROVE WakeupInv'
  BY <1>6 DEF BackgroundStart, BackgroundWait, kernel, globals
<1>7. ASSUME NEW t \in Threads, NEW c \in Children, Spawn(t, c) PROVE WakeupInv'
  BY <1>7 DEF Spawn, globals
<1>8. ASSUME NEW t \in Threads, WaitStep(t) PROVE WakeupInv'
  <2>1. ASSUME NEW c \in Children, ReapNohang(t, c) PROVE WakeupInv'
    BY <2>1 DEF ReapNohang, globals
  <2>2. CASE LoopAgain(t)
    BY <2>2 DEF LoopAgain, kernel, globals
  <2>3. CASE PollSelfPipe(t)
    BY <2>3 DEF PollSelfPipe, kernel, globals
  <2>4. CASE Drain(t)
    BY <2>4 DEF Drain, kernel
  <2> QED
    BY <1>8, <2>1, <2>2, <2>3, <2>4 DEF WaitStep
<1>9. CASE UNCHANGED vars
  BY <1>9 DEF vars, kernel, globals, locals
<1> QED
  BY <1>1, <1>2, <1>3, <1>4, <1>5, <1>6, <1>7, <1>8, <1>9 DEF Next, ThreadStep, Terminated

(* No wake-up is lost: a thread in poll() with a dead child on its list has *)
(* a byte or a signal coming, for any number of children, as long as one    *)
(* thread uses the API.                                                     *)
THEOREM WakeupSafe == ASSUME SingleThread PROVE Spec => []NoLostWakeup
<1>1. Init => InstallInv /\ WakeupInv
  BY DEF Init, InstallInv, WakeupInv, WaitLocations
<1>2. SingleThread
  OBVIOUS
<1>3. TypeOK /\ InstallInv /\ [Next]_vars => InstallInv'
  BY InstallInvInductive, <1>2
<1>4. TypeOK /\ InstallInv /\ InstallInv' /\ WakeupInv /\ [Next]_vars => WakeupInv'
  BY WakeupInvInductive, <1>2
<1>5. InstallInv /\ WakeupInv => NoLostWakeup
  BY DEF InstallInv, WakeupInv, NoLostWakeup, WaitLocations
<1> QED
  BY <1>1, <1>3, <1>4, <1>5, TypeCorrect, PTL DEF Spec

-----------------------------------------------------------------------------
LEMMA ReapInvInductive ==
  ASSUME TypeOK, ReapInv, [Next]_vars
  PROVE  ReapInv'
<1> USE DEF TypeOK, ReapInv, Locations, WaitLocations, Goto, Owned, Unborn
<1>1. ASSUME NEW c \in Children, Exit(c) PROVE ReapInv'
  BY <1>1 DEF Exit, globals, locals
<1>2. ASSUME NEW t \in Threads, Deliver(t) PROVE ReapInv'
  BY <1>2 DEF Deliver
<1>3. ASSUME NEW t \in Threads, EnsureFails(t) PROVE ReapInv'
  BY <1>3 DEF EnsureFails, kernel, globals
<1>4. ASSUME NEW t \in Threads, PollOtherFd(t) PROVE ReapInv'
  BY <1>4 DEF PollOtherFd, kernel, globals
<1>5. ASSUME NEW t \in Threads, Ensure(t) PROVE ReapInv'
  <2>1. CASE EnsureAlreadyInstalled(t)
    BY <2>1 DEF EnsureAlreadyInstalled, AfterEnsure, EnterReap, kernel, globals
  <2>2. CASE EnsurePipeCreated(t)
    BY <2>2 DEF EnsurePipeCreated, kernel, globals
  <2>3. CASE EnsureSigaction(t)
    BY <2>3 DEF EnsureSigaction
  <2>4. CASE EnsurePublish(t)
    BY <2>4 DEF EnsurePublish, AfterEnsure, EnterReap, kernel
  <2> QED
    BY <1>5, <2>1, <2>2, <2>3, <2>4 DEF Ensure
<1>6. ASSUME NEW t \in Threads, BackgroundStart(t) \/ BackgroundWait(t) PROVE ReapInv'
  BY <1>6 DEF BackgroundStart, BackgroundWait, kernel, globals
<1>7. ASSUME NEW t \in Threads, NEW c \in Children, Spawn(t, c) PROVE ReapInv'
  BY <1>7 DEF Spawn, globals
<1>8. ASSUME NEW t \in Threads, WaitStep(t) PROVE ReapInv'
  <2>1. ASSUME NEW c \in Children, ReapNohang(t, c) PROVE ReapInv'
    BY <2>1 DEF ReapNohang, globals
  <2>2. CASE LoopAgain(t)
    BY <2>2 DEF LoopAgain, kernel, globals
  <2>3. CASE PollSelfPipe(t)
    BY <2>3 DEF PollSelfPipe, kernel, globals
  <2>4. CASE Drain(t)
    BY <2>4 DEF Drain, kernel
  <2> QED
    BY <1>8, <2>1, <2>2, <2>3, <2>4 DEF WaitStep
<1>9. CASE UNCHANGED vars
  BY <1>9 DEF vars, kernel, globals, locals
<1> QED
  BY <1>1, <1>2, <1>3, <1>4, <1>5, <1>6, <1>7, <1>8, <1>9 DEF Next, ThreadStep, Terminated

(* A wait that returns has collected every child of its thread, for any      *)
(* number of threads and children.                                           *)
THEOREM ReapSafe == Spec => []DoneMeansReaped
<1>1. Init => ReapInv
  BY DEF Init, ReapInv, WaitLocations
<1>2. TypeOK /\ ReapInv /\ [Next]_vars => ReapInv'
  BY ReapInvInductive
<1>3. ReapInv => DoneMeansReaped
  BY DEF ReapInv, DoneMeansReaped
<1> QED
  BY <1>1, <1>2, <1>3, TypeCorrect, PTL DEF Spec

-----------------------------------------------------------------------------
BatchProofs == INSTANCE SubprocessBatchProofs
  WITH N <- Asked.count, MaxParallel <- Asked.parallel, Timeouts <- Asked.timeouts,
       Feeds <- Asked.feeds, Captures <- Asked.captures, InputLen <- Asked.input,
       OutputLen <- Asked.output, PipeCap <- Asked.pipe, IoErrors <- Asked.errors,
       Cooperative <- Asked.cooperative,
       os <- b_os, inPipe <- b_inPipe, received <- b_received,
       readsStdin <- b_readsStdin, sawEof <- b_sawEof, holders <- b_holders,
       outPipe <- b_outPipe, produced <- b_produced, killed <- b_killed,
       selfPipe <- b_selfPipe, timeout <- b_timeout, expired <- b_expired,
       status <- b_status, stdinFd <- b_stdinFd, offset <- b_offset,
       readFd <- b_readFd, sunk <- b_sunk, lastErrno <- b_lastErrno,
       pc <- b_pc, i <- b_i, mode <- b_mode, ready <- b_ready,
       liveCount <- b_liveCount, nextToSpawn <- b_nextToSpawn,
       anySpawnFailed <- b_anySpawnFailed, anyIoFailed <- b_anyIoFailed,
       timeoutReached <- b_timeoutReached, waitFailed <- b_waitFailed,
       result <- b_result

WavesProofs == INSTANCE SubprocessBatchProofs
  WITH N <- AskedOfWaves.count, MaxParallel <- AskedOfWaves.parallel, Timeouts <- AskedOfWaves.timeouts,
       Feeds <- AskedOfWaves.feeds, Captures <- AskedOfWaves.captures, InputLen <- AskedOfWaves.input,
       OutputLen <- AskedOfWaves.output, PipeCap <- AskedOfWaves.pipe, IoErrors <- AskedOfWaves.errors,
       Cooperative <- AskedOfWaves.cooperative,
       os <- w_os, inPipe <- w_inPipe, received <- w_received,
       readsStdin <- w_readsStdin, sawEof <- w_sawEof, holders <- w_holders,
       outPipe <- w_outPipe, produced <- w_produced, killed <- w_killed,
       selfPipe <- w_selfPipe, timeout <- w_timeout, expired <- w_expired,
       status <- w_status, stdinFd <- w_stdinFd, offset <- w_offset,
       readFd <- w_readFd, sunk <- w_sunk, lastErrno <- w_lastErrno,
       pc <- w_pc, i <- w_i, mode <- w_mode, ready <- w_ready,
       liveCount <- w_liveCount, nextToSpawn <- w_nextToSpawn,
       anySpawnFailed <- w_anySpawnFailed, anyIoFailed <- w_anyIoFailed,
       timeoutReached <- w_timeoutReached, waitFailed <- w_waitFailed,
       result <- w_result

-----------------------------------------------------------------------------
(* The proofs are about the steps and the properties of this instance.      *)
LEMMA BatchSteps == Batch!Next <=> BatchProofs!Next
BY DEF
       Batch!Next, Batch!CallStep, Batch!Spawn, Batch!SpawnFails, Batch!FillDone,
       Batch!Poll, Batch!PumpProc, Batch!NextProc, Batch!StillRunning, Batch!Reap,
       Batch!Check, Batch!Finish, Batch!KillPoll, Batch!KillDone, Batch!Close,
       Batch!PollFails, Batch!ChildStep, Batch!ChildReads, Batch!ChildSeesEof,
       Batch!ChildClosesStdin, Batch!ChildWrites, Batch!ChildExits, Batch!ChildKilled,
       Batch!Dies, Batch!DeadlinePasses, Batch!Returned, Batch!MayFill,
       Batch!InheritedBy, Batch!StdinReady, Batch!Running, Batch!Least, Batch!PumpStdin,
       Batch!PumpOutput, Batch!OpenStreams, Batch!ReadFailures, Batch!WriteFailures,
       Batch!OutputReady, Batch!AllDone, Batch!DeadlineHit, Batch!ResultCode,
       Batch!Spawned, Batch!StdinWriters, Batch!vars, Batch!childVars, Batch!clock,
       Batch!kernelVars, Batch!procVars, Batch!flags, Batch!control, Batch!Procs,
       Batch!Streams, Batch!Zombie, Batch!Terminal,
       BatchProofs!Next, BatchProofs!CallStep, BatchProofs!Spawn,
       BatchProofs!SpawnFails, BatchProofs!FillDone, BatchProofs!Poll,
       BatchProofs!PumpProc, BatchProofs!NextProc, BatchProofs!StillRunning,
       BatchProofs!Reap, BatchProofs!Check, BatchProofs!Finish, BatchProofs!KillPoll,
       BatchProofs!KillDone, BatchProofs!Close, BatchProofs!PollFails,
       BatchProofs!ChildStep, BatchProofs!ChildReads, BatchProofs!ChildSeesEof,
       BatchProofs!ChildClosesStdin, BatchProofs!ChildWrites, BatchProofs!ChildExits,
       BatchProofs!ChildKilled, BatchProofs!Dies, BatchProofs!DeadlinePasses,
       BatchProofs!Returned, BatchProofs!MayFill, BatchProofs!InheritedBy,
       BatchProofs!StdinReady, BatchProofs!Running, BatchProofs!Least,
       BatchProofs!PumpStdin, BatchProofs!PumpOutput, BatchProofs!OpenStreams,
       BatchProofs!ReadFailures, BatchProofs!WriteFailures, BatchProofs!OutputReady,
       BatchProofs!AllDone, BatchProofs!DeadlineHit, BatchProofs!ResultCode,
       BatchProofs!Spawned, BatchProofs!StdinWriters, BatchProofs!vars,
       BatchProofs!childVars, BatchProofs!clock, BatchProofs!kernelVars,
       BatchProofs!procVars, BatchProofs!flags, BatchProofs!control, BatchProofs!Procs,
       BatchProofs!Streams, BatchProofs!Zombie, BatchProofs!Terminal

LEMMA BatchProperties ==
  /\ Batch!Configuration <=> BatchProofs!Configuration
  /\ Batch!Untouched <=> BatchProofs!Untouched
  /\ Batch!TypeOK <=> BatchProofs!TypeOK
  /\ Batch!LiveCountExact <=> BatchProofs!LiveCountExact
  /\ Batch!OutputComplete <=> BatchProofs!OutputComplete
  /\ Batch!EofAfterWholeInput <=> BatchProofs!EofAfterWholeInput
  /\ Batch!ReturnContract <=> BatchProofs!ReturnContract
<1>1. Batch!Configuration <=> BatchProofs!Configuration
  BY DEF Batch!Configuration, Batch!Procs, Batch!Streams, BatchProofs!Configuration,
         BatchProofs!Procs, BatchProofs!Streams
<1>2. Batch!Untouched <=> BatchProofs!Untouched
  BY DEF Batch!Untouched, Batch!Everywhere, Batch!Procs, Batch!Streams,
         BatchProofs!Untouched, BatchProofs!Everywhere, BatchProofs!Procs,
         BatchProofs!Streams
<1>3. Batch!TypeOK <=> BatchProofs!TypeOK
  BY DEF Batch!TypeOK, Batch!PerStream, Batch!Procs, Batch!Streams, Batch!Zombie,
         Batch!Terminal, BatchProofs!TypeOK, BatchProofs!PerStream, BatchProofs!Procs,
         BatchProofs!Streams, BatchProofs!Zombie, BatchProofs!Terminal
<1>4. Batch!LiveCountExact <=> BatchProofs!LiveCountExact
  <2>1. \A S : Batch!Cardinality(S) = BatchProofs!Cardinality(S)
    BY DEF Batch!Cardinality, BatchProofs!Cardinality
  <2>2. Batch!Running = BatchProofs!Running /\ Batch!Procs = BatchProofs!Procs
    BY DEF Batch!Running, BatchProofs!Running, Batch!Procs, BatchProofs!Procs
  <2> QED
    BY <2>1, <2>2
    DEF Batch!LiveCountExact, Batch!Zombie, BatchProofs!LiveCountExact, BatchProofs!Zombie
<1>5. Batch!OutputComplete <=> BatchProofs!OutputComplete
  BY DEF Batch!OutputComplete, Batch!Terminal, Batch!Procs, BatchProofs!OutputComplete,
         BatchProofs!Terminal, BatchProofs!Procs
<1>6. Batch!EofAfterWholeInput <=> BatchProofs!EofAfterWholeInput
  BY DEF Batch!EofAfterWholeInput, Batch!Procs, BatchProofs!EofAfterWholeInput,
         BatchProofs!Procs
<1>7. Batch!ReturnContract <=> BatchProofs!ReturnContract
  BY DEF Batch!ReturnContract, Batch!Spawned, Batch!OpenStreams, Batch!Terminal,
         Batch!Procs, Batch!Streams, BatchProofs!ReturnContract, BatchProofs!Spawned,
         BatchProofs!OpenStreams, BatchProofs!Terminal, BatchProofs!Procs,
         BatchProofs!Streams
<1> QED
  BY <1>1, <1>2, <1>3, <1>4, <1>5, <1>6, <1>7

(* The proofs are about the steps and the properties of this instance.      *)
LEMMA WavesSteps == Waves!Next <=> WavesProofs!Next
BY DEF
       Waves!Next, Waves!CallStep, Waves!Spawn, Waves!SpawnFails, Waves!FillDone,
       Waves!Poll, Waves!PumpProc, Waves!NextProc, Waves!StillRunning, Waves!Reap,
       Waves!Check, Waves!Finish, Waves!KillPoll, Waves!KillDone, Waves!Close,
       Waves!PollFails, Waves!ChildStep, Waves!ChildReads, Waves!ChildSeesEof,
       Waves!ChildClosesStdin, Waves!ChildWrites, Waves!ChildExits, Waves!ChildKilled,
       Waves!Dies, Waves!DeadlinePasses, Waves!Returned, Waves!MayFill,
       Waves!InheritedBy, Waves!StdinReady, Waves!Running, Waves!Least, Waves!PumpStdin,
       Waves!PumpOutput, Waves!OpenStreams, Waves!ReadFailures, Waves!WriteFailures,
       Waves!OutputReady, Waves!AllDone, Waves!DeadlineHit, Waves!ResultCode,
       Waves!Spawned, Waves!StdinWriters, Waves!vars, Waves!childVars, Waves!clock,
       Waves!kernelVars, Waves!procVars, Waves!flags, Waves!control, Waves!Procs,
       Waves!Streams, Waves!Zombie, Waves!Terminal,
       WavesProofs!Next, WavesProofs!CallStep, WavesProofs!Spawn,
       WavesProofs!SpawnFails, WavesProofs!FillDone, WavesProofs!Poll,
       WavesProofs!PumpProc, WavesProofs!NextProc, WavesProofs!StillRunning,
       WavesProofs!Reap, WavesProofs!Check, WavesProofs!Finish, WavesProofs!KillPoll,
       WavesProofs!KillDone, WavesProofs!Close, WavesProofs!PollFails,
       WavesProofs!ChildStep, WavesProofs!ChildReads, WavesProofs!ChildSeesEof,
       WavesProofs!ChildClosesStdin, WavesProofs!ChildWrites, WavesProofs!ChildExits,
       WavesProofs!ChildKilled, WavesProofs!Dies, WavesProofs!DeadlinePasses,
       WavesProofs!Returned, WavesProofs!MayFill, WavesProofs!InheritedBy,
       WavesProofs!StdinReady, WavesProofs!Running, WavesProofs!Least,
       WavesProofs!PumpStdin, WavesProofs!PumpOutput, WavesProofs!OpenStreams,
       WavesProofs!ReadFailures, WavesProofs!WriteFailures, WavesProofs!OutputReady,
       WavesProofs!AllDone, WavesProofs!DeadlineHit, WavesProofs!ResultCode,
       WavesProofs!Spawned, WavesProofs!StdinWriters, WavesProofs!vars,
       WavesProofs!childVars, WavesProofs!clock, WavesProofs!kernelVars,
       WavesProofs!procVars, WavesProofs!flags, WavesProofs!control, WavesProofs!Procs,
       WavesProofs!Streams, WavesProofs!Zombie, WavesProofs!Terminal

LEMMA WavesProperties ==
  /\ Waves!Configuration <=> WavesProofs!Configuration
  /\ Waves!Untouched <=> WavesProofs!Untouched
  /\ Waves!TypeOK <=> WavesProofs!TypeOK
  /\ Waves!LiveCountExact <=> WavesProofs!LiveCountExact
  /\ Waves!OutputComplete <=> WavesProofs!OutputComplete
  /\ Waves!EofAfterWholeInput <=> WavesProofs!EofAfterWholeInput
  /\ Waves!ReturnContract <=> WavesProofs!ReturnContract
<1>1. Waves!Configuration <=> WavesProofs!Configuration
  BY DEF Waves!Configuration, Waves!Procs, Waves!Streams, WavesProofs!Configuration,
         WavesProofs!Procs, WavesProofs!Streams
<1>2. Waves!Untouched <=> WavesProofs!Untouched
  BY DEF Waves!Untouched, Waves!Everywhere, Waves!Procs, Waves!Streams,
         WavesProofs!Untouched, WavesProofs!Everywhere, WavesProofs!Procs,
         WavesProofs!Streams
<1>3. Waves!TypeOK <=> WavesProofs!TypeOK
  BY DEF Waves!TypeOK, Waves!PerStream, Waves!Procs, Waves!Streams, Waves!Zombie,
         Waves!Terminal, WavesProofs!TypeOK, WavesProofs!PerStream, WavesProofs!Procs,
         WavesProofs!Streams, WavesProofs!Zombie, WavesProofs!Terminal
<1>4. Waves!LiveCountExact <=> WavesProofs!LiveCountExact
  <2>1. \A S : Waves!Cardinality(S) = WavesProofs!Cardinality(S)
    BY DEF Waves!Cardinality, WavesProofs!Cardinality
  <2>2. Waves!Running = WavesProofs!Running /\ Waves!Procs = WavesProofs!Procs
    BY DEF Waves!Running, WavesProofs!Running, Waves!Procs, WavesProofs!Procs
  <2> QED
    BY <2>1, <2>2
    DEF Waves!LiveCountExact, Waves!Zombie, WavesProofs!LiveCountExact, WavesProofs!Zombie
<1>5. Waves!OutputComplete <=> WavesProofs!OutputComplete
  BY DEF Waves!OutputComplete, Waves!Terminal, Waves!Procs, WavesProofs!OutputComplete,
         WavesProofs!Terminal, WavesProofs!Procs
<1>6. Waves!EofAfterWholeInput <=> WavesProofs!EofAfterWholeInput
  BY DEF Waves!EofAfterWholeInput, Waves!Procs, WavesProofs!EofAfterWholeInput,
         WavesProofs!Procs
<1>7. Waves!ReturnContract <=> WavesProofs!ReturnContract
  BY DEF Waves!ReturnContract, Waves!Spawned, Waves!OpenStreams, Waves!Terminal,
         Waves!Procs, Waves!Streams, WavesProofs!ReturnContract, WavesProofs!Spawned,
         WavesProofs!OpenStreams, WavesProofs!Terminal, WavesProofs!Procs,
         WavesProofs!Streams
<1> QED
  BY <1>1, <1>2, <1>3, <1>4, <1>5, <1>6, <1>7

-----------------------------------------------------------------------------
(* A batch keeps its invariant while it runs; before and beside the run of  *)
(* another part it stands where nothing was started.                        *)
BatchPart ==
  IF running = "batch" THEN BatchProofs!BatchInv ELSE Batch!Untouched /\ b_pc = "done"

WavesPart ==
  IF running = "waves" THEN WavesProofs!BatchInv ELSE Waves!Untouched /\ w_pc = "done"

LEMMA BatchPartStarts == ASSUME InitAny PROVE BatchPart
<1>1. CASE running = "batch"
  <2>1. BatchProofs!Init
    BY <1>1, BatchProperties DEF InitAny, BatchProofs!Init
  <2> QED
    BY <1>1, <2>1, Instances, BatchProperties, BatchProofs!InvStarts DEF BatchPart
<1>2. CASE running # "batch"
  BY <1>2 DEF InitAny, BatchPart
<1> QED
  BY <1>1, <1>2

LEMMA BatchPartKept == ASSUME BatchPart, [NextAny]_allVars PROVE BatchPart'
<1>1. running' = running
  BY DEF NextAny, allVars
<1>2. CASE running = "batch"
  <2>1. BatchProofs!Next \/ UNCHANGED batchVars
    BY <1>2, BatchSteps DEF NextAny, allVars
  <2>2. [BatchProofs!Next]_(BatchProofs!vars)
    BY <2>1 DEF batchVars, BatchProofs!vars, BatchProofs!childVars, BatchProofs!kernelVars, BatchProofs!clock,
                BatchProofs!procVars, BatchProofs!flags, BatchProofs!control
  <2> QED
    BY <1>1, <1>2, <2>2, Instances, BatchProperties, BatchProofs!InvKept DEF BatchPart
<1>3. CASE running # "batch"
  <2>1. UNCHANGED batchVars
    BY <1>3 DEF NextAny, allVars
  <2>2. Batch!Untouched' /\ b_pc' = "done"
    BY <1>3, <2>1 DEF batchVars, BatchPart, Batch!Untouched, Batch!Everywhere
  <2> QED
    BY <1>1, <1>3, <2>2 DEF BatchPart
<1> QED
  BY <1>2, <1>3

LEMMA BatchPartSound ==
  ASSUME BatchPart
  PROVE  /\ Batch!TypeOK /\ Batch!LiveCountExact /\ Batch!OutputComplete /\ Batch!EofAfterWholeInput
         /\ running = "batch" => Batch!ReturnContract
<1>1. BatchProofs!Configuration
  BY Instances, BatchProperties
<1>2. /\ BatchProofs!TypeOK /\ BatchProofs!StatusInv /\ BatchProofs!SlotInv /\ BatchProofs!InputInv /\ BatchProofs!StreamInv
      /\ running = "batch" => BatchProofs!BatchInv
  <2>1. CASE running = "batch"
    BY <2>1 DEF BatchPart, BatchProofs!BatchInv
  <2>2. CASE running # "batch"
    BY <1>1, <2>2, BatchProperties, BatchProofs!UntouchedIsSound DEF BatchPart
  <2> QED
    BY <2>1, <2>2
<1>3. BatchProofs!LiveCountExact
  BY <1>2, BatchProofs!SlotsFollow
<1>4. BatchProofs!OutputComplete /\ BatchProofs!EofAfterWholeInput
  BY <1>1, <1>2, BatchProofs!StreamsFollow
<1>5. running = "batch" => BatchProofs!ReturnContract
  BY <1>1, <1>2, BatchProofs!ReturnFollows
<1> QED
  BY <1>2, <1>3, <1>4, <1>5, BatchProperties

LEMMA WavesPartStarts == ASSUME InitAny PROVE WavesPart
<1>1. CASE running = "waves"
  <2>1. WavesProofs!Init
    BY <1>1, WavesProperties DEF InitAny, WavesProofs!Init
  <2> QED
    BY <1>1, <2>1, Instances, WavesProperties, WavesProofs!InvStarts DEF WavesPart
<1>2. CASE running # "waves"
  BY <1>2 DEF InitAny, WavesPart
<1> QED
  BY <1>1, <1>2

LEMMA WavesPartKept == ASSUME WavesPart, [NextAny]_allVars PROVE WavesPart'
<1>1. running' = running
  BY DEF NextAny, allVars
<1>2. CASE running = "waves"
  <2>1. WavesProofs!Next \/ UNCHANGED wavesVars
    BY <1>2, WavesSteps DEF NextAny, allVars
  <2>2. [WavesProofs!Next]_(WavesProofs!vars)
    BY <2>1 DEF wavesVars, WavesProofs!vars, WavesProofs!childVars, WavesProofs!kernelVars, WavesProofs!clock,
                WavesProofs!procVars, WavesProofs!flags, WavesProofs!control
  <2> QED
    BY <1>1, <1>2, <2>2, Instances, WavesProperties, WavesProofs!InvKept DEF WavesPart
<1>3. CASE running # "waves"
  <2>1. UNCHANGED wavesVars
    BY <1>3 DEF NextAny, allVars
  <2>2. Waves!Untouched' /\ w_pc' = "done"
    BY <1>3, <2>1 DEF wavesVars, WavesPart, Waves!Untouched, Waves!Everywhere
  <2> QED
    BY <1>1, <1>3, <2>2 DEF WavesPart
<1> QED
  BY <1>2, <1>3

LEMMA WavesPartSound ==
  ASSUME WavesPart
  PROVE  /\ Waves!TypeOK /\ Waves!LiveCountExact /\ Waves!OutputComplete /\ Waves!EofAfterWholeInput
         /\ running = "waves" => Waves!ReturnContract
<1>1. WavesProofs!Configuration
  BY Instances, WavesProperties
<1>2. /\ WavesProofs!TypeOK /\ WavesProofs!StatusInv /\ WavesProofs!SlotInv /\ WavesProofs!InputInv /\ WavesProofs!StreamInv
      /\ running = "waves" => WavesProofs!BatchInv
  <2>1. CASE running = "waves"
    BY <2>1 DEF WavesPart, WavesProofs!BatchInv
  <2>2. CASE running # "waves"
    BY <1>1, <2>2, WavesProperties, WavesProofs!UntouchedIsSound DEF WavesPart
  <2> QED
    BY <2>1, <2>2
<1>3. WavesProofs!LiveCountExact
  BY <1>2, WavesProofs!SlotsFollow
<1>4. WavesProofs!OutputComplete /\ WavesProofs!EofAfterWholeInput
  BY <1>1, <1>2, WavesProofs!StreamsFollow
<1>5. running = "waves" => WavesProofs!ReturnContract
  BY <1>1, <1>2, WavesProofs!ReturnFollows
<1> QED
  BY <1>2, <1>3, <1>4, <1>5, WavesProperties

-----------------------------------------------------------------------------
PosixInv == TypeOK /\ BatchPart /\ WavesPart

LEMMA PosixInvariant == SpecAny => []PosixInv
<1>1. InitAny => PosixInv
  BY TypesStart, BatchPartStarts, WavesPartStarts DEF InitAny, PosixInv
<1>2. PosixInv /\ [NextAny]_allVars => PosixInv'
  <2>1. [NextAny]_allVars => [Next]_vars
    BY DEF NextAny, allVars
  <2> QED
    BY <2>1, TypesKept, BatchPartKept, WavesPartKept DEF PosixInv
<1> QED
  BY <1>1, <1>2, PTL DEF SpecAny

(* The types of the self-pipe and of both batches.                          *)
THEOREM PosixTypesCorrect == SpecAny => []TypesOK
<1>1. PosixInv => TypesOK
  BY BatchPartSound, WavesPartSound DEF PosixInv, TypesOK
<1> QED
  BY <1>1, PosixInvariant, PTL

(* In the loop and in the waves live_count is the number of children.       *)
THEOREM PosixSlotsSafe == SpecAny => []SlotsExact
<1>1. PosixInv => SlotsExact
  BY BatchPartSound, WavesPartSound DEF PosixInv, SlotsExact
<1> QED
  BY <1>1, PosixInvariant, PTL

(* No chunk is lost on its way to or from a child of a batch.               *)
THEOREM PosixStreamsSafe == SpecAny => []StreamsComplete
<1>1. PosixInv => StreamsComplete
  BY BatchPartSound DEF PosixInv, StreamsComplete
<1> QED
  BY <1>1, PosixInvariant, PTL

(* The result of a batch means what os.h says of it.                        *)
THEOREM PosixReturnsSafe == SpecAny => []ReturnContracts
<1>1. PosixInv => ReturnContracts
  BY BatchPartSound, WavesPartSound DEF PosixInv, ReturnContracts
<1> QED
  BY <1>1, PosixInvariant, PTL
==============================================================================
