------------------------ MODULE BackgroundRunsProofs ------------------------
(***************************************************************************)
(* What the run of MCSubprocessBackground checks of two POSIX handles and  *)
(* of the Windows code holds for any handles and any clients: the proofs   *)
(* of SubprocessBackground and of SubprocessWindows, carried over to the   *)
(* two instances.                                                          *)
(***************************************************************************)
EXTENDS MCSubprocessBackground, TLAPS

PairProofs == INSTANCE SubprocessBackgroundProofs
  WITH N <- Paired.count, Feeds <- Paired.feeds, Captures <- Paired.captures,
       InputLen <- Paired.input, OutputLen <- Paired.output, PipeCap <- Paired.pipe,
       Arrays <- Paired.arrays, IoErrors <- Paired.errors,
       HostReaps <- Paired.hostReaps, Interrupts <- Paired.interrupts, Calls <- Paired.calls,
       os <- w_os, inPipe <- w_inPipe, readsStdin <- w_readsStdin,
       sawEof <- w_sawEof, holders <- w_holders, outPipe <- w_outPipe,
       produced <- w_produced, killed <- w_killed, selfPipe <- w_selfPipe,
       expired <- w_expired, interrupted <- w_interrupted, valid <- w_valid, status <- w_status,
       background <- w_background, pid <- w_pid, stdinFd <- w_stdinFd,
       offset <- w_offset, readFd <- w_readFd, sunk <- w_sunk,
       lastErrno <- w_lastErrno, pc <- w_pc, i <- w_i, subject <- w_subject,
       timeout <- w_timeout, slots <- w_slots, waiting <- w_waiting,
       ioFailed <- w_ioFailed, ready <- w_ready, last <- w_last

WinProofs == INSTANCE SubprocessWindowsProofs
  WITH N <- Windows.count, InputLen <- Windows.input, OutputLen <- Windows.output,
       PipeCap <- Windows.pipe, BufferInitial <- Windows.initial, BufferMax <- Windows.max,
       GroupSize <- Windows.group, Clients <- Windows.clients,
       client <- o_client, os <- o_os, terminated <- o_terminated,
       inPipe <- o_inPipe, received <- o_received, sawEof <- o_sawEof,
       outPipe <- o_outPipe, produced <- o_produced, writeOp <- o_writeOp,
       readOp <- o_readOp, expired <- o_expired, valid <- o_valid,
       status <- o_status, background <- o_background,
       processOpen <- o_processOpen, stdinOpen <- o_stdinOpen,
       readOpen <- o_readOpen, writePending <- o_writePending,
       readPending <- o_readPending, offset <- o_offset, sunk <- o_sunk,
       lastErrno <- o_lastErrno, inCap <- o_inCap, outCap <- o_outCap,
       todo <- o_todo, pumped <- o_pumped, timeout <- o_timeout,
       slots <- o_slots, waiting <- o_waiting, ioFailed <- o_ioFailed,
       group <- o_group, next <- o_next,
       spawnFailed <- o_spawnFailed, timedOut <- o_timedOut,
       waitFailed <- o_waitFailed, last <- o_last

-----------------------------------------------------------------------------
LEMMA PairSteps == Pair!Next <=> PairProofs!Next
BY DEF
       Pair!Procs, Pair!childVars, Pair!kernelVars, Pair!pipeEnds, Pair!handleVars,
       Pair!callVars, Pair!vars, Pair!Zombie, Pair!Terminal, Pair!ChildReads,
       Pair!ChildSeesEof, Pair!ChildWrites, Pair!Dies, Pair!ChildCrashes,
       Pair!ChildKilled, Pair!TimePasses, Pair!Least, Pair!CallUnderWay, Pair!Returns,
       Pair!Callable, Pair!WriteFailures, Pair!ReadFailures, Pair!PumpStdin,
       Pair!PumpOutput, Pair!Reported, Pair!Collect, Pair!InheritedBy, Pair!Start,
       Pair!StartFails, Pair!SendStdin, Pair!ReceiveOutput, Pair!Kill, Pair!CallEnds,
       Pair!PollTerminal, Pair!PollBegin, Pair!PollCollects, Pair!PollStillRunning,
       Pair!GivenUp, Pair!OwnsChild, Pair!Cleanup, Pair!CleanupKills,
       Pair!CleanupCollects, Pair!Live, Pair!Done, Pair!WaitNothing, Pair!WaitBegin,
       Pair!WaitFails, Pair!PreReap, Pair!PreDrain, Pair!StdinReady, Pair!OutputReady,
       Pair!Block, Pair!Pump, Pair!Reap, Pair!Following, Pair!PassDone, Pair!WaitDone,
       Pair!WaitTimesOut, Pair!WaitGoesOn, Pair!NewCall, Pair!CallStep, Pair!ChildStep,
       Pair!HostCollects, Pair!PollFails, Pair!CleanupEnds, Pair!CleanupFindsNone,
       Pair!CleanupInterrupted, Pair!Next, Pair!Timeouts, PairProofs!Procs, PairProofs!childVars,
       PairProofs!kernelVars, PairProofs!pipeEnds, PairProofs!handleVars,
       PairProofs!callVars, PairProofs!vars, PairProofs!Zombie, PairProofs!Terminal,
       PairProofs!ChildReads, PairProofs!ChildSeesEof, PairProofs!ChildWrites,
       PairProofs!Dies, PairProofs!ChildCrashes, PairProofs!ChildKilled,
       PairProofs!TimePasses, PairProofs!Least, PairProofs!CallUnderWay,
       PairProofs!Returns, PairProofs!Callable, PairProofs!WriteFailures,
       PairProofs!ReadFailures, PairProofs!PumpStdin, PairProofs!PumpOutput,
       PairProofs!Reported, PairProofs!Collect, PairProofs!InheritedBy,
       PairProofs!Start, PairProofs!StartFails, PairProofs!SendStdin,
       PairProofs!ReceiveOutput, PairProofs!Kill, PairProofs!CallEnds,
       PairProofs!PollTerminal, PairProofs!PollBegin, PairProofs!PollCollects,
       PairProofs!PollStillRunning, PairProofs!GivenUp, PairProofs!OwnsChild,
       PairProofs!Cleanup, PairProofs!CleanupKills, PairProofs!CleanupCollects,
       PairProofs!Live, PairProofs!Done, PairProofs!WaitNothing, PairProofs!WaitBegin,
       PairProofs!WaitFails, PairProofs!PreReap, PairProofs!PreDrain,
       PairProofs!StdinReady, PairProofs!OutputReady, PairProofs!Block,
       PairProofs!Pump, PairProofs!Reap, PairProofs!Following, PairProofs!PassDone,
       PairProofs!WaitDone, PairProofs!WaitTimesOut, PairProofs!WaitGoesOn,
       PairProofs!NewCall, PairProofs!CallStep, PairProofs!ChildStep, PairProofs!HostCollects, PairProofs!PollFails, PairProofs!CleanupEnds, PairProofs!CleanupFindsNone,
       PairProofs!CleanupInterrupted, PairProofs!Next,
       PairProofs!Timeouts

LEMMA WinSteps == Win!Next <=> WinProofs!Next
BY DEF
       Win!Cardinality, WinProofs!Cardinality, Win!Procs, Win!childVars, Win!pipeVars, Win!startVars, Win!stdinVars,
       Win!outputVars, Win!handleVars, Win!waitVars, Win!runVars, Win!callVars,
       Win!vars, Win!Terminal, Win!InFlight, Win!NoWrite, Win!NoRead, Win!NoCall,
       Win!Least, Win!LibraryStands, Win!ChildReads, Win!ChildSeesEof, Win!ChildWrites,
       Win!Dies, Win!WriteMoves, Win!WriteEnds, Win!ReadTakes, Win!ReadEnds,
       Win!Completes, Win!TimePasses, Win!At, Win!Then, Win!Refusals, Win!Ensured,
       Win!StdinPumped, Win!PumpStdinStands, Win!PumpStdin, Win!Write,
       Win!OutputPumped, Win!PumpOutputStands, Win!PumpOutput, Win!Read, Win!TaskOnly,
       Win!Finalize, Win!Settle, Win!Callable, Win!CallUnderWay, Win!Returns,
       Win!LocalsGone, Win!Launched, Win!LaunchStands, Win!Start, Win!StartFails,
       Win!Pumping, Win!PumpBegins, Win!PumpReturns, Win!PollTerminal, Win!PollBegins,
       Win!PollEnds, Win!Kill, Win!WriteCancelled, Win!ReadCancelled,
       Win!CleanupBegins, Win!Freed, Win!Release, Win!Live, Win!Done,        Win!WaitNothing, Win!WaitBegins, Win!Prime, Win!Groups, Win!Served, Win!Primed,
       Win!Drained, Win!WriteDone, Win!ReadDone, Win!Signalled, Win!InGroup,
       Win!LoopEnds, Win!Wakes, Win!SliceEnds, Win!WaitFails, Win!Running,
       Win!AllRunStands, Win!RunBegins, Win!Filling, Win!Spawn, Win!SpawnFails,
       Win!Filled, Win!RunWakes, Win!RunWaitFails, Win!Scan, Win!ScanPipes, Win!Noted,
       Win!Passed, Win!Again, Win!EndOfLoop, Win!TerminateAll, Win!HarvestNext,
       Win!Harvest, Win!HarvestGivesUp, Win!Spawned, Win!Closed, Win!RunResult,
       Win!Teardown, Win!Handles, Win!NewCall, Win!PumpStep, Win!WaitStep, Win!RunStep,
       Win!CallStep, Win!Refused, Win!ChildStep, Win!Next, Win!Everywhere,
       WinProofs!Procs, WinProofs!childVars, WinProofs!pipeVars, WinProofs!startVars,
       WinProofs!stdinVars, WinProofs!outputVars, WinProofs!handleVars,
       WinProofs!waitVars, WinProofs!runVars, WinProofs!callVars, WinProofs!vars,
       WinProofs!Terminal, WinProofs!InFlight, WinProofs!NoWrite, WinProofs!NoRead,
       WinProofs!NoCall, WinProofs!Least, WinProofs!LibraryStands,
       WinProofs!ChildReads, WinProofs!ChildSeesEof, WinProofs!ChildWrites,
       WinProofs!Dies, WinProofs!WriteMoves, WinProofs!WriteEnds, WinProofs!ReadTakes,
       WinProofs!ReadEnds, WinProofs!Completes, WinProofs!TimePasses, WinProofs!At,
       WinProofs!Then, WinProofs!Refusals, WinProofs!Ensured, WinProofs!StdinPumped,
       WinProofs!PumpStdinStands, WinProofs!PumpStdin, WinProofs!Write,
       WinProofs!OutputPumped, WinProofs!PumpOutputStands, WinProofs!PumpOutput,
       WinProofs!Read, WinProofs!TaskOnly, WinProofs!Finalize, WinProofs!Settle,
       WinProofs!Callable, WinProofs!CallUnderWay, WinProofs!Returns,
       WinProofs!LocalsGone, WinProofs!Launched, WinProofs!LaunchStands,
       WinProofs!Start, WinProofs!StartFails, WinProofs!Pumping, WinProofs!PumpBegins,
       WinProofs!PumpReturns, WinProofs!PollTerminal, WinProofs!PollBegins,
       WinProofs!PollEnds, WinProofs!Kill, WinProofs!WriteCancelled,
       WinProofs!ReadCancelled, WinProofs!CleanupBegins, WinProofs!Freed,
       WinProofs!Release, WinProofs!Live, WinProofs!Done,        WinProofs!WaitNothing, WinProofs!WaitBegins, WinProofs!Prime, WinProofs!Groups,
       WinProofs!Served, WinProofs!Primed, WinProofs!Drained, WinProofs!WriteDone,
       WinProofs!ReadDone, WinProofs!Signalled, WinProofs!InGroup, WinProofs!LoopEnds,
       WinProofs!Wakes, WinProofs!SliceEnds, WinProofs!WaitFails, WinProofs!Running,
       WinProofs!AllRunStands, WinProofs!RunBegins, WinProofs!Filling, WinProofs!Spawn,
       WinProofs!SpawnFails, WinProofs!Filled, WinProofs!RunWakes,
       WinProofs!RunWaitFails, WinProofs!Scan, WinProofs!ScanPipes, WinProofs!Noted,
       WinProofs!Passed, WinProofs!Again, WinProofs!EndOfLoop, WinProofs!TerminateAll,
       WinProofs!HarvestNext, WinProofs!Harvest, WinProofs!HarvestGivesUp,
       WinProofs!Spawned, WinProofs!Closed, WinProofs!RunResult, WinProofs!Teardown,
       WinProofs!Handles, WinProofs!NewCall, WinProofs!PumpStep, WinProofs!WaitStep,
       WinProofs!RunStep, WinProofs!CallStep, WinProofs!Refused, WinProofs!ChildStep,
       WinProofs!Next, WinProofs!Everywhere

LEMMA PairProperties ==
  /\ Pair!Configuration <=> PairProofs!Configuration
  /\ Pair!Init <=> PairProofs!Init
  /\ Pair!WaitContract <=> PairProofs!WaitContract
<1>1. Pair!Configuration <=> PairProofs!Configuration
  BY DEF Pair!Configuration, Pair!Procs, PairProofs!Configuration, PairProofs!Procs
<1>2. Pair!Init <=> PairProofs!Init
  BY DEF Pair!Init, Pair!Everywhere, Pair!Procs,
         PairProofs!Init, PairProofs!Everywhere, PairProofs!Procs
<1>3. Pair!WaitContract <=> PairProofs!WaitContract
  BY DEF Pair!WaitContract, Pair!Terminal, PairProofs!WaitContract, PairProofs!Terminal
<1> QED
  BY <1>1, <1>2, <1>3

LEMMA WinProperties ==
  /\ Win!WindowsArguments <=> WinProofs!WindowsArguments
  /\ Win!Init <=> WinProofs!Init
  /\ Win!TypeOK <=> WinProofs!TypeOK
  /\ Win!OutputComplete <=> WinProofs!OutputComplete
  /\ Win!EofAfterWholeInput <=> WinProofs!EofAfterWholeInput
  /\ Win!CleanupLeavesNothing <=> WinProofs!CleanupLeavesNothing
  /\ Win!ReturnContract <=> WinProofs!ReturnContract
<1>1. Win!WindowsArguments <=> WinProofs!WindowsArguments
  BY DEF Win!WindowsArguments, Win!Procs, WinProofs!WindowsArguments, WinProofs!Procs
<1>2. Win!Init <=> WinProofs!Init
  BY DEF Win!Init, Win!Everywhere, Win!Procs, Win!NoWrite, Win!NoRead, Win!NoCall,
         WinProofs!Init, WinProofs!Everywhere, WinProofs!Procs, WinProofs!NoWrite,
         WinProofs!NoRead, WinProofs!NoCall
<1>3. Win!TypeOK <=> WinProofs!TypeOK
  BY DEF Win!TypeOK, Win!Procs, Win!Terminal, Win!OpStates, Win!InFlight,
         WinProofs!TypeOK, WinProofs!Procs, WinProofs!Terminal, WinProofs!OpStates,
         WinProofs!InFlight
<1>4. Win!OutputComplete <=> WinProofs!OutputComplete
  BY DEF Win!OutputComplete, Win!Terminal, WinProofs!OutputComplete, WinProofs!Terminal
<1>5. Win!EofAfterWholeInput <=> WinProofs!EofAfterWholeInput
  BY DEF Win!EofAfterWholeInput, Win!Procs, WinProofs!EofAfterWholeInput, WinProofs!Procs
<1>6. Win!CleanupLeavesNothing <=> WinProofs!CleanupLeavesNothing
  BY DEF Win!CleanupLeavesNothing, Win!Procs, WinProofs!CleanupLeavesNothing, WinProofs!Procs
<1>7. Win!ReturnContract <=> WinProofs!ReturnContract
  BY DEF Win!ReturnContract, Win!Spawned, Win!Terminal, Win!Procs,
         WinProofs!ReturnContract, WinProofs!Spawned, WinProofs!Terminal, WinProofs!Procs
<1> QED
  BY <1>1, <1>2, <1>3, <1>4, <1>5, <1>6, <1>7

-----------------------------------------------------------------------------
(* What the pair and the Windows code do in the run, they do by their own   *)
(* steps, or they stand.                                                    *)
LEMMA PairStands == ASSUME [NextAny]_allVars PROVE [PairProofs!Next]_(PairProofs!vars)
<1>1. PairProofs!Next \/ UNCHANGED pairVars
  BY PairSteps DEF NextAny, allVars
<1> QED
  BY <1>1 DEF pairVars, PairProofs!vars, PairProofs!childVars, PairProofs!kernelVars,
              PairProofs!pipeEnds, PairProofs!handleVars, PairProofs!callVars

LEMMA WinStands == ASSUME [NextAny]_allVars PROVE WinProofs!Next \/ UNCHANGED windowsVars
BY WinSteps DEF NextAny, allVars

LEMMA WinBoxed == ASSUME [NextAny]_allVars PROVE [WinProofs!Next]_(WinProofs!vars)
BY WinStands
DEF windowsVars, WinProofs!vars, WinProofs!childVars, WinProofs!pipeVars, WinProofs!startVars,
    WinProofs!stdinVars, WinProofs!outputVars, WinProofs!handleVars, WinProofs!waitVars,
    WinProofs!runVars, WinProofs!callVars

(* The invariants of both, in every run.                                    *)
PairInv ==
  /\ PairProofs!TypeOK /\ PairProofs!OutputFlow
  /\ PairProofs!UseInv /\ PairProofs!PidInv /\ PairProofs!CallInv

RunsInv == PairInv /\ WinProofs!WindowsInv

LEMMA RunsStart == ASSUME InitAny PROVE RunsInv
<1>1. PairProofs!Configuration /\ Paired.count \in Nat \ {0} /\ WinProofs!WindowsArguments
  BY Instances, PairProperties, WinProperties
<1>2. PairProofs!Init /\ WinProofs!Init
  BY PairProperties, WinProperties DEF InitAny
<1>3. PairInv
  BY <1>1, <1>2, PairProofs!TypesStart, PairProofs!UseInvStarts, PairProofs!PidInvStarts,
     PairProofs!CallInvStarts
     DEF PairInv
<1>4. WinProofs!WindowsInv
  BY <1>1, <1>2, WinProofs!InitSound
<1> QED
  BY <1>3, <1>4 DEF RunsInv

LEMMA RunsKept == ASSUME RunsInv, [NextAny]_allVars PROVE RunsInv'
<1>1. PairProofs!Configuration /\ Paired.count \in Nat \ {0} /\ WinProofs!WindowsArguments
  BY Instances, PairProperties, WinProperties
<1>2. [PairProofs!Next]_(PairProofs!vars) /\ [WinProofs!Next]_(WinProofs!vars)
  BY PairStands, WinBoxed
<1>3. PairInv'
  BY <1>1, <1>2, PairProofs!TypesKept, PairProofs!UseInvKept, PairProofs!PidInvKept,
     PairProofs!CallInvKept
     DEF PairInv, RunsInv
<1>4. WinProofs!WindowsInv'
  BY <1>1, <1>2, WinProofs!StepKeeps DEF RunsInv
<1> QED
  BY <1>3, <1>4 DEF RunsInv

LEMMA RunsInvariant == SpecAny => []RunsInv
<1>1. InitAny => RunsInv
  BY RunsStart
<1>2. RunsInv /\ [NextAny]_allVars => RunsInv'
  BY RunsKept
<1> QED
  BY <1>1, <1>2, PTL DEF SpecAny

(* No return of a wait of the pair, or of a wait or a run on Windows,       *)
(* misreports a handle, whatever the other calls collected meanwhile.       *)
THEOREM RunsWaitSafe == SpecAny => []WaitContracts
<1>1. RunsInv => WaitContracts
  <2> SUFFICES ASSUME RunsInv PROVE WaitContracts
    OBVIOUS
  <2>1. PairProofs!WaitContract
    BY DEF RunsInv, PairInv, PairProofs!CallInv
  <2>2. WinProofs!ReturnContract
    BY DEF RunsInv, WinProofs!WindowsInv, WinProofs!ResultInv
  <2> QED
    BY <2>1, <2>2, PairProperties, WinProperties DEF WaitContracts
<1> QED
  BY <1>1, RunsInvariant, PTL

(* On Windows no chunk is lost in either direction of a pipe, and cleanup   *)
(* leaves nothing, whatever the clients, the sizes and the refusals.        *)
THEOREM RunsWindowsSafe == SpecAny => []WindowsSound
<1>1. RunsInv => WindowsSound
  <2> SUFFICES ASSUME RunsInv PROVE WindowsSound
    OBVIOUS
  <2>1. WinProofs!TypeOK /\ WinProofs!OutputComplete
    BY DEF RunsInv, WinProofs!WindowsInv, WinProofs!ResultInv
  <2>2. WinProofs!WindowsArguments
    BY Instances, WinProperties
  <2>3. WinProofs!EofAfterWholeInput
    BY <2>2, WinProofs!InputFollows DEF RunsInv
  <2>4. WinProofs!CleanupLeavesNothing
    BY DEF RunsInv, WinProofs!WindowsInv, WinProofs!StartInv, WinProofs!CleanupLeavesNothing
  <2> QED
    BY <2>1, <2>3, <2>4, WinProperties DEF WindowsSound
<1> QED
  BY <1>1, RunsInvariant, PTL

(* In the run no scratch buffer is replaced or freed under an operation of  *)
(* the kernel but by the cleanup after a run, which had cancelled it.       *)
THEOREM RunsBuffersSafe == SpecAny => BuffersHeldForKernel
<1>1. ASSUME RunsInv, [NextAny]_allVars, NEW p \in Win!Procs
      PROVE  \/ UNCHANGED windowsVars
             \/ /\ \/ o_inCap'[p] = o_inCap[p] \/ o_writeOp[p].st \notin Win!InFlight
                   \/ ~o_background[p] /\ ~o_valid'[p] /\ o_writeOp[p].st = "cancelled"
                /\ \/ o_outCap'[p] = o_outCap[p] \/ o_readOp[p].st \notin Win!InFlight
                   \/ ~o_background[p] /\ ~o_valid'[p] /\ o_readOp[p].st = "cancelled"
  <2>1. Win!Procs = WinProofs!Procs /\ Win!InFlight = WinProofs!InFlight
    BY DEF Win!Procs, WinProofs!Procs, Win!InFlight, WinProofs!InFlight
  <2> QED
    BY <1>1, <2>1, WinStands, WinProofs!BuffersHeld DEF RunsInv
<1>2. UNCHANGED windowsVars => UNCHANGED Win!vars
  BY DEF windowsVars, Win!vars, Win!childVars, Win!pipeVars, Win!startVars, Win!stdinVars,
         Win!outputVars, Win!handleVars, Win!waitVars, Win!runVars, Win!callVars
<1>3. RunsInv /\ [NextAny]_allVars
      => [\A p \in Win!Procs :
            \/ o_inCap'[p] = o_inCap[p] \/ o_writeOp[p].st \notin Win!InFlight
            \/ ~o_background[p] /\ ~o_valid'[p] /\ o_writeOp[p].st = "cancelled"]_(Win!vars)
  BY <1>1, <1>2
<1>4. RunsInv /\ [NextAny]_allVars
      => [\A p \in Win!Procs :
            \/ o_outCap'[p] = o_outCap[p] \/ o_readOp[p].st \notin Win!InFlight
            \/ ~o_background[p] /\ ~o_valid'[p] /\ o_readOp[p].st = "cancelled"]_(Win!vars)
  BY <1>1, <1>2
<1> QED
  BY <1>3, <1>4, RunsInvariant, PTL DEF SpecAny, BuffersHeldForKernel, Win!BuffersHeldForKernel
=============================================================================
