------------------------ MODULE MCSubprocessBackground ------------------------
(* One run of one of three instances: every call on one POSIX handle, with  *)
(* long streams and failing pipes; the waits of two POSIX handles in arrays *)
(* that overlap, the second fed and captured; the Windows code, with one of *)
(* several clients.  Those that do not run stand before their first call.   *)
EXTENDS SubprocessBackground, Sequences

CONSTANTS
  Paired,   \* the handles in overlapping arrays: see below
  Windows   \* the handles of the Windows code and its clients

VARIABLES
  w_os, w_inPipe, w_readsStdin, w_sawEof, w_holders, w_outPipe, w_produced,
  w_killed, w_selfPipe, w_expired, w_interrupted, w_valid, w_status, w_background, w_pid,
  w_stdinFd, w_offset, w_readFd, w_sunk, w_lastErrno, w_pc, w_i, w_subject,
  w_timeout, w_slots, w_waiting, w_ioFailed, w_ready, w_last,
  o_client, o_os, o_terminated, o_inPipe, o_received, o_sawEof, o_outPipe,
  o_produced, o_writeOp, o_readOp, o_expired, o_valid, o_status,
  o_background, o_processOpen, o_stdinOpen, o_readOpen, o_writePending,
  o_readPending, o_offset, o_sunk, o_lastErrno, o_inCap, o_outCap, o_todo,
  o_pumped, o_timeout, o_slots, o_waiting, o_ioFailed, o_group,
  o_next, o_spawnFailed, o_timedOut, o_waitFailed, o_last,
  running

OnlyFirst == {1}
OneArray == {{1}}
TwoInArrays ==
  [count |-> 2, feeds |-> {2}, captures |-> {2}, input |-> 1, output |-> 1, pipe |-> 1,
   arrays |-> {{1}, {2}, {1, 2}}, errors |-> FALSE, hostReaps |-> {}, interrupts |-> FALSE,
   calls |-> {"wait", "poll", "kill"}]

Pair == INSTANCE SubprocessBackground
  WITH N <- Paired.count, Feeds <- Paired.feeds, Captures <- Paired.captures,
       InputLen <- Paired.input, OutputLen <- Paired.output, PipeCap <- Paired.pipe,
       Arrays <- Paired.arrays, IoErrors <- Paired.errors,
       HostReaps <- Paired.hostReaps, Interrupts <- Paired.interrupts, Calls <- Paired.calls,
       os <- w_os, inPipe <- w_inPipe, readsStdin <- w_readsStdin,
       sawEof <- w_sawEof, holders <- w_holders, outPipe <- w_outPipe,
       produced <- w_produced, killed <- w_killed, selfPipe <- w_selfPipe,
       expired <- w_expired, interrupted <- w_interrupted, valid <- w_valid, status <- w_status,
       background <- w_background, pid <- w_pid, stdinFd <- w_stdinFd,
       offset <- w_offset, readFd <- w_readFd, sunk <- w_sunk,
       lastErrno <- w_lastErrno, pc <- w_pc, i <- w_i, subject <- w_subject,
       timeout <- w_timeout, slots <- w_slots, waiting <- w_waiting,
       ioFailed <- w_ioFailed, ready <- w_ready, last <- w_last

(* The clients of the Windows code: one background handle captured or fed,  *)
(* with a system that may refuse, and both at once; two that are waited for *)
(* in groups of one; runs of two, by wave, with a deadline, and failing.    *)
Client ==
  [calls |-> {"wait"}, feeds |-> {}, captures |-> {}, arrays |-> {},
   timeouts |-> {"infinite", "zero", "positive"}, parallel |-> 2, failing |-> FALSE]
OneHandle ==
  [Client EXCEPT !.calls = {"send_stdin", "receive_output", "poll", "kill", "wait", "cleanup"},
                 !.arrays = {{1}}]
Batch == [Client EXCEPT !.calls = {"run", "cleanup"}]
FailingBatch == [Batch EXCEPT !.parallel = 1, !.failing = TRUE]
WindowsClients ==
  {[OneHandle EXCEPT !.captures = {1}, !.failing = TRUE],
   [OneHandle EXCEPT !.feeds = {1}, !.failing = TRUE],
   [OneHandle EXCEPT !.feeds = {1}, !.captures = {1}, !.timeouts = {"positive"}],
   [Client EXCEPT !.feeds = {2}, !.captures = {1}, !.arrays = {{1, 2}}, !.timeouts = {"infinite"}],
   [Client EXCEPT !.calls = {"run"}, !.feeds = {1}, !.captures = {2}, !.timeouts = {"positive"}],
   [Batch EXCEPT !.feeds = {1}, !.captures = {2}, !.timeouts = {"zero"}],
   [FailingBatch EXCEPT !.feeds = {1}],
   [FailingBatch EXCEPT !.captures = {1}]}

TwoOnWindows ==
  [count |-> 2, input |-> 2, output |-> 2, pipe |-> 1, initial |-> 1, max |-> 2,
   group |-> 1, clients |-> WindowsClients]

Win == INSTANCE SubprocessWindows
  WITH N <- Windows.count, InputLen <- Windows.input, OutputLen <- Windows.output,
       PipeCap <- Windows.pipe, BufferInitial <- Windows.initial, BufferMax <- Windows.max,
       GroupSize <- Windows.group, Clients <- Windows.clients,
       client <- o_client, os <- o_os, terminated <- o_terminated,
       inPipe <- o_inPipe, received <- o_received, sawEof <- o_sawEof,
       outPipe <- o_outPipe, produced <- o_produced, writeOp <- o_writeOp,
       readOp <- o_readOp, expired <- o_expired, valid <- o_valid,
       status <- o_status, background <- o_background,
       processOpen <- o_processOpen, stdinOpen <- o_stdinOpen,
       readOpen <- o_readOpen, writePending <- o_writePending,
       readPending <- o_readPending, offset <- o_offset, sunk <- o_sunk,
       lastErrno <- o_lastErrno, inCap <- o_inCap, outCap <- o_outCap,
       todo <- o_todo, pumped <- o_pumped, timeout <- o_timeout,
       slots <- o_slots, waiting <- o_waiting, ioFailed <- o_ioFailed,
       group <- o_group, next <- o_next,
       spawnFailed <- o_spawnFailed, timedOut <- o_timedOut,
       waitFailed <- o_waitFailed, last <- o_last

ASSUME Instances ==
  /\ Paired.count \in Nat \ {0} /\ Pair!Configuration
  /\ Win!WindowsArguments

pairVars ==
  <<w_os, w_inPipe, w_readsStdin, w_sawEof, w_holders, w_outPipe, w_produced,
    w_killed, w_selfPipe, w_expired, w_interrupted, w_valid, w_status, w_background, w_pid,
    w_stdinFd, w_offset, w_readFd, w_sunk, w_lastErrno, w_pc, w_i, w_subject,
    w_timeout, w_slots, w_waiting, w_ioFailed, w_ready, w_last>>
windowsVars ==
  <<o_client, o_os, o_terminated, o_inPipe, o_received, o_sawEof, o_outPipe,
    o_produced, o_writeOp, o_readOp, o_expired, o_valid, o_status,
    o_background, o_processOpen, o_stdinOpen, o_readOpen, o_writePending,
    o_readPending, o_offset, o_sunk, o_lastErrno, o_inCap, o_outCap, o_todo,
    o_pumped, o_timeout, o_slots, o_waiting, o_ioFailed, o_group,
    o_next, o_spawnFailed, o_timedOut, o_waitFailed, o_last>>
allVars == <<running, vars, pairVars, windowsVars>>

InitAny ==
  /\ running \in {"lifecycle", "pair", "windows"}
  /\ Init /\ Pair!Init /\ Win!Init
  /\ running # "windows" => o_client = CHOOSE c \in Windows.clients : TRUE

NextAny ==
  /\ UNCHANGED running
  /\ \/ running = "lifecycle" /\ Next /\ UNCHANGED <<pairVars, windowsVars>>
     \/ running = "pair" /\ Pair!Next /\ UNCHANGED <<vars, windowsVars>>
     \/ running = "windows" /\ Win!Next /\ UNCHANGED <<vars, pairVars>>

SpecAny == InitAny /\ [][NextAny]_allVars /\ Pair!Fairness /\ Win!Fairness

(* What os.h says of the results of a wait, on either system, and of a run  *)
(* on Windows: no return misreports a handle, whatever the waits and polls  *)
(* of the other collected meanwhile.                                        *)
WaitContracts == Pair!WaitContract /\ Win!ReturnContract

(* On Windows no chunk is lost in either direction of a pipe, in whatever   *)
(* order exits and completions come, and cleanup leaves nothing.            *)
WindowsSound ==
  /\ Win!TypeOK /\ Win!OutputComplete /\ Win!EofAfterWholeInput /\ Win!CleanupLeavesNothing

(* A scratch buffer is not replaced or freed under a pending operation.     *)
BuffersHeldForKernel == Win!BuffersHeldForKernel

(* Every call returns but a poll without timeout.                           *)
AllCallsReturn ==
  []<>(CASE running = "lifecycle" -> TRUE
         [] running = "pair"      -> Pair!Responsive
         [] running = "windows"   -> Win!Responsive)
=============================================================================
