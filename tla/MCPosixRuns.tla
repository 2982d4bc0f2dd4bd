------------------------------ MODULE MCPosixRuns ------------------------------
(* One run of one of three instances of the POSIX subprocess code: one      *)
(* thread that starts three background children and waits for them on the   *)
(* self-pipe; a batch of two procs, without and with a deadline; a batch of *)
(* three with a timeout of 0, in waves of two.  Those that do not run stand *)
(* still, a batch where its call has returned.  What a batch is asked to do *)
(* is a record, so that more can be said of it than of these values.        *)
EXTENDS SigchldSelfPipe, Integers

CONSTANTS
  t1, t2, c1, c2, c3,
  Asked,         \* the arguments of the batch
  AskedOfWaves,  \* and of the batch in waves
  Willing        \* the children of the batch that finish without a deadline

VARIABLES
  b_os, b_inPipe, b_received, b_readsStdin, b_sawEof, b_holders, b_outPipe,
  b_produced, b_killed, b_selfPipe, b_timeout, b_expired, b_status, b_stdinFd,
  b_offset, b_readFd, b_sunk, b_lastErrno, b_pc, b_i, b_mode, b_ready,
  b_liveCount, b_nextToSpawn, b_anySpawnFailed, b_anyIoFailed,
  b_timeoutReached, b_waitFailed, b_result,
  w_os, w_inPipe, w_received, w_readsStdin, w_sawEof, w_holders, w_outPipe,
  w_produced, w_killed, w_selfPipe, w_timeout, w_expired, w_status, w_stdinFd,
  w_offset, w_readFd, w_sunk, w_lastErrno, w_pc, w_i, w_mode, w_ready,
  w_liveCount, w_nextToSpawn, w_anySpawnFailed, w_anyIoFailed,
  w_timeoutReached, w_waitFailed, w_result,
  running

(* One thread with three children, or two that wait for one child each.     *)
OneThread == {t1}
TwoThreads == {t1, t2}
ThreeChildren == {c1, c2, c3}
TwoChildren == {c1, c2}
AllOwnedByOne == [c \in ThreeChildren |-> t1]
OneChildEach == [c \in TwoChildren |-> IF c = c1 THEN t1 ELSE t2]

(* With a deadline the children may do as they like for ever.               *)
TwoProcs ==
  [count |-> 2, parallel |-> 2, timeouts |-> {"infinite", "positive"}, feeds |-> {1},
   captures |-> [p \in 1 .. 2 |-> IF p = 1 THEN {"stdout"} ELSE {}],
   input |-> 2, output |-> 2, pipe |-> 1, errors |-> TRUE,
   cooperative |-> [t \in {"infinite", "positive"} |-> IF t = "infinite" THEN Willing ELSE {}]]

(* No child has to cooperate: all that live are killed.                     *)
ThreeInWaves ==
  [count |-> 3, parallel |-> 2, timeouts |-> {"zero"}, feeds |-> {1, 2},
   captures |-> [p \in 1 .. 3 |-> IF p = 1 THEN {"stdout"} ELSE {}],
   input |-> 1, output |-> 1, pipe |-> 1, errors |-> FALSE,
   cooperative |-> [t \in {"zero"} |-> {}]]

Batch == INSTANCE SubprocessBatch
  WITH N <- Asked.count, MaxParallel <- Asked.parallel, Timeouts <- Asked.timeouts,
       Feeds <- Asked.feeds, Captures <- Asked.captures, InputLen <- Asked.input,
       OutputLen <- Asked.output, PipeCap <- Asked.pipe, IoErrors <- Asked.errors,
       Cooperative <- Asked.cooperative,
       os <- b_os, inPipe <- b_inPipe, received <- b_received,
       readsStdin <- b_readsStdin, sawEof <- b_sawEof, holders <- b_holders,
       outPipe <- b_outPipe, produced <- b_produced, killed <- b_killed,
       selfPipe <- b_selfPipe, timeout <- b_timeout, expired <- b_expired,
       status <- b_status, stdinFd <- b_stdinFd, offset <- b_offset,
       readFd <- b_readFd, sunk <- b_sunk, lastErrno <- b_lastErrno,
       pc <- b_pc, i <- b_i, mode <- b_mode, ready <- b_ready,
       liveCount <- b_liveCount, nextToSpawn <- b_nextToSpawn,
       anySpawnFailed <- b_anySpawnFailed, anyIoFailed <- b_anyIoFailed,
       timeoutReached <- b_timeoutReached, waitFailed <- b_waitFailed,
       result <- b_result

Waves == INSTANCE SubprocessBatch
  WITH N <- AskedOfWaves.count, MaxParallel <- AskedOfWaves.parallel, Timeouts <- AskedOfWaves.timeouts,
       Feeds <- AskedOfWaves.feeds, Captures <- AskedOfWaves.captures, InputLen <- AskedOfWaves.input,
       OutputLen <- AskedOfWaves.output, PipeCap <- AskedOfWaves.pipe, IoErrors <- AskedOfWaves.errors,
       Cooperative <- AskedOfWaves.cooperative,
       os <- w_os, inPipe <- w_inPipe, received <- w_received,
       readsStdin <- w_readsStdin, sawEof <- w_sawEof, holders <- w_holders,
       outPipe <- w_outPipe, produced <- w_produced, killed <- w_killed,
       selfPipe <- w_selfPipe, timeout <- w_timeout, expired <- w_expired,
       status <- w_status, stdinFd <- w_stdinFd, offset <- w_offset,
       readFd <- w_readFd, sunk <- w_sunk, lastErrno <- w_lastErrno,
       pc <- w_pc, i <- w_i, mode <- w_mode, ready <- w_ready,
       liveCount <- w_liveCount, nextToSpawn <- w_nextToSpawn,
       anySpawnFailed <- w_anySpawnFailed, anyIoFailed <- w_anyIoFailed,
       timeoutReached <- w_timeoutReached, waitFailed <- w_waitFailed,
       result <- w_result

ASSUME Instances == Batch!Configuration /\ Waves!Configuration

batchVars ==
  <<b_os, b_inPipe, b_received, b_readsStdin, b_sawEof, b_holders, b_outPipe,
    b_produced, b_killed, b_selfPipe, b_timeout, b_expired, b_status,
    b_stdinFd, b_offset, b_readFd, b_sunk, b_lastErrno, b_pc, b_i, b_mode,
    b_ready, b_liveCount, b_nextToSpawn, b_anySpawnFailed, b_anyIoFailed,
    b_timeoutReached, b_waitFailed, b_result>>
wavesVars ==
  <<w_os, w_inPipe, w_received, w_readsStdin, w_sawEof, w_holders, w_outPipe,
    w_produced, w_killed, w_selfPipe, w_timeout, w_expired, w_status,
    w_stdinFd, w_offset, w_readFd, w_sunk, w_lastErrno, w_pc, w_i, w_mode,
    w_ready, w_liveCount, w_nextToSpawn, w_anySpawnFailed, w_anyIoFailed,
    w_timeoutReached, w_waitFailed, w_result>>
allVars == <<running, vars, batchVars, wavesVars>>

InitAny ==
  /\ running \in {"pipe", "batch", "waves"}
  /\ Init
  /\ Batch!Untouched /\ b_pc = IF running = "batch" THEN "fill" ELSE "done"
  /\ running # "batch" => b_timeout = "infinite"
  /\ Waves!Untouched /\ w_pc = IF running = "waves" THEN "fill" ELSE "done"

NextAny ==
  /\ UNCHANGED running
  /\ \/ running = "pipe" /\ Next /\ UNCHANGED <<batchVars, wavesVars>>
     \/ running = "batch" /\ Batch!Next /\ UNCHANGED <<vars, wavesVars>>
     \/ running = "waves" /\ Waves!Next /\ UNCHANGED <<vars, batchVars>>

(* The fairness of the pipe while it runs, and of the batch; of the waves   *)
(* only what is safe is asked.                                              *)
FairPipe ==
  /\ \A t \in Threads : WF_vars(running = "pipe" /\ ThreadStep(t))
  /\ WF_vars(running = "pipe" /\ \E t \in Threads : Deliver(t))

SpecAny == InitAny /\ [][NextAny]_allVars /\ FairPipe /\ Batch!Fairness

(* One of them, with the fairness of the batch where it runs.               *)
SpecPipe == running = "pipe" /\ InitAny /\ [][NextAny]_allVars
SpecBatch == running = "batch" /\ InitAny /\ [][NextAny]_allVars /\ Batch!Fairness

(* Of all three, as far as one that stands still has it.                    *)
TypesOK == TypeOK /\ Batch!TypeOK /\ Waves!TypeOK

(* live_count is the number of children, so the cap holds and no slot is    *)
(* lost, in the loop and in the waves.                                      *)
SlotsExact == Batch!LiveCountExact /\ Waves!LiveCountExact

(* No chunk is lost in either direction of a pipe.                          *)
StreamsComplete == Batch!OutputComplete /\ Batch!EofAfterWholeInput

(* What os.h says of the result, of the one that runs.                      *)
ReturnContracts ==
  /\ running = "batch" => Batch!ReturnContract
  /\ running = "waves" => Waves!ReturnContract

(* An exit does not stay unobserved by the wait for its child, where each   *)
(* is observed once and for all; and the batch returns, which it does once. *)
CallsReturn ==
  []<>(CASE running = "pipe"  -> ~\E c \in Children : Unobserved(c)
         [] running = "batch" -> b_pc = "done"
         [] running = "waves" -> TRUE)

(* os.h, jsl_subprocess_set_stdin_memory: "the stream is closed once fully  *)
(* written", so a child that reads to end-of-file gets there.               *)
FedChildSeesEof == Batch!FedChildSeesEof
=============================================================================
