------------------------ MODULE SubprocessBatchProofs ------------------------
(***************************************************************************)
(* Proofs about SubprocessBatch, for any number of procs, any cap on the   *)
(* children alive at once, any timeout, any choice of fed and captured     *)
(* streams and any sizes of input, output and pipes.  The children are     *)
(* not assumed to do anything.                                             *)
(***************************************************************************)
EXTENDS SubprocessBatch, FiniteSetTheorems, TLAPS

Living == {"running"} \cup Zombie

(* What the procs array says of a child is what the kernel says of it; the  *)
(* procs from next_to_spawn on were never touched, and one without a child  *)
(* has no pipe.                                                             *)
NoChild(p) ==
  /\ ~readsStdin[p] /\ ~sawEof[p] /\ ~stdinFd[p]
  /\ inPipe[p] = 0 /\ received[p] = 0 /\ offset[p] = 0
  /\ \A s \in Streams : ~readFd[p][s] /\ outPipe[p][s] = 0 /\ produced[p][s] = 0 /\ sunk[p][s] = 0
StatusInv ==
  \A p \in Procs :
    /\ status[p] = "RUNNING" <=> os[p] \in Living
    /\ status[p] \in Terminal <=> os[p] = "reaped"
    /\ status[p] = "NOT_STARTED" <=> nextToSpawn <= p
    /\ status[p] = "FAILED_TO_START" => anySpawnFailed
    /\ os[p] = "none" => NoChild(p)

SlotInv == liveCount = Cardinality(Running) /\ liveCount <= MaxParallel

(* While a child reads, what it has read and what is in the pipe is what    *)
(* was written; the write end is closed only when that is everything, or on *)
(* a failure.                                                               *)
InputInv ==
  \A p \in Procs :
    /\ received[p] + inPipe[p] <= offset[p]
    /\ readsStdin[p] => os[p] = "running" /\ received[p] + inPipe[p] = offset[p]
    /\ readsStdin[p] /\ ~stdinFd[p] /\ ~lastErrno[p] /\ ~waitFailed => offset[p] = InputLen
    /\ sawEof[p] /\ ~lastErrno[p] /\ ~waitFailed => received[p] = InputLen

(* Unless a read or a write on its pipes failed, what a child wrote is in   *)
(* its sink or in the pipe; a read end that is closed, and a child that is  *)
(* collected, leave the pipe empty.                                         *)
StreamInv ==
  \A p \in Procs, s \in Streams :
    /\ sunk[p][s] + outPipe[p][s] <= produced[p][s]
    /\ ~lastErrno[p] => sunk[p][s] + outPipe[p][s] = produced[p][s]
    /\ ~readFd[p][s] /\ pc # "done" => outPipe[p][s] = 0
    /\ status[p] \in Terminal => outPipe[p][s] = 0

(* What poll() reported is still open when the pump gets there.             *)
ReadyInv == pc = "pump" => \A p \in ready : i <= p => stdinFd[p]

(* The loop is left only with nothing alive, with everything to kill, or on *)
(* a failed wait; a kill is remembered until the result is made.            *)
Leaving == pc \in {"finish", "close", "done"} \/ mode = "final"
CallInv ==
  /\ pc \in {"fill", "poll", "check"} => mode = "run"
  /\ pc = "finish" /\ ~timeoutReached /\ ~waitFailed => liveCount = 0
  /\ pc \in {"close", "done"} /\ ~waitFailed => liveCount = 0
  /\ Leaving /\ nextToSpawn <= N /\ ~waitFailed => timeoutReached /\ timeout = "positive"
  /\ killed # {} => timeoutReached \/ (mode = "wave" /\ pc \in {"killpoll", "pump", "reap"})
  /\ pc = "done" =>
       /\ result = ResultCode
       /\ \A p \in Procs : ~stdinFd[p] /\ OpenStreams(p) = {}

BatchInv == TypeOK /\ StatusInv /\ SlotInv /\ InputInv /\ StreamInv /\ ReadyInv /\ CallInv

-----------------------------------------------------------------------------
(* Facts about the constants and the set of running procs.                  *)

LEMMA Bounds ==
  ASSUME Configuration
  PROVE  /\ N \in Nat /\ 1 <= N /\ MaxParallel \in 1 .. N
         /\ InputLen \in Nat /\ OutputLen \in Nat /\ PipeCap \in Nat
         /\ 1 \in 1 .. N + 1 /\ 0 \in 0 .. N
         /\ 0 \in 0 .. PipeCap /\ 0 \in 0 .. InputLen /\ 0 \in 0 .. OutputLen
         /\ IoErrors \in BOOLEAN
BY DEF Configuration

LEMMA RunningFinite ==
  ASSUME Configuration
  PROVE  IsFiniteSet(Running) /\ Cardinality(Running) \in 0 .. N
<1>1. N \in Nat /\ 1 \in Int /\ N \in Int
  BY Bounds
<1>2. IsFiniteSet(Procs) /\ Cardinality(Procs) = N
  BY <1>1, FS_Interval DEF Procs
<1>3. Running \subseteq Procs
  BY DEF Running
<1>4. IsFiniteSet(Running) /\ Cardinality(Running) <= Cardinality(Procs)
  BY <1>2, <1>3, FS_Subset
<1>5. Cardinality(Running) \in Nat
  BY <1>4, FS_CardinalityType
<1> QED
  BY <1>1, <1>2, <1>4, <1>5

(* One proc more, one fewer: the changes of live_count.                     *)
LEMMA RunningGrows ==
  ASSUME Configuration, NEW p \in Procs, status[p] # "RUNNING", Running' = Running \cup {p}
  PROVE  Cardinality(Running)' = Cardinality(Running) + 1
<1>1. p \notin Running
  BY DEF Running
<1> QED
  BY <1>1, RunningFinite, FS_AddElement

LEMMA RunningShrinks ==
  ASSUME Configuration, NEW p \in Procs, status[p] = "RUNNING", Running' = Running \ {p}
  PROVE  /\ Cardinality(Running)' = Cardinality(Running) - 1
         /\ Cardinality(Running) > 0
<1>1. p \in Running /\ IsFiniteSet(Running)
  BY RunningFinite DEF Running
<1>2. Cardinality(Running \ {p}) = Cardinality(Running) - 1
  BY <1>1, FS_RemoveElement
<1>3. Cardinality(Running) # 0
  BY <1>1, FS_EmptySet
<1> QED
  BY <1>2, <1>3, RunningFinite, Bounds

-----------------------------------------------------------------------------
(* The two pumps, one proc at a time: their types, and what they leave.     *)

LEMMA PumpStdinFacts ==
  ASSUME Configuration, TypeOK, InputInv, NEW p \in Procs, NEW bad \in BOOLEAN,
         PumpStdin(p, bad), UNCHANGED <<received, readsStdin>>
  PROVE  /\ inPipe' \in [Procs -> 0 .. PipeCap]
         /\ offset' \in [Procs -> 0 .. InputLen]
         /\ stdinFd' \in [Procs -> BOOLEAN]
         /\ \A q \in Procs \ {p} : inPipe'[q] = inPipe[q] /\ offset'[q] = offset[q] /\ stdinFd'[q] = stdinFd[q]
         /\ received'[p] + inPipe'[p] <= offset'[p]
         /\ readsStdin[p] => received'[p] + inPipe'[p] = offset'[p]
         /\ readsStdin[p] /\ ~stdinFd'[p] /\ ~bad => offset'[p] = InputLen
<1> DEFINE amount == IF bad \/ ~readsStdin[p] THEN 0
                     ELSE Least(InputLen - offset[p], PipeCap - inPipe[p])
<1>1. /\ inPipe \in [Procs -> 0 .. PipeCap] /\ offset \in [Procs -> 0 .. InputLen]
      /\ received \in [Procs -> 0 .. InputLen] /\ stdinFd \in [Procs -> BOOLEAN]
      /\ readsStdin \in [Procs -> BOOLEAN]
      /\ PipeCap \in Nat /\ InputLen \in Nat
  BY Bounds DEF TypeOK
<1>2. amount \in Nat /\ inPipe[p] + amount <= PipeCap /\ offset[p] + amount <= InputLen
  BY <1>1 DEF Least
<1>3. /\ inPipe' = [inPipe EXCEPT ![p] = @ + amount]
      /\ offset' = [offset EXCEPT ![p] = @ + amount]
      /\ stdinFd' = [stdinFd EXCEPT ![p] = readsStdin[p] /\ ~bad /\ offset[p] + amount < InputLen]
  BY DEF PumpStdin
<1> HIDE DEF amount
<1>4. inPipe[p] + amount \in 0 .. PipeCap /\ offset[p] + amount \in 0 .. InputLen
  BY <1>1, <1>2
<1>5. /\ inPipe' \in [Procs -> 0 .. PipeCap] /\ offset' \in [Procs -> 0 .. InputLen]
      /\ stdinFd' \in [Procs -> BOOLEAN]
      /\ \A q \in Procs \ {p} : inPipe'[q] = inPipe[q] /\ offset'[q] = offset[q] /\ stdinFd'[q] = stdinFd[q]
      /\ inPipe'[p] = inPipe[p] + amount /\ offset'[p] = offset[p] + amount
      /\ stdinFd'[p] <=> readsStdin[p] /\ ~bad /\ offset[p] + amount < InputLen
  BY <1>1, <1>3, <1>4
<1>6. received[p] + inPipe[p] <= offset[p] /\ (readsStdin[p] => received[p] + inPipe[p] = offset[p])
  BY DEF InputInv
<1>7. /\ received'[p] + inPipe'[p] <= offset'[p]
      /\ readsStdin[p] => received'[p] + inPipe'[p] = offset'[p]
  BY <1>1, <1>2, <1>5, <1>6
<1>8. readsStdin[p] /\ ~stdinFd'[p] /\ ~bad => offset'[p] = InputLen
  BY <1>1, <1>4, <1>5
<1> QED
  BY <1>5, <1>7, <1>8

LEMMA PumpOutputFacts ==
  ASSUME Configuration, TypeOK, StreamInv, NEW p \in Procs, NEW bad \in SUBSET OpenStreams(p),
         PumpOutput(p, bad), UNCHANGED produced, pc # "done"
  PROVE  /\ outPipe' \in PerStream(0 .. PipeCap)
         /\ sunk' \in PerStream(0 .. OutputLen)
         /\ readFd' \in PerStream(BOOLEAN)
         /\ \A q \in Procs \ {p} : outPipe'[q] = outPipe[q] /\ sunk'[q] = sunk[q] /\ readFd'[q] = readFd[q]
         /\ \A s \in Streams :
              /\ outPipe'[p][s] = 0
              /\ sunk'[p][s] <= produced'[p][s]
              /\ ~lastErrno[p] /\ bad = {} => sunk'[p][s] = produced'[p][s]
              /\ readFd'[p][s] => readFd[p][s]
<1> DEFINE drained(s) == IF readFd[p][s] /\ s \notin bad THEN sunk[p][s] + outPipe[p][s] ELSE sunk[p][s]
           left(s) == IF readFd[p][s] THEN 0 ELSE outPipe[p][s]
           open(s) == readFd[p][s] /\ s \notin bad /\ os[p] = "running"
<1>1. /\ outPipe \in PerStream(0 .. PipeCap) /\ sunk \in PerStream(0 .. OutputLen)
      /\ produced \in PerStream(0 .. OutputLen) /\ readFd \in PerStream(BOOLEAN)
      /\ PipeCap \in Nat /\ OutputLen \in Nat
  BY Bounds DEF TypeOK
<1>2. ASSUME NEW s \in Streams
      PROVE  /\ drained(s) \in 0 .. OutputLen /\ left(s) = 0 /\ open(s) \in BOOLEAN
             /\ drained(s) <= produced[p][s]
             /\ ~lastErrno[p] /\ bad = {} => drained(s) = produced[p][s]
  <2>1. /\ sunk[p][s] \in 0 .. OutputLen /\ outPipe[p][s] \in 0 .. PipeCap
        /\ produced[p][s] \in 0 .. OutputLen /\ readFd[p][s] \in BOOLEAN
    BY <1>1 DEF PerStream
  <2>2. /\ sunk[p][s] + outPipe[p][s] <= produced[p][s]
        /\ ~lastErrno[p] => sunk[p][s] + outPipe[p][s] = produced[p][s]
        /\ ~readFd[p][s] => outPipe[p][s] = 0
    BY DEF StreamInv
  <2> QED
    BY <1>1, <2>1, <2>2
<1>3. /\ sunk' = [sunk EXCEPT ![p] = [s \in Streams |-> drained(s)]]
      /\ outPipe' = [outPipe EXCEPT ![p] = [s \in Streams |-> left(s)]]
      /\ readFd' = [readFd EXCEPT ![p] = [s \in Streams |-> open(s)]]
  <2>1. /\ sunk[p] = [s \in Streams |-> sunk[p][s]] /\ DOMAIN sunk = Procs
        /\ outPipe[p] = [s \in Streams |-> outPipe[p][s]] /\ DOMAIN outPipe = Procs
        /\ readFd[p] = [s \in Streams |-> readFd[p][s]] /\ DOMAIN readFd = Procs
    BY <1>1 DEF PerStream
  <2> QED
    BY <2>1 DEF PumpOutput
<1>4. \A s \in Streams : open(s) => readFd[p][s]
  OBVIOUS
<1> HIDE DEF drained, left, open
<1>5. /\ [s \in Streams |-> drained(s)] \in [Streams -> 0 .. OutputLen]
      /\ [s \in Streams |-> left(s)] \in [Streams -> 0 .. PipeCap]
      /\ [s \in Streams |-> open(s)] \in [Streams -> BOOLEAN]
  BY <1>1, <1>2
<1>6. /\ sunk' \in PerStream(0 .. OutputLen) /\ outPipe' \in PerStream(0 .. PipeCap)
      /\ readFd' \in PerStream(BOOLEAN)
  BY <1>1, <1>3, <1>5 DEF PerStream
<1>7. /\ \A q \in Procs \ {p} : outPipe'[q] = outPipe[q] /\ sunk'[q] = sunk[q] /\ readFd'[q] = readFd[q]
      /\ \A s \in Streams : sunk'[p][s] = drained(s) /\ outPipe'[p][s] = left(s) /\ readFd'[p][s] = open(s)
  BY <1>1, <1>3 DEF PerStream
<1> QED
  BY <1>2, <1>4, <1>6, <1>7

-----------------------------------------------------------------------------
(* The children.  A child that runs is a proc in RUNNING, so its steps      *)
(* touch no slot, no flag and no proc that is reported.                     *)

LEMMA AliveIsRunning ==
  ASSUME StatusInv, NEW p \in Procs, os[p] = "running"
  PROVE  status[p] = "RUNNING" /\ status[p] \notin Terminal
BY DEF StatusInv, Living, Terminal

(* The control of the call moves on its own, or poll() is interrupted.      *)
LEMMA ChildrenKeepCallInv ==
  ASSUME CallInv, ReadyInv, SlotInv, pc' = pc \/ (pc = "poll" /\ pc' = "fill"),
         UNCHANGED <<procVars, flags, i, mode, ready, liveCount, nextToSpawn, killed, timeout>>
  PROVE  CallInv' /\ ReadyInv' /\ SlotInv'
<1> USE DEF procVars, flags
<1>1. (\A p \in Procs : OpenStreams(p)' = OpenStreams(p)) /\ ResultCode' = ResultCode /\ Running' = Running
  BY DEF OpenStreams, ResultCode, Running
<1>2. ReadyInv' /\ SlotInv'
  BY <1>1 DEF ReadyInv, SlotInv
<1>3. CallInv'
  BY <1>1 DEF CallInv, Leaving
<1> QED
  BY <1>2, <1>3

LEMMA ChildReadsStep ==
  ASSUME Configuration, BatchInv, NEW p \in Procs, ChildReads(p)
  PROVE  BatchInv'
<1> USE DEF BatchInv
<1>1. /\ inPipe' = [inPipe EXCEPT ![p] = @ - 1] /\ received' = [received EXCEPT ![p] = @ + 1]
      /\ os[p] = "running" /\ readsStdin[p] /\ inPipe[p] > 0
      /\ UNCHANGED <<os, readsStdin, sawEof, holders, outPipe, produced>>
      /\ UNCHANGED <<kernelVars, procVars, flags, control>>
  BY DEF ChildReads
<1> USE DEF kernelVars, clock, procVars, flags, control
<1>2. /\ inPipe[p] \in 0 .. PipeCap /\ received[p] \in 0 .. InputLen /\ offset[p] \in 0 .. InputLen
      /\ inPipe \in [Procs -> 0 .. PipeCap] /\ received \in [Procs -> 0 .. InputLen]
      /\ PipeCap \in Nat /\ InputLen \in Nat
  BY Bounds DEF TypeOK
<1>3. received[p] + inPipe[p] = offset[p]
  BY <1>1 DEF InputInv
<1>4. /\ inPipe[p] - 1 \in 0 .. PipeCap /\ received[p] + 1 \in 0 .. InputLen
      /\ (received[p] + 1) + (inPipe[p] - 1) = offset[p]
  BY <1>1, <1>2, <1>3
<1>5. /\ inPipe' \in [Procs -> 0 .. PipeCap] /\ received' \in [Procs -> 0 .. InputLen]
      /\ received'[p] = received[p] + 1 /\ inPipe'[p] = inPipe[p] - 1
      /\ \A q \in Procs \ {p} : inPipe'[q] = inPipe[q] /\ received'[q] = received[q]
  BY <1>1, <1>2, <1>4
<1>6. TypeOK'
  BY <1>1, <1>5 DEF TypeOK
<1>7. StatusInv'
  BY <1>1, <1>5 DEF StatusInv, NoChild
<1>8. InputInv'
  <2>1. ASSUME NEW q \in Procs, q # p
        PROVE  /\ received'[q] + inPipe'[q] <= offset'[q]
               /\ readsStdin'[q] => os'[q] = "running" /\ received'[q] + inPipe'[q] = offset'[q]
               /\ readsStdin'[q] /\ ~stdinFd'[q] /\ ~lastErrno'[q] /\ ~waitFailed' => offset'[q] = InputLen
               /\ sawEof'[q] /\ ~lastErrno'[q] /\ ~waitFailed' => received'[q] = InputLen
    BY <1>1, <1>5, <2>1 DEF InputInv
  <2>2. /\ received'[p] + inPipe'[p] <= offset'[p]
        /\ readsStdin'[p] => os'[p] = "running" /\ received'[p] + inPipe'[p] = offset'[p]
    BY <1>1, <1>2, <1>3, <1>5
  <2>3. readsStdin'[p] /\ ~stdinFd'[p] /\ ~lastErrno'[p] /\ ~waitFailed' => offset'[p] = InputLen
    BY <1>1 DEF InputInv
  <2>4. ~(sawEof[p] /\ ~lastErrno[p] /\ ~waitFailed)
    BY <1>1, <1>2, <1>3 DEF InputInv
  <2> QED
    BY <1>1, <2>1, <2>2, <2>3, <2>4 DEF InputInv
<1>9. StreamInv'
  BY <1>1 DEF StreamInv
<1> QED
  BY <1>1, <1>6, <1>7, <1>8, <1>9, ChildrenKeepCallInv

LEMMA ChildSeesEofStep ==
  ASSUME Configuration, BatchInv, NEW p \in Procs, ChildSeesEof(p)
  PROVE  BatchInv'
<1> USE DEF BatchInv
<1>1. /\ sawEof' = [sawEof EXCEPT ![p] = TRUE]
      /\ os[p] = "running" /\ readsStdin[p] /\ inPipe[p] = 0 /\ ~stdinFd[p]
      /\ UNCHANGED <<os, inPipe, received, readsStdin, holders, outPipe, produced>>
      /\ UNCHANGED <<kernelVars, procVars, flags, control>>
  BY DEF ChildSeesEof
<1> USE DEF kernelVars, clock, procVars, flags, control
<1>2. TypeOK' /\ \A q \in Procs \ {p} : sawEof'[q] = sawEof[q]
  BY <1>1 DEF TypeOK
<1>3. StatusInv'
  BY <1>1, <1>2 DEF StatusInv, NoChild
<1>4. ~lastErrno[p] /\ ~waitFailed => received[p] = InputLen
  <2>1. received[p] + 0 = offset[p] /\ received[p] \in Nat
    BY <1>1, Bounds DEF InputInv, TypeOK
  <2> QED
    BY <1>1, <2>1 DEF InputInv
<1>5. InputInv'
  BY <1>1, <1>2, <1>4 DEF InputInv
<1>6. StreamInv'
  BY <1>1 DEF StreamInv
<1> QED
  BY <1>1, <1>2, <1>3, <1>5, <1>6, ChildrenKeepCallInv

(* The child closes its end of the pipe, or its end does.                   *)
LEMMA StdinGone ==
  ASSUME Configuration, TypeOK, StatusInv, InputInv, NEW p \in Procs,
         inPipe' = [inPipe EXCEPT ![p] = 0], readsStdin' = [readsStdin EXCEPT ![p] = FALSE],
         os'[p] # "none", \A q \in Procs \ {p} : os'[q] = os[q],
         UNCHANGED <<received, sawEof, offset, stdinFd, lastErrno, waitFailed>>
  PROVE  InputInv' /\ inPipe' \in [Procs -> 0 .. PipeCap] /\ readsStdin' \in [Procs -> BOOLEAN]
<1>1. /\ inPipe' \in [Procs -> 0 .. PipeCap] /\ readsStdin' \in [Procs -> BOOLEAN]
      /\ ~readsStdin'[p] /\ inPipe'[p] = 0
      /\ \A q \in Procs \ {p} : inPipe'[q] = inPipe[q] /\ readsStdin'[q] = readsStdin[q]
  BY Bounds DEF TypeOK
<1>2. received[p] + 0 <= offset[p]
  BY Bounds DEF InputInv, TypeOK
<1> QED
  BY <1>1, <1>2 DEF InputInv

LEMMA ChildClosesStdinStep ==
  ASSUME Configuration, BatchInv, NEW p \in Procs, ChildClosesStdin(p)
  PROVE  BatchInv'
<1> USE DEF BatchInv
<1>1. /\ readsStdin' = [readsStdin EXCEPT ![p] = FALSE] /\ inPipe' = [inPipe EXCEPT ![p] = 0]
      /\ os[p] = "running"
      /\ UNCHANGED <<os, received, sawEof, holders, outPipe, produced>>
      /\ UNCHANGED <<kernelVars, procVars, flags, control>>
  BY DEF ChildClosesStdin
<1> USE DEF kernelVars, clock, procVars, flags, control
<1>2. InputInv' /\ inPipe' \in [Procs -> 0 .. PipeCap] /\ readsStdin' \in [Procs -> BOOLEAN]
  BY <1>1, StdinGone
<1>3. TypeOK'
  BY <1>1, <1>2 DEF TypeOK
<1>4. StatusInv'
  BY <1>1 DEF StatusInv, NoChild, TypeOK
<1>5. StreamInv'
  BY <1>1 DEF StreamInv
<1> QED
  BY <1>1, <1>2, <1>3, <1>4, <1>5, ChildrenKeepCallInv

LEMMA ChildWritesStep ==
  ASSUME Configuration, BatchInv, NEW p \in Procs, NEW s \in Streams, ChildWrites(p, s)
  PROVE  BatchInv'
<1> USE DEF BatchInv
<1>1. /\ os[p] = "running" /\ readFd[p][s]
      /\ produced[p][s] < OutputLen /\ outPipe[p][s] < PipeCap
      /\ outPipe' = [outPipe EXCEPT ![p][s] = @ + 1]
      /\ produced' = [produced EXCEPT ![p][s] = @ + 1]
      /\ UNCHANGED <<os, inPipe, received, readsStdin, sawEof, holders>>
      /\ UNCHANGED <<kernelVars, procVars, flags, control>>
  BY DEF ChildWrites
<1> USE DEF kernelVars, clock, procVars, flags, control
<1>2. /\ outPipe \in [Procs -> [Streams -> 0 .. PipeCap]]
      /\ produced \in [Procs -> [Streams -> 0 .. OutputLen]]
      /\ sunk \in [Procs -> [Streams -> 0 .. OutputLen]]
      /\ PipeCap \in Nat /\ OutputLen \in Nat
  BY Bounds DEF TypeOK, PerStream
<1>3. outPipe[p][s] + 1 \in 0 .. PipeCap /\ produced[p][s] + 1 \in 0 .. OutputLen
  BY <1>1, <1>2
<1>4. /\ outPipe' \in [Procs -> [Streams -> 0 .. PipeCap]]
      /\ produced' \in [Procs -> [Streams -> 0 .. OutputLen]]
      /\ outPipe'[p][s] = outPipe[p][s] + 1 /\ produced'[p][s] = produced[p][s] + 1
      /\ \A q \in Procs, t \in Streams :
           q # p \/ t # s => outPipe'[q][t] = outPipe[q][t] /\ produced'[q][t] = produced[q][t]
  BY <1>1, <1>2, <1>3
<1>5. TypeOK'
  BY <1>1, <1>4 DEF TypeOK, PerStream
<1>6. StatusInv'
  BY <1>1, <1>4 DEF StatusInv, NoChild
<1>7. InputInv'
  BY <1>1 DEF InputInv
<1>8. StreamInv'
  <2>1. status[p] \notin Terminal
    BY <1>1, AliveIsRunning
  <2>2. /\ sunk[p][s] + outPipe'[p][s] <= produced'[p][s]
        /\ ~lastErrno[p] => sunk[p][s] + outPipe'[p][s] = produced'[p][s]
    BY <1>2, <1>4 DEF StreamInv
  <2> QED
    BY <1>1, <1>4, <2>1, <2>2 DEF StreamInv
<1> QED
  BY <1>1, <1>5, <1>6, <1>7, <1>8, ChildrenKeepCallInv

LEMMA DiesStep ==
  ASSUME Configuration, BatchInv, NEW p \in Procs, NEW how \in Zombie, Dies(p, how)
  PROVE  BatchInv'
<1> USE DEF BatchInv
<1>1. /\ os[p] = "running" /\ os' = [os EXCEPT ![p] = how]
      /\ inPipe' = [inPipe EXCEPT ![p] = 0] /\ readsStdin' = [readsStdin EXCEPT ![p] = FALSE]
      /\ selfPipe' = TRUE /\ (pc' = pc \/ (pc = "poll" /\ pc' = "fill"))
      /\ UNCHANGED <<received, sawEof, holders, outPipe, produced, killed, clock>>
      /\ UNCHANGED <<procVars, flags, i, mode, ready, liveCount, nextToSpawn>>
  BY DEF Dies
<1> USE DEF clock, procVars, flags
<1>2. /\ how \notin {"none", "running", "reaped"}
      /\ os' \in [Procs -> {"none", "running", "reaped"} \cup Zombie]
      /\ os'[p] = how /\ \A q \in Procs \ {p} : os'[q] = os[q]
  BY <1>1 DEF TypeOK, Zombie
<1>3. InputInv' /\ inPipe' \in [Procs -> 0 .. PipeCap] /\ readsStdin' \in [Procs -> BOOLEAN]
  BY <1>1, <1>2, StdinGone
<1>4. TypeOK'
  BY <1>1, <1>2, <1>3 DEF TypeOK
<1>5. StatusInv'
  BY <1>1, <1>2 DEF StatusInv, NoChild, TypeOK, Living
<1>6. StreamInv'
  BY <1>1 DEF StreamInv
<1> QED
  BY <1>1, <1>3, <1>4, <1>5, <1>6, ChildrenKeepCallInv

LEMMA ChildrenKeepInv ==
  ASSUME Configuration, BatchInv, NEW p \in Procs, ChildStep(p)
  PROVE  BatchInv'
<1>1. CASE ChildReads(p) \/ ChildSeesEof(p) \/ ChildClosesStdin(p)
  BY <1>1, ChildReadsStep, ChildSeesEofStep, ChildClosesStdinStep
<1>2. CASE \E s \in Streams : ChildWrites(p, s)
  BY <1>2, ChildWritesStep
<1>3. CASE ChildExits(p) \/ ChildKilled(p)
  <2>1. "signalled" \in Zombie
    BY DEF Zombie
  <2> QED
    BY <1>3, <2>1, DiesStep DEF ChildExits, ChildKilled
<1> QED
  BY <1>1, <1>2, <1>3 DEF ChildStep

-----------------------------------------------------------------------------
(* Filling the slots.                                                       *)

LEMMA NextIsFresh ==
  ASSUME Configuration, TypeOK, StatusInv, MayFill
  PROVE  /\ nextToSpawn \in Procs /\ status[nextToSpawn] = "NOT_STARTED"
         /\ os[nextToSpawn] = "none" /\ NoChild(nextToSpawn)
         /\ nextToSpawn + 1 \in 1 .. N + 1
<1>1. nextToSpawn \in 1 .. N + 1 /\ nextToSpawn <= N /\ N \in Nat
  BY Bounds DEF MayFill, TypeOK
<1>2. nextToSpawn \in Procs /\ nextToSpawn + 1 \in 1 .. N + 1 /\ nextToSpawn <= nextToSpawn
  BY <1>1 DEF Procs
<1>3. status[nextToSpawn] = "NOT_STARTED"
  BY <1>2 DEF StatusInv
<1>4. os[nextToSpawn] = "none"
  BY <1>2, <1>3 DEF StatusInv, Living, Terminal, Zombie, TypeOK
<1> QED
  BY <1>2, <1>3, <1>4 DEF StatusInv

(* A proc that fails to start counts nowhere but in the flag.               *)
LEMMA SpawnFailsStep ==
  ASSUME Configuration, BatchInv, SpawnFails
  PROVE  BatchInv'
<1> USE DEF BatchInv
<1> DEFINE p == nextToSpawn
<1>1. /\ pc = "fill" /\ MayFill /\ status' = [status EXCEPT ![p] = "FAILED_TO_START"]
      /\ anySpawnFailed' = TRUE /\ nextToSpawn' = p + 1
      /\ UNCHANGED <<childVars, kernelVars, stdinFd, offset, readFd, sunk>>
      /\ UNCHANGED <<anyIoFailed, timeoutReached, waitFailed, result, pc, i, mode, ready, liveCount>>
  BY DEF SpawnFails
<1>2. PICK errno \in BOOLEAN : lastErrno' = [lastErrno EXCEPT ![p] = errno]
  BY DEF SpawnFails
<1> USE DEF childVars, kernelVars, clock
<1>3. p \in Procs /\ status[p] = "NOT_STARTED" /\ os[p] = "none" /\ NoChild(p) /\ p + 1 \in 1 .. N + 1
  BY <1>1, NextIsFresh
<1> HIDE DEF p
<1>4. /\ lastErrno' \in [Procs -> BOOLEAN]
      /\ status' \in [Procs -> {"NOT_STARTED", "RUNNING", "FAILED_TO_START"} \cup Terminal]
      /\ status'[p] = "FAILED_TO_START"
      /\ \A q \in Procs \ {p} : lastErrno'[q] = lastErrno[q] /\ status'[q] = status[q]
  BY <1>1, <1>2, <1>3 DEF TypeOK
<1>5. TypeOK'
  BY <1>1, <1>3, <1>4 DEF TypeOK
<1>6. StatusInv'
  <2>1. ASSUME NEW q \in Procs PROVE (q # p => (p <= q <=> p + 1 <= q)) /\ ~(p + 1 <= p)
    BY <1>3 DEF Procs
  <2>2. \A q \in Procs : NoChild(q)' <=> NoChild(q)
    BY <1>1 DEF NoChild
  <2>3. ASSUME NEW q \in Procs, q # p
        PROVE  /\ status'[q] = "RUNNING" <=> os'[q] \in Living
               /\ status'[q] \in Terminal <=> os'[q] = "reaped"
               /\ status'[q] = "NOT_STARTED" <=> nextToSpawn' <= q
               /\ status'[q] = "FAILED_TO_START" => anySpawnFailed'
               /\ os'[q] = "none" => NoChild(q)'
    <3>1. /\ status[q] = "RUNNING" <=> os[q] \in Living
          /\ status[q] \in Terminal <=> os[q] = "reaped"
          /\ status[q] = "NOT_STARTED" <=> p <= q
          /\ os[q] = "none" => NoChild(q)
      BY DEF StatusInv, p
    <3> QED
      BY <1>1, <1>4, <2>1, <2>2, <2>3, <3>1
  <2>4. /\ "FAILED_TO_START" \notin Terminal /\ os'[p] \notin Living /\ os'[p] # "reaped"
        /\ ~(nextToSpawn' <= p)
    BY <1>1, <1>3, <2>1 DEF Terminal, Living, Zombie
  <2> QED
    BY <1>1, <1>3, <1>4, <2>2, <2>3, <2>4 DEF StatusInv
<1>7. SlotInv'
  <2>1. Running' = Running
    BY <1>3, <1>4 DEF Running
  <2> QED
    BY <1>1, <2>1 DEF SlotInv
<1>8. InputInv'
  BY <1>1, <1>3, <1>4 DEF InputInv, NoChild
<1>9. StreamInv'
  <2>1. "FAILED_TO_START" \notin Terminal /\ 0 + 0 = 0
    BY DEF Terminal
  <2> QED
    BY <1>1, <1>3, <1>4, <2>1 DEF StreamInv, NoChild
<1>10. ReadyInv' /\ CallInv'
  <2>1. mode' = "run" /\ pc' = "fill"
    BY <1>1 DEF CallInv
  <2> QED
    BY <1>1, <2>1 DEF ReadyInv, CallInv, Leaving
<1> QED
  BY <1>5, <1>6, <1>7, <1>8, <1>9, <1>10

LEMMA SpawnStep ==
  ASSUME Configuration, BatchInv, Spawn
  PROVE  BatchInv'
<1> USE DEF BatchInv
<1> DEFINE p == nextToSpawn
<1>1. /\ pc = "fill" /\ MayFill
      /\ os' = [os EXCEPT ![p] = "running"]
      /\ readsStdin' = [readsStdin EXCEPT ![p] = p \in Feeds]
      /\ status' = [status EXCEPT ![p] = "RUNNING"]
      /\ stdinFd' = [stdinFd EXCEPT ![p] = p \in Feeds]
      /\ readFd' = [readFd EXCEPT ![p] = [s \in Streams |-> s \in Captures[p]]]
      /\ liveCount' = liveCount + 1 /\ nextToSpawn' = p + 1
      /\ UNCHANGED <<inPipe, received, sawEof, outPipe, produced, kernelVars>>
      /\ UNCHANGED <<offset, sunk, lastErrno, flags, pc, i, mode, ready>>
  BY DEF Spawn
<1>2. holders' = [q \in Procs |-> IF q \in InheritedBy(p) THEN holders[q] \cup {p} ELSE holders[q]]
  BY DEF Spawn
<1> USE DEF kernelVars, clock, flags
<1>3. p \in Procs /\ status[p] = "NOT_STARTED" /\ os[p] = "none" /\ NoChild(p) /\ p + 1 \in 1 .. N + 1
  BY <1>1, NextIsFresh
<1> HIDE DEF p
<1>4. /\ os' \in [Procs -> {"none", "running", "reaped"} \cup Zombie]
      /\ readsStdin' \in [Procs -> BOOLEAN] /\ stdinFd' \in [Procs -> BOOLEAN]
      /\ status' \in [Procs -> {"NOT_STARTED", "RUNNING", "FAILED_TO_START"} \cup Terminal]
      /\ os'[p] = "running" /\ status'[p] = "RUNNING" /\ (stdinFd'[p] <=> readsStdin'[p])
      /\ \A q \in Procs \ {p} :
           /\ os'[q] = os[q] /\ status'[q] = status[q]
           /\ readsStdin'[q] = readsStdin[q] /\ stdinFd'[q] = stdinFd[q]
  BY <1>1, <1>3 DEF TypeOK
<1>5. /\ readFd' \in PerStream(BOOLEAN)
      /\ \A q \in Procs \ {p} : readFd'[q] = readFd[q]
  BY <1>1, <1>3 DEF TypeOK, PerStream
<1>6. holders' \in [Procs -> SUBSET Procs]
  <2>1. ASSUME NEW q \in Procs
        PROVE  (IF q \in InheritedBy(p) THEN holders[q] \cup {p} ELSE holders[q]) \in SUBSET Procs
    BY <1>3 DEF TypeOK
  <2> QED
    BY <1>2, <2>1
<1>7. SlotInv' /\ liveCount' \in 0 .. N
  <2>1. Running' = Running \cup {p}
    BY <1>3, <1>4 DEF Running
  <2>2. Cardinality(Running)' = Cardinality(Running) + 1
    BY <1>3, <2>1, RunningGrows
  <2>3. liveCount < MaxParallel /\ liveCount \in 0 .. N /\ MaxParallel \in 1 .. N /\ N \in Nat
    BY <1>1, Bounds DEF MayFill, TypeOK
  <2> QED
    BY <1>1, <2>2, <2>3 DEF SlotInv
<1>8. TypeOK'
  BY <1>1, <1>3, <1>4, <1>5, <1>6, <1>7 DEF TypeOK
<1>9. StatusInv'
  <2>1. ASSUME NEW q \in Procs PROVE (q # p => (p <= q <=> p + 1 <= q)) /\ ~(p + 1 <= p)
    BY <1>3 DEF Procs
  <2>2. ASSUME NEW q \in Procs, q # p
        PROVE  /\ status'[q] = "RUNNING" <=> os'[q] \in Living
               /\ status'[q] \in Terminal <=> os'[q] = "reaped"
               /\ status'[q] = "NOT_STARTED" <=> nextToSpawn' <= q
               /\ status'[q] = "FAILED_TO_START" => anySpawnFailed'
               /\ os'[q] = "none" => NoChild(q)'
    <3>1. /\ status[q] = "RUNNING" <=> os[q] \in Living
          /\ status[q] \in Terminal <=> os[q] = "reaped"
          /\ status[q] = "NOT_STARTED" <=> p <= q
          /\ status[q] = "FAILED_TO_START" => anySpawnFailed
          /\ os[q] = "none" => NoChild(q)
      BY DEF StatusInv, p
    <3>2. NoChild(q) => NoChild(q)'
      BY <1>1, <1>4, <1>5, <2>2 DEF NoChild
    <3> QED
      BY <1>1, <1>4, <2>1, <2>2, <3>1, <3>2
  <2>3. /\ status'[p] = "RUNNING" /\ os'[p] = "running" /\ os'[p] \in Living
        /\ "RUNNING" \notin Terminal /\ ~(nextToSpawn' <= p)
    BY <1>1, <1>4, <2>1 DEF Terminal, Living
  <2> QED
    BY <2>2, <2>3 DEF StatusInv
<1>10. InputInv'
  <2>1. ASSUME NEW q \in Procs, q # p
        PROVE  /\ received'[q] + inPipe'[q] <= offset'[q]
               /\ readsStdin'[q] => os'[q] = "running" /\ received'[q] + inPipe'[q] = offset'[q]
               /\ readsStdin'[q] /\ ~stdinFd'[q] /\ ~lastErrno'[q] /\ ~waitFailed' => offset'[q] = InputLen
               /\ sawEof'[q] /\ ~lastErrno'[q] /\ ~waitFailed' => received'[q] = InputLen
    BY <1>1, <1>4, <2>1 DEF InputInv
  <2> QED
    BY <1>1, <1>3, <1>4, <2>1 DEF InputInv, NoChild
<1>11. StreamInv'
  <2>1. "RUNNING" \notin Terminal
    BY DEF Terminal
  <2> QED
    BY <1>1, <1>3, <1>4, <1>5, <2>1 DEF StreamInv, NoChild
<1>12. ReadyInv' /\ CallInv'
  <2>1. mode' = "run" /\ pc' = "fill"
    BY <1>1 DEF CallInv
  <2> QED
    BY <1>1, <2>1 DEF ReadyInv, CallInv, Leaving
<1> QED
  BY <1>7, <1>8, <1>9, <1>10, <1>11, <1>12

-----------------------------------------------------------------------------
(* Pumping and reaping: what they do to the proc at i, and to no other.     *)

LEMMA FailuresAreSets ==
  ASSUME Configuration, NEW p \in Procs
  PROVE  /\ ReadFailures(p) \subseteq SUBSET OpenStreams(p)
         /\ WriteFailures(p) \subseteq BOOLEAN
BY DEF ReadFailures, WriteFailures

OutputPumped ==
  /\ outPipe' \in PerStream(0 .. PipeCap)
  /\ sunk' \in PerStream(0 .. OutputLen)
  /\ readFd' \in PerStream(BOOLEAN)
  /\ lastErrno' \in [Procs -> BOOLEAN]
  /\ \A q \in Procs \ {i} : outPipe'[q] = outPipe[q] /\ sunk'[q] = sunk[q]
                            /\ readFd'[q] = readFd[q] /\ lastErrno'[q] = lastErrno[q]
  /\ lastErrno[i] => lastErrno'[i]
  /\ \A s \in Streams :
       /\ outPipe'[i][s] = 0
       /\ sunk'[i][s] <= produced'[i][s]
       /\ ~lastErrno'[i] => sunk'[i][s] = produced'[i][s]

LEMMA PumpedKeepsStreamInv ==
  ASSUME Configuration, TypeOK, StreamInv, i \in Procs, OutputPumped, pc' = pc, UNCHANGED produced,
         \A q \in Procs \ {i} : status'[q] = status[q]
  PROVE  StreamInv'
<1>1. ASSUME NEW s \in Streams
      PROVE  /\ sunk'[i][s] + outPipe'[i][s] <= produced'[i][s]
             /\ ~lastErrno'[i] => sunk'[i][s] + outPipe'[i][s] = produced'[i][s]
             /\ outPipe'[i][s] = 0
  <2>1. outPipe'[i][s] = 0 /\ sunk'[i][s] \in Nat
    BY Bounds DEF OutputPumped, PerStream
  <2> QED
    BY <2>1 DEF OutputPumped
<1>2. ASSUME NEW p \in Procs, NEW s \in Streams, p # i
      PROVE  /\ sunk'[p][s] + outPipe'[p][s] <= produced'[p][s]
             /\ ~lastErrno'[p] => sunk'[p][s] + outPipe'[p][s] = produced'[p][s]
             /\ ~readFd'[p][s] /\ pc' # "done" => outPipe'[p][s] = 0
             /\ status'[p] \in Terminal => outPipe'[p][s] = 0
  BY <1>2 DEF OutputPumped, StreamInv
<1> QED
  BY <1>1, <1>2 DEF StreamInv

LEMMA PumpStep ==
  ASSUME Configuration, BatchInv, PumpProc
  PROVE  BatchInv'
<1> USE DEF BatchInv
<1>1. /\ pc = "pump" /\ i <= N /\ status[i] = "RUNNING" /\ i' = i + 1
      /\ UNCHANGED <<os, received, readsStdin, sawEof, holders, produced, kernelVars, status>>
      /\ UNCHANGED <<anySpawnFailed, timeoutReached, waitFailed, result>>
      /\ UNCHANGED <<pc, mode, ready, liveCount, nextToSpawn>>
  BY DEF PumpProc
<1>2. PICK badRead \in ReadFailures(i), badWrite \in WriteFailures(i) :
        /\ IF i \in ready THEN PumpStdin(i, badWrite)
           ELSE badWrite = FALSE /\ UNCHANGED <<inPipe, offset, stdinFd>>
        /\ PumpOutput(i, badRead)
        /\ lastErrno' = [lastErrno EXCEPT ![i] = @ \/ badWrite \/ badRead # {}]
        /\ anyIoFailed' = (anyIoFailed \/ badRead # {})
  BY DEF PumpProc
<1> USE DEF kernelVars, clock
<1>3. i \in Procs /\ i + 1 \in 1 .. N + 1
  BY <1>1, Bounds DEF TypeOK, Procs
<1>4. badRead \in SUBSET OpenStreams(i) /\ badWrite \in BOOLEAN
  BY <1>2, <1>3, FailuresAreSets
<1>5. /\ inPipe' \in [Procs -> 0 .. PipeCap]
      /\ offset' \in [Procs -> 0 .. InputLen]
      /\ stdinFd' \in [Procs -> BOOLEAN]
      /\ \A q \in Procs \ {i} : inPipe'[q] = inPipe[q] /\ offset'[q] = offset[q] /\ stdinFd'[q] = stdinFd[q]
      /\ received'[i] + inPipe'[i] <= offset'[i]
      /\ readsStdin[i] => received'[i] + inPipe'[i] = offset'[i]
      /\ readsStdin[i] /\ ~stdinFd'[i] /\ ~lastErrno[i] /\ ~badWrite /\ ~waitFailed => offset'[i] = InputLen
  <2>1. CASE i \in ready
    BY <1>1, <1>2, <1>3, <1>4, <2>1, PumpStdinFacts
  <2>2. CASE i \notin ready
    BY <1>1, <1>2, <1>3, <2>2 DEF TypeOK, InputInv
  <2> QED
    BY <2>1, <2>2
<1>6. OutputPumped /\ (~lastErrno'[i] => ~lastErrno[i] /\ ~badWrite /\ badRead = {})
  <2>1. /\ lastErrno' \in [Procs -> BOOLEAN]
        /\ lastErrno'[i] <=> lastErrno[i] \/ badWrite \/ badRead # {}
        /\ \A q \in Procs \ {i} : lastErrno'[q] = lastErrno[q]
    <3>1. lastErrno \in [Procs -> BOOLEAN]
      BY DEF TypeOK
    <3>2. (lastErrno[i] \/ badWrite \/ badRead # {}) \in BOOLEAN
      OBVIOUS
    <3> QED
      BY <1>2, <1>3, <3>1, <3>2, Zenon
  <2> QED
    BY <1>1, <1>2, <1>3, <1>4, <2>1, PumpOutputFacts DEF OutputPumped
<1>7. anyIoFailed' \in BOOLEAN
  BY <1>2 DEF TypeOK
<1>8. TypeOK'
  BY <1>1, <1>3, <1>5, <1>6, <1>7 DEF TypeOK, OutputPumped
<1>9. StatusInv'
  <2>1. os[i] # "none"
    BY <1>1, <1>3 DEF StatusInv, Living, Zombie
  <2>2. ASSUME NEW q \in Procs, q # i, NoChild(q) PROVE NoChild(q)'
    BY <1>1, <1>5, <1>6, <2>2 DEF NoChild, OutputPumped
  <2> QED
    BY <1>1, <2>1, <2>2 DEF StatusInv
<1>10. SlotInv'
  <2>1. Running' = Running
    BY <1>1 DEF Running
  <2> QED
    BY <1>1, <2>1 DEF SlotInv
<1>11. InputInv'
  <2>1. ASSUME NEW q \in Procs, q # i
        PROVE  /\ received'[q] + inPipe'[q] <= offset'[q]
               /\ readsStdin'[q] => os'[q] = "running" /\ received'[q] + inPipe'[q] = offset'[q]
               /\ readsStdin'[q] /\ ~stdinFd'[q] /\ ~lastErrno'[q] /\ ~waitFailed' => offset'[q] = InputLen
               /\ sawEof'[q] /\ ~lastErrno'[q] /\ ~waitFailed' => received'[q] = InputLen
    BY <1>1, <1>5, <1>6, <2>1 DEF InputInv, OutputPumped
  <2>2. /\ received'[i] + inPipe'[i] <= offset'[i]
        /\ readsStdin'[i] => os'[i] = "running" /\ received'[i] + inPipe'[i] = offset'[i]
        /\ readsStdin'[i] /\ ~stdinFd'[i] /\ ~lastErrno'[i] /\ ~waitFailed' => offset'[i] = InputLen
        /\ sawEof'[i] /\ ~lastErrno'[i] /\ ~waitFailed' => received'[i] = InputLen
    BY <1>1, <1>3, <1>5, <1>6 DEF InputInv
  <2> QED
    BY <2>1, <2>2 DEF InputInv
<1>12. StreamInv'
  BY <1>1, <1>3, <1>6, PumpedKeepsStreamInv
<1>13. ReadyInv'
  <2>1. ASSUME NEW q \in ready, i + 1 <= q PROVE stdinFd'[q]
    <3>1. q \in Procs /\ q # i /\ i <= q
      BY <1>3, <2>1 DEF TypeOK, Procs
    <3> QED
      BY <1>1, <1>5, <3>1 DEF ReadyInv
  <2> QED
    BY <1>1, <2>1 DEF ReadyInv
<1>14. CallInv'
  BY <1>1 DEF CallInv, Leaving
<1> QED
  BY <1>8, <1>9, <1>10, <1>11, <1>12, <1>13, <1>14

LEMMA ReapStep ==
  ASSUME Configuration, BatchInv, Reap
  PROVE  BatchInv'
<1> USE DEF BatchInv
<1> DEFINE reported == IF os[i] = "exited" THEN "EXITED" ELSE "KILLED_BY_SIGNAL"
<1>1. /\ pc = "reap" /\ i <= N /\ status[i] = "RUNNING" /\ os[i] \in Zombie
      /\ os' = [os EXCEPT ![i] = "reaped"] /\ status' = [status EXCEPT ![i] = reported]
      /\ liveCount' = liveCount - 1 /\ i' = i + 1
      /\ UNCHANGED <<inPipe, received, readsStdin, sawEof, holders, produced, kernelVars>>
      /\ UNCHANGED <<stdinFd, offset, flags, pc, mode, ready, nextToSpawn>>
  BY DEF Reap
<1>2. PICK badRead \in ReadFailures(i) :
        PumpOutput(i, badRead) /\ lastErrno' = [lastErrno EXCEPT ![i] = @ \/ badRead # {}]
  BY DEF Reap
<1>3. reported \in Terminal
  BY DEF Terminal
<1> HIDE DEF reported
<1> USE DEF kernelVars, clock, flags
<1>4. i \in Procs /\ i + 1 \in 1 .. N + 1
  BY <1>1, Bounds DEF TypeOK, Procs
<1>5. badRead \in SUBSET OpenStreams(i)
  BY <1>2, <1>4, FailuresAreSets
<1>6. OutputPumped
  <2>1. /\ lastErrno' \in [Procs -> BOOLEAN]
        /\ lastErrno'[i] <=> lastErrno[i] \/ badRead # {}
        /\ \A q \in Procs \ {i} : lastErrno'[q] = lastErrno[q]
    <3>1. lastErrno \in [Procs -> BOOLEAN]
      BY DEF TypeOK
    <3>2. (lastErrno[i] \/ badRead # {}) \in BOOLEAN
      OBVIOUS
    <3> QED
      BY <1>2, <1>4, <3>1, <3>2, Zenon
  <2> QED
    BY <1>1, <1>2, <1>4, <1>5, <2>1, PumpOutputFacts DEF OutputPumped
<1>7. /\ os' \in [Procs -> {"none", "running", "reaped"} \cup Zombie]
      /\ status' \in [Procs -> {"NOT_STARTED", "RUNNING", "FAILED_TO_START"} \cup Terminal]
      /\ os'[i] = "reaped" /\ status'[i] \in Terminal
      /\ \A q \in Procs \ {i} : os'[q] = os[q] /\ status'[q] = status[q]
  BY <1>1, <1>3, <1>4 DEF TypeOK
<1>8. SlotInv' /\ liveCount' \in 0 .. N
  <2>1. Running' = Running \ {i}
    BY <1>4, <1>7 DEF Running, Terminal
  <2>2. Cardinality(Running)' = Cardinality(Running) - 1 /\ Cardinality(Running) > 0
    BY <1>1, <1>4, <2>1, RunningShrinks
  <2>3. liveCount \in 0 .. N /\ N \in Nat /\ MaxParallel \in 1 .. N
    BY Bounds DEF TypeOK
  <2> QED
    BY <1>1, <2>2, <2>3 DEF SlotInv
<1>9. TypeOK'
  BY <1>1, <1>4, <1>6, <1>7, <1>8 DEF TypeOK, OutputPumped
<1>10. StatusInv'
  <2>1. /\ "reaped" \notin Living /\ \A x \in Terminal : x \notin {"RUNNING", "NOT_STARTED", "FAILED_TO_START"}
    BY DEF Living, Zombie, Terminal
  <2>2. ~(nextToSpawn <= i)
    BY <1>1, <1>4 DEF StatusInv
  <2>3. ASSUME NEW q \in Procs, q # i, NoChild(q) PROVE NoChild(q)'
    BY <1>1, <1>6, <2>3 DEF NoChild, OutputPumped
  <2> QED
    BY <1>1, <1>7, <2>1, <2>2, <2>3 DEF StatusInv
<1>11. InputInv'
  <2>1. ~readsStdin[i]
    BY <1>1, <1>4 DEF InputInv, Zombie
  <2> QED
    BY <1>1, <1>6, <1>7, <2>1 DEF InputInv, OutputPumped
<1>12. StreamInv'
  BY <1>1, <1>4, <1>6, <1>7, PumpedKeepsStreamInv
<1>13. ReadyInv' /\ CallInv'
  BY <1>1 DEF ReadyInv, CallInv, Leaving
<1> QED
  BY <1>8, <1>9, <1>10, <1>11, <1>12, <1>13

-----------------------------------------------------------------------------
(* The steps of the call that touch no proc.                                *)

LEMMA QuietStep ==
  ASSUME Configuration, BatchInv,
         UNCHANGED <<childVars, procVars, anySpawnFailed, liveCount, nextToSpawn>>,
         waitFailed => waitFailed', pc = "done" => pc' = "done"
  PROVE  StatusInv' /\ SlotInv' /\ InputInv' /\ StreamInv'
<1> USE DEF BatchInv, childVars, procVars
<1>1. Running' = Running /\ \A p \in Procs : NoChild(p)' <=> NoChild(p)
  BY DEF Running, NoChild
<1>2. StatusInv' /\ SlotInv'
  BY <1>1 DEF StatusInv, SlotInv
<1>3. InputInv'
  BY DEF InputInv
<1>4. StreamInv'
  BY DEF StreamInv
<1> QED
  BY <1>2, <1>3, <1>4

LEMMA NothingLives ==
  ASSUME Configuration, TypeOK, SlotInv, liveCount = 0
  PROVE  Running = {}
BY RunningFinite, FS_EmptySet DEF SlotInv

LEMMA FillDoneStep == ASSUME Configuration, BatchInv, FillDone PROVE BatchInv'
<1> USE DEF FillDone, BatchInv, kernelVars, clock
<1>1. StatusInv' /\ SlotInv' /\ InputInv' /\ StreamInv'
  BY QuietStep
<1>2. TypeOK'
  BY DEF TypeOK, childVars, procVars
<1>3. liveCount = 0 /\ nextToSpawn <= N => timeout = "positive"
  BY Bounds DEF MayFill, TypeOK
<1>4. mode = "run" /\ mode' = "run" /\ pc' \in {"finish", "poll"}
  BY DEF CallInv
<1>5. CallInv'
  BY <1>3, <1>4 DEF CallInv, Leaving
<1> QED
  BY <1>1, <1>2, <1>4, <1>5 DEF ReadyInv

LEMMA PollStep == ASSUME Configuration, BatchInv, Poll \/ KillPoll PROVE BatchInv'
<1> USE DEF BatchInv, clock, flags
<1>1. /\ pc \in {"poll", "killpoll"} /\ pc' = "pump" /\ i' = 1 /\ selfPipe' = FALSE
      /\ ready' = StdinReady \/ ready' = {}
      /\ UNCHANGED <<childVars, killed, clock, procVars, flags, mode, liveCount, nextToSpawn>>
  BY DEF Poll, KillPoll
<1>2. StdinReady \subseteq Procs /\ \A p \in StdinReady : stdinFd[p]
  BY DEF StdinReady, Running
<1>3. StatusInv' /\ SlotInv' /\ InputInv' /\ StreamInv'
  BY <1>1, QuietStep
<1>4. ready' \subseteq Procs /\ i' \in 1 .. N + 1
  BY <1>1, <1>2, Bounds
<1>5. TypeOK'
  BY <1>1, <1>4 DEF TypeOK, childVars, procVars
<1>6. CallInv'
  BY <1>1 DEF CallInv, Leaving
<1>7. ReadyInv'
  BY <1>1, <1>2 DEF ReadyInv, procVars
<1> QED
  BY <1>3, <1>5, <1>6, <1>7

LEMMA PollFailsStep == ASSUME Configuration, BatchInv, PollFails PROVE BatchInv'
<1> USE DEF PollFails, BatchInv, kernelVars, clock
<1>1. StatusInv' /\ SlotInv' /\ InputInv' /\ StreamInv'
  BY QuietStep
<1>2. TypeOK'
  BY DEF TypeOK, childVars, procVars
<1>3. CallInv' /\ ReadyInv'
  BY DEF CallInv, Leaving, ReadyInv
<1> QED
  BY <1>1, <1>2, <1>3

LEMMA NextProcStep == ASSUME Configuration, BatchInv, NextProc \/ StillRunning PROVE BatchInv'
<1> USE DEF NextProc, StillRunning, BatchInv, kernelVars, clock
<1>1. StatusInv' /\ SlotInv' /\ InputInv' /\ StreamInv'
  BY QuietStep DEF flags
<1>2. i \in Nat /\ i' \in 1 .. N + 1 /\ (pc' = "pump" => pc = "pump" /\ i' = i + 1)
  BY Bounds DEF TypeOK
<1>3. pc' \in {"pump", "reap", "check", "killpoll"}
  OBVIOUS
<1>4. TypeOK'
  BY <1>2, <1>3 DEF TypeOK, childVars, procVars, flags
<1>5. ReadyInv'
  <2>1. ASSUME pc' = "pump", NEW p \in ready, i + 1 <= p PROVE stdinFd[p]
    <3>1. p \in Nat /\ i <= p
      BY <1>2, <2>1, Bounds DEF TypeOK, Procs
    <3> QED
      BY <1>2, <2>1, <3>1 DEF ReadyInv
  <2> QED
    BY <1>2, <2>1 DEF ReadyInv, procVars
<1>6. CallInv'
  BY <1>3 DEF CallInv, Leaving, flags
<1> QED
  BY <1>1, <1>4, <1>5, <1>6

LEMMA CheckStep == ASSUME Configuration, BatchInv, Check PROVE BatchInv'
<1> USE DEF Check, BatchInv, clock
<1>1. StatusInv' /\ SlotInv' /\ InputInv' /\ StreamInv'
  BY QuietStep
<1>2. pc' \in {"finish", "killpoll", "fill"} /\ mode = "run" /\ Running \subseteq Procs
  BY DEF CallInv, Running
<1>3. TypeOK'
  BY <1>2 DEF TypeOK, childVars, procVars, DeadlineHit
<1>4. AllDone => liveCount = 0 /\ ~(nextToSpawn <= N)
  BY Bounds DEF AllDone
<1>5. ~AllDone /\ DeadlineHit => timeoutReached' /\ timeout = "positive"
  BY DEF DeadlineHit
<1>6. /\ pc' = "finish" => AllDone \/ DeadlineHit
      /\ pc' = "killpoll" => mode' = "wave" /\ killed' = killed \cup Running
      /\ pc' # "killpoll" => mode' = "run" /\ killed' = killed
      /\ timeoutReached => timeoutReached'
  BY <1>2
<1>7. CallInv'
  BY <1>2, <1>4, <1>5, <1>6 DEF CallInv, Leaving
<1> QED
  BY <1>1, <1>2, <1>3, <1>7 DEF ReadyInv

LEMMA FinishStep == ASSUME Configuration, BatchInv, Finish PROVE BatchInv'
<1> USE DEF Finish, BatchInv, clock
<1>1. StatusInv' /\ SlotInv' /\ InputInv' /\ StreamInv'
  BY QuietStep DEF flags
<1>2. pc' \in {"close", "killpoll"} /\ Running \subseteq Procs
  BY DEF Running
<1>3. TypeOK'
  BY <1>2 DEF TypeOK, childVars, procVars, flags
<1>4. /\ pc' = "close" => waitFailed \/ ~timeoutReached \/ ~(liveCount > 0)
      /\ killed' = killed \/ timeoutReached
  OBVIOUS
<1>5. liveCount \in Nat
  BY Bounds DEF TypeOK
<1>6. CallInv'
  BY <1>2, <1>4, <1>5 DEF CallInv, Leaving, flags
<1> QED
  BY <1>1, <1>2, <1>3, <1>6 DEF ReadyInv

LEMMA KillDoneStep == ASSUME Configuration, BatchInv, KillDone PROVE BatchInv'
<1> USE DEF KillDone, BatchInv, kernelVars, clock
<1>1. StatusInv' /\ SlotInv' /\ InputInv' /\ StreamInv'
  BY QuietStep
<1>2. pc' \in {"close", "fill", "finish"} /\ timeoutReached'
  OBVIOUS
<1>3. TypeOK'
  BY <1>2 DEF TypeOK, childVars, procVars
<1>4. /\ pc' = "fill" => mode # "final"
      /\ pc' = "finish" => ~(nextToSpawn <= N)
      /\ mode' = "final" => mode = "final"
      /\ mode # "final" => mode' = "run"
  BY DEF TypeOK
<1>5. CallInv'
  BY <1>2, <1>4 DEF CallInv, Leaving
<1> QED
  BY <1>1, <1>2, <1>3, <1>5 DEF ReadyInv

(* Only here are pipes closed that a child may still have the other end of, *)
(* and only after a failed wait.                                            *)
LEMMA CloseStep == ASSUME Configuration, BatchInv, Close PROVE BatchInv'
<1> USE DEF BatchInv
<1>1. /\ stdinFd' = [p \in Procs |-> stdinFd[p] /\ ~Spawned(p)]
      /\ readFd' = [p \in Procs |-> [s \in Streams |-> readFd[p][s] /\ ~Spawned(p)]]
      /\ result' = ResultCode /\ pc = "close" /\ pc' = "done"
      /\ UNCHANGED <<childVars, kernelVars, status, offset, sunk, lastErrno>>
      /\ UNCHANGED <<anySpawnFailed, anyIoFailed, timeoutReached, waitFailed>>
      /\ UNCHANGED <<i, mode, ready, liveCount, nextToSpawn>>
  BY DEF Close
<1> USE DEF kernelVars, clock, childVars
<1>2. ResultCode \in {"IO_FAILED", "SUCCESS", "SPAWN_FAILED", "TIMEOUT_REACHED", "WAIT_FAILED"}
      /\ ResultCode' = ResultCode
  BY <1>1 DEF ResultCode
<1>3. ASSUME NEW p \in Procs
      PROVE  /\ ~stdinFd'[p] /\ \A s \in Streams : ~readFd'[p][s]
             /\ ~Spawned(p) => os[p] = "none"
  <2>1. ~Spawned(p) => os[p] = "none"
    BY DEF Spawned, StatusInv, TypeOK, Living, Zombie, Terminal
  <2>2. os[p] = "none" => NoChild(p)
    BY DEF StatusInv
  <2> QED
    BY <1>1, <2>1, <2>2 DEF NoChild
<1>4. /\ stdinFd' \in [Procs -> BOOLEAN] /\ readFd' \in PerStream(BOOLEAN)
  <2>1. \A p \in Procs : (stdinFd[p] /\ ~Spawned(p)) \in BOOLEAN
                         /\ [s \in Streams |-> readFd[p][s] /\ ~Spawned(p)] \in [Streams -> BOOLEAN]
    BY DEF TypeOK, PerStream
  <2> QED
    BY <1>1, <2>1 DEF PerStream
<1>5. TypeOK'
  BY <1>1, <1>2, <1>4 DEF TypeOK
<1>6. StatusInv'
  <2>1. ASSUME NEW p \in Procs, NoChild(p) PROVE NoChild(p)'
    BY <1>1, <1>3, <2>1 DEF NoChild
  <2> QED
    BY <1>1, <2>1 DEF StatusInv
<1>7. SlotInv'
  <2>1. Running' = Running
    BY <1>1 DEF Running
  <2> QED
    BY <1>1, <2>1 DEF SlotInv
<1>8. InputInv'
  <2>1. ASSUME NEW p \in Procs PROVE ~waitFailed => ~readsStdin[p]
    <3>1. ~waitFailed => status[p] # "RUNNING"
      BY <1>1, NothingLives DEF CallInv, Running
    <3> QED
      BY <3>1 DEF InputInv, StatusInv, Living
  <2> QED
    BY <1>1, <2>1 DEF InputInv
<1>9. StreamInv'
  BY <1>1 DEF StreamInv
<1>10. ReadyInv' /\ CallInv'
  <2>1. \A p \in Procs : ~stdinFd'[p] /\ OpenStreams(p)' = {}
    BY <1>3 DEF OpenStreams
  <2> QED
    BY <1>1, <1>2, <2>1 DEF ReadyInv, CallInv, Leaving
<1> QED
  BY <1>5, <1>6, <1>7, <1>8, <1>9, <1>10

-----------------------------------------------------------------------------
(* Before the call, and for one that is never made.                         *)
LEMMA UntouchedIsSound ==
  ASSUME Configuration, Untouched, pc \in {"fill", "done"}
  PROVE  TypeOK /\ StatusInv /\ SlotInv /\ InputInv /\ StreamInv
<1> USE DEF Untouched, Everywhere
<1>1. TypeOK
  <2>1. pc \in {"fill", "done"} /\ nextToSpawn \in 1 .. N + 1 /\ i \in 1 .. N + 1 /\ liveCount \in 0 .. N
    BY Bounds
  <2>2. /\ outPipe \in PerStream(0 .. PipeCap) /\ produced \in PerStream(0 .. OutputLen)
        /\ sunk \in PerStream(0 .. OutputLen) /\ readFd \in PerStream(BOOLEAN)
    BY Bounds DEF PerStream
  <2> QED
    BY <2>1, <2>2, Bounds DEF TypeOK
<1>2. StatusInv
  BY Bounds DEF StatusInv, NoChild, Living, Zombie, Terminal, Procs
<1>3. SlotInv
  <2>1. Running = {}
    BY DEF Running
  <2> QED
    BY <2>1, FS_EmptySet, Bounds DEF SlotInv
<1>4. InputInv /\ StreamInv
  BY DEF InputInv, StreamInv, Terminal
<1> QED
  BY <1>1, <1>2, <1>3, <1>4

LEMMA InvStarts == ASSUME Configuration, Init PROVE BatchInv
<1>1. TypeOK /\ StatusInv /\ SlotInv /\ InputInv /\ StreamInv
  BY UntouchedIsSound DEF Init
<1>2. ReadyInv /\ CallInv
  BY DEF Init, Untouched, ReadyInv, CallInv, Leaving
<1> QED
  BY <1>1, <1>2 DEF BatchInv

LEMMA StandingStill == ASSUME Configuration, BatchInv, UNCHANGED vars PROVE BatchInv'
<1> USE DEF vars, childVars, kernelVars, clock, procVars, flags, control
<1>1. \A p \in Procs : (NoChild(p)' <=> NoChild(p)) /\ OpenStreams(p)' = OpenStreams(p)
  BY DEF NoChild, OpenStreams
<1>2. StatusInv' /\ SlotInv' /\ InputInv' /\ StreamInv'
  BY QuietStep
<1>3. TypeOK'
  BY DEF BatchInv, TypeOK
<1>4. ReadyInv' /\ CallInv'
  BY <1>1 DEF BatchInv, ReadyInv, CallInv, Leaving, ResultCode
<1> QED
  BY <1>2, <1>3, <1>4 DEF BatchInv

LEMMA InvKept == ASSUME Configuration, BatchInv, [Next]_vars PROVE BatchInv'
<1>1. CASE CallStep
  BY <1>1, SpawnStep, SpawnFailsStep, FillDoneStep, PollStep, PumpStep, NextProcStep, ReapStep,
     CheckStep, FinishStep, KillDoneStep, CloseStep DEF CallStep
<1>2. CASE PollFails
  BY <1>2, PollFailsStep
<1>3. CASE \E p \in Procs : ChildStep(p)
  BY <1>3, ChildrenKeepInv
<1>4. CASE DeadlinePasses
  <2>1. StatusInv' /\ SlotInv' /\ InputInv' /\ StreamInv'
    BY <1>4, QuietStep DEF DeadlinePasses, flags, control
  <2>2. TypeOK'
    BY <1>4 DEF DeadlinePasses, BatchInv, TypeOK, childVars, procVars, flags, control
  <2>3. \A p \in Procs : OpenStreams(p)' = OpenStreams(p)
    BY <1>4 DEF DeadlinePasses, OpenStreams, procVars
  <2>4. ReadyInv' /\ CallInv'
    BY <1>4, <2>3 DEF DeadlinePasses, BatchInv, ReadyInv, CallInv, Leaving, ResultCode,
                      procVars, flags, control
  <2> QED
    BY <2>1, <2>2, <2>4 DEF BatchInv
<1>5. CASE Returned \/ UNCHANGED vars
  BY <1>5, StandingStill DEF Returned
<1> QED
  BY <1>1, <1>2, <1>3, <1>4, <1>5 DEF Next

-----------------------------------------------------------------------------
(* What the invariant says of slots, streams and results.                   *)

LEMMA SlotsFollow == ASSUME StatusInv, SlotInv PROVE LiveCountExact
<1>1. {p \in Procs : os[p] \in {"running"} \cup Zombie} = Running
  BY DEF StatusInv, Living, Running
<1> QED
  BY <1>1 DEF SlotInv, LiveCountExact

LEMMA StreamsFollow ==
  ASSUME Configuration, TypeOK, InputInv, StreamInv
  PROVE  OutputComplete /\ EofAfterWholeInput
<1>1. OutputComplete
  <2> SUFFICES ASSUME NEW p \in Procs, status[p] \in Terminal, ~lastErrno[p]
               PROVE  sunk[p] = produced[p]
    BY DEF OutputComplete
  <2>1. sunk[p] \in [Streams -> Nat] /\ produced[p] \in [Streams -> Nat]
    BY Bounds DEF TypeOK, PerStream
  <2>2. ASSUME NEW s \in Streams PROVE sunk[p][s] = produced[p][s]
    <3>1. sunk[p][s] + outPipe[p][s] = produced[p][s] /\ outPipe[p][s] = 0
      BY DEF StreamInv
    <3> QED
      BY <2>1, <3>1
  <2> QED
    BY <2>1, <2>2
<1>2. EofAfterWholeInput
  BY DEF InputInv, EofAfterWholeInput
<1> QED
  BY <1>1, <1>2

LEMMA ReturnFollows == ASSUME Configuration, BatchInv PROVE ReturnContract
<1> SUFFICES ASSUME pc = "done" PROVE ReturnContract
  BY DEF ReturnContract
<1> USE DEF BatchInv
<1>1. /\ result = ResultCode
      /\ result = "WAIT_FAILED" <=> waitFailed
      /\ result = "SUCCESS" => ~timeoutReached /\ ~anySpawnFailed
      /\ ~waitFailed /\ timeoutReached => result = "TIMEOUT_REACHED"
  BY DEF CallInv, ResultCode
<1>2. ASSUME ~waitFailed, NEW p \in Procs PROVE status[p] # "RUNNING"
  BY <1>2, NothingLives DEF CallInv, Running
<1>3. ASSUME ~waitFailed, NEW p \in Procs, Spawned(p)
      PROVE  status[p] \in Terminal /\ os[p] = "reaped"
  BY <1>2, <1>3 DEF Spawned, StatusInv, TypeOK
<1>4. ASSUME NEW p \in Procs, status[p] = "NOT_STARTED", ~waitFailed
      PROVE  timeoutReached /\ timeout = "positive"
  <2>1. nextToSpawn <= p /\ p <= N /\ nextToSpawn \in Nat /\ p \in Nat /\ N \in Nat
    BY <1>4, Bounds DEF StatusInv, TypeOK, Procs
  <2>2. nextToSpawn <= N
    BY <2>1
  <2> QED
    BY <1>4, <2>2 DEF CallInv, Leaving
<1>5. ASSUME result = "SUCCESS" PROVE killed = {} /\ \A p \in Procs : status[p] \in Terminal
  <2>1. ~waitFailed /\ ~timeoutReached /\ ~anySpawnFailed
    BY <1>1, <1>5
  <2>2. killed = {}
    BY <2>1 DEF CallInv
  <2>3. ASSUME NEW p \in Procs PROVE status[p] \in Terminal
    BY <1>2, <1>4, <2>1 DEF StatusInv, TypeOK
  <2> QED
    BY <2>2, <2>3
<1>6. \A p \in Procs : ~stdinFd[p] /\ OpenStreams(p) = {}
  BY DEF CallInv
<1> QED
  BY <1>1, <1>3, <1>4, <1>5, <1>6 DEF ReturnContract

-----------------------------------------------------------------------------
(* Where the call is, what it has counted, the pipes, the procs array and   *)
(* the kernel agree, after any number of spawns, failures, pumps, reaps,    *)
(* timeouts and kills.                                                      *)
THEOREM BatchInvariant == ASSUME Configuration PROVE Spec => []BatchInv
<1>1. Init => BatchInv
  BY InvStarts
<1>2. BatchInv /\ [Next]_vars => BatchInv'
  BY InvKept
<1> QED
  BY <1>1, <1>2, PTL DEF Spec

(* Every variable keeps its type: no pipe is overfilled, nothing past the   *)
(* end of stdin_memory is written, no slot is counted below zero.           *)
THEOREM BatchTypeCorrect == ASSUME Configuration PROVE Spec => []TypeOK
<1>1. BatchInv => TypeOK
  BY DEF BatchInv
<1> QED
  BY <1>1, BatchInvariant, PTL

(* live_count is the number of procs in RUNNING and of children not waited  *)
(* for, and never above parallelism_count.                                  *)
THEOREM SlotsSafe == ASSUME Configuration PROVE Spec => []LiveCountExact
<1>1. BatchInv => LiveCountExact
  BY SlotsFollow DEF BatchInv
<1> QED
  BY <1>1, BatchInvariant, PTL

(* A proc reported terminal without an error has given its sinks everything *)
(* its child wrote.                                                         *)
THEOREM OutputSafe == ASSUME Configuration PROVE Spec => []OutputComplete
<1>1. BatchInv => OutputComplete
  BY StreamsFollow DEF BatchInv
<1> QED
  BY <1>1, BatchInvariant, PTL

(* A child that reads end-of-file was given the whole of stdin_memory,      *)
(* unless a write to it failed or the wait did.                             *)
THEOREM InputSafe == ASSUME Configuration PROVE Spec => []EofAfterWholeInput
<1>1. BatchInv => EofAfterWholeInput
  BY StreamsFollow DEF BatchInv
<1> QED
  BY <1>1, BatchInvariant, PTL

(* What the call's result says of its children, of the procs it never came  *)
(* to and of the pipes.                                                     *)
THEOREM ReturnSafe == ASSUME Configuration PROVE Spec => []ReturnContract
<1>1. BatchInv => ReturnContract
  BY ReturnFollows
<1> QED
  BY <1>1, BatchInvariant, PTL

(* kill() names only the pids of children that were not waited for yet, so  *)
(* it cannot hit a process that got the number of a dead one.               *)
KillsOwnChildren == [][killed' \ killed \subseteq {p \in Procs : os[p] \in Living}]_vars

THEOREM KillsSafe == ASSUME Configuration PROVE Spec => KillsOwnChildren
<1>1. BatchInv /\ [Next]_vars => [killed' \ killed \subseteq {p \in Procs : os[p] \in Living}]_vars
  <2> SUFFICES ASSUME BatchInv, Next
               PROVE  killed' \ killed \subseteq {p \in Procs : os[p] \in Living}
    OBVIOUS
  <2>1. Running \subseteq {p \in Procs : os[p] \in Living}
    BY DEF BatchInv, StatusInv, Running
  <2>2. killed' = killed \/ killed' = killed \cup Running
    <3> USE DEF kernelVars
    <3>1. CASE CallStep
      BY <3>1 DEF CallStep, Spawn, SpawnFails, FillDone, Poll, PumpProc, NextProc, StillRunning,
                  Reap, Check, Finish, KillPoll, KillDone, Close
    <3>2. CASE PollFails \/ DeadlinePasses \/ Returned
      BY <3>2 DEF PollFails, DeadlinePasses, Returned, vars
    <3>3. ASSUME NEW p \in Procs, ChildStep(p) PROVE killed' = killed
      BY <3>3 DEF ChildStep, ChildReads, ChildSeesEof, ChildClosesStdin, ChildWrites,
                  ChildExits, ChildKilled, Dies
    <3> QED
      BY <3>1, <3>2, <3>3 DEF Next
  <2> QED
    BY <2>1, <2>2
<1> QED
  BY <1>1, BatchInvariant, PTL DEF Spec, KillsOwnChildren
==============================================================================
