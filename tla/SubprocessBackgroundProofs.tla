---------------------- MODULE SubprocessBackgroundProofs ----------------------
(***************************************************************************)
(* Proofs about SubprocessBackground, for any number of handles, any pipe  *)
(* capacity, any amount of input and output and any choice of calls.       *)
(***************************************************************************)
EXTENDS SubprocessBackground, TLAPS

(* What was read is at most what was written: together with the pipe it     *)
(* bounds the sink, which the type of sunk needs.                           *)
OutputFlow == \A p \in Procs : sunk[p] + outPipe[p] <= produced[p]

(* Children that the handle has not collected.                              *)
Uncollected == {"running", "taken"} \cup Zombie

(* A handle names a pid exactly while it is valid and has not collected its *)
(* child, and then it is a started one in RUNNING; a given up handle has no *)
(* pipe.                                                                    *)
PidInv ==
  \A p \in Procs :
    /\ pid[p] <=> valid[p] /\ os[p] \in Uncollected
    /\ pid[p] => background[p] /\ status[p] = "RUNNING"
    /\ os[p] = "none" <=> status[p] \in {"NOT_STARTED", "FAILED_TO_START"}
    /\ os[p] = "reaped" /\ valid[p] => status[p] \in Terminal
    /\ status[p] \in Terminal => os[p] = "reaped"
    /\ ~valid[p] => ~stdinFd[p] /\ ~readFd[p]

(* The handles of a call under way are valid, no result stands beside it,   *)
(* and the child that cleanup waits for is killed or dead.                  *)
UseInv ==
  /\ \A p \in waiting : pc # "idle" /\ valid[p]
  /\ pc \in {"polling", "collect"} => \A p \in subject : valid[p]
  /\ pc = "collect" => \A p \in subject : os[p] = "running" => p \in killed
  /\ pc # "idle" => last.op = "none"

(* The end of a cleanup that has waited, whatever its waitpid() returned.   *)
CleanupReturns(p) == CleanupCollects(p) \/ CleanupFindsNone(p) \/ CleanupInterrupted(p)

USE HandlesAssumption, ConfigAssumption DEF HandlesAssumption, Configuration

-----------------------------------------------------------------------------
(* The parts the calls are made of keep the types.                          *)

LEMMA Bounds == 1 \in 1 .. N + 1 /\ 0 \in 0 .. PipeCap /\ 0 \in 0 .. InputLen /\ 0 \in 0 .. OutputLen
<1>1. N \in Nat /\ PipeCap \in Nat /\ InputLen \in Nat /\ OutputLen \in Nat
  BY HandlesAssumption, ConfigAssumption DEF Configuration
<1> QED
  BY <1>1

LEMMA FailuresAreBooleans ==
  ASSUME NEW p \in Procs
  PROVE  ReadFailures(p) \subseteq BOOLEAN /\ WriteFailures(p) \subseteq BOOLEAN
BY DEF ReadFailures, WriteFailures

LEMMA PumpStdinTypes ==
  ASSUME TypeOK, NEW p \in Procs, NEW bad \in BOOLEAN, PumpStdin(p, bad)
  PROVE  /\ inPipe' \in [Procs -> 0 .. PipeCap]
         /\ offset' \in [Procs -> 0 .. InputLen]
         /\ stdinFd' \in [Procs -> BOOLEAN]
         /\ \A q \in Procs : stdinFd'[q] => stdinFd[q]
<1> DEFINE amount == IF bad \/ ~readsStdin[p] \/ ~stdinFd[p] THEN 0
                     ELSE Least(InputLen - offset[p], PipeCap - inPipe[p])
<1>1. inPipe[p] \in 0 .. PipeCap /\ offset[p] \in 0 .. InputLen /\ PipeCap \in Nat /\ InputLen \in Nat
  BY DEF TypeOK, ChildTypes, HandleTypes
<1>2. amount \in Nat /\ inPipe[p] + amount <= PipeCap /\ offset[p] + amount <= InputLen
  BY <1>1 DEF Least
<1>3. /\ inPipe' = [inPipe EXCEPT ![p] = @ + amount]
      /\ offset' = [offset EXCEPT ![p] = @ + amount]
      /\ stdinFd' = [stdinFd EXCEPT ![p] =
                       @ /\ readsStdin[p] /\ ~bad /\ offset[p] + amount < InputLen]
  BY DEF PumpStdin
<1>4. inPipe[p] + amount \in 0 .. PipeCap /\ offset[p] + amount \in 0 .. InputLen
  BY <1>1, <1>2
<1> HIDE DEF amount
<1>5. inPipe' \in [Procs -> 0 .. PipeCap] /\ offset' \in [Procs -> 0 .. InputLen]
  BY <1>3, <1>4 DEF TypeOK, ChildTypes, HandleTypes
<1>6. stdinFd' \in [Procs -> BOOLEAN] /\ \A q \in Procs : stdinFd'[q] => stdinFd[q]
  BY <1>3 DEF TypeOK, HandleTypes
<1> QED
  BY <1>5, <1>6

LEMMA PumpOutputTypes ==
  ASSUME TypeOK, OutputFlow, NEW p \in Procs, NEW bad \in BOOLEAN, PumpOutput(p, bad),
         UNCHANGED produced
  PROVE  /\ outPipe' \in [Procs -> 0 .. PipeCap]
         /\ sunk' \in [Procs -> 0 .. OutputLen]
         /\ readFd' \in [Procs -> BOOLEAN]
         /\ \A q \in Procs : readFd'[q] => readFd[q]
         /\ OutputFlow'
<1> DEFINE amount == IF readFd[p] THEN outPipe[p] ELSE 0
           taken == IF bad THEN 0 ELSE amount
<1>1. /\ outPipe \in [Procs -> 0 .. PipeCap] /\ sunk \in [Procs -> 0 .. OutputLen]
      /\ produced \in [Procs -> 0 .. OutputLen] /\ readFd \in [Procs -> BOOLEAN]
      /\ PipeCap \in Nat /\ OutputLen \in Nat
  BY DEF TypeOK, ChildTypes, HandleTypes
<1>2. amount \in 0 .. outPipe[p] /\ taken \in 0 .. amount
  BY <1>1
<1>3. /\ sunk' = [sunk EXCEPT ![p] = @ + taken]
      /\ outPipe' = [outPipe EXCEPT ![p] = @ - amount]
      /\ readFd' = [readFd EXCEPT ![p] = @ /\ ~bad /\ os[p] = "running"]
  BY DEF PumpOutput
<1>4. readFd' \in [Procs -> BOOLEAN] /\ \A q \in Procs : readFd'[q] => readFd[q]
  BY <1>1, <1>3
<1> HIDE DEF amount, taken
<1>5. /\ sunk[p] + outPipe[p] <= produced[p] /\ produced[p] <= OutputLen
      /\ sunk[p] \in Nat /\ outPipe[p] \in 0 .. PipeCap
  BY <1>1 DEF OutputFlow
<1>6. sunk[p] + taken \in 0 .. OutputLen /\ outPipe[p] - amount \in 0 .. PipeCap
  BY <1>1, <1>2, <1>5
<1>7. (sunk[p] + taken) + (outPipe[p] - amount) <= produced[p]
  BY <1>1, <1>2, <1>5
<1>8. sunk' \in [Procs -> 0 .. OutputLen] /\ outPipe' \in [Procs -> 0 .. PipeCap]
  BY <1>1, <1>3, <1>6
<1>9. OutputFlow'
  BY <1>1, <1>3, <1>7 DEF OutputFlow
<1> QED
  BY <1>4, <1>8, <1>9

LEMMA CollectTypes ==
  ASSUME TypeOK, NEW p \in Procs, Collect(p)
  PROVE  /\ os' \in [Procs -> {"none", "running", "reaped", "taken"} \cup Zombie]
         /\ status' \in [Procs -> {"NOT_STARTED", "RUNNING", "FAILED_TO_START"} \cup Terminal]
         /\ pid' \in [Procs -> BOOLEAN]
<1>1. os' = [os EXCEPT ![p] = "reaped"] /\ pid' = [pid EXCEPT ![p] = FALSE]
  BY DEF Collect
<1>2. Reported(p) \in Terminal
  BY DEF Reported, Terminal
<1>3. status' = [status EXCEPT ![p] = Reported(p)]
  BY DEF Collect
<1>4. os' \in [Procs -> {"none", "running", "reaped", "taken"} \cup Zombie] /\ pid' \in [Procs -> BOOLEAN]
  BY <1>1 DEF TypeOK, ChildTypes, HandleTypes
<1>5. status' \in [Procs -> {"NOT_STARTED", "RUNNING", "FAILED_TO_START"} \cup Terminal]
  BY <1>2, <1>3 DEF TypeOK, HandleTypes
<1> QED
  BY <1>4, <1>5

LEMMA CallEndsTypes ==
  ASSUME CallEnds
  PROVE  /\ pc' = "idle" /\ i' \in 1 .. N + 1 /\ timeout' \in Timeouts
         /\ subject' \subseteq Procs /\ slots' \subseteq Procs /\ waiting' \subseteq slots'
         /\ ioFailed' \subseteq slots' /\ ready' \subseteq Procs /\ expired' \in BOOLEAN
BY Bounds DEF CallEnds, Timeouts

LEMMA ReturnsTypes ==
  ASSUME NEW op \in Ops, NEW on \in SUBSET Procs, NEW result \in Results, Returns(op, on, result)
  PROVE  last' \in [op : Ops, on : SUBSET Procs, result : Results]
BY DEF Returns

-----------------------------------------------------------------------------
LEMMA ChildrenKeepTypes ==
  ASSUME TypeOK, OutputFlow, NEW p \in Procs, ChildStep(p) \/ HostCollects(p)
  PROVE  TypeOK' /\ OutputFlow'
<1> USE DEF TypeOK, ChildTypes, HandleTypes, CallTypes, kernelVars, handleVars, pipeEnds, callVars
<1>1. CASE ChildReads(p)
  <2>1. inPipe' \in [Procs -> 0 .. PipeCap]
    BY <1>1 DEF ChildReads
  <2> QED
    BY <1>1, <2>1 DEF ChildReads, OutputFlow
<1>2. CASE ChildSeesEof(p)
  BY <1>2 DEF ChildSeesEof, OutputFlow
<1>3. CASE ChildWrites(p)
  <2>1. outPipe' \in [Procs -> 0 .. PipeCap] /\ produced' \in [Procs -> 0 .. OutputLen]
    BY <1>3 DEF ChildWrites
  <2>2. OutputFlow'
    BY <1>3 DEF ChildWrites, OutputFlow
  <2> QED
    BY <1>3, <2>1, <2>2 DEF ChildWrites
<1>4. ASSUME NEW how \in Zombie, Dies(p, how) PROVE TypeOK' /\ OutputFlow'
  <2>1. os' \in [Procs -> {"none", "running", "reaped", "taken"} \cup Zombie] /\ inPipe' \in [Procs -> 0 .. PipeCap]
    BY <1>4 DEF Dies
  <2>2. /\ readsStdin' \in [Procs -> BOOLEAN] /\ sawEof' \in [Procs -> BOOLEAN]
        /\ holders' \in [Procs -> SUBSET Procs] /\ killed' \subseteq Procs
    BY <1>4 DEF Dies
  <2> QED
    BY <1>4, <2>1, <2>2 DEF Dies, OutputFlow
<1>5. CASE ChildCrashes(p)
  BY <1>4, <1>5 DEF ChildCrashes
<1>6. CASE ChildKilled(p)
  BY <1>4, <1>6 DEF ChildKilled, Zombie
<1>7. CASE HostCollects(p)
  <2>1. os' \in [Procs -> {"none", "running", "reaped", "taken"} \cup Zombie]
    BY <1>7 DEF HostCollects
  <2> QED
    BY <1>7, <2>1 DEF HostCollects, OutputFlow
<1> QED
  BY <1>1, <1>2, <1>3, <1>5, <1>6, <1>7 DEF ChildStep

LEMMA NewCallsKeepTypes ==
  ASSUME TypeOK, OutputFlow, NewCall
  PROVE  TypeOK' /\ OutputFlow'
<1> USE DEF TypeOK, ChildTypes, HandleTypes, CallTypes, childVars, kernelVars, handleVars, pipeEnds, callVars
<1>1. ASSUME NEW p \in Procs, Start(p) PROVE TypeOK' /\ OutputFlow'
  <2>1. /\ os' \in [Procs -> {"none", "running", "reaped", "taken"} \cup Zombie]
        /\ status' \in [Procs -> {"NOT_STARTED", "RUNNING", "FAILED_TO_START"} \cup Terminal]
        /\ readsStdin' \in [Procs -> BOOLEAN] /\ holders' \in [Procs -> SUBSET Procs]
    BY <1>1 DEF Start
  <2>2. /\ pid' \in [Procs -> BOOLEAN] /\ stdinFd' \in [Procs -> BOOLEAN]
        /\ readFd' \in [Procs -> BOOLEAN] /\ background' \in [Procs -> BOOLEAN]
    BY <1>1 DEF Start
  <2>3. last' \in [op : Ops, on : SUBSET Procs, result : Results]
    BY <1>1, ReturnsTypes DEF Start, Ops, Results
  <2> QED
    BY <1>1, <2>1, <2>2, <2>3 DEF Start, OutputFlow
<1>2. ASSUME NEW p \in Procs, StartFails(p) PROVE TypeOK' /\ OutputFlow'
  <2>1. last' \in [op : Ops, on : SUBSET Procs, result : Results]
    BY <1>2, ReturnsTypes DEF StartFails, Ops, Results
  <2> QED
    BY <1>2, <2>1 DEF StartFails, OutputFlow
<1>3. ASSUME NEW p \in Procs, SendStdin(p) PROVE TypeOK' /\ OutputFlow'
  <2>1. PICK bad \in WriteFailures(p) :
          /\ PumpStdin(p, bad) /\ lastErrno' = [lastErrno EXCEPT ![p] = @ \/ bad]
          /\ Returns("send_stdin", {p}, IF bad THEN "IO_FAILED" ELSE "SUCCESS")
    BY <1>3 DEF SendStdin
  <2>2. bad \in BOOLEAN
    BY FailuresAreBooleans
  <2>3. last' \in [op : Ops, on : SUBSET Procs, result : Results]
    BY <2>1, ReturnsTypes DEF Ops, Results
  <2>4. lastErrno' \in [Procs -> BOOLEAN]
    BY <2>1, <2>2
  <2>5. /\ inPipe' \in [Procs -> 0 .. PipeCap] /\ offset' \in [Procs -> 0 .. InputLen]
        /\ stdinFd' \in [Procs -> BOOLEAN]
    BY <2>1, <2>2, PumpStdinTypes
  <2> QED
    BY <1>3, <2>3, <2>4, <2>5 DEF SendStdin, OutputFlow
<1>4. ASSUME NEW p \in Procs, ReceiveOutput(p) PROVE TypeOK' /\ OutputFlow'
  <2>1. PICK bad \in ReadFailures(p) :
          /\ PumpOutput(p, bad) /\ lastErrno' = [lastErrno EXCEPT ![p] = @ \/ bad]
          /\ Returns("receive_output", {p}, IF bad THEN "IO_FAILED" ELSE "SUCCESS")
    BY <1>4 DEF ReceiveOutput
  <2>2. bad \in BOOLEAN
    BY FailuresAreBooleans
  <2>3. last' \in [op : Ops, on : SUBSET Procs, result : Results]
    BY <2>1, ReturnsTypes DEF Ops, Results
  <2>4. lastErrno' \in [Procs -> BOOLEAN]
    BY <2>1, <2>2
  <2>5. UNCHANGED produced
    BY <1>4 DEF ReceiveOutput
  <2>6. /\ outPipe' \in [Procs -> 0 .. PipeCap] /\ sunk' \in [Procs -> 0 .. OutputLen]
        /\ readFd' \in [Procs -> BOOLEAN] /\ OutputFlow'
    BY <2>1, <2>2, <2>5, PumpOutputTypes
  <2> QED
    BY <1>4, <2>3, <2>4, <2>6 DEF ReceiveOutput
<1>5. ASSUME NEW p \in Procs, Kill(p) PROVE TypeOK' /\ OutputFlow'
  <2>1. last' \in [op : Ops, on : SUBSET Procs, result : Results]
    BY <1>5, ReturnsTypes DEF Kill, Ops, Results
  <2> QED
    BY <1>5, <2>1 DEF Kill, OutputFlow
<1>6. ASSUME NEW p \in Procs, PollTerminal(p) PROVE TypeOK' /\ OutputFlow'
  <2>1. last' \in [op : Ops, on : SUBSET Procs, result : Results]
    BY <1>6, ReturnsTypes DEF PollTerminal, Ops, Results
  <2> QED
    BY <1>6, <2>1 DEF PollTerminal, OutputFlow
<1>7. CallUnderWay => last' \in [op : Ops, on : SUBSET Procs, result : Results]
  BY DEF CallUnderWay, Ops, Results
<1>8. ASSUME NEW p \in Procs, NEW t \in Timeouts, PollBegin(p, t) PROVE TypeOK' /\ OutputFlow'
  BY <1>7, <1>8 DEF PollBegin, OutputFlow
<1>9. ASSUME NEW p \in Procs, Cleanup(p) PROVE TypeOK' /\ OutputFlow'
  <2>1. last' \in [op : Ops, on : SUBSET Procs, result : Results]
    BY <1>9, ReturnsTypes DEF Cleanup, Ops, Results
  <2> QED
    BY <1>9, <2>1 DEF Cleanup, GivenUp, OutputFlow
<1>10. ASSUME NEW p \in Procs, CleanupKills(p) PROVE TypeOK' /\ OutputFlow'
  BY <1>7, <1>10 DEF CleanupKills, Timeouts, OutputFlow
<1>11. ASSUME NEW a \in Arrays, WaitNothing(a) PROVE TypeOK' /\ OutputFlow'
  <2>1. last' \in [op : Ops, on : SUBSET Procs, result : Results]
    BY <1>11, ReturnsTypes DEF WaitNothing, Ops, Results
  <2> QED
    BY <1>11, <2>1 DEF WaitNothing, OutputFlow
<1>12. ASSUME NEW a \in Arrays, NEW t \in Timeouts, WaitBegin(a, t) PROVE TypeOK' /\ OutputFlow'
  <2>1. a \subseteq Procs /\ Live(a) \subseteq Procs /\ Done(a) \subseteq Procs
    BY DEF Live, Done
  <2>2. /\ slots' \subseteq Procs /\ waiting' \subseteq slots' /\ subject' \subseteq Procs
        /\ timeout' \in Timeouts /\ i' \in 1 .. N + 1 /\ pc' = "prereap"
    BY <1>12, <2>1 DEF WaitBegin
  <2>3. ioFailed' \subseteq slots'
    BY <1>12 DEF WaitBegin
  <2> QED
    BY <1>7, <1>12, <2>2, <2>3 DEF WaitBegin, OutputFlow
<1> QED
  BY <1>1, <1>2, <1>3, <1>4, <1>5, <1>6, <1>8, <1>9, <1>10, <1>11, <1>12 DEF NewCall

(* A wait that returns writes nothing but its locals and its result.        *)
LEMMA WaitEndsKeepsTypes ==
  ASSUME TypeOK, OutputFlow, CallEnds, UNCHANGED <<childVars, killed, selfPipe, interrupted, handleVars>>,
         NEW result \in Results, Returns("wait", subject, result)
  PROVE  TypeOK' /\ OutputFlow'
<1>1. last' \in [op : Ops, on : SUBSET Procs, result : Results]
  BY ReturnsTypes DEF Ops, TypeOK, CallTypes
<1> QED
  BY <1>1, CallEndsTypes
     DEF TypeOK, ChildTypes, HandleTypes, CallTypes, childVars, handleVars, pipeEnds, OutputFlow

LEMMA OtherCallsKeepTypes ==
  ASSUME TypeOK, OutputFlow,
         \/ \E p \in Procs :
              PollCollects(p) \/ PollStillRunning(p) \/ PollFails(p) \/ CleanupReturns(p)
         \/ Block \/ PassDone \/ WaitDone \/ WaitTimesOut \/ WaitGoesOn
         \/ WaitFails \/ TimePasses
  PROVE  TypeOK' /\ OutputFlow'
<1> USE DEF TypeOK, ChildTypes, HandleTypes, CallTypes, childVars, kernelVars, handleVars, pipeEnds, callVars
<1>1. ASSUME NEW p \in Procs, PollCollects(p) PROVE TypeOK' /\ OutputFlow'
  <2>1. last' \in [op : Ops, on : SUBSET Procs, result : Results]
    BY <1>1, ReturnsTypes DEF PollCollects, Ops, Results
  <2>2. Collect(p) /\ CallEnds
    BY <1>1 DEF PollCollects
  <2> QED
    BY <1>1, <2>1, <2>2, CollectTypes, CallEndsTypes DEF PollCollects, OutputFlow
<1>2. ASSUME NEW p \in Procs, PollStillRunning(p) \/ PollFails(p) PROVE TypeOK' /\ OutputFlow'
  <2>1. last' \in [op : Ops, on : SUBSET Procs, result : Results]
    BY <1>2, ReturnsTypes DEF PollStillRunning, PollFails, Ops, Results
  <2> QED
    BY <1>2, <2>1, CallEndsTypes DEF PollStillRunning, PollFails, OutputFlow
<1>3. ASSUME NEW p \in Procs, CleanupReturns(p) PROVE TypeOK' /\ OutputFlow'
  <2>1. CleanupEnds(p) /\ CallEnds /\ last' \in [op : Ops, on : SUBSET Procs, result : Results]
    BY <1>3, ReturnsTypes
       DEF CleanupReturns, CleanupCollects, CleanupFindsNone, CleanupInterrupted, CleanupEnds, Ops, Results
  <2>2. /\ os' \in [Procs -> {"none", "running", "reaped", "taken"} \cup Zombie]
        /\ interrupted' \subseteq Procs
    BY <1>3 DEF CleanupReturns, CleanupCollects, CleanupFindsNone, CleanupInterrupted
  <2>3. /\ stdinFd' \in [Procs -> BOOLEAN] /\ readFd' \in [Procs -> BOOLEAN] /\ pid' \in [Procs -> BOOLEAN]
        /\ background' \in [Procs -> BOOLEAN] /\ valid' \in [Procs -> BOOLEAN]
    BY <2>1 DEF CleanupEnds, GivenUp
  <2> QED
    BY <2>1, <2>2, <2>3, CallEndsTypes DEF CleanupEnds, OutputFlow
<1>4. CASE Block
  BY <1>4, Bounds DEF Block, StdinReady, OutputFlow
<1>5. CASE PassDone
  BY <1>5 DEF PassDone, Following, OutputFlow
<1>6. CASE WaitDone
  BY <1>6, WaitEndsKeepsTypes DEF WaitDone, Results
<1>7. CASE WaitTimesOut
  BY <1>7, WaitEndsKeepsTypes DEF WaitTimesOut, Results
<1>8. CASE WaitGoesOn
  BY <1>8 DEF WaitGoesOn, OutputFlow
<1>9. CASE WaitFails
  BY <1>9, WaitEndsKeepsTypes DEF WaitFails, Results
<1>10. CASE TimePasses
  BY <1>10 DEF TimePasses, OutputFlow
<1> QED
  BY <1>1, <1>2, <1>3, <1>4, <1>5, <1>6, <1>7, <1>8, <1>9, <1>10

LEMMA PassesKeepTypes ==
  ASSUME TypeOK, OutputFlow, PreReap \/ PreDrain \/ Pump \/ Reap
  PROVE  TypeOK' /\ OutputFlow'
<1> USE DEF TypeOK, ChildTypes, HandleTypes, CallTypes, childVars, kernelVars, handleVars, pipeEnds, callVars
<1>1. CASE PreReap
  <2>1. i \in Procs /\ i' \in 1 .. N + 1
    BY <1>1 DEF PreReap, Procs
  <2>2. /\ os' \in [Procs -> {"none", "running", "reaped", "taken"} \cup Zombie]
        /\ status' \in [Procs -> {"NOT_STARTED", "RUNNING", "FAILED_TO_START"} \cup Terminal]
        /\ pid' \in [Procs -> BOOLEAN] /\ waiting' \subseteq waiting
    BY <1>1, <2>1, CollectTypes DEF PreReap
  <2> QED
    BY <1>1, <2>1, <2>2 DEF PreReap, OutputFlow
<1>2. CASE PreDrain
  <2>1. i \in Procs /\ i' \in 1 .. N + 1
    BY <1>2 DEF PreDrain, Procs
  <2>2. UNCHANGED produced
    BY <1>2 DEF PreDrain
  <2>3. CASE i \in slots
    <3>1. PICK bad \in ReadFailures(i) :
            /\ PumpOutput(i, bad)
            /\ lastErrno' = [lastErrno EXCEPT ![i] = @ \/ bad]
            /\ ioFailed' = IF bad THEN ioFailed \cup {i} ELSE ioFailed
            /\ waiting' = IF bad THEN waiting \ {i} ELSE waiting
      BY <1>2, <2>3 DEF PreDrain
    <3>2. bad \in BOOLEAN
      BY <2>1, FailuresAreBooleans
    <3>3. /\ outPipe' \in [Procs -> 0 .. PipeCap] /\ sunk' \in [Procs -> 0 .. OutputLen]
          /\ readFd' \in [Procs -> BOOLEAN] /\ OutputFlow'
      BY <2>1, <2>2, <3>1, <3>2, PumpOutputTypes
    <3>4. lastErrno' \in [Procs -> BOOLEAN] /\ ioFailed' \subseteq slots /\ waiting' \subseteq slots
      BY <2>3, <3>1, <3>2
    <3> QED
      BY <1>2, <2>1, <3>3, <3>4 DEF PreDrain
  <2>4. CASE i \notin slots
    BY <1>2, <2>1, <2>4 DEF PreDrain, OutputFlow
  <2> QED
    BY <2>3, <2>4
<1>3. CASE Pump
  <2>1. i \in Procs /\ i' \in 1 .. N + 1
    BY <1>3 DEF Pump, Procs
  <2>2. UNCHANGED produced
    BY <1>3 DEF Pump
  <2>3. CASE i \in waiting
    <3>1. PICK badRead \in ReadFailures(i), badWrite \in WriteFailures(i) :
            /\ IF i \in ready THEN PumpStdin(i, badWrite)
               ELSE ~badWrite /\ UNCHANGED <<inPipe, offset, stdinFd>>
            /\ PumpOutput(i, badRead)
            /\ lastErrno' = [lastErrno EXCEPT ![i] = @ \/ badRead \/ badWrite]
            /\ ioFailed' = IF badRead THEN ioFailed \cup {i} ELSE ioFailed
            /\ waiting' = IF badRead THEN waiting \ {i} ELSE waiting
      BY <1>3, <2>3 DEF Pump
    <3>2. badRead \in BOOLEAN /\ badWrite \in BOOLEAN
      BY <2>1, FailuresAreBooleans
    <3>3. /\ outPipe' \in [Procs -> 0 .. PipeCap] /\ sunk' \in [Procs -> 0 .. OutputLen]
          /\ readFd' \in [Procs -> BOOLEAN] /\ OutputFlow'
      BY <2>1, <2>2, <3>1, <3>2, PumpOutputTypes
    <3>4. /\ inPipe' \in [Procs -> 0 .. PipeCap] /\ offset' \in [Procs -> 0 .. InputLen]
          /\ stdinFd' \in [Procs -> BOOLEAN]
      BY <2>1, <3>1, <3>2, PumpStdinTypes
    <3>5. lastErrno' \in [Procs -> BOOLEAN] /\ ioFailed' \subseteq slots /\ waiting' \subseteq slots
      BY <2>3, <3>1, <3>2
    <3> QED
      BY <1>3, <2>1, <3>3, <3>4, <3>5 DEF Pump
  <2>4. CASE i \notin waiting
    BY <1>3, <2>1, <2>4 DEF Pump, OutputFlow
  <2> QED
    BY <2>3, <2>4
<1>4. CASE Reap
  <2>1. i \in Procs /\ i' \in 1 .. N + 1
    BY <1>4 DEF Reap, Procs
  <2>2. UNCHANGED produced
    BY <1>4 DEF Reap
  <2>3. CASE i \in waiting /\ os[i] \in Zombie
    <3>1. PICK bad \in ReadFailures(i) :
            PumpOutput(i, bad) /\ lastErrno' = [lastErrno EXCEPT ![i] = @ \/ bad]
      BY <1>4, <2>3 DEF Reap
    <3>2. bad \in BOOLEAN
      BY <2>1, FailuresAreBooleans
    <3>3. /\ outPipe' \in [Procs -> 0 .. PipeCap] /\ sunk' \in [Procs -> 0 .. OutputLen]
          /\ readFd' \in [Procs -> BOOLEAN] /\ OutputFlow'
      BY <2>1, <2>2, <3>1, <3>2, PumpOutputTypes
    <3>4. Collect(i) /\ waiting' = waiting \ {i}
      BY <1>4, <2>3 DEF Reap
    <3>5. /\ os' \in [Procs -> {"none", "running", "reaped", "taken"} \cup Zombie]
          /\ status' \in [Procs -> {"NOT_STARTED", "RUNNING", "FAILED_TO_START"} \cup Terminal]
          /\ pid' \in [Procs -> BOOLEAN] /\ lastErrno' \in [Procs -> BOOLEAN]
      BY <2>1, <3>1, <3>2, <3>4, CollectTypes
    <3> QED
      BY <1>4, <2>1, <3>3, <3>4, <3>5 DEF Reap
  <2>4. CASE ~(i \in waiting /\ os[i] \in Zombie)
    BY <1>4, <2>1, <2>4 DEF Reap, OutputFlow
  <2> QED
    BY <2>3, <2>4
<1> QED
  BY <1>1, <1>2, <1>3, <1>4

-----------------------------------------------------------------------------
LEMMA TypesStart == ASSUME Init PROVE TypeOK /\ OutputFlow
<1>1. ChildTypes
  <2>1. os \in [Procs -> {"none", "running", "reaped", "taken"} \cup Zombie]
    BY DEF Init, Everywhere
  <2>2. /\ inPipe \in [Procs -> 0 .. PipeCap] /\ outPipe \in [Procs -> 0 .. PipeCap]
        /\ produced \in [Procs -> 0 .. OutputLen]
    BY Bounds DEF Init, Everywhere
  <2>3. readsStdin \in [Procs -> BOOLEAN] /\ sawEof \in [Procs -> BOOLEAN]
    BY DEF Init, Everywhere
  <2>4. holders = [p \in Procs |-> {}]
    BY DEF Init, Everywhere
  <2>5. holders \in [Procs -> SUBSET Procs]
    BY <2>4, Zenon
  <2>6. killed \subseteq Procs /\ selfPipe \in BOOLEAN /\ expired \in BOOLEAN /\ interrupted \subseteq Procs
    BY DEF Init
  <2> QED
    BY <2>1, <2>2, <2>3, <2>5, <2>6 DEF ChildTypes
<1>2. HandleTypes
  BY Bounds DEF Init, HandleTypes, Everywhere
<1>3. CallTypes
  BY Bounds DEF Init, CallTypes, Timeouts, Ops, Results
<1>4. OutputFlow
  BY DEF Init, OutputFlow, Everywhere
<1> QED
  BY <1>1, <1>2, <1>3, <1>4 DEF TypeOK

LEMMA TypesKept == ASSUME TypeOK, OutputFlow, [Next]_vars PROVE TypeOK' /\ OutputFlow'
<1>1. CASE NewCall
  BY <1>1, NewCallsKeepTypes
<1>2. CASE CallStep
  BY <1>2, OtherCallsKeepTypes, PassesKeepTypes DEF CallStep, CleanupReturns
<1>3. CASE WaitFails \/ TimePasses \/ \E p \in Procs : CleanupInterrupted(p)
  BY <1>3, OtherCallsKeepTypes DEF CleanupReturns
<1>4. CASE \E p \in Procs : ChildStep(p) \/ HostCollects(p)
  BY <1>4, ChildrenKeepTypes
<1>5. CASE UNCHANGED vars
  BY <1>5 DEF vars, childVars, kernelVars, handleVars, pipeEnds, callVars,
              TypeOK, ChildTypes, HandleTypes, CallTypes, OutputFlow
<1> QED
  BY <1>1, <1>2, <1>3, <1>4, <1>5 DEF Next

(* Every variable keeps its type: no pipe is overfilled, no write goes past *)
(* the end of stdin_memory, no sink is given what was not written.          *)
THEOREM TypeCorrect == Spec => [](TypeOK /\ OutputFlow)
BY TypesStart, TypesKept, PTL DEF Spec

-----------------------------------------------------------------------------
(* The handles of a call.                                                   *)

LEMMA ChildrenKeepUseInv ==
  ASSUME TypeOK, UseInv, NEW p \in Procs, ChildStep(p) \/ HostCollects(p)
  PROVE  UseInv'
<1>1. UNCHANGED <<valid, pc, subject, waiting, last>>
  BY DEF ChildStep, ChildReads, ChildSeesEof, ChildWrites, ChildCrashes, ChildKilled, Dies,
         HostCollects, handleVars, callVars
<1>2. ASSUME NEW how \in Zombie, Dies(p, how)
      PROVE  \A q \in Procs : os'[q] = "running" => os[q] = "running" /\ (q \in killed => q \in killed')
  BY <1>2 DEF Dies, Zombie, TypeOK, ChildTypes
<1>3. CASE HostCollects(p)
  <2>1. \A q \in Procs : os'[q] = "running" => os[q] = "running" /\ (q \in killed => q \in killed')
    BY <1>3 DEF HostCollects, TypeOK, ChildTypes, kernelVars
  <2> QED
    BY <1>1, <2>1 DEF UseInv, TypeOK, CallTypes
<1>4. CASE ChildReads(p) \/ ChildSeesEof(p) \/ ChildWrites(p)
  BY <1>1, <1>4 DEF ChildReads, ChildSeesEof, ChildWrites, kernelVars, UseInv
<1>5. CASE ChildCrashes(p) \/ ChildKilled(p)
  <2>1. \A q \in Procs : os'[q] = "running" => os[q] = "running" /\ (q \in killed => q \in killed')
    BY <1>2, <1>5 DEF ChildCrashes, ChildKilled, Zombie
  <2> QED
    BY <1>1, <2>1 DEF UseInv, TypeOK, CallTypes
<1> QED
  BY <1>3, <1>4, <1>5 DEF ChildStep

LEMMA NewCallsKeepUseInv ==
  ASSUME TypeOK, UseInv, NewCall
  PROVE  UseInv'
<1> USE DEF childVars, handleVars, pipeEnds, callVars
<1>1. pc = "idle"
  BY DEF NewCall, Start, StartFails, SendStdin, ReceiveOutput, Kill, PollTerminal, PollBegin,
         Cleanup, CleanupKills, WaitNothing, WaitBegin, Callable
<1>2. waiting = {}
  BY <1>1 DEF UseInv
<1>3. ASSUME NEW p \in Procs,
             \/ Start(p) \/ StartFails(p) \/ SendStdin(p) \/ ReceiveOutput(p) \/ Kill(p)
             \/ PollTerminal(p) \/ Cleanup(p)
      PROVE  UseInv'
  BY <1>1, <1>2, <1>3
     DEF UseInv, Start, StartFails, SendStdin, ReceiveOutput, Kill, PollTerminal, Cleanup
<1>4. ASSUME NEW a \in Arrays, WaitNothing(a) PROVE UseInv'
  BY <1>1, <1>2, <1>4 DEF UseInv, WaitNothing
<1>5. ASSUME NEW p \in Procs, NEW t \in Timeouts, PollBegin(p, t) PROVE UseInv'
  BY <1>2, <1>5 DEF UseInv, PollBegin, Callable, CallUnderWay
<1>6. ASSUME NEW p \in Procs, CleanupKills(p) PROVE UseInv'
  BY <1>2, <1>6 DEF UseInv, CleanupKills, CallUnderWay
<1>7. ASSUME NEW a \in Arrays, NEW t \in Timeouts, WaitBegin(a, t) PROVE UseInv'
  BY <1>7 DEF UseInv, WaitBegin, Live, CallUnderWay
<1> QED
  BY <1>3, <1>4, <1>5, <1>6, <1>7 DEF NewCall

LEMMA CallsUnderWayKeepUseInv ==
  ASSUME TypeOK, UseInv,
         CallStep \/ WaitFails \/ TimePasses \/ \E p \in Procs : CleanupInterrupted(p)
  PROVE  UseInv'
<1> USE DEF childVars, kernelVars, handleVars, pipeEnds
<1>1. ASSUME CallEnds PROVE UseInv'
  BY <1>1 DEF CallEnds, UseInv
<1>2. ASSUME NEW p \in Procs,
             \/ PollCollects(p) \/ PollStillRunning(p) \/ PollFails(p)
             \/ CleanupCollects(p) \/ CleanupFindsNone(p) \/ CleanupInterrupted(p)
      PROVE  UseInv'
  BY <1>1, <1>2 DEF PollCollects, PollStillRunning, PollFails, CleanupCollects, CleanupFindsNone,
                    CleanupInterrupted, CleanupEnds
<1>3. CASE WaitDone \/ WaitTimesOut \/ WaitFails
  BY <1>1, <1>3 DEF WaitDone, WaitTimesOut, WaitFails
<1>4. ASSUME pc \notin {"idle", "polling", "collect"}, pc' \notin {"idle", "polling", "collect"},
             waiting' \subseteq waiting, UNCHANGED <<valid, last>>
      PROVE  UseInv'
  BY <1>4 DEF UseInv
<1>5. CASE PreReap \/ PreDrain \/ Pump \/ Reap
  <2>1. waiting' \subseteq waiting /\ pc \in {"prereap", "predrain", "pump", "reap"} /\ pc' = pc
    BY <1>5 DEF PreReap, PreDrain, Pump, Reap
  <2>2. UNCHANGED <<valid, last>>
    BY <1>5 DEF PreReap, PreDrain, Pump, Reap
  <2> QED
    BY <1>4, <2>1, <2>2
<1>6. CASE Block \/ PassDone \/ WaitGoesOn
  BY <1>4, <1>6 DEF Block, PassDone, Following, WaitGoesOn
<1>7. CASE TimePasses
  BY <1>7 DEF TimePasses, UseInv, callVars
<1> QED
  BY <1>2, <1>3, <1>5, <1>6, <1>7 DEF CallStep

LEMMA UseInvStarts == ASSUME Init PROVE UseInv
BY DEF Init, UseInv

LEMMA UseInvKept == ASSUME TypeOK, UseInv, [Next]_vars PROVE UseInv'
<1>1. CASE UNCHANGED vars
  BY <1>1 DEF vars, childVars, kernelVars, handleVars, callVars, UseInv
<1> QED
  BY <1>1, ChildrenKeepUseInv, NewCallsKeepUseInv, CallsUnderWayKeepUseInv DEF Next

LEMMA UseInvariant == Spec => []UseInv
BY UseInvStarts, UseInvKept, TypeCorrect, PTL DEF Spec

-----------------------------------------------------------------------------
(* The pid of a handle.                                                     *)

(* The steps that leave the child's life and the handle's own state alone,  *)
(* and open no pipe.                                                        *)
LEMMA PipesOnlyKeepsPidInv ==
  ASSUME PidInv, UNCHANGED <<os, status, background, pid, valid>>,
         \A p \in Procs : (stdinFd'[p] => stdinFd[p]) /\ (readFd'[p] => readFd[p])
  PROVE  PidInv'
BY DEF PidInv

(* A zombie that is collected was named by its handle.                      *)
LEMMA CollectKeepsPidInv ==
  ASSUME TypeOK, PidInv, NEW p \in Procs, os[p] \in Zombie, valid[p], Collect(p),
         UNCHANGED <<background, valid>>,
         \A q \in Procs : (stdinFd'[q] => stdinFd[q]) /\ (readFd'[q] => readFd[q])
  PROVE  PidInv'
<1>1. Reported(p) \in Terminal
  BY DEF Reported, Terminal
<1>2. /\ os' = [os EXCEPT ![p] = "reaped"] /\ pid' = [pid EXCEPT ![p] = FALSE]
      /\ status' = [status EXCEPT ![p] = Reported(p)]
  BY DEF Collect
<1>3. os \in [Procs -> {"none", "running", "reaped", "taken"} \cup Zombie] /\ DOMAIN pid = Procs /\ DOMAIN status = Procs
  BY DEF TypeOK, ChildTypes, HandleTypes
<1>4. ~pid'[p] /\ os'[p] = "reaped" /\ status'[p] \in Terminal
  BY <1>1, <1>2, <1>3
<1>5. \A q \in Procs \ {p} : os'[q] = os[q] /\ pid'[q] = pid[q] /\ status'[q] = status[q]
  BY <1>2, <1>3
<1>6. "reaped" \notin Uncollected /\ Terminal \cap {"NOT_STARTED", "FAILED_TO_START"} = {}
  BY DEF Uncollected, Zombie, Terminal
<1> QED
  BY <1>4, <1>5, <1>6 DEF PidInv

(* A handle given up by cleanup names no child any more.                    *)
LEMMA GivenUpKeepsPidInv ==
  ASSUME TypeOK, PidInv, NEW p \in Procs, GivenUp(p), UNCHANGED status,
         \/ UNCHANGED os
         \/ os' = [os EXCEPT ![p] = "reaped"] /\ os[p] \in Zombie
  PROVE  PidInv'
<1>1. /\ os \in [Procs -> {"none", "running", "reaped", "taken"} \cup Zombie]
      /\ DOMAIN pid = Procs /\ DOMAIN background = Procs /\ DOMAIN valid = Procs
      /\ DOMAIN stdinFd = Procs /\ DOMAIN readFd = Procs
  BY DEF TypeOK, ChildTypes, HandleTypes
<1>2. ~pid'[p] /\ ~valid'[p] /\ ~stdinFd'[p] /\ ~readFd'[p]
  BY <1>1 DEF GivenUp
<1>3. \A q \in Procs \ {p} :
        /\ os'[q] = os[q] /\ pid'[q] = pid[q] /\ valid'[q] = valid[q]
        /\ background'[q] = background[q] /\ stdinFd'[q] = stdinFd[q] /\ readFd'[q] = readFd[q]
  BY <1>1 DEF GivenUp
<1>4. (os'[p] = "none" <=> os[p] = "none") /\ (status[p] \in Terminal => os'[p] = "reaped")
  BY <1>1 DEF PidInv, Zombie
<1> QED
  BY <1>2, <1>3, <1>4 DEF PidInv

LEMMA ChildrenKeepPidInv ==
  ASSUME TypeOK, PidInv, NEW p \in Procs, ChildStep(p) \/ HostCollects(p)
  PROVE  PidInv'
<1> USE DEF handleVars, pipeEnds
<1>1. CASE ChildReads(p) \/ ChildSeesEof(p) \/ ChildWrites(p)
  BY <1>1, PipesOnlyKeepsPidInv DEF ChildReads, ChildSeesEof, ChildWrites
<1>2. ASSUME NEW how \in Zombie, Dies(p, how) PROVE PidInv'
  <2>1. DOMAIN os = Procs
    BY DEF TypeOK, ChildTypes
  <2>2. os[p] = "running" /\ os' = [os EXCEPT ![p] = how] /\ UNCHANGED handleVars
    BY <1>2 DEF Dies
  <2>3. os'[p] = how /\ \A q \in Procs \ {p} : os'[q] = os[q]
    BY <2>1, <2>2
  <2> QED
    BY <2>2, <2>3 DEF PidInv, Uncollected, Zombie, Terminal
<1>3. CASE HostCollects(p)
  <2>1. os[p] \in Zombie /\ os' = [os EXCEPT ![p] = "taken"] /\ DOMAIN os = Procs /\ UNCHANGED handleVars
    BY <1>3 DEF HostCollects, TypeOK, ChildTypes
  <2>2. os'[p] = "taken" /\ \A q \in Procs \ {p} : os'[q] = os[q]
    BY <2>1
  <2> QED
    BY <2>1, <2>2 DEF PidInv, Uncollected, Zombie, Terminal
<1> QED
  BY <1>1, <1>2, <1>3 DEF ChildStep, ChildCrashes, ChildKilled, Zombie

LEMMA NewCallsKeepPidInv ==
  ASSUME TypeOK, PidInv, NewCall
  PROVE  PidInv'
<1> USE DEF childVars, handleVars, pipeEnds
<1>1. ASSUME NEW p \in Procs, Start(p) PROVE PidInv'
  <2>1. /\ DOMAIN os = Procs /\ DOMAIN pid = Procs /\ DOMAIN status = Procs
        /\ DOMAIN background = Procs /\ DOMAIN stdinFd = Procs /\ DOMAIN readFd = Procs
    BY DEF TypeOK, ChildTypes, HandleTypes
  <2>2. valid'[p] /\ os'[p] = "running" /\ pid'[p] /\ background'[p] /\ status'[p] = "RUNNING"
    BY <1>1, <2>1 DEF Start
  <2>3. \A q \in Procs \ {p} :
          /\ os'[q] = os[q] /\ pid'[q] = pid[q] /\ valid'[q] = valid[q] /\ status'[q] = status[q]
          /\ background'[q] = background[q] /\ stdinFd'[q] = stdinFd[q] /\ readFd'[q] = readFd[q]
    BY <1>1, <2>1 DEF Start
  <2> QED
    BY <2>2, <2>3 DEF PidInv, Uncollected, Terminal
<1>2. ASSUME NEW p \in Procs, StartFails(p) PROVE PidInv'
  <2>1. DOMAIN status = Procs
    BY DEF TypeOK, HandleTypes
  <2>2. /\ valid[p] /\ status[p] = "NOT_STARTED" /\ status' = [status EXCEPT ![p] = "FAILED_TO_START"]
        /\ UNCHANGED <<os, pid, valid, background, stdinFd, readFd>>
    BY <1>2 DEF StartFails
  <2>3. status'[p] = "FAILED_TO_START" /\ \A q \in Procs \ {p} : status'[q] = status[q]
    BY <2>1, <2>2
  <2> QED
    BY <2>2, <2>3 DEF PidInv, Uncollected, Terminal
<1>3. ASSUME NEW p \in Procs, SendStdin(p) PROVE PidInv'
  <2>1. PICK bad \in WriteFailures(p) : PumpStdin(p, bad)
    BY <1>3 DEF SendStdin
  <2>2. \A q \in Procs : stdinFd'[q] => stdinFd[q]
    BY <2>1, FailuresAreBooleans, PumpStdinTypes
  <2> QED
    BY <1>3, <2>2, PipesOnlyKeepsPidInv DEF SendStdin
<1>4. ASSUME NEW p \in Procs, ReceiveOutput(p) PROVE PidInv'
  <2>1. PICK bad \in ReadFailures(p) : PumpOutput(p, bad)
    BY <1>4 DEF ReceiveOutput
  <2>2. \A q \in Procs : readFd'[q] => readFd[q]
    BY <2>1 DEF PumpOutput, TypeOK, HandleTypes
  <2> QED
    BY <1>4, <2>2, PipesOnlyKeepsPidInv DEF ReceiveOutput
<1>5. ASSUME NEW p \in Procs, Cleanup(p) PROVE PidInv'
  BY <1>5, GivenUpKeepsPidInv DEF Cleanup
<1>6. ASSUME NEW p \in Procs,
             \/ Kill(p) \/ PollTerminal(p) \/ CleanupKills(p)
             \/ \E t \in Timeouts : PollBegin(p, t)
      PROVE  PidInv'
  BY <1>6, PipesOnlyKeepsPidInv DEF Kill, PollTerminal, CleanupKills, PollBegin
<1>7. ASSUME NEW a \in Arrays, WaitNothing(a) \/ \E t \in Timeouts : WaitBegin(a, t)
      PROVE  PidInv'
  BY <1>7, PipesOnlyKeepsPidInv DEF WaitNothing, WaitBegin
<1> QED
  BY <1>1, <1>2, <1>3, <1>4, <1>5, <1>6, <1>7 DEF NewCall

LEMMA CallsUnderWayKeepPidInv ==
  ASSUME TypeOK, UseInv, PidInv,
         CallStep \/ WaitFails \/ TimePasses \/ \E p \in Procs : CleanupInterrupted(p)
  PROVE  PidInv'
<1> USE DEF childVars, handleVars, pipeEnds
<1>1. ASSUME NEW p \in Procs, PollCollects(p) PROVE PidInv'
  BY <1>1, CollectKeepsPidInv DEF PollCollects, UseInv
<1>2. ASSUME NEW p \in Procs, CleanupReturns(p) PROVE PidInv'
  BY <1>2, GivenUpKeepsPidInv
     DEF CleanupReturns, CleanupCollects, CleanupFindsNone, CleanupInterrupted, CleanupEnds
<1>3. ASSUME NEW p \in Procs, PollStillRunning(p) \/ PollFails(p) PROVE PidInv'
  BY <1>3, PipesOnlyKeepsPidInv DEF PollStillRunning, PollFails
<1>4. CASE PreReap
  <2>1. i \in Procs
    BY <1>4 DEF PreReap, Procs, TypeOK, CallTypes
  <2> QED
    BY <1>4, <2>1, CollectKeepsPidInv, PipesOnlyKeepsPidInv DEF PreReap, UseInv
<1>5. CASE PreDrain
  <2>1. i \in Procs
    BY <1>5 DEF PreDrain, Procs, TypeOK, CallTypes
  <2>2. \A q \in Procs : readFd'[q] => readFd[q]
    BY <1>5, <2>1 DEF PreDrain, PumpOutput, TypeOK, HandleTypes
  <2> QED
    BY <1>5, <2>2, PipesOnlyKeepsPidInv DEF PreDrain
<1>6. CASE Pump
  <2>1. i \in Procs
    BY <1>6 DEF Pump, Procs, TypeOK, CallTypes
  <2>2. \A q \in Procs : readFd'[q] => readFd[q]
    BY <1>6, <2>1 DEF Pump, PumpOutput, TypeOK, HandleTypes
  <2>3. \A q \in Procs : stdinFd'[q] => stdinFd[q]
    BY <1>6, <2>1 DEF Pump, PumpStdin, TypeOK, HandleTypes
  <2> QED
    BY <1>6, <2>2, <2>3, PipesOnlyKeepsPidInv DEF Pump
<1>7. CASE Reap
  <2>1. i \in Procs
    BY <1>7 DEF Reap, Procs, TypeOK, CallTypes
  <2>2. \A q \in Procs : readFd'[q] => readFd[q]
    BY <1>7, <2>1 DEF Reap, PumpOutput, TypeOK, HandleTypes
  <2> QED
    BY <1>7, <2>1, <2>2, CollectKeepsPidInv, PipesOnlyKeepsPidInv DEF Reap, UseInv
<1>8. CASE Block \/ PassDone \/ WaitDone \/ WaitTimesOut \/ WaitGoesOn \/ WaitFails \/ TimePasses
  BY <1>8, PipesOnlyKeepsPidInv DEF Block, PassDone, WaitDone, WaitTimesOut, WaitGoesOn, WaitFails, TimePasses
<1> QED
  BY <1>1, <1>2, <1>3, <1>4, <1>5, <1>6, <1>7, <1>8 DEF CallStep, CleanupReturns

LEMMA PidInvStarts == ASSUME Init PROVE PidInv
BY DEF Init, PidInv, Everywhere, Uncollected, Zombie, Terminal

LEMMA PidInvKept == ASSUME TypeOK, UseInv, PidInv, [Next]_vars PROVE PidInv'
<1>1. CASE NewCall
  BY <1>1, NewCallsKeepPidInv
<1>2. CASE CallStep \/ WaitFails \/ TimePasses \/ \E p \in Procs : CleanupInterrupted(p)
  BY <1>2, CallsUnderWayKeepPidInv
<1>3. CASE \E p \in Procs : ChildStep(p) \/ HostCollects(p)
  BY <1>3, ChildrenKeepPidInv
<1>4. CASE UNCHANGED vars
  BY <1>4, PipesOnlyKeepsPidInv DEF vars, childVars, handleVars, pipeEnds
<1> QED
  BY <1>1, <1>2, <1>3, <1>4 DEF Next

LEMMA PidInvariant == Spec => []PidInv
BY PidInvStarts, PidInvKept, TypeCorrect, UseInvariant, PTL DEF Spec

(* What a failed poll reports, and what becomes of the child of a handle    *)
(* that was given up.                                                       *)
FailedPoll ==
  last.op = "poll" /\ last.result = "WAIT_FAILED" =>
    \A p \in last.on : os[p] = "taken" /\ pid[p] /\ status[p] = "RUNNING"
GivenUpChildren ==
  \A p \in Procs : ~valid[p] =>
    \/ os[p] \in {"none", "reaped", "taken"}
    \/ p \in interrupted /\ (p \in killed \/ os[p] \in Zombie)
EndInv == FailedPoll /\ GivenUpChildren

LEMMA ChildrenKeepEndInv ==
  ASSUME TypeOK, EndInv, NEW p \in Procs, ChildStep(p) \/ HostCollects(p)
  PROVE  EndInv'
<1>1. UNCHANGED <<valid, pid, status, last, interrupted>>
  BY DEF ChildStep, ChildReads, ChildSeesEof, ChildWrites, ChildCrashes, ChildKilled, Dies,
         HostCollects, handleVars, kernelVars
<1>2. CASE ChildReads(p) \/ ChildSeesEof(p) \/ ChildWrites(p)
  BY <1>1, <1>2 DEF ChildReads, ChildSeesEof, ChildWrites, kernelVars, EndInv, FailedPoll, GivenUpChildren
<1>3. ASSUME os[p] \in {"running"} \cup Zombie, os'[p] \in {"taken"} \cup Zombie,
             \A q \in Procs \ {p} : os'[q] = os[q] /\ (q \in killed => q \in killed')
      PROVE  EndInv'
  <2>1. ASSUME NEW q \in Procs, ~valid[q]
        PROVE  \/ os'[q] \in {"none", "reaped", "taken"}
               \/ q \in interrupted /\ (q \in killed' \/ os'[q] \in Zombie)
    BY <1>3, <2>1 DEF EndInv, GivenUpChildren, Zombie
  <2>2. ASSUME NEW q \in Procs, os[q] = "taken" PROVE os'[q] = "taken"
    BY <1>3, <2>2 DEF Zombie
  <2>3. FailedPoll'
    BY <1>1, <2>2 DEF EndInv, FailedPoll, TypeOK, CallTypes
  <2>4. GivenUpChildren'
    BY <1>1, <2>1 DEF GivenUpChildren
  <2> QED
    BY <2>3, <2>4 DEF EndInv
<1>4. CASE HostCollects(p)
  BY <1>3, <1>4 DEF HostCollects, TypeOK, ChildTypes, kernelVars
<1>5. ASSUME NEW how \in Zombie, Dies(p, how) PROVE EndInv'
  BY <1>3, <1>5 DEF Dies, TypeOK, ChildTypes
<1> QED
  BY <1>2, <1>4, <1>5 DEF ChildStep, ChildCrashes, ChildKilled, Zombie

LEMMA NewCallsKeepEndInv ==
  ASSUME TypeOK, PidInv, EndInv, NewCall
  PROVE  EndInv'
<1> USE DEF childVars, kernelVars, handleVars, pipeEnds
<1>1. FailedPoll'
  BY DEF FailedPoll, NewCall, Start, StartFails, SendStdin, ReceiveOutput, Kill, PollTerminal,
         PollBegin, Cleanup, CleanupKills, WaitNothing, WaitBegin, Returns, CallUnderWay
<1>2. ASSUME NEW p \in Procs, Start(p) PROVE GivenUpChildren'
  BY <1>2 DEF Start, TypeOK, ChildTypes, EndInv, GivenUpChildren
<1>3. ASSUME NEW p \in Procs, Cleanup(p) PROVE GivenUpChildren'
  <2>1. os[p] \in {"none", "reaped"}
    BY <1>3 DEF Cleanup, OwnsChild, PidInv, Uncollected, TypeOK, ChildTypes
  <2>2. \A q \in Procs \ {p} : valid'[q] = valid[q]
    BY <1>3 DEF Cleanup, GivenUp, TypeOK, HandleTypes
  <2> QED
    BY <1>3, <2>1, <2>2 DEF Cleanup, EndInv, GivenUpChildren
<1>4. ASSUME UNCHANGED <<os, valid, interrupted>>, killed \subseteq killed' PROVE GivenUpChildren'
  BY <1>4 DEF EndInv, GivenUpChildren
<1>5. ASSUME NEW p \in Procs,
             \/ StartFails(p) \/ SendStdin(p) \/ ReceiveOutput(p) \/ Kill(p)
             \/ PollTerminal(p) \/ CleanupKills(p) \/ \E t \in Timeouts : PollBegin(p, t)
      PROVE  GivenUpChildren'
  BY <1>4, <1>5 DEF StartFails, SendStdin, ReceiveOutput, Kill, PollTerminal, CleanupKills, PollBegin
<1>6. ASSUME NEW a \in Arrays, WaitNothing(a) \/ \E t \in Timeouts : WaitBegin(a, t)
      PROVE  GivenUpChildren'
  BY <1>4, <1>6 DEF WaitNothing, WaitBegin
<1>7. GivenUpChildren'
  BY <1>2, <1>3, <1>5, <1>6 DEF NewCall
<1> QED
  BY <1>1, <1>7 DEF EndInv

LEMMA CallsUnderWayKeepEndInv ==
  ASSUME TypeOK, UseInv, PidInv, EndInv,
         CallStep \/ WaitFails \/ TimePasses \/ \E p \in Procs : CleanupInterrupted(p)
  PROVE  EndInv'
<1> USE DEF childVars, kernelVars, handleVars, pipeEnds
<1>1. pc # "idle"
  BY DEF CallStep, PollCollects, PollStillRunning, PollFails, CleanupCollects, CleanupFindsNone,
         CleanupInterrupted, CleanupEnds, PreReap, PreDrain, Block, Pump, Reap, PassDone, Following,
         WaitDone, WaitTimesOut, WaitGoesOn, WaitFails, TimePasses
<1>2. ASSUME UNCHANGED last PROVE FailedPoll'
  BY <1>1, <1>2 DEF UseInv, FailedPoll
<1>3. ASSUME UNCHANGED <<os, valid, killed, interrupted>> PROVE GivenUpChildren'
  BY <1>3 DEF EndInv, GivenUpChildren
<1>4. ASSUME NEW p \in Procs, os' = [os EXCEPT ![p] = "reaped"], UNCHANGED <<valid, killed, interrupted>>
      PROVE  GivenUpChildren'
  BY <1>4 DEF EndInv, GivenUpChildren, TypeOK, ChildTypes
<1>5. ASSUME NEW p \in Procs, PollCollects(p) PROVE EndInv'
  <2>1. FailedPoll'
    BY <1>5 DEF PollCollects, Returns, FailedPoll
  <2> QED
    BY <1>4, <1>5, <2>1 DEF PollCollects, Collect, EndInv
<1>6. ASSUME NEW p \in Procs, PollStillRunning(p) PROVE EndInv'
  <2>1. FailedPoll'
    BY <1>6 DEF PollStillRunning, Returns, FailedPoll
  <2> QED
    BY <1>3, <1>6, <2>1 DEF PollStillRunning, EndInv
<1>7. ASSUME NEW p \in Procs, PollFails(p) PROVE EndInv'
  <2>1. os[p] = "taken" /\ pid[p] /\ status[p] = "RUNNING"
    BY <1>7 DEF PollFails, UseInv, PidInv, Uncollected
  <2>2. FailedPoll'
    BY <1>7, <2>1 DEF PollFails, Returns, FailedPoll
  <2> QED
    BY <1>3, <1>7, <2>2 DEF PollFails, EndInv
<1>8. ASSUME NEW p \in Procs, CleanupReturns(p) PROVE EndInv'
  <2>1. CleanupEnds(p)
    BY <1>8 DEF CleanupReturns, CleanupCollects, CleanupFindsNone, CleanupInterrupted
  <2>2. FailedPoll' /\ UNCHANGED killed /\ \A q \in Procs \ {p} : valid'[q] = valid[q]
    BY <2>1 DEF CleanupEnds, Returns, FailedPoll, GivenUp, TypeOK, HandleTypes
  <2>3. \/ os'[p] \in {"reaped", "taken"}
        \/ p \in interrupted' /\ p \in killed
    BY <1>8, <2>1 DEF CleanupReturns, CleanupCollects, CleanupFindsNone, CleanupInterrupted,
                      CleanupEnds, UseInv, TypeOK, ChildTypes
  <2>4. interrupted \subseteq interrupted' /\ \A q \in Procs \ {p} : os'[q] = os[q]
    BY <1>8 DEF CleanupReturns, CleanupCollects, CleanupFindsNone, CleanupInterrupted, TypeOK, ChildTypes
  <2>5. GivenUpChildren'
    BY <2>2, <2>3, <2>4 DEF EndInv, GivenUpChildren
  <2> QED
    BY <2>2, <2>5 DEF EndInv
<1>9. CASE WaitDone \/ WaitTimesOut \/ WaitFails
  <2>1. FailedPoll'
    BY <1>9 DEF WaitDone, WaitTimesOut, WaitFails, Returns, FailedPoll
  <2> QED
    BY <1>3, <1>9, <2>1 DEF WaitDone, WaitTimesOut, WaitFails, EndInv
<1>10. CASE PreReap \/ Reap
  <2>1. i \in Procs
    BY <1>10 DEF PreReap, Reap, Procs, TypeOK, CallTypes
  <2>2. os' = os \/ os' = [os EXCEPT ![i] = "reaped"]
    BY <1>10 DEF PreReap, Reap, Collect
  <2>3. UNCHANGED <<valid, killed, interrupted, last>>
    BY <1>10 DEF PreReap, Reap
  <2> QED
    BY <1>2, <1>3, <1>4, <2>1, <2>2, <2>3 DEF EndInv
<1>11. CASE PreDrain \/ Pump \/ Block \/ PassDone \/ WaitGoesOn \/ TimePasses
  BY <1>2, <1>3, <1>11 DEF PreDrain, Pump, Block, PassDone, WaitGoesOn, TimePasses, EndInv
<1> QED
  BY <1>5, <1>6, <1>7, <1>8, <1>9, <1>10, <1>11 DEF CallStep, CleanupReturns

LEMMA EndInvariant == Spec => []EndInv
<1>1. Init => EndInv
  BY DEF Init, EndInv, FailedPoll, GivenUpChildren, Everywhere
<1>2. TypeOK /\ UseInv /\ PidInv /\ EndInv /\ [Next]_vars => EndInv'
  <2> SUFFICES ASSUME TypeOK, UseInv, PidInv, EndInv, [Next]_vars PROVE EndInv'
    OBVIOUS
  <2>1. CASE UNCHANGED vars
    BY <2>1 DEF vars, childVars, kernelVars, handleVars, EndInv, FailedPoll, GivenUpChildren
  <2> QED
    BY <2>1, ChildrenKeepEndInv, NewCallsKeepEndInv, CallsUnderWayKeepEndInv DEF Next
<1> QED
  BY <1>1, <1>2, TypeCorrect, UseInvariant, PidInvariant, PTL DEF Spec

(* kill() and waitpid() are given the pid of the handle's own child, alive  *)
(* or zombie, unless the program around has collected it; then alone does a *)
(* poll fail, and the pid stays.  A child that the handle collected is      *)
(* reported.                                                                *)
THEOREM PidsSafe == Spec => []PidNamesOwnChild
<1>1. PidInv /\ EndInv => PidNamesOwnChild
  BY DEF PidInv, Uncollected, EndInv, FailedPoll, PidNamesOwnChild
<1> QED
  BY <1>1, PidInvariant, EndInvariant, PTL

(* A handle given to cleanup leaves no open pipe, and no child and no       *)
(* zombie unless a signal cut the wait of cleanup short; that child is      *)
(* killed or dead.                                                          *)
THEOREM CleanupSafe == Spec => []CleanupLeavesNothing
<1>1. PidInv /\ EndInv => CleanupLeavesNothing
  BY DEF PidInv, EndInv, GivenUpChildren, CleanupLeavesNothing
<1> QED
  BY <1>1, PidInvariant, EndInvariant, PTL

-----------------------------------------------------------------------------
(* The results of wait.                                                     *)

WaitPhases == {"prereap", "predrain", "block", "pump", "reap", "check"}

(* During a wait: its slots are the started handles of its argument, those  *)
(* waited for are running, the others terminal or failed, and a failed one  *)
(* has last_errno set.                                                      *)
SlotsInv ==
  /\ slots = {p \in subject : valid[p] /\ background[p]}
  /\ \A p \in waiting : status[p] = "RUNNING"
  /\ \A p \in slots \ waiting : status[p] \in Terminal \/ p \in ioFailed
  /\ \A p \in ioFailed : lastErrno[p]

(* A started handle is running or terminal, and while a call is under way   *)
(* no result stands.                                                        *)
CallInv ==
  /\ \A p \in Procs : background[p] => status[p] \in {"RUNNING"} \cup Terminal
  /\ pc # "idle" => last.op = "none"
  /\ pc \in WaitPhases => SlotsInv
  /\ WaitContract

(* The steps outside the calls.                                             *)
LEMMA OutsideKeepsCallInv ==
  ASSUME CallInv, UNCHANGED <<handleVars, callVars, last>>
  PROVE  CallInv'
BY DEF CallInv, SlotsInv, WaitContract, handleVars, pipeEnds, callVars

(* A call other than wait that returns at once leaves started handles       *)
(* running or terminal.                                                     *)
LEMMA NewCallsKeepCallInv ==
  ASSUME TypeOK, CallInv, NewCall
  PROVE  CallInv'
<1> DEFINE StartedInv == \A p \in Procs : background[p] => status[p] \in {"RUNNING"} \cup Terminal
<1>1. ASSUME UNCHANGED pc, pc = "idle", last'.op # "wait", StartedInv'
      PROVE  CallInv'
  BY <1>1 DEF CallInv, WaitContract, WaitPhases
<1>2. ASSUME UNCHANGED <<background, status>> PROVE StartedInv'
  BY <1>2 DEF CallInv
<1> HIDE DEF StartedInv
<1>3. ASSUME NEW p \in Procs, Start(p) PROVE CallInv'
  <2>1. status'[p] = "RUNNING" /\ \A q \in Procs \ {p} : status'[q] = status[q] /\ background'[q] = background[q]
    BY <1>3 DEF Start, TypeOK, HandleTypes
  <2>2. StartedInv'
    BY <2>1 DEF CallInv, StartedInv
  <2> QED
    BY <1>1, <1>3, <2>2 DEF Start, Returns, callVars
<1>4. ASSUME NEW p \in Procs, StartFails(p) PROVE CallInv'
  <2>1. ~background[p]
    BY <1>4 DEF StartFails, CallInv, Terminal
  <2>2. UNCHANGED background /\ \A q \in Procs \ {p} : status'[q] = status[q]
    BY <1>4 DEF StartFails, TypeOK, HandleTypes
  <2>3. StartedInv'
    BY <2>1, <2>2 DEF CallInv, StartedInv
  <2> QED
    BY <1>1, <1>4, <2>3 DEF StartFails, Returns, callVars
<1>5. ASSUME NEW p \in Procs, SendStdin(p) \/ ReceiveOutput(p) PROVE CallInv'
  <2>1. UNCHANGED <<background, status>> /\ pc = "idle" /\ UNCHANGED pc /\ last'.op # "wait"
    BY <1>5 DEF SendStdin, ReceiveOutput, Callable, Returns, callVars
  <2> QED
    BY <1>1, <1>2, <2>1
<1>6. ASSUME NEW p \in Procs, Kill(p) \/ PollTerminal(p) PROVE CallInv'
  <2>1. UNCHANGED <<background, status>> /\ pc = "idle" /\ UNCHANGED pc /\ last'.op # "wait"
    BY <1>6 DEF Kill, PollTerminal, Callable, Returns, callVars, handleVars
  <2> QED
    BY <1>1, <1>2, <2>1
<1>7. ASSUME NEW p \in Procs, Cleanup(p) PROVE CallInv'
  <2>1. \A q \in Procs : background'[q] => background[q]
    BY <1>7 DEF Cleanup, GivenUp, TypeOK, HandleTypes
  <2>2. UNCHANGED status /\ pc = "idle" /\ UNCHANGED pc /\ last'.op # "wait"
    BY <1>7 DEF Cleanup, Returns, callVars
  <2>3. StartedInv'
    BY <2>1, <2>2 DEF CallInv, StartedInv
  <2> QED
    BY <1>1, <2>2, <2>3
<1>8. ASSUME NEW p \in Procs, CleanupKills(p) \/ \E t \in Timeouts : PollBegin(p, t)
      PROVE  CallInv'
  <2>1. UNCHANGED <<background, status>> /\ last'.op = "none" /\ pc' \notin WaitPhases
    BY <1>8 DEF CleanupKills, PollBegin, CallUnderWay, handleVars, WaitPhases
  <2> QED
    BY <1>2, <2>1 DEF CallInv, WaitContract, StartedInv
<1>9. ASSUME NEW a \in Arrays PROVE {p \in a : valid[p] /\ background[p]} = Live(a) \cup Done(a)
  <2>1. a \subseteq Procs
    OBVIOUS
  <2> QED
    BY <2>1 DEF Live, Done, CallInv
<1>10. ASSUME NEW a \in Arrays, WaitNothing(a) PROVE CallInv'
  <2>1. UNCHANGED <<valid, background, status, lastErrno, pc>> /\ pc = "idle"
    BY <1>10 DEF WaitNothing, handleVars, pipeEnds, callVars
  <2>2. last' = [op |-> "wait", on |-> a, result |-> "SUCCESS"]
    BY <1>10 DEF WaitNothing, Returns
  <2>3. {p \in a : valid[p] /\ background[p]} = {}
    BY <1>9, <1>10 DEF WaitNothing
  <2>4. WaitContract'
    BY <2>1, <2>2, <2>3 DEF WaitContract
  <2> QED
    BY <1>2, <2>1, <2>4 DEF CallInv, StartedInv, WaitPhases
<1>11. ASSUME NEW a \in Arrays, NEW t \in Timeouts, WaitBegin(a, t) PROVE CallInv'
  <2>1. UNCHANGED <<valid, background, status, lastErrno>> /\ last'.op = "none"
    BY <1>11 DEF WaitBegin, CallUnderWay, handleVars, pipeEnds
  <2>2. /\ subject' = a /\ slots' = Live(a) \cup Done(a) /\ waiting' = Live(a)
        /\ ioFailed' = {}
    BY <1>11 DEF WaitBegin
  <2>3. \A p \in slots' \ waiting' : status[p] \in Terminal
    BY <2>2 DEF Live, Done
  <2>4. \A p \in waiting' : status[p] = "RUNNING"
    BY <2>2 DEF Live
  <2>5. SlotsInv'
    BY <1>9, <2>1, <2>2, <2>3, <2>4 DEF SlotsInv
  <2> QED
    BY <1>2, <2>1, <2>5 DEF CallInv, WaitContract, StartedInv
<1> QED
  BY <1>3, <1>4, <1>5, <1>6, <1>7, <1>8, <1>10, <1>11 DEF NewCall

(* A pass over the slots that collects handle p, or finds its output        *)
(* failed, or leaves it as it is.                                           *)
LEMMA PassKeepsCallInv ==
  ASSUME TypeOK, CallInv, NEW p \in Procs, pc \in WaitPhases, pc' = pc,
         UNCHANGED <<valid, background, subject, slots, last>>,
         \A q \in Procs : lastErrno[q] => lastErrno'[q],
         \A q \in Procs \ {p} : status'[q] = status[q],
         \/ status'[p] = status[p] /\ UNCHANGED <<waiting, ioFailed>>
         \/ status'[p] \in Terminal /\ waiting' = waiting \ {p} /\ UNCHANGED ioFailed
         \/ /\ status'[p] = status[p] /\ lastErrno'[p] /\ p \in slots
            /\ waiting' = waiting \ {p} /\ ioFailed' = ioFailed \cup {p}
  PROVE  CallInv'
<1>1. SlotsInv /\ slots \subseteq Procs /\ waiting \subseteq slots /\ ioFailed \subseteq slots
  BY DEF CallInv, TypeOK, CallTypes
<1>2. slots' = {q \in subject' : valid'[q] /\ background'[q]}
  BY <1>1 DEF SlotsInv
<1>3. \A q \in waiting' : status'[q] = "RUNNING"
  BY <1>1 DEF SlotsInv
<1>4. \A q \in slots' \ waiting' : status'[q] \in Terminal \/ q \in ioFailed'
  BY <1>1 DEF SlotsInv
<1>5. \A q \in ioFailed' : lastErrno'[q]
  BY <1>1 DEF SlotsInv
<1>6. SlotsInv'
  BY <1>2, <1>3, <1>4, <1>5 DEF SlotsInv
<1>7. last'.op = "none"
  BY DEF CallInv, WaitPhases
<1>8. \A q \in Procs : background'[q] => status'[q] \in {"RUNNING"} \cup Terminal
  BY DEF CallInv
<1> QED
  BY <1>6, <1>7, <1>8 DEF CallInv, WaitContract

LEMMA PassesKeepCallInv ==
  ASSUME TypeOK, PidInv, CallInv, PreReap \/ PreDrain \/ Pump \/ Reap
  PROVE  CallInv'
<1>1. i \in Procs
  BY DEF PreReap, PreDrain, Pump, Reap, Procs, TypeOK, CallTypes
<1>2. pc \in WaitPhases /\ pc' = pc /\ UNCHANGED <<valid, background, subject, slots, last>>
  BY DEF PreReap, PreDrain, Pump, Reap, WaitPhases
<1>3. Reported(i) \in Terminal
  BY DEF Reported, Terminal
<1>4. ASSUME Collect(i)
      PROVE  status'[i] \in Terminal /\ \A q \in Procs \ {i} : status'[q] = status[q]
  BY <1>1, <1>3, <1>4 DEF Collect, TypeOK, HandleTypes
<1>5. CASE PreReap
  <2>1. UNCHANGED <<lastErrno, ioFailed>>
    BY <1>5 DEF PreReap, pipeEnds
  <2>2. CASE i \in waiting /\ os[i] \in Zombie
    <3>1. Collect(i) /\ waiting' = waiting \ {i}
      BY <1>5, <2>2 DEF PreReap
    <3> QED
      BY <1>1, <1>2, <1>4, <2>1, <3>1, PassKeepsCallInv
  <2>3. CASE ~(i \in waiting /\ os[i] \in Zombie)
    <3>1. UNCHANGED <<status, waiting>>
      BY <1>5, <2>3 DEF PreReap
    <3> QED
      BY <1>1, <1>2, <2>1, <3>1, PassKeepsCallInv
  <2> QED
    BY <2>2, <2>3
<1>6. CASE PreDrain
  <2>1. UNCHANGED status
    BY <1>6 DEF PreDrain
  <2>2. CASE i \in slots
    <3>1. PICK bad \in ReadFailures(i) :
            /\ lastErrno' = [lastErrno EXCEPT ![i] = @ \/ bad]
            /\ ioFailed' = IF bad THEN ioFailed \cup {i} ELSE ioFailed
            /\ waiting' = IF bad THEN waiting \ {i} ELSE waiting
      BY <1>6, <2>2 DEF PreDrain
    <3>2. bad \in BOOLEAN
      BY <1>1, FailuresAreBooleans
    <3>3. (bad => lastErrno'[i]) /\ \A q \in Procs : lastErrno[q] => lastErrno'[q]
      BY <1>1, <3>1, <3>2 DEF TypeOK, HandleTypes
    <3> QED
      BY <1>1, <1>2, <2>1, <2>2, <3>1, <3>2, <3>3, PassKeepsCallInv
  <2>3. CASE i \notin slots
    <3>1. UNCHANGED <<lastErrno, ioFailed, waiting>>
      BY <1>6, <2>3 DEF PreDrain
    <3> QED
      BY <1>1, <1>2, <2>1, <3>1, PassKeepsCallInv
  <2> QED
    BY <2>2, <2>3
<1>7. CASE Pump
  <2>1. UNCHANGED status
    BY <1>7 DEF Pump
  <2>2. CASE i \in waiting
    <3>1. PICK badRead \in ReadFailures(i), badWrite \in WriteFailures(i) :
            /\ lastErrno' = [lastErrno EXCEPT ![i] = @ \/ badRead \/ badWrite]
            /\ ioFailed' = IF badRead THEN ioFailed \cup {i} ELSE ioFailed
            /\ waiting' = IF badRead THEN waiting \ {i} ELSE waiting
      BY <1>7, <2>2 DEF Pump
    <3>2. badRead \in BOOLEAN /\ badWrite \in BOOLEAN /\ i \in slots
      BY <1>1, <2>2, FailuresAreBooleans DEF TypeOK, CallTypes
    <3>3. (badRead => lastErrno'[i]) /\ \A q \in Procs : lastErrno[q] => lastErrno'[q]
      BY <1>1, <3>1, <3>2 DEF TypeOK, HandleTypes
    <3> QED
      BY <1>1, <1>2, <2>1, <3>1, <3>2, <3>3, PassKeepsCallInv
  <2>3. CASE i \notin waiting
    <3>1. UNCHANGED <<lastErrno, ioFailed, waiting>>
      BY <1>7, <2>3 DEF Pump
    <3> QED
      BY <1>1, <1>2, <2>1, <3>1, PassKeepsCallInv
  <2> QED
    BY <2>2, <2>3
<1>8. CASE Reap
  <2>1. UNCHANGED ioFailed
    BY <1>8 DEF Reap
  <2>2. CASE i \in waiting /\ os[i] \in Zombie
    <3>1. Collect(i) /\ waiting' = waiting \ {i}
      BY <1>8, <2>2 DEF Reap
    <3>2. PICK bad \in ReadFailures(i) : lastErrno' = [lastErrno EXCEPT ![i] = @ \/ bad]
      BY <1>8, <2>2 DEF Reap
    <3>3. \A q \in Procs : lastErrno[q] => lastErrno'[q]
      BY <1>1, <3>2 DEF TypeOK, HandleTypes
    <3> QED
      BY <1>1, <1>2, <1>4, <2>1, <3>1, <3>3, PassKeepsCallInv
  <2>3. CASE ~(i \in waiting /\ os[i] \in Zombie)
    <3>1. UNCHANGED <<status, waiting, lastErrno>>
      BY <1>8, <2>3 DEF Reap
    <3> QED
      BY <1>1, <1>2, <2>1, <3>1, PassKeepsCallInv
  <2> QED
    BY <2>2, <2>3
<1> QED
  BY <1>5, <1>6, <1>7, <1>8

LEMMA CallsUnderWayKeepCallInv ==
  ASSUME TypeOK, PidInv, CallInv,
         CallStep \/ WaitFails \/ TimePasses \/ \E p \in Procs : CleanupInterrupted(p)
  PROVE  CallInv'
<1> USE DEF childVars, kernelVars, handleVars, pipeEnds
<1> DEFINE StartedInv == \A p \in Procs : background[p] => status[p] \in {"RUNNING"} \cup Terminal
<1>1. ASSUME NEW p \in Procs, PollCollects(p) PROVE CallInv'
  <2>1. Reported(p) \in Terminal
    BY DEF Reported, Terminal
  <2>2. status' = [status EXCEPT ![p] = Reported(p)] /\ UNCHANGED background
    BY <1>1 DEF PollCollects, Collect
  <2>3. StartedInv'
    BY <2>1, <2>2 DEF CallInv, TypeOK, HandleTypes
  <2>4. pc' = "idle" /\ last'.op = "poll"
    BY <1>1 DEF PollCollects, CallEnds, Returns
  <2> QED
    BY <2>3, <2>4 DEF CallInv, WaitContract, WaitPhases
<1>2. ASSUME NEW p \in Procs, PollStillRunning(p) \/ PollFails(p) PROVE CallInv'
  BY <1>2 DEF PollStillRunning, PollFails, CallEnds, Returns, CallInv, WaitContract, WaitPhases
<1>3. ASSUME NEW p \in Procs, CleanupReturns(p) PROVE CallInv'
  <2> USE DEF CleanupReturns, CleanupCollects, CleanupFindsNone, CleanupInterrupted, CleanupEnds
  <2>1. UNCHANGED status /\ \A q \in Procs : background'[q] => background[q]
    BY <1>3 DEF GivenUp, TypeOK, HandleTypes
  <2>2. pc' = "idle" /\ last'.op = "cleanup"
    BY <1>3 DEF CallEnds, Returns
  <2> QED
    BY <2>1, <2>2 DEF CallInv, WaitContract, WaitPhases
<1>4. CASE Block
  BY <1>4 DEF Block, CallInv, SlotsInv, WaitContract, WaitPhases
<1>5. CASE PassDone
  <2>1. pc \in WaitPhases /\ pc' \in WaitPhases
    BY <1>5 DEF PassDone, Following, WaitPhases
  <2> QED
    BY <1>5, <2>1 DEF PassDone, CallInv, SlotsInv, WaitContract, WaitPhases
<1>6. CASE WaitGoesOn
  BY <1>6 DEF WaitGoesOn, CallInv, SlotsInv, WaitContract, WaitPhases
<1>7. ASSUME pc' = "idle", UNCHANGED handleVars, pc \in WaitPhases,
             NEW result, last' = [op |-> "wait", on |-> subject, result |-> result],
             result = "SUCCESS" => waiting = {} /\ ioFailed = {},
             result = "IO_FAILED" => ioFailed # {},
             result = "TIMEOUT_REACHED" => waiting # {}
      PROVE  CallInv'
  <2>1. SlotsInv /\ waiting \subseteq slots /\ ioFailed \subseteq slots
    BY <1>7 DEF CallInv, TypeOK, CallTypes
  <2>2. WaitContract'
    BY <1>7, <2>1 DEF SlotsInv, WaitContract
  <2> QED
    BY <1>7, <2>2 DEF CallInv, WaitPhases
<1>8. CASE WaitDone
  BY <1>7, <1>8 DEF WaitDone, CallEnds, Returns, WaitPhases
<1>9. CASE WaitTimesOut
  BY <1>7, <1>9 DEF WaitTimesOut, CallEnds, Returns, WaitPhases
<1>10. CASE WaitFails
  BY <1>7, <1>10 DEF WaitFails, CallEnds, Returns, WaitPhases
<1>11. CASE TimePasses
  BY <1>11, OutsideKeepsCallInv DEF TimePasses
<1> QED
  BY <1>1, <1>2, <1>3, <1>4, <1>5, <1>6, <1>8, <1>9, <1>10, <1>11, PassesKeepCallInv
     DEF CallStep, CleanupReturns

LEMMA CallInvStarts == ASSUME Init PROVE CallInv
BY DEF Init, CallInv, WaitContract, WaitPhases, Everywhere

LEMMA CallInvKept == ASSUME TypeOK, PidInv, CallInv, [Next]_vars PROVE CallInv'
<1>1. CASE NewCall
  BY <1>1, NewCallsKeepCallInv
<1>2. CASE CallStep \/ WaitFails \/ TimePasses \/ \E p \in Procs : CleanupInterrupted(p)
  BY <1>2, CallsUnderWayKeepCallInv
<1>3. ASSUME NEW p \in Procs, ChildStep(p) \/ HostCollects(p) PROVE CallInv'
  BY <1>3, OutsideKeepsCallInv
     DEF HostCollects, ChildStep, ChildReads, ChildSeesEof, ChildWrites, ChildCrashes, ChildKilled, Dies
<1>4. CASE UNCHANGED vars
  BY <1>4, OutsideKeepsCallInv DEF vars
<1> QED
  BY <1>1, <1>2, <1>3, <1>4 DEF Next

LEMMA CallInvariant == Spec => []CallInv
BY CallInvStarts, CallInvKept, TypeCorrect, PidInvariant, PTL DEF Spec

(* The result of a wait means what os.h says, for every timeout, order of   *)
(* exits, failure and history of the handles.                               *)
THEOREM WaitSafe == Spec => []WaitContract
<1>1. CallInv => WaitContract
  BY DEF CallInv
<1> QED
  BY <1>1, CallInvariant, PTL

-----------------------------------------------------------------------------
(* The output of a child that was reported.                                 *)

(* Unless a read failed, what was written is in the sink or in the pipe;    *)
(* the pipe of a valid handle is open until it is empty, and only a started *)
(* handle is terminal.                                                      *)
StreamInv ==
  \A p \in Procs :
    /\ ~lastErrno[p] => sunk[p] + outPipe[p] = produced[p]
    /\ valid[p] /\ ~readFd[p] => outPipe[p] = 0
    /\ os[p] = "none" => outPipe[p] = 0
    /\ valid[p] /\ status[p] \in Terminal => background[p]

(* The steps that move no chunk of output.                                  *)
LEMMA OthersKeepStreamInv ==
  ASSUME StreamInv, UNCHANGED <<sunk, outPipe, produced>>,
         \A p \in Procs :
           /\ lastErrno[p] => lastErrno'[p]
           /\ valid'[p] => valid[p]
           /\ valid'[p] /\ readFd[p] => readFd'[p]
           /\ os'[p] = "none" => os[p] = "none"
           /\ valid'[p] /\ status'[p] \in Terminal => background'[p]
  PROVE  StreamInv'
BY DEF StreamInv

(* A pump of a valid handle leaves nothing in its pipe; the handle may have *)
(* been collected by the same step.                                         *)
LEMMA PumpKeepsStreamInv ==
  ASSUME TypeOK, OutputFlow, StreamInv, NEW p \in Procs, NEW bad \in BOOLEAN, PumpOutput(p, bad),
         UNCHANGED <<produced, valid, background>>, bad => lastErrno'[p],
         \A q \in Procs :
           /\ lastErrno[q] => lastErrno'[q]
           /\ os'[q] = "none" => os[q] = "none"
           /\ valid[q] /\ status'[q] \in Terminal => background[q]
  PROVE  /\ StreamInv'
         /\ valid[p] => outPipe'[p] = 0
         /\ \A q \in Procs \ {p} : outPipe'[q] = outPipe[q]
<1> DEFINE amount == IF readFd[p] THEN outPipe[p] ELSE 0
           taken == IF bad THEN 0 ELSE amount
<1>1. /\ outPipe \in [Procs -> 0 .. PipeCap] /\ sunk \in [Procs -> 0 .. OutputLen]
      /\ produced \in [Procs -> 0 .. OutputLen] /\ readFd \in [Procs -> BOOLEAN]
      /\ PipeCap \in Nat /\ OutputLen \in Nat
  BY DEF TypeOK, ChildTypes, HandleTypes
<1>2. /\ sunk' = [sunk EXCEPT ![p] = @ + taken]
      /\ outPipe' = [outPipe EXCEPT ![p] = @ - amount]
      /\ readFd' = [readFd EXCEPT ![p] = @ /\ ~bad /\ os[p] = "running"]
  BY DEF PumpOutput
<1>3. valid[p] => outPipe[p] - amount = 0
  BY <1>1 DEF StreamInv
<1>4. os[p] = "none" => outPipe[p] - amount = 0
  BY <1>1 DEF StreamInv
<1>5. ~lastErrno'[p] => (sunk[p] + taken) + (outPipe[p] - amount) = produced[p]
  BY <1>1 DEF StreamInv
<1> HIDE DEF amount, taken
<1>6. sunk'[p] = sunk[p] + taken /\ outPipe'[p] = outPipe[p] - amount
  BY <1>1, <1>2
<1>7. \A q \in Procs \ {p} : sunk'[q] = sunk[q] /\ outPipe'[q] = outPipe[q] /\ readFd'[q] = readFd[q]
  BY <1>1, <1>2
<1>8. StreamInv'
  BY <1>3, <1>4, <1>5, <1>6, <1>7 DEF StreamInv
<1> QED
  BY <1>3, <1>6, <1>7, <1>8

LEMMA ChildrenKeepStreamInv ==
  ASSUME TypeOK, StreamInv, NEW p \in Procs, ChildStep(p) \/ HostCollects(p)
  PROVE  StreamInv'
<1> USE DEF handleVars, pipeEnds
<1>1. CASE ChildReads(p) \/ ChildSeesEof(p)
  BY <1>1, OthersKeepStreamInv DEF ChildReads, ChildSeesEof, StreamInv
<1>2. CASE ChildWrites(p)
  <2>1. /\ outPipe \in [Procs -> 0 .. PipeCap] /\ produced \in [Procs -> 0 .. OutputLen]
        /\ sunk \in [Procs -> 0 .. OutputLen] /\ PipeCap \in Nat /\ OutputLen \in Nat
    BY DEF TypeOK, ChildTypes, HandleTypes
  <2>2. /\ outPipe' = [outPipe EXCEPT ![p] = @ + 1] /\ produced' = [produced EXCEPT ![p] = @ + 1]
        /\ readFd[p] /\ os[p] = "running"
        /\ UNCHANGED <<os, sunk, lastErrno, valid, readFd, status, background>>
    BY <1>2 DEF ChildWrites
  <2>3. outPipe'[p] = outPipe[p] + 1 /\ produced'[p] = produced[p] + 1
    BY <2>1, <2>2
  <2>4. \A q \in Procs \ {p} : outPipe'[q] = outPipe[q] /\ produced'[q] = produced[q]
    BY <2>1, <2>2
  <2>5. ~lastErrno[p] => sunk[p] + (outPipe[p] + 1) = produced[p] + 1
    BY <2>1 DEF StreamInv
  <2> QED
    BY <2>2, <2>3, <2>4, <2>5 DEF StreamInv
<1>3. ASSUME NEW how \in Zombie, Dies(p, how) PROVE StreamInv'
  <2>1. \A q \in Procs : os'[q] = "none" => os[q] = "none"
    BY <1>3 DEF Dies, TypeOK, ChildTypes, Zombie
  <2> QED
    BY <1>3, <2>1, OthersKeepStreamInv DEF Dies, StreamInv
<1>4. CASE HostCollects(p)
  <2>1. \A q \in Procs : os'[q] = "none" => os[q] = "none"
    BY <1>4 DEF HostCollects, TypeOK, ChildTypes
  <2> QED
    BY <1>4, <2>1, OthersKeepStreamInv DEF HostCollects, StreamInv
<1> QED
  BY <1>1, <1>2, <1>3, <1>4 DEF ChildStep, ChildCrashes, ChildKilled, Zombie

(* A receive_output, that of a started handle.                              *)
LEMMA ReceiveKeepsStreamInv ==
  ASSUME TypeOK, OutputFlow, StreamInv, NEW p \in Procs, ReceiveOutput(p)
  PROVE  StreamInv' /\ outPipe'[p] = 0
<1>1. PICK bad \in ReadFailures(p) :
        PumpOutput(p, bad) /\ lastErrno' = [lastErrno EXCEPT ![p] = @ \/ bad]
  BY DEF ReceiveOutput
<1>2. bad \in BOOLEAN
  BY FailuresAreBooleans
<1>3. (bad => lastErrno'[p]) /\ \A q \in Procs : lastErrno[q] => lastErrno'[q]
  BY <1>1, <1>2 DEF TypeOK, HandleTypes
<1>4. UNCHANGED <<os, produced, valid, status, background>> /\ valid[p]
  BY DEF ReceiveOutput, Callable
<1>5. \A q \in Procs : valid[q] /\ status'[q] \in Terminal => background[q]
  BY <1>4 DEF StreamInv
<1> QED
  BY <1>1, <1>2, <1>3, <1>4, <1>5, PumpKeepsStreamInv

LEMMA NewCallsKeepStreamInv ==
  ASSUME TypeOK, OutputFlow, PidInv, StreamInv, NewCall
  PROVE  StreamInv'
<1> USE DEF childVars, handleVars, pipeEnds
<1>1. ASSUME NEW p \in Procs, Start(p) PROVE StreamInv'
  <2>1. /\ DOMAIN os = Procs /\ DOMAIN status = Procs /\ DOMAIN background = Procs
        /\ DOMAIN readFd = Procs
    BY DEF TypeOK, ChildTypes, HandleTypes
  <2>2. os[p] = "none" /\ outPipe[p] = 0
    BY <1>1 DEF Start, PidInv, StreamInv
  <2>3. os'[p] = "running" /\ status'[p] = "RUNNING"
    BY <1>1, <2>1 DEF Start
  <2>4. \A q \in Procs \ {p} :
          /\ os'[q] = os[q] /\ status'[q] = status[q] /\ background'[q] = background[q]
          /\ readFd'[q] = readFd[q]
    BY <1>1, <2>1 DEF Start
  <2>5. UNCHANGED <<sunk, outPipe, produced, lastErrno, valid>>
    BY <1>1 DEF Start
  <2> QED
    BY <2>2, <2>3, <2>4, <2>5 DEF StreamInv, Terminal
<1>2. ASSUME NEW p \in Procs, StartFails(p) PROVE StreamInv'
  <2>1. \A q \in Procs : status'[q] \in Terminal => status[q] \in Terminal
    BY <1>2 DEF StartFails, TypeOK, HandleTypes, Terminal
  <2> QED
    BY <1>2, <2>1, OthersKeepStreamInv DEF StartFails, StreamInv
<1>3. ASSUME NEW p \in Procs, SendStdin(p) PROVE StreamInv'
  <2>1. \A q \in Procs : lastErrno[q] => lastErrno'[q]
    BY <1>3 DEF SendStdin, TypeOK, HandleTypes
  <2> QED
    BY <1>3, <2>1, OthersKeepStreamInv DEF SendStdin, StreamInv
<1>4. ASSUME NEW p \in Procs, Cleanup(p) PROVE StreamInv'
  <2>1. \A q \in Procs :
          /\ valid'[q] => valid[q] /\ q # p
          /\ q # p => readFd'[q] = readFd[q] /\ background'[q] = background[q]
    BY <1>4 DEF Cleanup, GivenUp, TypeOK, HandleTypes
  <2>2. UNCHANGED <<os, sunk, outPipe, produced, lastErrno, status>>
    BY <1>4 DEF Cleanup
  <2> QED
    BY <2>1, <2>2, OthersKeepStreamInv DEF StreamInv
<1>5. ASSUME NEW p \in Procs,
             \/ Kill(p) \/ PollTerminal(p) \/ CleanupKills(p)
             \/ \E t \in Timeouts : PollBegin(p, t)
      PROVE  StreamInv'
  BY <1>5, OthersKeepStreamInv DEF Kill, PollTerminal, CleanupKills, PollBegin, StreamInv
<1>6. ASSUME NEW a \in Arrays, WaitNothing(a) \/ \E t \in Timeouts : WaitBegin(a, t)
      PROVE  StreamInv'
  BY <1>6, OthersKeepStreamInv DEF WaitNothing, WaitBegin, StreamInv
<1> QED
  BY <1>1, <1>2, <1>3, <1>4, <1>5, <1>6, ReceiveKeepsStreamInv DEF NewCall

(* A pass over the slots empties the pipe of a handle it drains and of one  *)
(* that leaves the wait after the first sweep, and touches no other.        *)
Drains ==
  /\ \A p \in Procs : (lastErrno[p] => lastErrno'[p]) /\ outPipe'[p] \in {0, outPipe[p]}
  /\ pc = "predrain" /\ i \in slots => outPipe'[i] = 0
  /\ pc # "prereap" => \A p \in waiting \ waiting' : outPipe'[p] = 0

(* A pass at handle p, which it pumps or leaves alone.                      *)
LEMMA PumpDrains ==
  ASSUME TypeOK, OutputFlow, CallInv, StreamInv, pc \in WaitPhases, NEW p \in slots,
         NEW bad \in BOOLEAN, PumpOutput(p, bad), UNCHANGED <<produced, valid, background>>,
         bad => lastErrno'[p], waiting \ waiting' \subseteq {p},
         i = p,
         \A q \in Procs :
           /\ lastErrno[q] => lastErrno'[q]
           /\ os'[q] = "none" => os[q] = "none"
           /\ valid[q] /\ status'[q] \in Terminal => background[q]
  PROVE  StreamInv' /\ Drains
<1>1. p \in Procs /\ valid[p]
  BY DEF CallInv, SlotsInv, TypeOK, CallTypes
<1>2. /\ StreamInv' /\ outPipe'[p] = 0
      /\ \A q \in Procs \ {p} : outPipe'[q] = outPipe[q]
  BY <1>1, PumpKeepsStreamInv
<1> QED
  BY <1>2 DEF Drains

LEMMA StillDrains ==
  ASSUME StreamInv, UNCHANGED <<outPipe, sunk, produced, readFd, lastErrno, valid, background>>,
         pc = "prereap" \/ waiting' = waiting, pc = "predrain" => i \notin slots,
         \A q \in Procs :
           /\ os'[q] = "none" => os[q] = "none"
           /\ valid[q] /\ status'[q] \in Terminal => background[q]
  PROVE  StreamInv' /\ Drains
<1>1. StreamInv'
  BY DEF StreamInv
<1> QED
  BY <1>1 DEF Drains

LEMMA PassesDrain ==
  ASSUME TypeOK, OutputFlow, PidInv, CallInv, StreamInv, PreReap \/ PreDrain \/ Pump \/ Reap
  PROVE  StreamInv' /\ Drains
<1> USE DEF pipeEnds
<1>1. i \in Procs /\ waiting \subseteq slots
  BY DEF PreReap, PreDrain, Pump, Reap, Procs, TypeOK, CallTypes
<1>2. pc \in WaitPhases /\ UNCHANGED <<produced, valid, background>>
  BY DEF PreReap, PreDrain, Pump, Reap, WaitPhases
<1>3. \A q \in Procs : valid[q] /\ status[q] \in Terminal => background[q]
  BY DEF StreamInv
<1>4. ASSUME Collect(i), i \in waiting
      PROVE  \A q \in Procs :
               /\ os'[q] = "none" => os[q] = "none"
               /\ valid[q] /\ status'[q] \in Terminal => background[q]
  <2>1. /\ DOMAIN os = Procs /\ DOMAIN status = Procs
        /\ os' = [os EXCEPT ![i] = "reaped"] /\ status' = [status EXCEPT ![i] = Reported(i)]
    BY <1>4 DEF Collect, TypeOK, ChildTypes, HandleTypes
  <2>2. background[i]
    BY <1>1, <1>2, <1>4 DEF CallInv, SlotsInv
  <2>3. os'[i] # "none"
    BY <1>1, <2>1
  <2>4. \A q \in Procs \ {i} : os'[q] = os[q] /\ status'[q] = status[q]
    BY <2>1
  <2> QED
    BY <1>3, <2>2, <2>3, <2>4
<1>5. CASE PreReap
  <2>1. UNCHANGED <<outPipe, sunk, readFd, lastErrno>> /\ pc = "prereap"
    BY <1>5 DEF PreReap
  <2>2. CASE i \in waiting /\ os[i] \in Zombie
    <3>1. Collect(i)
      BY <1>5, <2>2 DEF PreReap
    <3>2. \A q \in Procs :
            /\ os'[q] = "none" => os[q] = "none"
            /\ valid[q] /\ status'[q] \in Terminal => background[q]
      BY <1>4, <2>2, <3>1
    <3> QED
      BY <1>2, <2>1, <3>2, StillDrains
  <2>3. CASE ~(i \in waiting /\ os[i] \in Zombie)
    <3>1. UNCHANGED <<os, status>>
      BY <1>5, <2>3 DEF PreReap
    <3> QED
      BY <1>2, <1>3, <2>1, <3>1, StillDrains
  <2> QED
    BY <2>2, <2>3
<1>6. CASE PreDrain
  <2>1. UNCHANGED <<os, status>>
    BY <1>6 DEF PreDrain
  <2>2. CASE i \in slots
    <3>1. PICK bad \in ReadFailures(i) :
            /\ PumpOutput(i, bad) /\ lastErrno' = [lastErrno EXCEPT ![i] = @ \/ bad]
            /\ waiting' = IF bad THEN waiting \ {i} ELSE waiting
      BY <1>6, <2>2 DEF PreDrain
    <3>2. bad \in BOOLEAN
      BY <1>1, FailuresAreBooleans
    <3>3. (bad => lastErrno'[i]) /\ \A q \in Procs : lastErrno[q] => lastErrno'[q]
      BY <1>1, <3>1, <3>2 DEF TypeOK, HandleTypes
    <3>4. waiting \ waiting' \subseteq {i}
      BY <3>1
    <3> QED
      BY <1>2, <1>3, <2>1, <2>2, <3>1, <3>2, <3>3, <3>4, PumpDrains
  <2>3. CASE i \notin slots
    <3>1. UNCHANGED <<outPipe, sunk, readFd, lastErrno, waiting>>
      BY <1>6, <2>3 DEF PreDrain
    <3> QED
      BY <1>2, <1>3, <2>1, <2>3, <3>1, StillDrains
  <2> QED
    BY <2>2, <2>3
<1>7. CASE Pump
  <2>1. UNCHANGED <<os, status>> /\ pc = "pump"
    BY <1>7 DEF Pump
  <2>2. CASE i \in waiting
    <3>1. PICK badRead \in ReadFailures(i), badWrite \in WriteFailures(i) :
            /\ PumpOutput(i, badRead)
            /\ lastErrno' = [lastErrno EXCEPT ![i] = @ \/ badRead \/ badWrite]
            /\ waiting' = IF badRead THEN waiting \ {i} ELSE waiting
      BY <1>7, <2>2 DEF Pump
    <3>2. badRead \in BOOLEAN /\ badWrite \in BOOLEAN
      BY <1>1, FailuresAreBooleans
    <3>3. (badRead => lastErrno'[i]) /\ \A q \in Procs : lastErrno[q] => lastErrno'[q]
      BY <1>1, <3>1, <3>2 DEF TypeOK, HandleTypes
    <3>4. waiting \ waiting' \subseteq {i} /\ i \in slots
      BY <1>1, <2>2, <3>1
    <3> QED
      BY <1>2, <1>3, <2>1, <3>1, <3>2, <3>3, <3>4, PumpDrains
  <2>3. CASE i \notin waiting
    <3>1. UNCHANGED <<outPipe, sunk, readFd, lastErrno, waiting>>
      BY <1>7, <2>3 DEF Pump
    <3> QED
      BY <1>2, <1>3, <2>1, <3>1, StillDrains
  <2> QED
    BY <2>2, <2>3
<1>8. CASE Reap
  <2>1. pc = "reap"
    BY <1>8 DEF Reap
  <2>2. CASE i \in waiting /\ os[i] \in Zombie
    <3>1. Collect(i) /\ waiting' = waiting \ {i}
      BY <1>8, <2>2 DEF Reap
    <3>2. PICK bad \in ReadFailures(i) :
            PumpOutput(i, bad) /\ lastErrno' = [lastErrno EXCEPT ![i] = @ \/ bad]
      BY <1>8, <2>2 DEF Reap
    <3>3. bad \in BOOLEAN
      BY <1>1, FailuresAreBooleans
    <3>4. (bad => lastErrno'[i]) /\ \A q \in Procs : lastErrno[q] => lastErrno'[q]
      BY <1>1, <3>2, <3>3 DEF TypeOK, HandleTypes
    <3>5. waiting \ waiting' \subseteq {i} /\ i \in slots
      BY <1>1, <2>2, <3>1
    <3>6. \A q \in Procs :
            /\ os'[q] = "none" => os[q] = "none"
            /\ valid[q] /\ status'[q] \in Terminal => background[q]
      BY <1>4, <2>2, <3>1
    <3> QED
      BY <1>2, <3>2, <3>3, <3>4, <3>5, <3>6, PumpDrains
  <2>3. CASE ~(i \in waiting /\ os[i] \in Zombie)
    <3>1. UNCHANGED <<os, status, outPipe, sunk, readFd, lastErrno, waiting>>
      BY <1>8, <2>3 DEF Reap
    <3> QED
      BY <1>2, <1>3, <2>1, <3>1, StillDrains
  <2> QED
    BY <2>2, <2>3
<1> QED
  BY <1>5, <1>6, <1>7, <1>8

LEMMA OtherCallsKeepStreamInv ==
  ASSUME TypeOK, UseInv, PidInv, StreamInv,
         \/ \E p \in Procs :
              PollCollects(p) \/ PollStillRunning(p) \/ PollFails(p) \/ CleanupReturns(p)
         \/ Block \/ PassDone \/ WaitDone \/ WaitTimesOut \/ WaitGoesOn
         \/ WaitFails \/ TimePasses
  PROVE  StreamInv'
<1> USE DEF childVars, handleVars, pipeEnds
<1>1. ASSUME NEW p \in Procs, PollCollects(p) PROVE StreamInv'
  <2>1. /\ DOMAIN os = Procs /\ DOMAIN status = Procs
        /\ os' = [os EXCEPT ![p] = "reaped"] /\ status' = [status EXCEPT ![p] = Reported(p)]
    BY <1>1 DEF PollCollects, Collect, TypeOK, ChildTypes, HandleTypes
  <2>2. background[p]
    BY <1>1 DEF PollCollects, UseInv, PidInv, Uncollected
  <2>3. os'[p] # "none" /\ \A q \in Procs \ {p} : os'[q] = os[q] /\ status'[q] = status[q]
    BY <2>1
  <2>4. UNCHANGED <<sunk, outPipe, produced, lastErrno, valid, readFd, background>>
    BY <1>1 DEF PollCollects
  <2> QED
    BY <2>2, <2>3, <2>4, OthersKeepStreamInv DEF StreamInv
<1>2. ASSUME NEW p \in Procs, CleanupReturns(p) PROVE StreamInv'
  <2> USE DEF CleanupReturns, CleanupCollects, CleanupFindsNone, CleanupInterrupted, CleanupEnds
  <2>1. \A q \in Procs :
          /\ valid'[q] => valid[q] /\ q # p
          /\ q # p => readFd'[q] = readFd[q] /\ background'[q] = background[q]
          /\ os'[q] = "none" => os[q] = "none"
    BY <1>2 DEF GivenUp, TypeOK, ChildTypes, HandleTypes
  <2>2. UNCHANGED <<sunk, outPipe, produced, lastErrno, status>>
    BY <1>2
  <2> QED
    BY <2>1, <2>2, OthersKeepStreamInv DEF StreamInv
<1>3. ASSUME NEW p \in Procs, PollStillRunning(p) \/ PollFails(p) PROVE StreamInv'
  BY <1>3, OthersKeepStreamInv DEF PollStillRunning, PollFails, StreamInv
<1>4. CASE Block \/ PassDone \/ WaitDone \/ WaitTimesOut \/ WaitGoesOn \/ WaitFails \/ TimePasses
  BY <1>4, OthersKeepStreamInv
     DEF Block, PassDone, WaitDone, WaitTimesOut, WaitGoesOn, WaitFails, TimePasses, StreamInv
<1> QED
  BY <1>1, <1>2, <1>3, <1>4

(* Unless a read or write on its pipes has failed, every chunk a child      *)
(* wrote is in the sink or still in the pipe, and only an empty pipe of a   *)
(* handle in use is closed.                                                 *)
LEMMA StreamInvariant == Spec => []StreamInv
<1>1. Init => StreamInv
  BY DEF Init, StreamInv, Everywhere, Terminal
<1>2. TypeOK /\ OutputFlow /\ UseInv /\ PidInv /\ CallInv /\ StreamInv /\ [Next]_vars => StreamInv'
  <2> SUFFICES ASSUME TypeOK, OutputFlow, UseInv, PidInv, CallInv, StreamInv, [Next]_vars PROVE StreamInv'
    OBVIOUS
  <2>1. CASE NewCall
    BY <2>1, NewCallsKeepStreamInv
  <2>2. CASE CallStep
    BY <2>2, PassesDrain, OtherCallsKeepStreamInv DEF CallStep, CleanupReturns
  <2>3. CASE WaitFails \/ TimePasses \/ \E p \in Procs : CleanupInterrupted(p)
    BY <2>3, OtherCallsKeepStreamInv DEF CleanupReturns
  <2>4. CASE \E p \in Procs : ChildStep(p) \/ HostCollects(p)
    BY <2>4, ChildrenKeepStreamInv
  <2>5. CASE UNCHANGED vars
    BY <2>5, OthersKeepStreamInv DEF vars, childVars, handleVars, pipeEnds, StreamInv
  <2> QED
    BY <2>1, <2>2, <2>3, <2>4, <2>5 DEF Next
<1> QED
  BY <1>1, <1>2, TypeCorrect, UseInvariant, PidInvariant, CallInvariant, PTL DEF Spec

(* During a wait, a slot that is not waited for has an empty pipe or a      *)
(* failure, except before the first drain has come to it.                   *)
SlotDrained(p) ==
  lastErrno[p] \/ outPipe[p] = 0 \/ pc = "prereap" \/ (pc = "predrain" /\ i <= p)
DrainInv ==
  /\ pc \in WaitPhases => \A p \in slots \ waiting : SlotDrained(p)
  /\ DrainAfterExitComplete

(* A call that returns and is neither a wait nor a receive_output.          *)
LEMMA OtherResultsKeepDrainInv ==
  ASSUME pc' \notin WaitPhases, last'.op \notin {"receive_output", "wait"}
  PROVE  DrainInv'
BY DEF DrainInv, DrainAfterExitComplete

LEMMA ChildrenKeepDrainInv ==
  ASSUME TypeOK, PidInv, CallInv, DrainInv, NEW p \in Procs, ChildStep(p) \/ HostCollects(p)
  PROVE  DrainInv'
<1> USE DEF handleVars, pipeEnds, callVars
<1>1. CASE ChildWrites(p)
  <2>1. /\ outPipe' = [outPipe EXCEPT ![p] = @ + 1] /\ produced' = [produced EXCEPT ![p] = @ + 1]
        /\ os[p] = "running" /\ UNCHANGED <<handleVars, callVars, last>>
    BY <1>1 DEF ChildWrites
  <2>2. status[p] \notin Terminal
    BY <2>1 DEF PidInv, Terminal
  <2>3. \A q \in Procs \ {p} : outPipe'[q] = outPipe[q] /\ produced'[q] = produced[q]
    BY <2>1 DEF TypeOK, ChildTypes
  <2>4. DrainAfterExitComplete'
    BY <2>1, <2>2, <2>3 DEF DrainInv, DrainAfterExitComplete, TypeOK, CallTypes
  <2>5. ASSUME pc \in WaitPhases, NEW q \in slots \ waiting PROVE SlotDrained(q)'
    <3>1. q = p => lastErrno[q]
      BY <2>2, <2>5 DEF CallInv, SlotsInv
    <3>2. SlotDrained(q) /\ q \in Procs
      BY <2>5 DEF DrainInv, TypeOK, CallTypes
    <3> QED
      BY <2>1, <2>3, <3>1, <3>2 DEF SlotDrained
  <2> QED
    BY <2>1, <2>4, <2>5 DEF DrainInv
<1>2. ASSUME UNCHANGED <<outPipe, produced, handleVars, callVars, last>> PROVE DrainInv'
  BY <1>2 DEF DrainInv, SlotDrained, DrainAfterExitComplete
<1> QED
  BY <1>1, <1>2 DEF ChildStep, ChildReads, ChildSeesEof, ChildCrashes, ChildKilled, Dies, HostCollects

(* What receive_output and a wait without any started handle promise.       *)
LEMMA NewCallsKeepDrainInv ==
  ASSUME TypeOK, OutputFlow, PidInv, CallInv, StreamInv, NewCall
  PROVE  DrainInv'
<1> USE DEF WaitPhases, Returns, Callable, callVars
<1>1. ASSUME NEW p \in Procs, ReceiveOutput(p) PROVE DrainInv'
  <2>1. StreamInv' /\ outPipe'[p] = 0
    BY <1>1, ReceiveKeepsStreamInv
  <2>2. TypeOK'
    BY NewCallsKeepTypes
  <2>3. ~lastErrno'[p] => sunk'[p] = produced'[p]
    BY <2>1, <2>2 DEF StreamInv, TypeOK, HandleTypes
  <2>4. last'.on = {p} /\ pc' = "idle"
    BY <1>1 DEF ReceiveOutput
  <2> QED
    BY <2>3, <2>4 DEF DrainInv, DrainAfterExitComplete
<1>2. ASSUME NEW p \in Procs,
             \/ Start(p) \/ StartFails(p) \/ SendStdin(p) \/ Kill(p)
             \/ PollTerminal(p) \/ Cleanup(p)
      PROVE  DrainInv'
  <2>1. pc' = "idle" /\ last'.op \in {"start", "send_stdin", "kill", "poll", "cleanup"}
    BY <1>2 DEF Start, StartFails, SendStdin, Kill, PollTerminal, Cleanup
  <2> QED
    BY <2>1, OtherResultsKeepDrainInv
<1>3. ASSUME NEW p \in Procs, CleanupKills(p) \/ \E t \in Timeouts : PollBegin(p, t)
      PROVE  DrainInv'
  <2>1. pc' \in {"polling", "collect"} /\ last'.op = "none"
    BY <1>3 DEF CleanupKills, PollBegin, CallUnderWay
  <2> QED
    BY <2>1, OtherResultsKeepDrainInv
<1>4. ASSUME NEW a \in Arrays, WaitNothing(a) PROVE DrainInv'
  <2>1. pc' = "idle" /\ last'.on = a /\ UNCHANGED <<valid, status>>
    BY <1>4 DEF WaitNothing, handleVars
  <2>2. a \subseteq Procs /\ Done(a) = {}
    BY <1>4 DEF WaitNothing
  <2>3. \A p \in a : ~(valid[p] /\ status[p] \in Terminal)
    BY <2>2 DEF Done, StreamInv
  <2> QED
    BY <2>1, <2>3 DEF DrainInv, DrainAfterExitComplete
<1>5. ASSUME NEW a \in Arrays, NEW t \in Timeouts, WaitBegin(a, t) PROVE DrainInv'
  <2>1. pc' = "prereap" /\ last'.op = "none"
    BY <1>5 DEF WaitBegin, CallUnderWay
  <2> QED
    BY <2>1 DEF DrainInv, SlotDrained, DrainAfterExitComplete
<1> QED
  BY <1>1, <1>2, <1>3, <1>4, <1>5 DEF NewCall

LEMMA PassesKeepDrainInv ==
  ASSUME TypeOK, OutputFlow, PidInv, CallInv, StreamInv, DrainInv,
         PreReap \/ PreDrain \/ Pump \/ Reap
  PROVE  DrainInv'
<1>1. i \in Procs /\ i' = i + 1 /\ pc' = pc /\ pc \in WaitPhases /\ UNCHANGED <<slots, last>>
  BY DEF PreReap, PreDrain, Pump, Reap, WaitPhases, Procs, TypeOK, CallTypes
<1>2. DrainAfterExitComplete'
  <2>1. last'.op = "none"
    BY <1>1 DEF CallInv, WaitPhases
  <2> QED
    BY <2>1 DEF DrainAfterExitComplete
<1>3. Drains
  BY PassesDrain
<1>4. ASSUME NEW p \in slots \ waiting' PROVE SlotDrained(p)'
  <2>1. p \in Procs /\ (lastErrno[p] => lastErrno'[p]) /\ (outPipe[p] = 0 => outPipe'[p] = 0)
    BY <1>3 DEF Drains, TypeOK, CallTypes
  <2>2. CASE pc = "prereap"
    BY <1>1, <2>2 DEF SlotDrained
  <2>3. CASE p \in waiting /\ pc # "prereap"
    BY <1>3, <2>3 DEF Drains, SlotDrained
  <2>4. CASE p \notin waiting /\ pc # "prereap"
    <3>1. lastErrno[p] \/ outPipe[p] = 0 \/ (pc = "predrain" /\ i <= p)
      BY <1>1, <2>4 DEF DrainInv, SlotDrained
    <3>2. CASE pc = "predrain" /\ i = p
      BY <1>3, <3>2 DEF Drains, SlotDrained
    <3>3. CASE pc = "predrain" /\ i <= p /\ i # p
      <4>1. i + 1 <= p
        BY <2>1, <1>1, <3>3 DEF Procs
      <4> QED
        BY <1>1, <3>3, <4>1 DEF SlotDrained
    <3> QED
      BY <2>1, <3>1, <3>2, <3>3 DEF SlotDrained
  <2> QED
    BY <2>2, <2>3, <2>4
<1> QED
  BY <1>1, <1>2, <1>4 DEF DrainInv

LEMMA OtherCallsKeepDrainInv ==
  ASSUME TypeOK, CallInv, StreamInv, DrainInv,
         \/ \E p \in Procs :
              PollCollects(p) \/ PollStillRunning(p) \/ PollFails(p) \/ CleanupReturns(p)
         \/ Block \/ PassDone \/ WaitDone \/ WaitTimesOut \/ WaitGoesOn
         \/ WaitFails \/ TimePasses
  PROVE  DrainInv'
<1> USE DEF childVars, handleVars, pipeEnds, callVars, Returns, WaitPhases
<1>1. ASSUME NEW p \in Procs,
             PollCollects(p) \/ PollStillRunning(p) \/ PollFails(p) \/ CleanupReturns(p)
      PROVE  DrainInv'
  <2>1. pc' = "idle" /\ last'.op \in {"poll", "cleanup"}
    BY <1>1 DEF PollCollects, PollStillRunning, PollFails, CleanupReturns, CleanupCollects,
                CleanupFindsNone, CleanupInterrupted, CleanupEnds, CallEnds
  <2> QED
    BY <2>1, OtherResultsKeepDrainInv
<1>2. ASSUME pc \in WaitPhases \ {"prereap"}, pc' \in WaitPhases \ {"predrain"},
             pc = "predrain" => i = N + 1,
             UNCHANGED <<outPipe, sunk, produced, lastErrno, valid, status, slots, waiting, last>>
      PROVE  DrainInv'
  <2>1. \A p \in slots \ waiting : lastErrno[p] \/ outPipe[p] = 0
    <3> SUFFICES ASSUME NEW p \in slots \ waiting PROVE lastErrno[p] \/ outPipe[p] = 0
      OBVIOUS
    <3>1. SlotDrained(p) /\ p \in 1 .. N /\ N \in Nat
      BY <1>2 DEF DrainInv, TypeOK, CallTypes, Procs
    <3>2. ~(N + 1 <= p)
      BY <3>1
    <3> QED
      BY <1>2, <3>1, <3>2 DEF SlotDrained
  <2> QED
    BY <1>2, <2>1 DEF DrainInv, SlotDrained, DrainAfterExitComplete
<1>3. CASE Block \/ WaitGoesOn
  BY <1>2, <1>3 DEF Block, WaitGoesOn
<1>4. CASE PassDone
  <2>1. CASE pc = "prereap"
    <3>1. pc' = "predrain" /\ i' = 1 /\ UNCHANGED <<slots, waiting, last>>
      BY <1>4, <2>1 DEF PassDone, Following
    <3>2. \A p \in slots : 1 <= p
      BY DEF TypeOK, CallTypes, Procs
    <3>3. last'.op = "none"
      BY <2>1, <3>1 DEF CallInv
    <3> QED
      BY <3>1, <3>2, <3>3 DEF DrainInv, SlotDrained, DrainAfterExitComplete
  <2>2. CASE pc # "prereap"
    <3>1. /\ pc \in {"predrain", "pump", "reap"} /\ pc' \in {"block", "reap", "check"}
          /\ i = N + 1
      BY <1>4, <2>2 DEF PassDone, Following
    <3> QED
      BY <1>2, <1>4, <3>1 DEF PassDone
  <2> QED
    BY <2>1, <2>2
<1>5. CASE WaitDone \/ WaitTimesOut
  <2>1. /\ pc \in {"block", "check"} /\ pc' = "idle" /\ last'.on = subject
        /\ UNCHANGED <<outPipe, sunk, produced, lastErrno, valid, status>>
    BY <1>5 DEF WaitDone, WaitTimesOut, CallEnds
  <2>2. ASSUME NEW p \in subject, valid[p], status[p] \in Terminal, ~lastErrno[p]
        PROVE  sunk[p] = produced[p]
    <3>1. p \in Procs /\ p \in slots /\ p \notin waiting
      BY <2>1, <2>2 DEF CallInv, SlotsInv, StreamInv, Terminal, TypeOK, CallTypes
    <3>2. outPipe[p] = 0
      BY <2>1, <2>2, <3>1 DEF DrainInv, SlotDrained
    <3> QED
      BY <2>2, <3>1, <3>2 DEF StreamInv, TypeOK, HandleTypes
  <2> QED
    BY <2>1, <2>2 DEF DrainInv, DrainAfterExitComplete
<1>6. CASE WaitFails
  <2>1. pc' = "idle" /\ last'.result \in {"WAIT_FAILED", "ALLOCATION_FAILED"} /\ last'.op = "wait"
    BY <1>6 DEF WaitFails, CallEnds
  <2> QED
    BY <2>1 DEF DrainInv, DrainAfterExitComplete
<1>7. CASE TimePasses
  BY <1>7 DEF TimePasses, DrainInv, SlotDrained, DrainAfterExitComplete
<1> QED
  BY <1>1, <1>3, <1>4, <1>5, <1>6, <1>7

(* Whatever was called before, in whatever order the children write and     *)
(* exit: a terminal handle that was drained without an error has given its  *)
(* sink every chunk its child wrote.                                        *)
THEOREM DrainSafe == Spec => []DrainAfterExitComplete
<1>1. Init => DrainInv
  BY DEF Init, DrainInv, DrainAfterExitComplete, WaitPhases
<1>2. /\ TypeOK /\ OutputFlow /\ PidInv /\ CallInv /\ StreamInv /\ DrainInv
      /\ [Next]_vars
      => DrainInv'
  <2> SUFFICES ASSUME TypeOK, OutputFlow, PidInv, CallInv, StreamInv, DrainInv, [Next]_vars
               PROVE  DrainInv'
    OBVIOUS
  <2>1. CASE NewCall
    BY <2>1, NewCallsKeepDrainInv
  <2>2. CASE CallStep
    BY <2>2, PassesKeepDrainInv, OtherCallsKeepDrainInv DEF CallStep, CleanupReturns
  <2>3. CASE WaitFails \/ TimePasses \/ \E p \in Procs : CleanupInterrupted(p)
    BY <2>3, OtherCallsKeepDrainInv DEF CleanupReturns
  <2>4. CASE \E p \in Procs : ChildStep(p) \/ HostCollects(p)
    BY <2>4, ChildrenKeepDrainInv
  <2>5. CASE UNCHANGED vars
    BY <2>5 DEF vars, childVars, handleVars, pipeEnds, callVars,
                DrainInv, SlotDrained, DrainAfterExitComplete
  <2> QED
    BY <2>1, <2>2, <2>3, <2>4, <2>5 DEF Next
<1>3. DrainInv => DrainAfterExitComplete
  BY DEF DrainInv
<1> QED
  BY <1>1, <1>2, <1>3, TypeCorrect, PidInvariant, CallInvariant, StreamInvariant, PTL DEF Spec
=============================================================================
