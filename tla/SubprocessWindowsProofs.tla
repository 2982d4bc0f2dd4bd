------------------------ MODULE SubprocessWindowsProofs ------------------------
(***************************************************************************)
(* Proofs about SubprocessWindows, for any number of handles, any sizes    *)
(* and any client: what is pending, the streams, the tasks of a call and   *)
(* what a call has recorded agree, so that no buffer is touched under an   *)
(* operation, no chunk is lost and no result misreports a handle.          *)
(***************************************************************************)
EXTENDS SubprocessWindows, FiniteSetTheorems, SequenceTheorems, TLAPS

-----------------------------------------------------------------------------
(* The tasks of a call.  `Follows` says what may lie under a task: whoever *)
(* asked for it, or what comes next.                                       *)
PumpNames == {"pumpStdin", "write", "pumpOutput", "read", "readMore", "finalize", "settle"}
BackgroundNames ==
  {"send_stdin", "receive_output", "poll", "prime", "primed", "loop", "drained", "reported"}
RunNames ==
  {"fill", "noted", "wait", "scan", "scanWrite", "scanRead", "passed", "terminate",
   "harvest", "harvested", "again", "end", "teardown"}
Task == (PumpNames \cup BackgroundNames \cup RunNames \cup {"release"}) \X (0 .. N + 1)

Bottom(t) ==
  t[1] \in {"send_stdin", "receive_output", "poll", "release", "prime", "loop", "fill",
            "wait", "scan", "passed", "again", "end", "teardown"}

Follows(t, u) ==
  \/ /\ t[1] \in {"pumpStdin", "write"}
     /\ \/ u[1] \in {"send_stdin", "pumpOutput", "finalize", "scanRead"} /\ u[2] = t[2]
        \/ u[1] = "loop"
  \/ /\ t[1] \in {"pumpOutput", "read", "readMore"}
     /\ u[1] \in {"receive_output", "primed", "drained", "noted", "settle"} /\ u[2] = t[2]
  \/ /\ t[1] \in {"finalize", "settle"}
     /\ u[1] \in {"primed", "reported", "noted", "harvested"} /\ u[2] = t[2]
  \/ t[1] = "primed" /\ u[1] = "prime"
  \/ t[1] \in {"drained", "reported"} /\ u[1] = "loop"
  \/ t[1] = "noted" /\ u[1] \in {"fill", "scan"}
  \/ t[1] = "scanWrite" /\ u[1] = "scanRead" /\ u[2] = t[2]
  \/ t[1] = "scanRead" /\ u[1] = "scan"
  \/ t[1] = "harvested" /\ u[1] = "harvest"
  \/ t[1] \in {"terminate", "harvest"} /\ u[1] \in {"again", "teardown"}

Chain(s) ==
  \A k \in 1 .. Len(s) :
    IF k < Len(s) THEN Follows(s[k], s[k + 1]) ELSE Bottom(s[k])

TasksOf(s) == {s[k] : k \in 1 .. Len(s)}
Tasks == TasksOf(todo)
Doing(name, p) == todo # <<>> /\ Head(todo) = <<name, p>>
Runs == "run" \in client.calls
InRun == Runs /\ todo # <<>> /\ Head(todo)[1] # "release"

Allowed(t) ==
  /\ t[1] \in RunNames => Runs
  /\ t[1] \in BackgroundNames => ~Runs
  /\ t[1] \in {"primed", "drained", "reported"} => t[2] \in slots

TaskInv ==
  /\ todo \in Seq(Task)
  /\ Chain(todo)
  /\ \A t \in Tasks : Allowed(t)

(* What is pending and what is open.                                        *)
Fresh(p) ==
  /\ inPipe[p] = 0 /\ received[p] = 0 /\ outPipe[p] = 0 /\ produced[p] = 0
  /\ offset[p] = 0 /\ sunk[p] = 0 /\ ~sawEof[p]
  /\ writeOp[p] = NoWrite /\ readOp[p] = NoRead
  /\ ~writePending[p] /\ ~readPending[p]
  /\ ~stdinOpen[p] /\ ~readOpen[p] /\ ~processOpen[p] /\ ~background[p]

StartInv ==
  \A p \in Procs :
    /\ os[p] = "none" => Fresh(p)
    /\ os[p] = "none" <=> status[p] \in {"NOT_STARTED", "FAILED_TO_START"}
    /\ status[p] = "EXITED" => os[p] = "gone"
    /\ status[p] \in Terminal /\ os[p] = "running" => Runs /\ (waitFailed \/ ~processOpen[p])
    /\ background[p] => ~Runs /\ valid[p] /\ processOpen[p]
    /\ ~valid[p] => /\ ~stdinOpen[p] /\ ~readOpen[p] /\ ~processOpen[p]
                    /\ inCap[p] = 0 /\ outCap[p] = 0

WriteInv ==
  \A p \in Procs :
    /\ writeOp[p].st \in InFlight /\ ~writePending[p] =>
         writeOp[p].st = "cancelled" /\ ~background[p]
    /\ stdinOpen[p] /\ ~writePending[p] => writeOp[p] = NoWrite
    /\ Doing("write", p) => stdinOpen[p] /\ ~writePending[p]

ReadInv ==
  \A p \in Procs :
    /\ readOp[p].st \in InFlight /\ ~readPending[p] =>
         readOp[p].st = "cancelled" /\ ~background[p]
    /\ readOpen[p] /\ ~readPending[p] => readOp[p] = NoRead
    /\ Doing("read", p) \/ Doing("readMore", p) => readOpen[p] /\ ~readPending[p]

(* The memory is in offset, in the operation, in the pipe or received.      *)
Sent(p) == received[p] + inPipe[p] + writeOp[p].left

InputOf(p) ==
  /\ writeOp[p].left <= writeOp[p].len
  /\ writeOp[p].st \in InFlight => writeOp[p].left >= 1
  /\ writeOp[p].st = "data" => writeOp[p].left = 0
  /\ writeOp[p].st = "broken" => os[p] = "gone"
  /\ offset[p] + writeOp[p].len <= InputLen /\ Sent(p) <= InputLen
  /\ stdinOpen[p] => Sent(p) <= offset[p] + writeOp[p].len
  /\ os[p] = "running" /\ p \in client.feeds /\ processOpen[p] /\ ~lastErrno[p] =>
       /\ Sent(p) = offset[p] + writeOp[p].len
       /\ stdinOpen[p] \/ offset[p] = InputLen
  /\ sawEof[p] => /\ os[p] = "running" /\ p \in client.feeds /\ ~stdinOpen[p]
                  /\ inPipe[p] = 0 /\ writeOp[p].st \notin InFlight
InputInv == \A p \in Procs : InputOf(p)

(* What was written is sunk, read or in the pipe; a stream that was closed  *)
(* without an error was empty.                                              *)
OutputOf(p) ==
  /\ produced[p] = sunk[p] + readOp[p].got + outPipe[p]
  /\ IF readOp[p].st = "data" THEN readOp[p].got >= 1 ELSE readOp[p].got = 0
  /\ readOp[p].st \in InFlight => readOp[p].size >= 1
  /\ readOp[p].st = "broken" => os[p] = "gone" /\ outPipe[p] = 0
  /\ processOpen[p] /\ ~readOpen[p] /\ ~lastErrno[p] => outPipe[p] = 0 /\ readOp[p].got = 0
OutputInv == \A p \in Procs : OutputOf(p)

(* What the call has recorded.                                              *)
NoLocals ==
  /\ pumped = "SUCCESS" /\ slots = {} /\ waiting = {} /\ ioFailed = {} /\ group = 0
  /\ next = 1 /\ ~spawnFailed /\ ~timedOut /\ ~waitFailed

CallInv ==
  /\ todo = <<>> \/ Head(todo)[1] = "release" => NoLocals
  /\ todo # <<>> => last = NoCall
  /\ Runs => slots = {}
  /\ \A p \in Procs : \A name \in {"settle", "primed", "drained", "reported", "noted", "harvested"} :
       Doing(name, p) /\ pumped = "IO_FAILED" => lastErrno[p]
  /\ ioFailed \subseteq {p \in Procs : lastErrno[p]}
  /\ ~Runs => ioFailed \subseteq slots

WaitInv ==
  /\ waiting \subseteq slots
  /\ \A p \in slots : background[p] /\ status[p] \in {"RUNNING"} \cup Terminal
  /\ \A p \in slots \ waiting : status[p] \in Terminal \/ p \in ioFailed
  /\ \A p \in waiting : status[p] = "RUNNING" \/ <<"reported", p>> \in Tasks
  /\ \A p \in Procs : <<"reported", p>> \in Tasks => status[p] \in Terminal

(* A handle that is terminal and not closed waits for the finalizer.        *)
Finalizing(p) == <<"finalize", p>> \in Tasks \/ <<"settle", p>> \in Tasks

DrainInv ==
  \A p \in Procs :
    /\ status[p] \in Terminal /\ ~lastErrno[p] /\ readOpen[p]
    /\ p \in slots \/ (Runs /\ ~waitFailed)
    => Finalizing(p) \/ \E j \in 1 .. p : <<"prime", j>> \in Tasks

DrainHarvested ==
  \A p \in Procs :
    <<"harvested", p>> \in Tasks => Finalizing(p) \/ lastErrno[p] \/ ~readOpen[p]

RunInv ==
  InRun =>
    /\ \A p \in Procs : /\ valid[p] /\ (status[p] = "NOT_STARTED" <=> p >= next)
                        /\ p \in Spawned => processOpen[p]
    /\ spawnFailed => \E p \in Procs : status[p] = "FAILED_TO_START"
    /\ \A p \in Procs : \A j \in p + 1 .. N + 1 :
         <<"harvest", j>> \in Tasks /\ status[p] = "RUNNING" => <<"harvested", p>> \in Tasks
    /\ \A p \in Procs :
         <<"harvested", p>> \in Tasks => os[p] = "gone"
    /\ <<"end", 0>> \in Tasks => waitFailed \/ timedOut \/ (Running = {} /\ next > N)
    /\ <<"teardown", 0>> \in Tasks =>
         /\ waitFailed \/ timedOut \/ next > N
         /\ \/ waitFailed \/ Running = {} \/ <<"terminate", 1>> \in Tasks
            \/ \E j \in 1 .. N + 1 : <<"harvest", j>> \in Tasks

ResultInv ==
  /\ OutputComplete /\ ReturnContract /\ last.on \subseteq Procs
  /\ last.op = "run" => \A p \in Procs : ~readOpen[p]
  /\ last.op = "wait" => last.on \subseteq {p \in Procs : background[p]}

WindowsInv ==
  /\ TypeOK /\ TaskInv /\ StartInv /\ WriteInv /\ ReadInv /\ InputInv /\ OutputInv
  /\ CallInv /\ WaitInv /\ DrainInv /\ DrainHarvested /\ RunInv /\ ResultInv

-----------------------------------------------------------------------------
(* Lists of tasks.                                                          *)
LEMMA Popped ==
  ASSUME NEW s \in Seq(Task), s # <<>>, Chain(s)
  PROVE  /\ Head(s) \in Task /\ Tail(s) \in Seq(Task) /\ Chain(Tail(s))
         /\ IF Tail(s) = <<>> THEN Bottom(Head(s)) ELSE Follows(Head(s), Head(Tail(s)))
         /\ TasksOf(s) = {Head(s)} \cup TasksOf(Tail(s))
<1>1. /\ Len(s) \in Nat /\ Len(s) >= 1 /\ Head(s) = s[1] /\ Head(s) \in Task
      /\ Tail(s) \in Seq(Task) /\ Len(Tail(s)) = Len(s) - 1
      /\ \A k \in 1 .. Len(s) - 1 : Tail(s)[k] = s[k + 1]
  OBVIOUS
<1>2. Chain(Tail(s))
  BY <1>1 DEF Chain
<1>3. IF Tail(s) = <<>> THEN Bottom(Head(s)) ELSE Follows(Head(s), Head(Tail(s)))
  <2>1. CASE Len(s) = 1
    <3>1. Tail(s) # <<>> => Len(Tail(s)) \in Nat \ {0}
      BY <1>1, EmptySeq, Zenon
    <3>2. Len(Tail(s)) = 0
      BY <1>1, <2>1
    <3>3. Tail(s) = <<>>
      BY <3>1, <3>2
    <3> QED
      BY <1>1, <2>1, <3>3 DEF Chain
  <2>2. CASE Len(s) # 1
    <3>1. Len(s) > 1 /\ Len(Tail(s)) # 0
      BY <1>1, <2>2
    <3>2. Tail(s) # <<>>
      BY <3>1, EmptySeq
    <3>3. Head(Tail(s)) = s[1 + 1]
      BY <1>1, <3>1, <3>2
    <3> QED
      BY <1>1, <3>1, <3>2, <3>3 DEF Chain
  <2> QED
    BY <2>1, <2>2
<1>4. TasksOf(s) = {Head(s)} \cup TasksOf(Tail(s))
  <2>1. ASSUME NEW k \in 1 .. Len(s)
        PROVE  s[k] \in {Head(s)} \cup TasksOf(Tail(s))
    <3>1. CASE k = 1
      BY <1>1, <3>1
    <3>2. CASE k # 1
      <4>1. k - 1 \in 1 .. Len(Tail(s)) /\ Tail(s)[k - 1] = s[k]
        BY <1>1, <3>2
      <4> QED
        BY <4>1 DEF TasksOf
    <3> QED
      BY <3>1, <3>2
  <2>2. ASSUME NEW k \in 1 .. Len(Tail(s))
        PROVE  Tail(s)[k] \in TasksOf(s)
    <3>1. k + 1 \in 1 .. Len(s) /\ Tail(s)[k] = s[k + 1]
      BY <1>1
    <3> QED
      BY <3>1 DEF TasksOf
  <2>3. Head(s) \in TasksOf(s)
    BY <1>1 DEF TasksOf
  <2> QED
    BY <2>1, <2>2, <2>3 DEF TasksOf
<1> QED
  BY <1>1, <1>2, <1>3, <1>4

(* `b` may lie wherever `h` did.                                            *)
InPlaceOf(b, h) ==
  /\ Bottom(h) => Bottom(b)
  /\ \A u : Follows(h, u) => Follows(b, u)

(* Tasks put on top of others: the two fit where the last of the first fits.*)
LEMMA Joined ==
  ASSUME NEW new \in Seq(Task), NEW r \in Seq(Task), Chain(r), new # <<>>,
         \A k \in 1 .. Len(new) - 1 : Follows(new[k], new[k + 1]),
         IF r = <<>> THEN Bottom(new[Len(new)]) ELSE Follows(new[Len(new)], Head(r))
  PROVE  /\ new \o r \in Seq(Task) /\ new \o r # <<>> /\ Head(new \o r) = new[1]
         /\ Chain(new \o r)
         /\ TasksOf(new \o r) = TasksOf(new) \cup TasksOf(r)
<1> DEFINE s == new \o r
<1>1. /\ s \in Seq(Task) /\ Len(s) = Len(new) + Len(r) /\ Len(r) \in Nat
      /\ \A k \in 1 .. Len(new) : s[k] = new[k]
      /\ \A k \in 1 .. Len(r) : s[Len(new) + k] = r[k]
  OBVIOUS
<1>2. Len(new) \in Nat /\ Len(new) >= 1
  <2>1. Len(new) \in Nat \ {0}
    BY EmptySeq, Zenon
  <2> QED
    BY <2>1
<1>3. s # <<>> /\ Head(s) = new[1]
  BY <1>1, <1>2
<1>4. Chain(s)
  <2> SUFFICES ASSUME NEW k \in 1 .. Len(s)
               PROVE  IF k < Len(s) THEN Follows(s[k], s[k + 1]) ELSE Bottom(s[k])
    BY DEF Chain
  <2>1. CASE k < Len(new)
    BY <1>1, <1>2, <2>1
  <2>2. CASE k = Len(new)
    <3>1. CASE r = <<>>
      <4>1. Len(r) = 0
        BY <3>1
      <4> QED
        BY <1>1, <1>2, <2>2, <3>1, <4>1
    <3>2. CASE r # <<>>
      <4>1. Len(r) \in Nat \ {0}
        BY <3>2, EmptySeq, Zenon
      <4>2. s[k + 1] = Head(r) /\ k < Len(s)
        BY <1>1, <1>2, <2>2, <3>2, <4>1
      <4> QED
        BY <1>1, <1>2, <2>2, <3>2, <4>2
    <3> QED
      BY <3>1, <3>2
  <2>3. CASE k > Len(new)
    <3> DEFINE j == k - Len(new)
    <3>1. j \in 1 .. Len(r) /\ s[k] = r[j] /\ (k < Len(s) <=> j < Len(r))
      BY <1>1, <1>2, <2>3
    <3>2. k < Len(s) => s[k + 1] = r[j + 1]
      <4> HAVE k < Len(s)
      <4>1. j + 1 \in 1 .. Len(r) /\ k + 1 = Len(new) + (j + 1)
        BY <1>1, <1>2, <3>1
      <4> QED
        BY <1>1, <4>1
    <3>3. IF j < Len(r) THEN Follows(r[j], r[j + 1]) ELSE Bottom(r[j])
      BY <3>1 DEF Chain
    <3> QED
      BY <3>1, <3>2, <3>3
  <2> QED
    BY <1>1, <1>2, <2>1, <2>2, <2>3
<1>5. TasksOf(s) = TasksOf(new) \cup TasksOf(r)
  <2>1. ASSUME NEW k \in 1 .. Len(s)
        PROVE  s[k] \in TasksOf(new) \cup TasksOf(r)
    <3>1. CASE k <= Len(new)
      BY <1>1, <1>2, <3>1 DEF TasksOf
    <3>2. CASE k > Len(new)
      <4>1. k - Len(new) \in 1 .. Len(r) /\ s[k] = r[k - Len(new)]
        BY <1>1, <1>2, <3>2
      <4> QED
        BY <4>1 DEF TasksOf
    <3> QED
      BY <1>1, <1>2, <3>1, <3>2
  <2>2. ASSUME NEW k \in 1 .. Len(new)
        PROVE  new[k] \in TasksOf(s)
    BY <1>1, <1>2 DEF TasksOf
  <2>3. ASSUME NEW k \in 1 .. Len(r)
        PROVE  r[k] \in TasksOf(s)
    <3>1. Len(new) + k \in 1 .. Len(s) /\ s[Len(new) + k] = r[k]
      BY <1>1, <1>2
    <3> QED
      BY <3>1 DEF TasksOf
  <2> QED
    BY <2>1, <2>2, <2>3 DEF TasksOf
<1> QED
  BY <1>1, <1>3, <1>4, <1>5

(* A task done gives way to what lay under it.                              *)
LEMMA GivesWay ==
  ASSUME TaskInv, todo # <<>>, todo' = <<>> \o Tail(todo), UNCHANGED <<client, slots>>
  PROVE  /\ TaskInv'
         /\ Tasks' \subseteq Tasks /\ Tasks \subseteq {Head(todo)} \cup Tasks'
         /\ IF todo' = <<>> THEN Bottom(Head(todo)) ELSE Follows(Head(todo), Head(todo'))
<1>1. /\ todo \in Seq(Task) /\ Tail(todo) \in Seq(Task) /\ Chain(Tail(todo))
      /\ IF Tail(todo) = <<>> THEN Bottom(Head(todo)) ELSE Follows(Head(todo), Head(Tail(todo)))
      /\ TasksOf(todo) = {Head(todo)} \cup TasksOf(Tail(todo))
  BY Popped DEF TaskInv
<1>2. todo' = Tail(todo)
  BY <1>1, ConcatEmptySeq
<1>3. Tasks = {Head(todo)} \cup Tasks'
  BY <1>1, <1>2 DEF Tasks
<1>4. \A t \in Tasks' : Allowed(t)'
  BY <1>3 DEF TaskInv, Allowed, Runs
<1> QED
  BY <1>1, <1>2, <1>3, <1>4 DEF TaskInv

(* A task gives way to those it asks for.                                   *)
LEMMA Gives ==
  ASSUME TaskInv, todo # <<>>, NEW new \in Seq(Task), new # <<>>,
         \A k \in 1 .. Len(new) - 1 : Follows(new[k], new[k + 1]),
         InPlaceOf(new[Len(new)], Head(todo)),
         \A k \in 1 .. Len(new) : Allowed(new[k]),
         todo' = new \o Tail(todo), UNCHANGED <<client, slots>>
  PROVE  /\ TaskInv'
         /\ todo' # <<>> /\ Head(todo') = new[1]
         /\ Tasks' \subseteq TasksOf(new) \cup Tasks
         /\ TasksOf(new) \subseteq Tasks' /\ Tasks \subseteq {Head(todo)} \cup Tasks'
<1>1. /\ todo \in Seq(Task) /\ Tail(todo) \in Seq(Task) /\ Chain(Tail(todo))
      /\ IF Tail(todo) = <<>> THEN Bottom(Head(todo)) ELSE Follows(Head(todo), Head(Tail(todo)))
      /\ TasksOf(todo) = {Head(todo)} \cup TasksOf(Tail(todo))
  BY Popped DEF TaskInv
<1>2. IF Tail(todo) = <<>> THEN Bottom(new[Len(new)]) ELSE Follows(new[Len(new)], Head(Tail(todo)))
  BY <1>1 DEF InPlaceOf
<1>3. /\ todo' \in Seq(Task) /\ todo' # <<>> /\ Head(todo') = new[1] /\ Chain(todo')
      /\ TasksOf(todo') = TasksOf(new) \cup TasksOf(Tail(todo))
  BY <1>1, <1>2, Joined
<1>4. \A t \in Tasks' : Allowed(t)'
  <2>1. \A t \in TasksOf(new) : Allowed(t)
    BY DEF TasksOf
  <2>2. \A t \in Tasks : Allowed(t)
    BY DEF TaskInv
  <2> QED
    BY <1>1, <1>3, <2>1, <2>2 DEF Tasks, Allowed, Runs
<1> QED
  BY <1>1, <1>3, <1>4 DEF TaskInv, Tasks

(* Nothing lies under the task of the call itself.                          *)
LEMMA Alone ==
  ASSUME TaskInv, todo # <<>>, Bottom(Head(todo))
  PROVE  Tail(todo) = <<>> /\ Tasks = {Head(todo)}
<1>1. /\ IF Tail(todo) = <<>> THEN Bottom(Head(todo)) ELSE Follows(Head(todo), Head(Tail(todo)))
      /\ TasksOf(todo) = {Head(todo)} \cup TasksOf(Tail(todo))
  BY Popped DEF TaskInv
<1>2. Tail(todo) = <<>>
  BY <1>1 DEF Bottom, Follows
<1>3. TasksOf(<<>>) = {}
  BY DEF TasksOf
<1> QED
  BY <1>1, <1>2, <1>3 DEF Tasks

-----------------------------------------------------------------------------
(* The pumps of the two directions work on the pipes; what the call has     *)
(* recorded stays.                                                          *)
InPumps == {"pumpStdin", "write"}
OutPumps == {"pumpOutput", "read", "readMore"}

(* A pump that is done gives way to the task that asked for it.             *)
LEMMA PumpGivesWay ==
  ASSUME TaskInv, NEW p \in Procs, NEW a \in InPumps \cup OutPumps,
         At(a, p), Then(<<>>), UNCHANGED <<client, slots>>
  PROVE  /\ TaskInv' /\ todo' # <<>>
         /\ Tasks' \subseteq Tasks /\ Tasks \subseteq {<<a, p>>} \cup Tasks'
         /\ Follows(<<a, p>>, Head(todo'))
<1>1. /\ TaskInv' /\ Tasks' \subseteq Tasks /\ Tasks \subseteq {<<a, p>>} \cup Tasks'
      /\ IF todo' = <<>> THEN Bottom(<<a, p>>) ELSE Follows(<<a, p>>, Head(todo'))
  BY GivesWay DEF At, Then
<1>2. ~Bottom(<<a, p>>)
  BY DEF Bottom, InPumps, OutPumps
<1> QED
  BY <1>1, <1>2

(* A pump asks for its next step of the same direction.                     *)
LEMMA PumpGives ==
  ASSUME WindowsArguments, TaskInv, NEW p \in Procs, NEW a \in InPumps \cup OutPumps,
         NEW b \in InPumps \cup OutPumps, a \in InPumps <=> b \in InPumps,
         At(a, p), Then(<<<<b, p>>>>), UNCHANGED <<client, slots>>
  PROVE  /\ TaskInv' /\ todo' # <<>> /\ Head(todo') = <<b, p>>
         /\ Tasks' \subseteq {<<b, p>>} \cup Tasks
         /\ Tasks \subseteq {<<a, p>>} \cup Tasks'
<1> DEFINE new == <<<<b, p>>>>
<1>1. new \in Seq(Task) /\ new # <<>> /\ Len(new) = 1 /\ new[1] = <<b, p>>
  BY DEF Task, Procs, PumpNames, InPumps, OutPumps, WindowsArguments
<1>2. InPlaceOf(<<b, p>>, <<a, p>>)
  BY DEF InPlaceOf, Bottom, Follows, InPumps, OutPumps
<1>3. Allowed(<<b, p>>)
  BY DEF Allowed, InPumps, OutPumps, RunNames, BackgroundNames
<1>4. TasksOf(new) = {<<b, p>>}
  BY <1>1 DEF TasksOf
<1> HIDE DEF new
<1>5. /\ todo # <<>> /\ Head(todo) = <<a, p>> /\ todo' = new \o Tail(todo)
  BY DEF At, Then, new
<1>6. \A k \in 1 .. Len(new) - 1 : Follows(new[k], new[k + 1])
  BY <1>1
<1>7. InPlaceOf(new[Len(new)], Head(todo))
  BY <1>1, <1>2, <1>5
<1>8. \A k \in 1 .. Len(new) : Allowed(new[k])
  BY <1>1, <1>3
<1>9. /\ TaskInv' /\ todo' # <<>> /\ Head(todo') = new[1]
      /\ Tasks' \subseteq TasksOf(new) \cup Tasks /\ Tasks \subseteq {Head(todo)} \cup Tasks'
  BY <1>1, <1>5, <1>6, <1>7, <1>8, Gives
<1> QED
  BY <1>1, <1>4, <1>5, <1>9

(* What a pump does to the tasks and to what the call looks at.             *)
Pumped(p) ==
  /\ todo # <<>> /\ \E a \in InPumps \cup OutPumps : Head(todo) = <<a, p>>
  /\ todo' # <<>>
  /\ \A t \in Tasks' : t \in Tasks \/ t[1] \in InPumps \cup OutPumps
  /\ \A t \in Tasks : t \in Tasks' \/ t[1] \in InPumps \cup OutPumps
  /\ Head(todo')[1] # "release"
  /\ \A q \in Procs :
       \A name \in {"settle", "primed", "drained", "reported", "noted", "harvested"} :
         Doing(name, q)' /\ pumped' = "IO_FAILED" => lastErrno'[q]
  /\ \A q \in Procs : (lastErrno[q] => lastErrno'[q]) /\ (readOpen'[q] => readOpen[q])
  /\ UNCHANGED <<client, os, startVars, timeout, expired, waitVars, runVars, last>>

(* A pump touches nothing of what the call has recorded.                    *)
LEMMA PumpKeepsCall ==
  ASSUME TypeOK, TypeOK', StartInv, CallInv, WaitInv, DrainInv, DrainHarvested, RunInv,
         NEW p \in Procs, Pumped(p)
  PROVE  CallInv' /\ WaitInv' /\ DrainInv' /\ DrainHarvested' /\ RunInv' /\ ResultInv'
<1> USE DEF Pumped, startVars, waitVars, runVars
<1>1. CallInv'
  <2>1. (todo' # <<>>) /\ last' = NoCall /\ (Runs => slots = {})' /\ (~Runs => ioFailed \subseteq slots)'
    BY DEF CallInv, Runs
  <2>2. ioFailed' \subseteq {q \in Procs : lastErrno'[q]}
    BY DEF CallInv
  <2> QED
    BY <2>1, <2>2 DEF CallInv
<1>2. WaitInv'
  <2>1. \A q \in Procs : <<"reported", q>> \in Tasks <=> <<"reported", q>> \in Tasks'
    BY DEF InPumps, OutPumps
  <2>2. waiting \subseteq Procs
    BY DEF TypeOK
  <2> QED
    BY <2>1, <2>2 DEF WaitInv
<1>3. \A q \in Procs : Finalizing(q) => Finalizing(q)'
  BY DEF Finalizing, InPumps, OutPumps
<1>4. DrainInv'
  <2>1. \A j \in Nat : <<"prime", j>> \in Tasks => <<"prime", j>> \in Tasks'
    BY DEF InPumps, OutPumps
  <2> QED
    BY <1>3, <2>1 DEF DrainInv, Runs, Procs
<1>5. DrainHarvested'
  <2>1. \A q \in Procs : <<"harvested", q>> \in Tasks' => <<"harvested", q>> \in Tasks
    BY DEF InPumps, OutPumps
  <2> QED
    BY <1>3, <2>1 DEF DrainHarvested
<1>6. RunInv'
  <2>1. \A j : /\ <<"harvest", j>> \in Tasks' <=> <<"harvest", j>> \in Tasks
               /\ <<"harvested", j>> \in Tasks' <=> <<"harvested", j>> \in Tasks
               /\ <<"end", j>> \in Tasks' <=> <<"end", j>> \in Tasks
               /\ <<"teardown", j>> \in Tasks' <=> <<"teardown", j>> \in Tasks
               /\ <<"terminate", j>> \in Tasks' <=> <<"terminate", j>> \in Tasks
    BY DEF InPumps, OutPumps
  <2>2. InRun' => InRun
    BY DEF InRun, Runs, InPumps, OutPumps
  <2>3. UNCHANGED <<os, valid, status, processOpen, spawnFailed, next, timedOut, waitFailed>>
    OBVIOUS
  <2>4. Running' = Running /\ Spawned' = Spawned
    BY <2>3 DEF Running, Spawned
  <2> SUFFICES ASSUME InRun' PROVE RunInv'
    BY DEF RunInv
  <2> HIDE DEF Pumped
  <2> QED
    BY <2>1, <2>2, <2>3, <2>4 DEF RunInv
<1>7. ResultInv'
  BY DEF CallInv, ResultInv, OutputComplete, ReturnContract, NoCall
<1> QED
  BY <1>1, <1>2, <1>4, <1>5, <1>6, <1>7

(* State B of the stdin pump: a write that has completed.                   *)
LEMMA PumpStdinKeeps ==
  ASSUME WindowsArguments, WindowsInv, NEW p \in Procs, PumpStdin(p)
  PROVE  WindowsInv'
<1> DEFINE done == stdinOpen[p] /\ writePending[p] /\ writeOp[p].st \notin InFlight
           more == stdinOpen[p] /\ (~writePending[p] \/ writeOp[p].st = "data")
<1>1. /\ At("pumpStdin", p)
      /\ writePending' = [writePending EXCEPT ![p] = @ /\ ~done]
      /\ writeOp' = IF done THEN [writeOp EXCEPT ![p] = NoWrite] ELSE writeOp
      /\ offset' = IF done /\ writeOp[p].st = "data"
                   THEN [offset EXCEPT ![p] = @ + writeOp[p].len] ELSE offset
      /\ more => Then(<<<<"write", p>>>>) /\ UNCHANGED <<stdinOpen, lastErrno, pumped>>
      /\ ~more => StdinPumped(p, done, done /\ writeOp[p].st # "broken")
      /\ UNCHANGED <<client, inPipe, inCap, os, terminated, received, sawEof, outPipe, produced>>
      /\ UNCHANGED <<readOp, valid, status, background, processOpen>>
      /\ UNCHANGED <<readOpen, readPending, sunk, outCap, timeout, expired>>
      /\ UNCHANGED <<slots, waiting, ioFailed, group>>
      /\ UNCHANGED <<next, spawnFailed, timedOut, waitFailed, last>>
  BY DEF PumpStdin, PumpStdinStands, startVars, outputVars, waitVars, runVars
<1>2. ~more => /\ Then(<<>>)
               /\ stdinOpen' = [stdinOpen EXCEPT ![p] = @ /\ ~done]
               /\ lastErrno' = [lastErrno EXCEPT ![p] = @ \/ (done /\ writeOp[p].st # "broken")]
               /\ pumped' = IF done /\ writeOp[p].st # "broken" THEN "IO_FAILED" ELSE "SUCCESS"
  BY <1>1 DEF StdinPumped
<1> HIDE DEF done, more
<1>3. /\ TaskInv' /\ todo' # <<>>
      /\ \A t \in Tasks' : t \in Tasks \/ t = <<"write", p>>
      /\ \A t \in Tasks : t \in Tasks' \/ t = <<"pumpStdin", p>>
      /\ IF more THEN Head(todo') = <<"write", p>> ELSE Follows(<<"pumpStdin", p>>, Head(todo'))
  <2>1. CASE more
    BY <1>1, <2>1, PumpGives DEF WindowsInv, InPumps
  <2>2. CASE ~more
    BY <1>1, <1>2, <2>2, PumpGivesWay DEF WindowsInv, InPumps
  <2> QED
    BY <2>1, <2>2
<1>4. TypeOK'
  <2>1. writeOp' \in [Procs -> [st : OpStates, len : 0 .. BufferMax, left : 0 .. BufferMax]]
    BY <1>1 DEF WindowsInv, TypeOK, WindowsArguments, NoWrite, OpStates
  <2>2. offset' \in [Procs -> 0 .. InputLen]
    <3>1. /\ offset \in [Procs -> 0 .. InputLen] /\ InputLen \in Nat
          /\ writeOp[p].len \in Nat /\ offset[p] + writeOp[p].len <= InputLen
      BY DEF WindowsInv, TypeOK, WindowsArguments, InputInv, InputOf
    <3> QED
      BY <1>1, <3>1
  <2>3. /\ stdinOpen \in [Procs -> BOOLEAN] /\ lastErrno \in [Procs -> BOOLEAN]
        /\ writePending \in [Procs -> BOOLEAN] /\ pumped \in {"SUCCESS", "IO_FAILED"}
    BY DEF WindowsInv, TypeOK
  <2>4. writePending' \in [Procs -> BOOLEAN]
    BY <1>1, <2>3
  <2>5. stdinOpen' \in [Procs -> BOOLEAN]
    BY <1>1, <1>2, <2>3
  <2>6. lastErrno' \in [Procs -> BOOLEAN]
    BY <1>1, <1>2, <2>3
  <2>7. pumped' \in {"SUCCESS", "IO_FAILED"}
    BY <1>1, <1>2, <2>3
  <2> QED
    BY <1>1, <2>1, <2>2, <2>4, <2>5, <2>6, <2>7 DEF WindowsInv, TypeOK
<1>5. Pumped(p)
  <2>1. todo # <<>> /\ Head(todo) = <<"pumpStdin", p>> /\ Head(todo')[1] # "release"
    BY <1>1, <1>3 DEF At, Follows
  <2>2. \A q \in Procs :
          \A name \in {"settle", "primed", "drained", "reported", "noted", "harvested"} :
            ~Doing(name, q)'
    BY <1>3 DEF Doing, Follows
  <2>3. \A q \in Procs : (lastErrno[q] => lastErrno'[q]) /\ (readOpen'[q] => readOpen[q])
    BY <1>1, <1>2 DEF WindowsInv, TypeOK
  <2> QED
    BY <1>1, <1>3, <2>1, <2>2, <2>3
    DEF Pumped, InPumps, OutPumps, startVars, waitVars, runVars
<1>6. \A q \in Procs \ {p} :
        /\ stdinOpen'[q] = stdinOpen[q] /\ writePending'[q] = writePending[q]
        /\ writeOp'[q] = writeOp[q] /\ offset'[q] = offset[q] /\ lastErrno'[q] = lastErrno[q]
  BY <1>1, <1>2 DEF WindowsInv, TypeOK
<1>7. /\ stdinOpen'[p] <=> stdinOpen[p] /\ (more \/ ~done)
      /\ writePending'[p] <=> writePending[p] /\ ~done
      /\ writeOp'[p] = IF done THEN NoWrite ELSE writeOp[p]
      /\ offset'[p] = IF done /\ writeOp[p].st = "data" THEN offset[p] + writeOp[p].len ELSE offset[p]
      /\ lastErrno'[p] <=> lastErrno[p] \/ (~more /\ done /\ writeOp[p].st # "broken")
  BY <1>1, <1>2 DEF WindowsInv, TypeOK
<1>8. StartInv'
  <2> SUFFICES ASSUME NEW q \in Procs
               PROVE  /\ (os[q] = "none")' => Fresh(q)'
                      /\ ~valid'[q] => ~stdinOpen'[q]
    BY <1>1 DEF WindowsInv, StartInv, Runs
  <2>1. CASE q = p
    BY <1>1, <1>7, <2>1 DEF WindowsInv, StartInv, Fresh, more, done
  <2>2. CASE q # p
    BY <1>1, <1>6, <2>2 DEF WindowsInv, StartInv, Fresh
  <2> QED
    BY <2>1, <2>2
<1>9. WriteInv'
  <2>1. \A q \in Procs : Doing("write", q)' => more /\ q = p
    BY <1>3 DEF Doing, Follows
  <2> SUFFICES ASSUME NEW q \in Procs
               PROVE  /\ (writeOp[q].st \in InFlight /\ ~writePending[q])' =>
                           (writeOp[q].st = "cancelled" /\ ~background[q])'
                      /\ (stdinOpen[q] /\ ~writePending[q])' => (writeOp[q] = NoWrite)'
                      /\ Doing("write", q)' => (stdinOpen[q] /\ ~writePending[q])'
    BY DEF WriteInv
  <2>2. CASE q = p
    BY <1>1, <1>7, <2>1, <2>2 DEF WindowsInv, WriteInv, more, done, NoWrite, InFlight
  <2>3. CASE q # p
    BY <1>1, <1>6, <2>1, <2>3 DEF WindowsInv, WriteInv
  <2> QED
    BY <2>2, <2>3
<1>10. ReadInv'
  <2>1. \A q \in Procs : ~Doing("read", q)' /\ ~Doing("readMore", q)'
    BY <1>3 DEF Doing, Follows
  <2> QED
    BY <1>1, <2>1 DEF WindowsInv, ReadInv
<1>11. InputInv'
  <2> SUFFICES ASSUME NEW q \in Procs PROVE InputOf(q)'
    BY DEF InputInv
  <2>1. InputOf(q)
    BY DEF WindowsInv, InputInv
  <2>2. CASE q = p
    <3>1. /\ received[p] \in Nat /\ inPipe[p] \in Nat /\ offset[p] \in Nat /\ InputLen \in Nat
          /\ writeOp[p].left \in Nat /\ writeOp[p].len \in Nat
      BY DEF WindowsInv, TypeOK, WindowsArguments
    <3>2. NoWrite.st = "none" /\ NoWrite.len = 0 /\ NoWrite.left = 0
      BY DEF NoWrite
    <3>3. CASE ~done
      BY <1>1, <1>7, <2>1, <2>2, <3>3 DEF InputOf, Sent, InFlight
    <3>4. CASE done /\ writeOp[p].st = "data"
      <4>1. more
        BY <3>4 DEF done, more
      <4> QED
        BY <1>1, <1>7, <2>1, <2>2, <3>1, <3>2, <3>4, <4>1 DEF InputOf, Sent, InFlight
    <3>5. CASE done /\ writeOp[p].st # "data"
      <4>1. ~more
        BY <3>5 DEF done, more
      <4> QED
        BY <1>1, <1>7, <2>1, <2>2, <3>1, <3>2, <3>5, <4>1 DEF InputOf, Sent, InFlight
    <3> QED
      BY <3>3, <3>4, <3>5
  <2>3. CASE q # p
    BY <1>1, <1>6, <2>1, <2>3 DEF InputOf, Sent
  <2> QED
    BY <2>2, <2>3
<1>12. OutputInv'
  <2> SUFFICES ASSUME NEW q \in Procs PROVE OutputOf(q)'
    BY DEF OutputInv
  <2>1. OutputOf(q)
    BY DEF WindowsInv, OutputInv
  <2>2. lastErrno[q] => lastErrno'[q]
    BY <1>6, <1>7
  <2> QED
    BY <1>1, <2>1, <2>2 DEF OutputOf
<1> QED
  BY <1>3, <1>4, <1>5, <1>8, <1>9, <1>10, <1>11, <1>12, PumpKeepsCall DEF WindowsInv

(* A scratch buffer never grows past its maximum and is never empty.        *)
LEMMA RoomInRange ==
  ASSUME WindowsArguments, NEW capacity \in 0 .. BufferMax, NEW grow \in BOOLEAN
  PROVE  Ensured(capacity, grow) \in 1 .. BufferMax
BY DEF WindowsArguments, Ensured, Least

(* State A of the stdin pump: the next piece of the memory, or the end.     *)
LEMMA WriteKeeps ==
  ASSUME WindowsArguments, WindowsInv, NEW p \in Procs, Write(p)
  PROVE  WindowsInv'
<1> DEFINE remaining == InputLen - offset[p]
           room == Ensured(inCap[p], remaining > inCap[p])
           chunk == Least(remaining, room)
<1>1. /\ At("write", p)
      /\ UNCHANGED <<client, os, terminated, received, sawEof, outPipe, produced, readOp>>
      /\ UNCHANGED <<valid, status, background, processOpen>>
      /\ UNCHANGED <<readOpen, readPending, sunk, outCap, timeout, expired>>
      /\ UNCHANGED <<slots, waiting, ioFailed, group>>
      /\ UNCHANGED <<next, spawnFailed, timedOut, waitFailed, last>>
  BY DEF Write, PumpStdinStands, startVars, outputVars, waitVars, runVars
<1>2. stdinOpen[p] /\ ~writePending[p] /\ writeOp[p] = NoWrite
  BY <1>1 DEF WindowsInv, WriteInv, At, Doing
<1>3. /\ inCap \in [Procs -> 0 .. BufferMax] /\ offset \in [Procs -> 0 .. InputLen]
      /\ inPipe \in [Procs -> 0 .. PipeCap] /\ received[p] \in Nat
      /\ stdinOpen \in [Procs -> BOOLEAN] /\ lastErrno \in [Procs -> BOOLEAN]
      /\ writePending \in [Procs -> BOOLEAN] /\ pumped \in {"SUCCESS", "IO_FAILED"}
      /\ writeOp \in [Procs -> [st : OpStates, len : 0 .. BufferMax, left : 0 .. BufferMax]]
      /\ InputLen \in Nat /\ PipeCap \in Nat /\ BufferMax \in Nat
      /\ client.failing \in BOOLEAN
  BY DEF WindowsInv, TypeOK, WindowsArguments
<1>4. room \in 1 .. BufferMax
  <2>1. inCap[p] \in 0 .. BufferMax /\ (remaining > inCap[p]) \in BOOLEAN
    BY <1>3
  <2> QED
    BY <2>1, RoomInRange
<1>5. remaining \in 0 .. InputLen /\ chunk <= remaining /\ (remaining > 0 => chunk \in 1 .. BufferMax)
  BY <1>3, <1>4 DEF Least
(* The pump ends: all was written, there is an error, or nobody reads.      *)
<1> DEFINE Ends(fails) ==
             /\ Then(<<>>)
             /\ stdinOpen' = [stdinOpen EXCEPT ![p] = FALSE]
             /\ lastErrno' = [lastErrno EXCEPT ![p] = @ \/ fails]
             /\ pumped' = IF fails THEN "IO_FAILED" ELSE "SUCCESS"
             /\ fails \/ remaining = 0 \/ os[p] = "gone"
             /\ inCap' \in {inCap, [inCap EXCEPT ![p] = room]}
             /\ UNCHANGED <<inPipe, writeOp, writePending, offset>>
           Moves ==
             /\ remaining > 0 /\ os[p] = "running" /\ inPipe[p] + chunk <= PipeCap
             /\ inPipe' = [inPipe EXCEPT ![p] = @ + chunk]
             /\ offset' = [offset EXCEPT ![p] = @ + chunk]
             /\ Then(<<<<"write", p>>>>)
             /\ inCap' = [inCap EXCEPT ![p] = room]
             /\ UNCHANGED <<writeOp, writePending, stdinOpen, lastErrno, pumped>>
           Pends ==
             /\ remaining > 0
             /\ writeOp' = [writeOp EXCEPT ![p] = [st |-> "flight", len |-> chunk, left |-> chunk]]
             /\ writePending' = [writePending EXCEPT ![p] = TRUE]
             /\ Then(<<>>) /\ pumped' = "SUCCESS"
             /\ inCap' = [inCap EXCEPT ![p] = room]
             /\ stdinOpen' = stdinOpen /\ lastErrno' = lastErrno
             /\ UNCHANGED <<inPipe, offset>>
<1>6. (\E fails \in BOOLEAN : Ends(fails)) \/ Moves \/ Pends
  <2>1. CASE remaining = 0 /\ StdinPumped(p, TRUE, FALSE)
             /\ UNCHANGED <<inPipe, writeOp, writePending, offset, inCap>>
    <3>1. Ends(FALSE)
      BY <1>3, <2>1 DEF StdinPumped
    <3> QED
      BY <3>1
  <2>2. CASE StdinPumped(p, TRUE, TRUE)
             /\ UNCHANGED <<inPipe, writeOp, writePending, offset, inCap>>
    <3>1. Ends(TRUE)
      BY <1>3, <2>2 DEF StdinPumped
    <3> QED
      BY <3>1
  <2>3. CASE /\ remaining > 0
             /\ inCap' = [inCap EXCEPT ![p] = room]
             /\ os[p] = "running" /\ inPipe[p] + chunk <= PipeCap
             /\ inPipe' = [inPipe EXCEPT ![p] = @ + chunk]
             /\ offset' = [offset EXCEPT ![p] = @ + chunk]
             /\ Then(<<<<"write", p>>>>)
             /\ UNCHANGED <<writeOp, writePending, stdinOpen, lastErrno, pumped>>
    BY <2>3
  <2>4. CASE /\ remaining > 0
             /\ inCap' = [inCap EXCEPT ![p] = room]
             /\ writeOp' = [writeOp EXCEPT ![p] = [st |-> "flight", len |-> chunk, left |-> chunk]]
             /\ writePending' = [writePending EXCEPT ![p] = TRUE]
             /\ StdinPumped(p, FALSE, FALSE)
             /\ UNCHANGED <<inPipe, offset>>
    <3>1. stdinOpen' = stdinOpen /\ lastErrno' = lastErrno /\ Then(<<>>) /\ pumped' = "SUCCESS"
      BY <1>3, <2>4 DEF StdinPumped
    <3> QED
      BY <2>4, <3>1
  <2>5. CASE /\ inCap' = [inCap EXCEPT ![p] = room]
             /\ \E fails \in Refusals : (os[p] = "gone" \/ fails) /\ StdinPumped(p, TRUE, fails)
             /\ UNCHANGED <<inPipe, writeOp, writePending, offset>>
    <3>1. PICK fails \in BOOLEAN : (os[p] = "gone" \/ fails) /\ StdinPumped(p, TRUE, fails)
      BY <2>5 DEF Refusals
    <3>2. Ends(fails)
      BY <1>3, <2>5, <3>1 DEF StdinPumped
    <3> QED
      BY <3>2
  <2> QED
    BY <2>1, <2>2, <2>3, <2>4, <2>5 DEF Write
<1> HIDE DEF Ends, Moves, Pends, remaining, room, chunk
<1>7. /\ TaskInv' /\ todo' # <<>>
      /\ \A t \in Tasks' : t \in Tasks \/ t = <<"write", p>>
      /\ \A t \in Tasks : t \in Tasks' \/ t = <<"write", p>>
      /\ IF Moves THEN Head(todo') = <<"write", p>> ELSE Follows(<<"write", p>>, Head(todo'))
  <2>1. CASE Moves
    BY <1>1, <2>1, PumpGives DEF WindowsInv, InPumps, Moves
  <2>2. CASE ~Moves
    <3>1. Then(<<>>)
      BY <1>6, <2>2 DEF Ends, Pends
    <3> QED
      BY <1>1, <2>2, <3>1, PumpGivesWay DEF WindowsInv, InPumps
  <2> QED
    BY <2>1, <2>2
<1>8. TypeOK'
  <2>1. writeOp' \in [Procs -> [st : OpStates, len : 0 .. BufferMax, left : 0 .. BufferMax]]
    <3>1. CASE Pends
      BY <1>3, <1>5, <3>1 DEF OpStates, InFlight, Pends
    <3> QED
      BY <1>3, <1>6, <3>1 DEF Ends, Moves
  <2>2. offset' \in [Procs -> 0 .. InputLen] /\ inPipe' \in [Procs -> 0 .. PipeCap]
    <3>1. CASE Moves
      <4>1. offset[p] + chunk \in 0 .. InputLen /\ inPipe[p] + chunk \in 0 .. PipeCap
        BY <1>3, <1>5, <3>1 DEF Moves, remaining
      <4> QED
        BY <1>3, <3>1, <4>1 DEF Moves
    <3> QED
      BY <1>3, <1>6, <3>1 DEF Ends, Pends
  <2>3. stdinOpen' \in [Procs -> BOOLEAN]
    BY <1>3, <1>6 DEF Ends, Moves, Pends
  <2>4. lastErrno' \in [Procs -> BOOLEAN]
    BY <1>3, <1>6 DEF Ends, Moves, Pends
  <2>5. writePending' \in [Procs -> BOOLEAN]
    BY <1>3, <1>6 DEF Ends, Moves, Pends
  <2>6. inCap' \in [Procs -> 0 .. BufferMax]
    <3>1. inCap' = inCap \/ inCap' = [inCap EXCEPT ![p] = room]
      BY <1>6 DEF Ends, Moves, Pends
    <3> QED
      BY <1>3, <1>4, <3>1
  <2>7. pumped' \in {"SUCCESS", "IO_FAILED"}
    BY <1>3, <1>6 DEF Ends, Moves, Pends
  <2> QED
    BY <1>1, <2>1, <2>2, <2>3, <2>4, <2>5, <2>6, <2>7 DEF WindowsInv, TypeOK
<1>9. \A q \in Procs \ {p} :
        /\ stdinOpen'[q] = stdinOpen[q] /\ writePending'[q] = writePending[q]
        /\ writeOp'[q] = writeOp[q] /\ offset'[q] = offset[q] /\ lastErrno'[q] = lastErrno[q]
        /\ inPipe'[q] = inPipe[q] /\ inCap'[q] = inCap[q]
  BY <1>3, <1>6 DEF Ends, Moves, Pends
(* The handle itself, in each of the three cases.                           *)
<1>10. \/ /\ ~stdinOpen'[p] /\ ~writePending'[p] /\ writeOp'[p] = NoWrite
          /\ offset'[p] = offset[p] /\ inPipe'[p] = inPipe[p]
          /\ lastErrno[p] => lastErrno'[p]
          /\ lastErrno'[p] \/ remaining = 0 \/ os[p] = "gone"
       \/ /\ stdinOpen'[p] /\ ~writePending'[p] /\ writeOp'[p] = NoWrite
          /\ remaining > 0 /\ os[p] = "running"
          /\ offset'[p] = offset[p] + chunk /\ inPipe'[p] = inPipe[p] + chunk
          /\ lastErrno'[p] = lastErrno[p]
       \/ /\ stdinOpen'[p] /\ writePending'[p] /\ remaining > 0 /\ ~Moves
          /\ writeOp'[p].st = "flight" /\ writeOp'[p].len = chunk /\ writeOp'[p].left = chunk
          /\ offset'[p] = offset[p] /\ inPipe'[p] = inPipe[p]
          /\ lastErrno'[p] = lastErrno[p]
  <2>1. CASE \E fails \in BOOLEAN : Ends(fails)
    BY <1>2, <1>3, <2>1 DEF Ends
  <2>2. CASE Moves
    BY <1>2, <1>3, <2>2 DEF Moves
  <2>3. CASE Pends /\ ~Moves
    BY <1>2, <1>3, <2>3 DEF Pends
  <2> QED
    BY <1>6, <2>1, <2>2, <2>3
<1>11. Pumped(p)
  <2>1. todo # <<>> /\ Head(todo) = <<"write", p>> /\ Head(todo')[1] # "release"
    BY <1>1, <1>7 DEF At, Follows
  <2>2. \A q \in Procs :
          \A name \in {"settle", "primed", "drained", "reported", "noted", "harvested"} :
            ~Doing(name, q)'
    BY <1>7 DEF Doing, Follows
  <2>3. \A q \in Procs : (lastErrno[q] => lastErrno'[q]) /\ (readOpen'[q] => readOpen[q])
    BY <1>1, <1>9, <1>10
  <2> QED
    BY <1>1, <1>7, <2>1, <2>2, <2>3
    DEF Pumped, InPumps, OutPumps, startVars, waitVars, runVars
<1>12. os[p] # "none" /\ valid[p]
  BY <1>2 DEF WindowsInv, StartInv, Fresh
<1>13. StartInv'
  <2> SUFFICES ASSUME NEW q \in Procs
               PROVE  /\ (os[q] = "none")' => Fresh(q)'
                      /\ ~valid'[q] => ~stdinOpen'[q] /\ inCap'[q] = 0
    BY <1>1 DEF WindowsInv, StartInv, Runs
  <2>1. CASE q = p
    BY <1>1, <1>12, <2>1
  <2>2. CASE q # p
    BY <1>1, <1>9, <2>2 DEF WindowsInv, StartInv, Fresh
  <2> QED
    BY <2>1, <2>2
<1>14. WriteInv'
  <2>1. \A q \in Procs : Doing("write", q)' => q = p
    BY <1>7 DEF Doing, Follows
  <2>2. Doing("write", p)' => Moves
    BY <1>7 DEF Doing, Follows
  <2> SUFFICES ASSUME NEW q \in Procs
               PROVE  /\ (writeOp[q].st \in InFlight /\ ~writePending[q])' =>
                           (writeOp[q].st = "cancelled" /\ ~background[q])'
                      /\ (stdinOpen[q] /\ ~writePending[q])' => (writeOp[q] = NoWrite)'
                      /\ Doing("write", q)' => (stdinOpen[q] /\ ~writePending[q])'
    BY DEF WriteInv
  <2>3. CASE q = p
    <3>1. Moves => stdinOpen'[p] /\ ~writePending'[p]
      BY <1>2, <1>3 DEF Moves
    <3> QED
      BY <1>1, <1>10, <2>2, <2>3, <3>1 DEF NoWrite, InFlight
  <2>4. CASE q # p
    BY <1>1, <1>9, <2>1, <2>4 DEF WindowsInv, WriteInv
  <2> QED
    BY <2>3, <2>4
<1>15. ReadInv'
  <2>1. \A q \in Procs : ~Doing("read", q)' /\ ~Doing("readMore", q)'
    BY <1>7 DEF Doing, Follows
  <2> QED
    BY <1>1, <2>1 DEF WindowsInv, ReadInv
<1>16. InputInv'
  <2> SUFFICES ASSUME NEW q \in Procs PROVE InputOf(q)'
    BY DEF InputInv
  <2>1. InputOf(q)
    BY DEF WindowsInv, InputInv
  <2>2. CASE q = p
    <3>1. NoWrite.st = "none" /\ NoWrite.len = 0 /\ NoWrite.left = 0
      BY DEF NoWrite
    <3>2. ~sawEof[p]
      BY <1>2, <2>1, <2>2 DEF InputOf
    <3>3. /\ received[p] + inPipe[p] <= offset[p]
          /\ os[p] = "running" /\ p \in client.feeds /\ processOpen[p] /\ ~lastErrno[p] =>
               received[p] + inPipe[p] = offset[p]
      BY <1>2, <1>3, <2>1, <2>2, <3>1 DEF InputOf, Sent
    <3>4. /\ received[p] \in Nat /\ inPipe[p] \in Nat /\ offset[p] \in Nat
          /\ remaining = InputLen - offset[p] /\ remaining \in Nat /\ chunk <= remaining
          /\ remaining > 0 => chunk \in Nat /\ chunk >= 1
      BY <1>3, <1>5 DEF remaining
    <3>5. ~sawEof'[p] /\ UNCHANGED <<client, received, os, processOpen>>
      <4>1. UNCHANGED <<client, received, os, processOpen, sawEof>>
        BY <1>1
      <4> QED
        BY <3>2, <4>1
    <3>6. CASE ~stdinOpen'[p]
      <4>1. /\ ~writePending'[p] /\ writeOp'[p] = NoWrite
            /\ offset'[p] = offset[p] /\ inPipe'[p] = inPipe[p]
            /\ lastErrno[p] => lastErrno'[p]
            /\ lastErrno'[p] \/ remaining = 0 \/ os[p] = "gone"
        BY <1>10, <3>6
      <4>2. writeOp'[p].st = "none" /\ writeOp'[p].len = 0 /\ writeOp'[p].left = 0
        BY <3>1, <4>1
      <4>3. Sent(p)' = received[p] + inPipe[p]
        BY <3>4, <3>5, <4>1, <4>2 DEF Sent
      <4>4. Sent(p)' <= InputLen /\ offset'[p] + writeOp'[p].len <= InputLen
        BY <1>3, <3>3, <3>4, <4>1, <4>2, <4>3
      <4>5. os'[p] = "running" /\ p \in client'.feeds /\ processOpen'[p] /\ ~lastErrno'[p] =>
              Sent(p)' = offset'[p] + writeOp'[p].len /\ offset'[p] = InputLen
        <5> SUFFICES ASSUME os'[p] = "running", p \in client'.feeds, processOpen'[p], ~lastErrno'[p]
                     PROVE  Sent(p)' = offset'[p] + writeOp'[p].len /\ offset'[p] = InputLen
          OBVIOUS
        <5>1. os[p] = "running" /\ p \in client.feeds /\ processOpen[p]
          BY <3>5
        <5>2. ~lastErrno[p] /\ remaining = 0
          BY <4>1, <5>1
        <5>3. received[p] + inPipe[p] = offset[p]
          BY <3>3, <5>1, <5>2
        <5>4. offset[p] = InputLen
          <6>1. InputLen \in Int /\ offset[p] \in Nat
            BY <1>3, <3>4 DEF WindowsArguments
          <6>2. InputLen - offset[p] = 0
            BY <3>4, <5>2
          <6> QED
            BY <6>1, <6>2
        <5> QED
          BY <3>4, <4>1, <4>2, <4>3, <5>3, <5>4
      <4> QED
        BY <1>3, <2>2, <3>5, <3>6, <4>2, <4>4, <4>5 DEF InputOf, InFlight
    <3>7. CASE stdinOpen'[p] /\ ~writePending'[p]
      <4>1. /\ writeOp'[p] = NoWrite /\ remaining > 0
            /\ offset'[p] = offset[p] + chunk /\ inPipe'[p] = inPipe[p] + chunk
            /\ lastErrno'[p] = lastErrno[p]
        BY <1>10, <3>7
      <4> QED
        BY <1>3, <2>2, <3>1, <3>3, <3>4, <3>5, <3>7, <4>1 DEF InputOf, Sent, InFlight
    <3>8. CASE stdinOpen'[p] /\ writePending'[p]
      <4>1. /\ writeOp'[p].st = "flight" /\ writeOp'[p].len = chunk /\ writeOp'[p].left = chunk
            /\ remaining > 0 /\ offset'[p] = offset[p] /\ inPipe'[p] = inPipe[p]
            /\ lastErrno'[p] = lastErrno[p]
        BY <1>10, <3>8
      <4> QED
        BY <1>3, <2>2, <3>3, <3>4, <3>5, <3>8, <4>1 DEF InputOf, Sent, InFlight
    <3> QED
      BY <3>6, <3>7, <3>8
  <2>3. CASE q # p
    BY <1>1, <1>9, <2>1, <2>3 DEF InputOf, Sent
  <2> QED
    BY <2>2, <2>3
<1>17. OutputInv'
  <2> SUFFICES ASSUME NEW q \in Procs PROVE OutputOf(q)'
    BY DEF OutputInv
  <2>1. OutputOf(q)
    BY DEF WindowsInv, OutputInv
  <2>2. lastErrno[q] => lastErrno'[q]
    BY <1>9, <1>10
  <2> QED
    BY <1>1, <2>1, <2>2 DEF OutputOf
<1> QED
  BY <1>7, <1>8, <1>11, <1>13, <1>14, <1>15, <1>16, <1>17, PumpKeepsCall DEF WindowsInv

(* A read that has completed goes to the sink.                              *)
LEMMA PumpOutputKeeps ==
  ASSUME WindowsArguments, WindowsInv, NEW p \in Procs, PumpOutput(p)
  PROVE  WindowsInv'
<1> DEFINE done == readOpen[p] /\ readPending[p] /\ readOp[p].st \notin InFlight
           got == IF done /\ readOp[p].st = "data" THEN readOp[p].got ELSE 0
           more == readOpen[p] /\ (~readPending[p] \/ got > 0)
           name == IF got > 0 /\ got = outCap[p] THEN "readMore" ELSE "read"
           fails == done /\ readOp[p].st \notin {"broken", "data"}
<1>1. /\ At("pumpOutput", p)
      /\ readPending' = [readPending EXCEPT ![p] = @ /\ ~done]
      /\ readOp' = IF done THEN [readOp EXCEPT ![p] = NoRead] ELSE readOp
      /\ sunk' = [sunk EXCEPT ![p] = @ + got]
      /\ more => Then(<<<<name, p>>>>) /\ UNCHANGED <<readOpen, lastErrno, pumped>>
      /\ ~more => OutputPumped(p, done, fails)
      /\ UNCHANGED <<outPipe, outCap, client, os, terminated, inPipe, received, sawEof, produced>>
      /\ UNCHANGED <<writeOp, valid, status, background, processOpen>>
      /\ UNCHANGED <<stdinOpen, writePending, offset, inCap, timeout, expired>>
      /\ UNCHANGED <<slots, waiting, ioFailed, group>>
      /\ UNCHANGED <<next, spawnFailed, timedOut, waitFailed, last>>
  BY DEF PumpOutput, PumpOutputStands, startVars, stdinVars, waitVars, runVars
<1>2. ~more => /\ Then(<<>>)
               /\ readOpen' = [readOpen EXCEPT ![p] = @ /\ ~done]
               /\ lastErrno' = [lastErrno EXCEPT ![p] = @ \/ fails]
               /\ pumped' = IF fails THEN "IO_FAILED" ELSE "SUCCESS"
  BY <1>1 DEF OutputPumped
<1>3. /\ readOpen \in [Procs -> BOOLEAN] /\ readPending \in [Procs -> BOOLEAN]
      /\ lastErrno \in [Procs -> BOOLEAN] /\ pumped \in {"SUCCESS", "IO_FAILED"}
      /\ sunk \in [Procs -> 0 .. OutputLen] /\ OutputLen \in Nat /\ BufferMax \in Nat
      /\ outPipe[p] \in Nat /\ produced[p] \in 0 .. OutputLen
      /\ readOp \in [Procs -> [st : OpStates, size : 0 .. BufferMax, got : 0 .. BufferMax]]
      /\ readOp[p].got \in Nat
  BY DEF WindowsInv, TypeOK, WindowsArguments
<1>4. OutputOf(p)
  BY DEF WindowsInv, OutputInv
<1>5. got \in Nat /\ (done /\ readOp[p].st = "data" => got >= 1) /\ sunk[p] + got <= OutputLen
  BY <1>3, <1>4 DEF OutputOf
<1>6. name \in OutPumps
  BY DEF OutPumps
<1> HIDE DEF done, more, got, name, fails
<1>7. /\ TaskInv' /\ todo' # <<>>
      /\ \A t \in Tasks' : t \in Tasks \/ t = <<name, p>>
      /\ \A t \in Tasks : t \in Tasks' \/ t = <<"pumpOutput", p>>
      /\ IF more THEN Head(todo') = <<name, p>> ELSE Follows(<<"pumpOutput", p>>, Head(todo'))
  <2>1. CASE more
    <3>1. "pumpOutput" \in OutPumps /\ "pumpOutput" \notin InPumps /\ name \notin InPumps
      BY <1>6 DEF OutPumps, InPumps
    <3> QED
      BY <1>1, <1>6, <2>1, <3>1, PumpGives DEF WindowsInv
  <2>2. CASE ~more
    BY <1>1, <1>2, <2>2, PumpGivesWay DEF WindowsInv, OutPumps
  <2> QED
    BY <2>1, <2>2
<1>8. TypeOK'
  <2>1. readOp' \in [Procs -> [st : OpStates, size : 0 .. BufferMax, got : 0 .. BufferMax]]
    BY <1>1, <1>3 DEF NoRead, OpStates
  <2>2. sunk' \in [Procs -> 0 .. OutputLen]
    <3>1. sunk[p] + got \in 0 .. OutputLen
      BY <1>3, <1>5
    <3> QED
      BY <1>1, <1>3, <3>1
  <2>3. readPending' \in [Procs -> BOOLEAN]
    BY <1>1, <1>3
  <2>4. readOpen' \in [Procs -> BOOLEAN]
    BY <1>1, <1>2, <1>3
  <2>5. lastErrno' \in [Procs -> BOOLEAN]
    BY <1>1, <1>2, <1>3
  <2>6. pumped' \in {"SUCCESS", "IO_FAILED"}
    BY <1>1, <1>2, <1>3
  <2> QED
    BY <1>1, <2>1, <2>2, <2>3, <2>4, <2>5, <2>6 DEF WindowsInv, TypeOK
<1>9. \A q \in Procs \ {p} :
        /\ readOpen'[q] = readOpen[q] /\ readPending'[q] = readPending[q]
        /\ readOp'[q] = readOp[q] /\ sunk'[q] = sunk[q] /\ lastErrno'[q] = lastErrno[q]
  BY <1>1, <1>2, <1>3
<1>10. /\ readOpen'[p] <=> readOpen[p] /\ (more \/ ~done)
       /\ readPending'[p] <=> readPending[p] /\ ~done
       /\ readOp'[p] = IF done THEN NoRead ELSE readOp[p]
       /\ sunk'[p] = sunk[p] + got
       /\ lastErrno'[p] <=> lastErrno[p] \/ (~more /\ fails)
  BY <1>1, <1>2, <1>3
<1>11. Pumped(p)
  <2>1. todo # <<>> /\ Head(todo) = <<"pumpOutput", p>> /\ Head(todo')[1] # "release"
    BY <1>1, <1>6, <1>7 DEF At, Follows, OutPumps
  <2>2. ASSUME NEW q \in Procs,
               NEW task \in {"settle", "primed", "drained", "reported", "noted", "harvested"},
               Doing(task, q)', pumped' = "IO_FAILED"
        PROVE  lastErrno'[q]
    <3>1. ~more
      BY <1>6, <1>7, <2>2 DEF Doing, OutPumps
    <3>2. q = p
      BY <1>7, <2>2, <3>1 DEF Doing, Follows
    <3> QED
      BY <1>2, <1>10, <2>2, <3>1, <3>2
  <2>3. \A q \in Procs : (lastErrno[q] => lastErrno'[q]) /\ (readOpen'[q] => readOpen[q])
    BY <1>1, <1>9, <1>10
  <2> QED
    BY <1>1, <1>6, <1>7, <2>1, <2>2, <2>3
    DEF Pumped, InPumps, OutPumps, startVars, waitVars, runVars
<1>12. StartInv'
  <2> SUFFICES ASSUME NEW q \in Procs
               PROVE  /\ (os[q] = "none")' => Fresh(q)'
                      /\ ~valid'[q] => ~readOpen'[q]
    BY <1>1 DEF WindowsInv, StartInv, Runs
  <2>1. CASE q = p
    BY <1>1, <1>3, <1>10, <2>1 DEF WindowsInv, StartInv, Fresh, more, done, got
  <2>2. CASE q # p
    BY <1>1, <1>9, <2>2 DEF WindowsInv, StartInv, Fresh
  <2> QED
    BY <2>1, <2>2
<1>13. WriteInv'
  <2>1. \A q \in Procs : ~Doing("write", q)'
    BY <1>6, <1>7 DEF Doing, Follows, OutPumps
  <2> QED
    BY <1>1, <2>1 DEF WindowsInv, WriteInv
<1>14. ReadInv'
  <2>1. \A q \in Procs : Doing("read", q)' \/ Doing("readMore", q)' => more /\ q = p
    BY <1>7 DEF Doing, Follows
  <2> SUFFICES ASSUME NEW q \in Procs
               PROVE  /\ (readOp[q].st \in InFlight /\ ~readPending[q])' =>
                           (readOp[q].st = "cancelled" /\ ~background[q])'
                      /\ (readOpen[q] /\ ~readPending[q])' => (readOp[q] = NoRead)'
                      /\ (Doing("read", q) \/ Doing("readMore", q))' => (readOpen[q] /\ ~readPending[q])'
    BY DEF ReadInv
  <2>2. CASE q = p
    <3>1. more => readOpen[p] /\ (~readPending[p] \/ done)
      BY DEF more, got
    <3> QED
      BY <1>1, <1>10, <2>1, <2>2, <3>1 DEF WindowsInv, ReadInv, done, NoRead, InFlight
  <2>3. CASE q # p
    BY <1>1, <1>9, <2>1, <2>3 DEF WindowsInv, ReadInv
  <2> QED
    BY <2>2, <2>3
<1>15. InputInv'
  <2> SUFFICES ASSUME NEW q \in Procs PROVE InputOf(q)'
    BY DEF InputInv
  <2>1. InputOf(q)
    BY DEF WindowsInv, InputInv
  <2>2. lastErrno[q] => lastErrno'[q]
    BY <1>9, <1>10
  <2> QED
    BY <1>1, <2>1, <2>2 DEF InputOf, Sent
<1>16. OutputInv'
  <2> SUFFICES ASSUME NEW q \in Procs PROVE OutputOf(q)'
    BY DEF OutputInv
  <2>1. OutputOf(q)
    BY DEF WindowsInv, OutputInv
  <2>2. UNCHANGED <<os, processOpen, outPipe, produced>>
    BY <1>1
  <2>3. CASE q = p
    <3>1. NoRead.st = "none" /\ NoRead.got = 0
      BY DEF NoRead
    <3>2. CASE ~done
      <4>1. got = 0
        BY <3>2 DEF got
      <4> QED
        BY <1>3, <1>10, <2>1, <2>2, <2>3, <3>2, <4>1 DEF OutputOf
    <3>3. CASE done /\ readOp[p].st = "data"
      <4>1. more /\ got = readOp[p].got
        BY <1>5, <3>3 DEF done, more, got
      <4> QED
        BY <1>3, <1>5, <1>10, <2>1, <2>2, <2>3, <3>1, <3>3, <4>1 DEF OutputOf, InFlight, done
    <3>4. CASE done /\ readOp[p].st # "data"
      <4>1. got = 0 /\ ~more /\ (fails \/ readOp[p].st = "broken")
        BY <1>5, <3>4 DEF done, more, got, fails
      <4> QED
        BY <1>3, <1>5, <1>10, <2>1, <2>2, <2>3, <3>1, <3>4, <4>1 DEF OutputOf, InFlight
    <3> QED
      BY <3>2, <3>3, <3>4
  <2>4. CASE q # p
    BY <1>9, <2>1, <2>2, <2>4 DEF OutputOf
  <2> QED
    BY <2>3, <2>4
<1> QED
  BY <1>7, <1>8, <1>11, <1>12, <1>13, <1>14, <1>15, <1>16, PumpKeepsCall DEF WindowsInv

(* The next read, with the outcomes of ReadFile.                            *)
LEMMA ReadKeeps ==
  ASSUME WindowsArguments, WindowsInv, NEW p \in Procs, Read(p)
  PROVE  WindowsInv'
<1> DEFINE room == Ensured(outCap[p], At("readMore", p))
           got == Least(outPipe[p], room)
           ended == os[p] = "gone" /\ outPipe[p] = 0
<1>1. /\ At("read", p) \/ At("readMore", p)
      /\ UNCHANGED <<client, os, terminated, inPipe, received, sawEof, produced, writeOp>>
      /\ UNCHANGED <<valid, status, background, processOpen, sunk>>
      /\ UNCHANGED <<stdinOpen, writePending, offset, inCap, timeout, expired>>
      /\ UNCHANGED <<slots, waiting, ioFailed, group>>
      /\ UNCHANGED <<next, spawnFailed, timedOut, waitFailed, last>>
  BY DEF Read, PumpOutputStands, startVars, stdinVars, waitVars, runVars
<1>2. PICK name \in {"read", "readMore"} : At(name, p)
  BY <1>1
<1>3. readOpen[p] /\ ~readPending[p] /\ readOp[p] = NoRead
  BY <1>2 DEF WindowsInv, ReadInv, At, Doing
<1>4. /\ outCap \in [Procs -> 0 .. BufferMax] /\ outPipe \in [Procs -> 0 .. PipeCap]
      /\ readOpen \in [Procs -> BOOLEAN] /\ lastErrno \in [Procs -> BOOLEAN]
      /\ readPending \in [Procs -> BOOLEAN] /\ pumped \in {"SUCCESS", "IO_FAILED"}
      /\ readOp \in [Procs -> [st : OpStates, size : 0 .. BufferMax, got : 0 .. BufferMax]]
      /\ PipeCap \in Nat /\ BufferMax \in Nat /\ client.failing \in BOOLEAN
      /\ sunk[p] \in Nat /\ produced[p] \in Nat
  BY DEF WindowsInv, TypeOK, WindowsArguments
<1>5. room \in 1 .. BufferMax
  <2>1. outCap[p] \in 0 .. BufferMax /\ At("readMore", p) \in BOOLEAN
    BY <1>4 DEF At
  <2> QED
    BY <2>1, RoomInRange
<1>6. got \in 0 .. BufferMax /\ got <= outPipe[p]
  BY <1>4, <1>5 DEF Least
(* The pump ends: there is an error or the child and the pipe are empty.    *)
<1> DEFINE Ends(fails) ==
             /\ Then(<<>>)
             /\ readOpen' = [readOpen EXCEPT ![p] = FALSE]
             /\ lastErrno' = [lastErrno EXCEPT ![p] = @ \/ fails]
             /\ pumped' = IF fails THEN "IO_FAILED" ELSE "SUCCESS"
             /\ fails \/ ended
             /\ outCap' \in {outCap, [outCap EXCEPT ![p] = room]}
             /\ UNCHANGED <<outPipe, readOp, readPending>>
           Takes ==
             /\ got > 0
             /\ readOp' = [readOp EXCEPT ![p] = [st |-> "data", size |-> room, got |-> got]]
             /\ readPending' = [readPending EXCEPT ![p] = TRUE]
             /\ outPipe' = [outPipe EXCEPT ![p] = @ - got]
             /\ outCap' = [outCap EXCEPT ![p] = room]
             /\ Then(<<<<"pumpOutput", p>>>>)
             /\ UNCHANGED <<readOpen, lastErrno, pumped>>
           Pends ==
             /\ readOp' = [readOp EXCEPT ![p] = [st |-> "flight", size |-> room, got |-> 0]]
             /\ readPending' = [readPending EXCEPT ![p] = TRUE]
             /\ Then(<<>>) /\ pumped' = "SUCCESS"
             /\ outCap' = [outCap EXCEPT ![p] = room]
             /\ readOpen' = readOpen /\ lastErrno' = lastErrno
             /\ outPipe' = outPipe
<1>7. (\E fails \in BOOLEAN : Ends(fails)) \/ Takes \/ Pends
  <2>1. CASE OutputPumped(p, TRUE, TRUE) /\ UNCHANGED <<outPipe, readOp, readPending, outCap>>
    <3>1. Ends(TRUE)
      BY <1>4, <2>1 DEF OutputPumped
    <3> QED
      BY <3>1
  <2>2. CASE /\ outCap' = [outCap EXCEPT ![p] = room]
             /\ got > 0
             /\ readOp' = [readOp EXCEPT ![p] = [st |-> "data", size |-> room, got |-> got]]
             /\ readPending' = [readPending EXCEPT ![p] = TRUE]
             /\ outPipe' = [outPipe EXCEPT ![p] = @ - got]
             /\ Then(<<<<"pumpOutput", p>>>>)
             /\ UNCHANGED <<readOpen, lastErrno, pumped>>
    BY <2>2
  <2>3. CASE /\ outCap' = [outCap EXCEPT ![p] = room]
             /\ readOp' = [readOp EXCEPT ![p] = [st |-> "flight", size |-> room, got |-> 0]]
             /\ readPending' = [readPending EXCEPT ![p] = TRUE]
             /\ OutputPumped(p, FALSE, FALSE)
             /\ UNCHANGED outPipe
    <3>1. readOpen' = readOpen /\ lastErrno' = lastErrno /\ Then(<<>>) /\ pumped' = "SUCCESS"
      BY <1>4, <2>3 DEF OutputPumped
    <3> QED
      BY <2>3, <3>1
  <2>4. CASE /\ outCap' = [outCap EXCEPT ![p] = room]
             /\ \E fails \in Refusals : (ended \/ fails) /\ OutputPumped(p, TRUE, fails)
             /\ UNCHANGED <<outPipe, readOp, readPending>>
    <3>1. PICK fails \in BOOLEAN : (ended \/ fails) /\ OutputPumped(p, TRUE, fails)
      BY <2>4 DEF Refusals
    <3>2. Ends(fails)
      BY <1>4, <2>4, <3>1 DEF OutputPumped
    <3> QED
      BY <3>2
  <2> QED
    BY <2>1, <2>2, <2>3, <2>4 DEF Read
<1> HIDE DEF Ends, Takes, Pends, room, got, ended
<1>8. /\ TaskInv' /\ todo' # <<>>
      /\ \A t \in Tasks' : t \in Tasks \/ t = <<"pumpOutput", p>>
      /\ \A t \in Tasks : t \in Tasks' \/ t = <<name, p>>
      /\ IF Takes THEN Head(todo') = <<"pumpOutput", p>> ELSE Follows(<<name, p>>, Head(todo'))
  <2>1. CASE Takes
    <3>1. /\ name \in InPumps \cup OutPumps /\ "pumpOutput" \in InPumps \cup OutPumps
          /\ name \in InPumps <=> "pumpOutput" \in InPumps
      BY DEF OutPumps, InPumps
    <3> QED
      BY <1>1, <1>2, <2>1, <3>1, PumpGives DEF WindowsInv, Takes
  <2>2. CASE ~Takes
    <3>1. Then(<<>>) /\ name \in InPumps \cup OutPumps
      BY <1>7, <2>2 DEF Ends, Pends, OutPumps
    <3> QED
      BY <1>1, <1>2, <2>2, <3>1, PumpGivesWay DEF WindowsInv
  <2> QED
    BY <2>1, <2>2
<1>9. TypeOK'
  <2>1. readOp' \in [Procs -> [st : OpStates, size : 0 .. BufferMax, got : 0 .. BufferMax]]
    <3>1. CASE Pends
      BY <1>4, <1>5, <3>1 DEF OpStates, InFlight, Pends
    <3>2. CASE Takes
      BY <1>4, <1>5, <1>6, <3>2 DEF OpStates, InFlight, Takes
    <3> QED
      BY <1>4, <1>7, <3>1, <3>2 DEF Ends
  <2>2. outPipe' \in [Procs -> 0 .. PipeCap]
    <3>1. CASE Takes
      <4>1. outPipe[p] - got \in 0 .. PipeCap
        BY <1>4, <1>6
      <4> QED
        BY <1>4, <3>1, <4>1 DEF Takes
    <3> QED
      BY <1>4, <1>7, <3>1 DEF Ends, Pends
  <2>3. readOpen' \in [Procs -> BOOLEAN]
    BY <1>4, <1>7 DEF Ends, Takes, Pends
  <2>4. lastErrno' \in [Procs -> BOOLEAN]
    BY <1>4, <1>7 DEF Ends, Takes, Pends
  <2>5. readPending' \in [Procs -> BOOLEAN]
    BY <1>4, <1>7 DEF Ends, Takes, Pends
  <2>6. outCap' \in [Procs -> 0 .. BufferMax]
    <3>1. outCap' = outCap \/ outCap' = [outCap EXCEPT ![p] = room]
      BY <1>7 DEF Ends, Takes, Pends
    <3> QED
      BY <1>4, <1>5, <3>1
  <2>7. pumped' \in {"SUCCESS", "IO_FAILED"}
    BY <1>4, <1>7 DEF Ends, Takes, Pends
  <2> QED
    BY <1>1, <2>1, <2>2, <2>3, <2>4, <2>5, <2>6, <2>7 DEF WindowsInv, TypeOK
<1>10. \A q \in Procs \ {p} :
         /\ readOpen'[q] = readOpen[q] /\ readPending'[q] = readPending[q]
         /\ readOp'[q] = readOp[q] /\ lastErrno'[q] = lastErrno[q]
         /\ outPipe'[q] = outPipe[q] /\ outCap'[q] = outCap[q]
  BY <1>4, <1>7 DEF Ends, Takes, Pends
(* The handle itself, in each of the three cases.                           *)
<1>11. \/ /\ ~readOpen'[p] /\ ~readPending'[p] /\ readOp'[p] = NoRead
          /\ outPipe'[p] = outPipe[p] /\ (lastErrno'[p] \/ ended)
          /\ lastErrno[p] => lastErrno'[p]
          /\ pumped' = "IO_FAILED" => lastErrno'[p]
       \/ /\ readOpen'[p] /\ readPending'[p] /\ got > 0
          /\ readOp'[p].st = "data" /\ readOp'[p].got = got
          /\ outPipe'[p] = outPipe[p] - got /\ lastErrno'[p] = lastErrno[p]
          /\ Takes
       \/ /\ readOpen'[p] /\ readPending'[p]
          /\ readOp'[p].st = "flight" /\ readOp'[p].got = 0 /\ readOp'[p].size >= 1
          /\ outPipe'[p] = outPipe[p] /\ lastErrno'[p] = lastErrno[p]
          /\ pumped' = "SUCCESS"
  <2>1. CASE \E fails \in BOOLEAN : Ends(fails)
    BY <1>3, <1>4, <2>1 DEF Ends
  <2>2. CASE Takes
    BY <1>3, <1>4, <2>2 DEF Takes
  <2>3. CASE Pends
    BY <1>3, <1>4, <1>5, <2>3 DEF Pends
  <2> QED
    BY <1>7, <2>1, <2>2, <2>3
<1>12. Pumped(p)
  <2>1. todo # <<>> /\ Head(todo) = <<name, p>> /\ Head(todo')[1] # "release"
    BY <1>2, <1>8 DEF At, Follows
  <2>2. ASSUME NEW q \in Procs,
               NEW task \in {"settle", "primed", "drained", "reported", "noted", "harvested"},
               Doing(task, q)', pumped' = "IO_FAILED"
        PROVE  lastErrno'[q]
    <3>1. ~Takes
      BY <1>8, <2>2 DEF Doing
    <3>2. q = p
      BY <1>8, <2>2, <3>1 DEF Doing, Follows
    <3> QED
      BY <1>11, <2>2, <3>1, <3>2
  <2>3. \A q \in Procs : (lastErrno[q] => lastErrno'[q]) /\ (readOpen'[q] => readOpen[q])
    BY <1>3, <1>10, <1>11
  <2>4. name \in OutPumps /\ "pumpOutput" \in OutPumps
    BY DEF OutPumps
  <2> QED
    BY <1>1, <1>8, <2>1, <2>2, <2>3, <2>4 DEF Pumped, startVars, waitVars, runVars
<1>13. os[p] # "none" /\ valid[p]
  BY <1>3 DEF WindowsInv, StartInv, Fresh
<1>14. StartInv'
  <2> SUFFICES ASSUME NEW q \in Procs
               PROVE  /\ (os[q] = "none")' => Fresh(q)'
                      /\ ~valid'[q] => ~readOpen'[q] /\ outCap'[q] = 0
    BY <1>1 DEF WindowsInv, StartInv, Runs
  <2>1. CASE q = p
    BY <1>1, <1>13, <2>1
  <2>2. CASE q # p
    BY <1>1, <1>10, <2>2 DEF WindowsInv, StartInv, Fresh
  <2> QED
    BY <2>1, <2>2
<1>15. WriteInv'
  <2>1. \A q \in Procs : ~Doing("write", q)'
    BY <1>8 DEF Doing, Follows
  <2> QED
    BY <1>1, <2>1 DEF WindowsInv, WriteInv
<1>16. ReadInv'
  <2>1. \A q \in Procs : ~Doing("read", q)' /\ ~Doing("readMore", q)'
    BY <1>8 DEF Doing, Follows
  <2> SUFFICES ASSUME NEW q \in Procs
               PROVE  /\ (readOp[q].st \in InFlight /\ ~readPending[q])' =>
                           (readOp[q].st = "cancelled" /\ ~background[q])'
                      /\ (readOpen[q] /\ ~readPending[q])' => (readOp[q] = NoRead)'
    BY <2>1 DEF ReadInv
  <2>2. CASE q = p
    BY <1>11, <2>2 DEF NoRead, InFlight
  <2>3. CASE q # p
    BY <1>1, <1>10, <2>3 DEF WindowsInv, ReadInv
  <2> QED
    BY <2>2, <2>3
<1>17. InputInv'
  <2> SUFFICES ASSUME NEW q \in Procs PROVE InputOf(q)'
    BY DEF InputInv
  <2>1. InputOf(q)
    BY DEF WindowsInv, InputInv
  <2>2. lastErrno[q] => lastErrno'[q]
    BY <1>10, <1>11
  <2> QED
    BY <1>1, <2>1, <2>2 DEF InputOf, Sent
<1>18. OutputInv'
  <2> SUFFICES ASSUME NEW q \in Procs PROVE OutputOf(q)'
    BY DEF OutputInv
  <2>1. OutputOf(q)
    BY DEF WindowsInv, OutputInv
  <2>2. UNCHANGED <<os, processOpen, sunk, produced>>
    BY <1>1
  <2>3. CASE q = p
    <3>1. NoRead.st = "none" /\ NoRead.got = 0
      BY DEF NoRead
    <3>2. produced[p] = sunk[p] + outPipe[p] /\ outPipe[p] \in Nat /\ got \in Nat
      BY <1>3, <1>4, <1>6, <2>1, <2>3, <3>1 DEF OutputOf
    <3>3. ~readOpen'[p] /\ readOp'[p] = NoRead /\ outPipe'[p] = outPipe[p]
          => produced[p] = sunk[p] + readOp'[p].got + outPipe'[p]
      BY <3>1, <3>2, <1>4
    <3>4. CASE ~readOpen'[p]
      BY <1>11, <2>2, <2>3, <3>1, <3>3, <3>4 DEF OutputOf, InFlight, ended
    <3>5. CASE readOpen'[p] /\ readOp'[p].st = "data"
      <4>1. readOp'[p].got = got /\ got > 0 /\ outPipe'[p] = outPipe[p] - got
        BY <1>11, <3>5
      <4>2. produced[p] = sunk[p] + got + (outPipe[p] - got)
        BY <1>4, <1>6, <3>2
      <4> QED
        BY <2>2, <2>3, <3>2, <3>5, <4>1, <4>2 DEF OutputOf, InFlight
    <3>6. CASE readOpen'[p] /\ readOp'[p].st # "data"
      <4>1. /\ readOp'[p].st = "flight" /\ readOp'[p].got = 0 /\ readOp'[p].size >= 1
            /\ outPipe'[p] = outPipe[p]
        BY <1>11, <3>6
      <4> QED
        BY <1>4, <2>2, <2>3, <3>2, <3>6, <4>1 DEF OutputOf, InFlight
    <3> QED
      BY <3>4, <3>5, <3>6
  <2>4. CASE q # p
    BY <1>10, <2>1, <2>2, <2>4 DEF OutputOf
  <2> QED
    BY <2>3, <2>4
<1> QED
  BY <1>8, <1>9, <1>12, <1>14, <1>15, <1>16, <1>17, <1>18, PumpKeepsCall DEF WindowsInv

-----------------------------------------------------------------------------
(* The children and the kernel: the library stands, so only the processes,  *)
(* the pipes and the operations have to be looked at.                       *)
LEMMA KernelKeeps ==
  ASSUME WindowsArguments, WindowsInv, LibraryStands, TypeOK',
         \A q \in Procs : os'[q] = os[q] \/ (os[q] = "running" /\ os'[q] = "gone"),
         \A q \in Procs : produced'[q] = produced[q] \/ (os[q] = "running" /\ readOpen[q]),
         \A q \in Procs : os[q] = "none" => Fresh(q)',
         WriteInv', ReadInv', InputInv', OutputInv'
  PROVE  WindowsInv'
<1>1. /\ UNCHANGED <<client, valid, status, background, processOpen, lastErrno, todo, last>>
      /\ UNCHANGED <<stdinOpen, writePending, offset, inCap, readOpen, readPending, sunk, outCap>>
      /\ UNCHANGED <<pumped, timeout, expired, slots, waiting, ioFailed, group>>
      /\ UNCHANGED <<next, spawnFailed, timedOut, waitFailed>>
  BY DEF LibraryStands, handleVars, startVars, stdinVars, outputVars, callVars, waitVars, runVars
<1>2. /\ Tasks' = Tasks /\ (Runs' <=> Runs) /\ (InRun' <=> InRun)
      /\ Running' = Running /\ Spawned' = Spawned
  BY <1>1 DEF Tasks, TasksOf, Runs, InRun, Running, Spawned
<1>3. TaskInv'
  BY <1>1, <1>2 DEF WindowsInv, TaskInv, Chain, Allowed
<1>4. StartInv'
  BY <1>1, <1>2 DEF WindowsInv, StartInv
<1>5. CallInv'
  BY <1>1, <1>2 DEF WindowsInv, CallInv, NoLocals, Doing
<1>6. WaitInv'
  BY <1>1, <1>2 DEF WindowsInv, WaitInv
<1>7. DrainInv' /\ DrainHarvested'
  BY <1>1, <1>2 DEF WindowsInv, DrainInv, DrainHarvested, Finalizing
<1>8. RunInv'
  <2>1. RunInv
    BY DEF WindowsInv
  <2> QED
    BY <1>1, <1>2, <2>1 DEF RunInv
<1>9. ResultInv'
  <2>1. ResultInv
    BY DEF WindowsInv
  <2>2. /\ last.op = "run" => \A q \in Procs : ~readOpen[q]
        /\ last.op = "wait" => last.on \subseteq {q \in Procs : background[q]}
        /\ last.on \subseteq Procs
    BY <2>1 DEF ResultInv
  <2>3. OutputComplete'
    <3> SUFFICES ASSUME last.op \in {"wait", "run"}, last.result # "WAIT_FAILED",
                        NEW q \in last.on, valid[q], status[q] \in Terminal, ~lastErrno[q]
                 PROVE  sunk[q] = produced'[q]
      BY <1>1 DEF OutputComplete
    <3>1. sunk[q] = produced[q] /\ q \in Procs
      BY <2>1 DEF ResultInv, OutputComplete
    <3>2. ~(os[q] = "running" /\ readOpen[q])
      BY <2>2, <3>1 DEF WindowsInv, StartInv
    <3> QED
      BY <3>1, <3>2
  <2>4. ReturnContract'
    BY <1>1, <2>1 DEF ResultInv, ReturnContract, Spawned
  <2> QED
    BY <1>1, <2>2, <2>3, <2>4 DEF ResultInv
<1> QED
  BY <1>3, <1>4, <1>5, <1>6, <1>7, <1>8, <1>9 DEF WindowsInv

(* What a step of the children or of the kernel leaves alone, by name.      *)
LEMMA Stands ==
  ASSUME LibraryStands
  PROVE  /\ UNCHANGED <<client, valid, status, background, processOpen, lastErrno, todo, last>>
         /\ UNCHANGED <<stdinOpen, writePending, offset, inCap, readOpen, readPending, sunk, outCap>>
         /\ UNCHANGED <<pumped, timeout, expired, slots, waiting, ioFailed, group>>
         /\ UNCHANGED <<next, spawnFailed, timedOut, waitFailed>>
BY DEF LibraryStands, handleVars, startVars, stdinVars, outputVars, callVars, waitVars, runVars

(* A child reads a chunk of its stdin.                                      *)
LEMMA ChildReadsKeeps ==
  ASSUME WindowsArguments, WindowsInv, NEW p \in Procs, ChildReads(p)
  PROVE  WindowsInv'
<1>1. /\ os[p] = "running" /\ inPipe[p] > 0 /\ LibraryStands
      /\ inPipe' = [inPipe EXCEPT ![p] = @ - 1] /\ received' = [received EXCEPT ![p] = @ + 1]
      /\ UNCHANGED <<os, terminated, sawEof, outPipe, produced, writeOp, readOp>>
  BY DEF ChildReads, pipeVars
<1>2. /\ inPipe \in [Procs -> 0 .. PipeCap] /\ received \in [Procs -> 0 .. InputLen]
      /\ PipeCap \in Nat /\ InputLen \in Nat /\ writeOp[p].left \in Nat
      /\ received[p] + inPipe[p] + writeOp[p].left <= InputLen /\ ~sawEof[p]
  BY <1>1 DEF WindowsInv, TypeOK, WindowsArguments, InputInv, InputOf, Sent
<1>3. TypeOK'
  <2>1. inPipe' \in [Procs -> 0 .. PipeCap] /\ received' \in [Procs -> 0 .. InputLen]
    BY <1>1, <1>2
  <2> QED
    BY <1>1, <2>1, Stands DEF WindowsInv, TypeOK
<1>4. InputInv'
  <2> SUFFICES ASSUME NEW q \in Procs PROVE InputOf(q)'
    BY DEF InputInv
  <2>1. InputOf(q)
    BY DEF WindowsInv, InputInv
  <2>2. Sent(q)' = Sent(q) /\ (sawEof[q] => inPipe'[q] = inPipe[q])
    BY <1>1, <1>2 DEF Sent
  <2> QED
    BY <1>1, <2>1, <2>2, Stands DEF InputOf
<1>5. \A q \in Procs : os[q] = "none" => Fresh(q)'
  BY <1>1, <1>2, Stands DEF WindowsInv, StartInv, Fresh
<1>6. WriteInv' /\ ReadInv' /\ OutputInv'
  BY <1>1, Stands DEF WindowsInv, WriteInv, ReadInv, OutputInv, OutputOf, Doing
<1> QED
  BY <1>1, <1>3, <1>4, <1>5, <1>6, KernelKeeps

(* A child reads the end of its stdin.                                      *)
LEMMA ChildSeesEofKeeps ==
  ASSUME WindowsArguments, WindowsInv, NEW p \in Procs, ChildSeesEof(p)
  PROVE  WindowsInv'
<1>1. /\ os[p] = "running" /\ p \in client.feeds /\ inPipe[p] = 0 /\ ~stdinOpen[p]
      /\ writeOp[p].st \notin InFlight /\ LibraryStands
      /\ sawEof' = [sawEof EXCEPT ![p] = TRUE]
      /\ UNCHANGED <<os, terminated, inPipe, received, outPipe, produced, writeOp, readOp>>
  BY DEF ChildSeesEof, pipeVars
<1>2. sawEof \in [Procs -> BOOLEAN]
  BY DEF WindowsInv, TypeOK
<1>3. TypeOK'
  <2>1. sawEof' \in [Procs -> BOOLEAN]
    BY <1>1, <1>2
  <2> QED
    BY <1>1, <2>1, Stands DEF WindowsInv, TypeOK
<1>4. InputInv'
  <2> SUFFICES ASSUME NEW q \in Procs PROVE InputOf(q)'
    BY DEF InputInv
  <2>1. InputOf(q)
    BY DEF WindowsInv, InputInv
  <2>2. sawEof'[q] => q = p \/ sawEof[q]
    BY <1>1, <1>2
  <2> QED
    BY <1>1, <2>1, <2>2, Stands DEF InputOf, Sent
<1>5. \A q \in Procs : os[q] = "none" => Fresh(q)'
  BY <1>1, <1>2, Stands DEF WindowsInv, StartInv, Fresh
<1>6. WriteInv' /\ ReadInv' /\ OutputInv'
  BY <1>1, Stands DEF WindowsInv, WriteInv, ReadInv, OutputInv, OutputOf, Doing
<1> QED
  BY <1>1, <1>3, <1>4, <1>5, <1>6, KernelKeeps

(* A child writes a chunk.                                                  *)
LEMMA ChildWritesKeeps ==
  ASSUME WindowsArguments, WindowsInv, NEW p \in Procs, ChildWrites(p)
  PROVE  WindowsInv'
<1>1. /\ os[p] = "running" /\ readOpen[p] /\ produced[p] < OutputLen /\ outPipe[p] < PipeCap
      /\ outPipe' = [outPipe EXCEPT ![p] = @ + 1]
      /\ produced' = [produced EXCEPT ![p] = @ + 1] /\ LibraryStands
      /\ UNCHANGED <<os, terminated, inPipe, received, sawEof, writeOp, readOp>>
  BY DEF ChildWrites, pipeVars
<1>2. /\ outPipe \in [Procs -> 0 .. PipeCap] /\ produced \in [Procs -> 0 .. OutputLen]
      /\ sunk[p] \in Nat /\ readOp[p].got \in Nat /\ PipeCap \in Nat /\ OutputLen \in Nat
  BY DEF WindowsInv, TypeOK, WindowsArguments
<1>3. TypeOK'
  <2>1. outPipe' \in [Procs -> 0 .. PipeCap] /\ produced' \in [Procs -> 0 .. OutputLen]
    BY <1>1, <1>2
  <2> QED
    BY <1>1, <2>1, Stands DEF WindowsInv, TypeOK
<1>4. OutputInv'
  <2> SUFFICES ASSUME NEW q \in Procs PROVE OutputOf(q)'
    BY DEF OutputInv
  <2>1. OutputOf(q)
    BY DEF WindowsInv, OutputInv
  <2>2. CASE q = p
    BY <1>1, <1>2, <2>1, <2>2, Stands DEF OutputOf
  <2>3. CASE q # p
    BY <1>1, <1>2, <2>1, <2>3, Stands DEF OutputOf
  <2> QED
    BY <2>2, <2>3
<1>5. \A q \in Procs : /\ os[q] = "none" => Fresh(q)'
                       /\ produced'[q] = produced[q] \/ (os[q] = "running" /\ readOpen[q])
  BY <1>1, <1>2, Stands DEF WindowsInv, StartInv, Fresh
<1>6. WriteInv' /\ ReadInv' /\ InputInv'
  BY <1>1, Stands DEF WindowsInv, WriteInv, ReadInv, InputInv, InputOf, Sent, Doing
<1> QED
  BY <1>1, <1>3, <1>4, <1>5, <1>6, KernelKeeps

(* A child is gone, and its ends of the pipes with it.                      *)
LEMMA DiesKeeps ==
  ASSUME WindowsArguments, WindowsInv, NEW p \in Procs, Dies(p)
  PROVE  WindowsInv'
<1>1. /\ os[p] = "running" /\ LibraryStands
      /\ os' = [os EXCEPT ![p] = "gone"] /\ inPipe' = [inPipe EXCEPT ![p] = 0]
      /\ sawEof' = [sawEof EXCEPT ![p] = FALSE]
      /\ UNCHANGED <<terminated, received, outPipe, produced, writeOp, readOp>>
  BY DEF Dies, pipeVars
<1>2. /\ os \in [Procs -> {"none", "running", "gone"}] /\ inPipe \in [Procs -> 0 .. PipeCap]
      /\ sawEof \in [Procs -> BOOLEAN] /\ PipeCap \in Nat /\ InputLen \in Nat
  BY DEF WindowsInv, TypeOK, WindowsArguments
<1>3. TypeOK'
  <2>1. /\ os' \in [Procs -> {"none", "running", "gone"}] /\ inPipe' \in [Procs -> 0 .. PipeCap]
        /\ sawEof' \in [Procs -> BOOLEAN]
    BY <1>1, <1>2
  <2> QED
    BY <1>1, <2>1, Stands DEF WindowsInv, TypeOK
<1>4. InputInv'
  <2> SUFFICES ASSUME NEW q \in Procs PROVE InputOf(q)'
    BY DEF InputInv
  <2>1. InputOf(q)
    BY DEF WindowsInv, InputInv
  <2>2. CASE q = p
    <3>1. /\ os'[p] = "gone" /\ inPipe'[p] = 0 /\ ~sawEof'[p] /\ received[p] \in Nat
          /\ writeOp[p].left \in Nat /\ writeOp[p].len \in Nat /\ offset[p] \in Nat
          /\ inPipe[p] \in Nat
      BY <1>1, <1>2 DEF WindowsInv, TypeOK, WindowsArguments
    <3>2. Sent(p)' <= Sent(p) /\ Sent(p)' \in Nat /\ Sent(p) \in Nat
      BY <1>1, <3>1, Stands DEF Sent
    <3> HIDE DEF Sent
    <3> QED
      BY <1>1, <1>2, <2>1, <2>2, <3>1, <3>2, Stands DEF InputOf
  <2>3. CASE q # p
    <3>1. os'[q] = os[q] /\ inPipe'[q] = inPipe[q] /\ sawEof'[q] = sawEof[q]
      BY <1>1, <1>2, <2>3
    <3> QED
      BY <1>1, <2>1, <3>1, Stands DEF InputOf, Sent
  <2> QED
    BY <2>2, <2>3
<1>5. \A q \in Procs : os'[q] = os[q] \/ (os[q] = "running" /\ os'[q] = "gone")
  BY <1>1, <1>2
<1>6. OutputInv'
  BY <1>1, <1>5, Stands DEF WindowsInv, OutputInv, OutputOf
<1>7. \A q \in Procs : os[q] = "none" => Fresh(q)'
  BY <1>1, <1>2, Stands DEF WindowsInv, StartInv, Fresh
<1>8. WriteInv' /\ ReadInv'
  BY <1>1, Stands DEF WindowsInv, WriteInv, ReadInv, Doing
<1> QED
  BY <1>1, <1>3, <1>4, <1>5, <1>6, <1>7, <1>8, KernelKeeps

(* A pending write moves on by a chunk.                                     *)
LEMMA WriteMovesKeeps ==
  ASSUME WindowsArguments, WindowsInv, NEW p \in Procs, WriteMoves(p)
  PROVE  WindowsInv'
<1> DEFINE st == IF writeOp[p].left = 1 THEN "data" ELSE writeOp[p].st
<1>1. /\ writeOp[p].st \in InFlight /\ os[p] = "running" /\ inPipe[p] < PipeCap
      /\ inPipe' = [inPipe EXCEPT ![p] = @ + 1] /\ LibraryStands
      /\ writeOp' = [writeOp EXCEPT ![p].left = @ - 1,
                                    ![p].st = IF writeOp[p].left = 1 THEN "data" ELSE @]
      /\ UNCHANGED <<os, terminated, received, sawEof, outPipe, produced, readOp>>
  BY DEF WriteMoves
<1>2. /\ writeOp \in [Procs -> [st : OpStates, len : 0 .. BufferMax, left : 0 .. BufferMax]]
      /\ inPipe \in [Procs -> 0 .. PipeCap] /\ BufferMax \in Nat /\ PipeCap \in Nat
      /\ received[p] \in Nat /\ offset[p] \in Nat /\ InputLen \in Nat
  BY DEF WindowsInv, TypeOK, WindowsArguments
<1>3. writeOp[p].left >= 1
  BY <1>1 DEF WindowsInv, InputInv, InputOf
<1>4. /\ writeOp'[p].st = st /\ writeOp'[p].left = writeOp[p].left - 1
      /\ writeOp'[p].len = writeOp[p].len /\ inPipe'[p] = inPipe[p] + 1
      /\ writeOp'[p] \in [st : OpStates, len : 0 .. BufferMax, left : 0 .. BufferMax]
  <2>1. /\ writeOp'[p] = [[writeOp[p] EXCEPT !.left = @ - 1] EXCEPT !.st = st]
        /\ inPipe'[p] = inPipe[p] + 1
    BY <1>1, <1>2
  <2>2. writeOp[p].left - 1 \in 0 .. BufferMax /\ st \in OpStates
    BY <1>2, <1>3 DEF OpStates
  <2> HIDE DEF st
  <2> QED
    BY <1>2, <2>1, <2>2
<1>5. \A q \in Procs \ {p} : writeOp'[q] = writeOp[q] /\ inPipe'[q] = inPipe[q]
  BY <1>1, <1>2
<1>6. TypeOK'
  <2>1. inPipe' \in [Procs -> 0 .. PipeCap]
    BY <1>1, <1>2
  <2>2. writeOp' \in [Procs -> [st : OpStates, len : 0 .. BufferMax, left : 0 .. BufferMax]]
    <3>1. \A q \in Procs :
            writeOp'[q] \in [st : OpStates, len : 0 .. BufferMax, left : 0 .. BufferMax]
      BY <1>2, <1>4, <1>5
    <3>2. writeOp' = [q \in Procs |-> writeOp'[q]]
      BY <1>1, <1>2
    <3> QED
      BY <3>1, <3>2
  <2> QED
    BY <1>1, <2>1, <2>2, Stands DEF WindowsInv, TypeOK
<1>7. st \in {"data", writeOp[p].st} /\ (writeOp[p].left = 1 <=> st = "data")
  BY <1>1 DEF InFlight
<1> HIDE DEF st
<1>8. WriteInv'
  <2> SUFFICES ASSUME NEW q \in Procs
               PROVE  /\ (writeOp[q].st \in InFlight /\ ~writePending[q])' =>
                           (writeOp[q].st = "cancelled" /\ ~background[q])'
                      /\ (stdinOpen[q] /\ ~writePending[q])' => (writeOp[q] = NoWrite)'
    BY <1>1, Stands DEF WindowsInv, WriteInv, Doing
  <2>1. CASE q = p
    BY <1>1, <1>4, <1>7, <2>1, Stands DEF WindowsInv, WriteInv, NoWrite, InFlight
  <2>2. CASE q # p
    BY <1>1, <1>5, <2>2, Stands DEF WindowsInv, WriteInv
  <2> QED
    BY <2>1, <2>2
<1>9. InputInv'
  <2> SUFFICES ASSUME NEW q \in Procs PROVE InputOf(q)'
    BY DEF InputInv
  <2>1. InputOf(q)
    BY DEF WindowsInv, InputInv
  <2>2. CASE q = p
    <3>1. Sent(p)' = Sent(p)
      BY <1>1, <1>2, <1>4, Stands DEF Sent
    <3>2. ~sawEof[p]
      BY <1>1, <2>1, <2>2 DEF InputOf
    <3> QED
      BY <1>1, <1>2, <1>3, <1>4, <1>7, <2>1, <2>2, <3>1, <3>2, Stands DEF InputOf, InFlight
  <2>3. CASE q # p
    BY <1>1, <1>5, <2>1, <2>3, Stands DEF InputOf, Sent
  <2> QED
    BY <2>2, <2>3
<1>10. \A q \in Procs : os[q] = "none" => Fresh(q)'
  <2> SUFFICES ASSUME NEW q \in Procs, os[q] = "none" PROVE Fresh(q)'
    OBVIOUS
  <2>1. Fresh(q)
    BY DEF WindowsInv, StartInv
  <2>2. writeOp'[q] = writeOp[q] /\ inPipe'[q] = inPipe[q]
    BY <1>1, <1>5
  <2> QED
    BY <1>1, <2>1, <2>2, Stands DEF Fresh
<1>11. ReadInv' /\ OutputInv'
  BY <1>1, Stands DEF WindowsInv, ReadInv, OutputInv, OutputOf, Doing
<1> QED
  BY <1>1, <1>6, <1>8, <1>9, <1>10, <1>11, KernelKeeps

(* A pending write ends without having moved everything.                    *)
LEMMA WriteEndsKeeps ==
  ASSUME WindowsArguments, WindowsInv, NEW p \in Procs, NEW how, WriteEnds(p, how)
  PROVE  WindowsInv'
<1>1. /\ writeOp[p].st \in InFlight /\ how \in {"broken", "aborted", "failed"}
      /\ how = "broken" => os[p] = "gone"
      /\ writeOp' = [writeOp EXCEPT ![p].st = how] /\ LibraryStands
      /\ UNCHANGED <<os, terminated, inPipe, received, sawEof, outPipe, produced, readOp>>
  BY DEF WriteEnds, childVars
<1>2. writeOp \in [Procs -> [st : OpStates, len : 0 .. BufferMax, left : 0 .. BufferMax]]
  BY DEF WindowsInv, TypeOK
<1>3. /\ writeOp'[p].st = how /\ writeOp'[p].len = writeOp[p].len
      /\ writeOp'[p].left = writeOp[p].left
      /\ \A q \in Procs \ {p} : writeOp'[q] = writeOp[q]
  BY <1>1, <1>2
<1>4. TypeOK'
  <2>1. writeOp' \in [Procs -> [st : OpStates, len : 0 .. BufferMax, left : 0 .. BufferMax]]
    BY <1>1, <1>2 DEF OpStates
  <2> QED
    BY <1>1, <2>1, Stands DEF WindowsInv, TypeOK
<1>5. os[p] # "none"
  BY <1>1 DEF WindowsInv, StartInv, Fresh, NoWrite, InFlight
<1>6. WriteInv'
  <2> SUFFICES ASSUME NEW q \in Procs
               PROVE  /\ (writeOp[q].st \in InFlight /\ ~writePending[q])' =>
                           (writeOp[q].st = "cancelled" /\ ~background[q])'
                      /\ (stdinOpen[q] /\ ~writePending[q])' => (writeOp[q] = NoWrite)'
    BY <1>1, Stands DEF WindowsInv, WriteInv, Doing
  <2>1. CASE q = p
    BY <1>1, <1>3, <2>1, Stands DEF WindowsInv, WriteInv, NoWrite, InFlight
  <2>2. CASE q # p
    BY <1>1, <1>3, <2>2, Stands DEF WindowsInv, WriteInv
  <2> QED
    BY <2>1, <2>2
<1>7. InputInv'
  <2> SUFFICES ASSUME NEW q \in Procs PROVE InputOf(q)'
    BY DEF InputInv
  <2>1. InputOf(q)
    BY DEF WindowsInv, InputInv
  <2>2. CASE q = p
    BY <1>1, <1>3, <2>1, <2>2, Stands DEF InputOf, Sent, InFlight
  <2>3. CASE q # p
    BY <1>1, <1>3, <2>1, <2>3, Stands DEF InputOf, Sent
  <2> QED
    BY <2>2, <2>3
<1>8. \A q \in Procs : os[q] = "none" => Fresh(q)'
  BY <1>1, <1>3, <1>5, Stands DEF WindowsInv, StartInv, Fresh
<1>9. ReadInv' /\ OutputInv'
  BY <1>1, Stands DEF WindowsInv, ReadInv, OutputInv, OutputOf, Doing
<1> QED
  BY <1>1, <1>4, <1>6, <1>7, <1>8, <1>9, KernelKeeps

(* A pending read gets what is in the pipe.                                 *)
LEMMA ReadTakesKeeps ==
  ASSUME WindowsArguments, WindowsInv, NEW p \in Procs, ReadTakes(p)
  PROVE  WindowsInv'
<1> DEFINE got == Least(outPipe[p], readOp[p].size)
<1>1. /\ readOp[p].st \in InFlight /\ outPipe[p] > 0 /\ LibraryStands
      /\ readOp' = [readOp EXCEPT ![p].st = "data", ![p].got = got]
      /\ outPipe' = [outPipe EXCEPT ![p] = @ - got]
      /\ UNCHANGED <<os, terminated, inPipe, received, sawEof, produced, writeOp>>
  BY DEF ReadTakes
<1>2. /\ readOp \in [Procs -> [st : OpStates, size : 0 .. BufferMax, got : 0 .. BufferMax]]
      /\ outPipe \in [Procs -> 0 .. PipeCap] /\ BufferMax \in Nat /\ PipeCap \in Nat
      /\ sunk[p] \in Nat /\ produced[p] \in Nat
  BY DEF WindowsInv, TypeOK, WindowsArguments
<1>3. readOp[p].size >= 1 /\ readOp[p].got = 0 /\ produced[p] = sunk[p] + outPipe[p]
  BY <1>1, <1>2 DEF WindowsInv, OutputInv, OutputOf, InFlight
<1>4. got \in 1 .. BufferMax /\ got <= outPipe[p]
  BY <1>1, <1>2, <1>3 DEF Least
<1> HIDE DEF got
<1>5. /\ readOp'[p].st = "data" /\ readOp'[p].got = got /\ readOp'[p].size = readOp[p].size
      /\ readOp'[p] \in [st : OpStates, size : 0 .. BufferMax, got : 0 .. BufferMax]
      /\ outPipe'[p] = outPipe[p] - got
  <2>1. /\ readOp'[p] = [[readOp[p] EXCEPT !.st = "data"] EXCEPT !.got = got]
        /\ outPipe'[p] = outPipe[p] - got
    BY <1>1, <1>2
  <2>2. "data" \in OpStates /\ got \in 0 .. BufferMax
    BY <1>2, <1>4 DEF OpStates
  <2>3. readOp[p] \in [st : OpStates, size : 0 .. BufferMax, got : 0 .. BufferMax]
    BY <1>2
  <2> QED
    BY <2>1, <2>2, <2>3
<1>6. \A q \in Procs \ {p} : readOp'[q] = readOp[q] /\ outPipe'[q] = outPipe[q]
  BY <1>1, <1>2
<1>7. TypeOK'
  <2>1. outPipe' \in [Procs -> 0 .. PipeCap]
    BY <1>1, <1>2, <1>4
  <2>2. readOp' \in [Procs -> [st : OpStates, size : 0 .. BufferMax, got : 0 .. BufferMax]]
    <3>1. \A q \in Procs :
            readOp'[q] \in [st : OpStates, size : 0 .. BufferMax, got : 0 .. BufferMax]
      BY <1>2, <1>5, <1>6
    <3>2. readOp' = [q \in Procs |-> readOp'[q]]
      BY <1>1, <1>2
    <3> QED
      BY <3>1, <3>2
  <2> QED
    BY <1>1, <2>1, <2>2, Stands DEF WindowsInv, TypeOK
<1>8. os[p] # "none"
  BY <1>1 DEF WindowsInv, StartInv, Fresh, NoRead, InFlight
<1>9. ReadInv'
  <2> SUFFICES ASSUME NEW q \in Procs
               PROVE  /\ (readOp[q].st \in InFlight /\ ~readPending[q])' =>
                           (readOp[q].st = "cancelled" /\ ~background[q])'
                      /\ (readOpen[q] /\ ~readPending[q])' => (readOp[q] = NoRead)'
    BY <1>1, Stands DEF WindowsInv, ReadInv, Doing
  <2>1. CASE q = p
    BY <1>1, <1>5, <2>1, Stands DEF WindowsInv, ReadInv, NoRead, InFlight
  <2>2. CASE q # p
    BY <1>1, <1>6, <2>2, Stands DEF WindowsInv, ReadInv
  <2> QED
    BY <2>1, <2>2
<1>10. OutputInv'
  <2> SUFFICES ASSUME NEW q \in Procs PROVE OutputOf(q)'
    BY DEF OutputInv
  <2>1. OutputOf(q)
    BY DEF WindowsInv, OutputInv
  <2>2. CASE q = p
    <3>1. produced[p] = sunk[p] + got + (outPipe[p] - got)
      BY <1>2, <1>3, <1>4
    <3>2. ~(processOpen[p] /\ ~readOpen[p] /\ ~lastErrno[p])
      BY <1>1, <2>1, <2>2 DEF OutputOf
    <3> QED
      BY <1>1, <1>4, <1>5, <2>2, <3>1, <3>2, Stands DEF OutputOf, InFlight
  <2>3. CASE q # p
    BY <1>1, <1>6, <2>1, <2>3, Stands DEF OutputOf
  <2> QED
    BY <2>2, <2>3
<1>11. \A q \in Procs : os[q] = "none" => Fresh(q)'
  <2> SUFFICES ASSUME NEW q \in Procs, os[q] = "none" PROVE Fresh(q)'
    OBVIOUS
  <2>1. Fresh(q)
    BY DEF WindowsInv, StartInv
  <2>2. readOp'[q] = readOp[q] /\ outPipe'[q] = outPipe[q]
    BY <1>6, <1>8
  <2> QED
    BY <1>1, <2>1, <2>2, Stands DEF Fresh
<1>12. WriteInv' /\ InputInv'
  BY <1>1, Stands DEF WindowsInv, WriteInv, InputInv, InputOf, Sent, Doing
<1> QED
  BY <1>1, <1>7, <1>9, <1>10, <1>11, <1>12, KernelKeeps

(* A pending read ends without data.                                        *)
LEMMA ReadEndsKeeps ==
  ASSUME WindowsArguments, WindowsInv, NEW p \in Procs, NEW how, ReadEnds(p, how)
  PROVE  WindowsInv'
<1>1. /\ readOp[p].st \in InFlight /\ how \in {"broken", "aborted", "failed"}
      /\ how = "broken" => os[p] = "gone" /\ outPipe[p] = 0
      /\ readOp' = [readOp EXCEPT ![p].st = how] /\ LibraryStands
      /\ UNCHANGED <<os, terminated, inPipe, received, sawEof, outPipe, produced, writeOp>>
  BY DEF ReadEnds, childVars
<1>2. readOp \in [Procs -> [st : OpStates, size : 0 .. BufferMax, got : 0 .. BufferMax]]
  BY DEF WindowsInv, TypeOK
<1>3. /\ readOp'[p].st = how /\ readOp'[p].size = readOp[p].size
      /\ readOp'[p].got = readOp[p].got
      /\ \A q \in Procs \ {p} : readOp'[q] = readOp[q]
  BY <1>1, <1>2
<1>4. TypeOK'
  <2>1. readOp' \in [Procs -> [st : OpStates, size : 0 .. BufferMax, got : 0 .. BufferMax]]
    BY <1>1, <1>2 DEF OpStates
  <2> QED
    BY <1>1, <2>1, Stands DEF WindowsInv, TypeOK
<1>5. os[p] # "none"
  BY <1>1 DEF WindowsInv, StartInv, Fresh, NoRead, InFlight
<1>6. ReadInv'
  <2> SUFFICES ASSUME NEW q \in Procs
               PROVE  /\ (readOp[q].st \in InFlight /\ ~readPending[q])' =>
                           (readOp[q].st = "cancelled" /\ ~background[q])'
                      /\ (readOpen[q] /\ ~readPending[q])' => (readOp[q] = NoRead)'
    BY <1>1, Stands DEF WindowsInv, ReadInv, Doing
  <2>1. CASE q = p
    BY <1>1, <1>3, <2>1, Stands DEF WindowsInv, ReadInv, NoRead, InFlight
  <2>2. CASE q # p
    BY <1>1, <1>3, <2>2, Stands DEF WindowsInv, ReadInv
  <2> QED
    BY <2>1, <2>2
<1>7. OutputInv'
  <2> SUFFICES ASSUME NEW q \in Procs PROVE OutputOf(q)'
    BY DEF OutputInv
  <2>1. OutputOf(q)
    BY DEF WindowsInv, OutputInv
  <2>2. CASE q = p
    BY <1>1, <1>3, <2>1, <2>2, Stands DEF OutputOf, InFlight
  <2>3. CASE q # p
    BY <1>1, <1>3, <2>1, <2>3, Stands DEF OutputOf
  <2> QED
    BY <2>2, <2>3
<1>8. \A q \in Procs : os[q] = "none" => Fresh(q)'
  BY <1>1, <1>3, <1>5, Stands DEF WindowsInv, StartInv, Fresh
<1>9. WriteInv' /\ InputInv'
  BY <1>1, Stands DEF WindowsInv, WriteInv, InputInv, InputOf, Sent, Doing
<1> QED
  BY <1>1, <1>4, <1>6, <1>7, <1>8, <1>9, KernelKeeps

-----------------------------------------------------------------------------
(* The steps of a call that leave the pipes and what is open: only the      *)
(* status, the errors and what the call has recorded have to be looked at.  *)
PipesStand ==
  /\ UNCHANGED <<client, os, inPipe, received, sawEof, outPipe, produced, writeOp, readOp>>
  /\ UNCHANGED <<valid, background, processOpen, stdinOpen, writePending, offset, inCap>>
  /\ UNCHANGED <<readOpen, readPending, sunk, outCap>>

(* Where no pipe is touched, the types are those of the rest.               *)
TypesOfCall ==
  /\ terminated \subseteq Procs
  /\ status \in [Procs -> {"NOT_STARTED", "RUNNING", "FAILED_TO_START"} \cup Terminal]
  /\ lastErrno \in [Procs -> BOOLEAN]
  /\ {expired, spawnFailed, timedOut, waitFailed} \subseteq BOOLEAN
  /\ {slots, waiting, ioFailed} \subseteq SUBSET Procs
  /\ pumped \in {"SUCCESS", "IO_FAILED"} /\ timeout \in client.timeouts \cup {"none"}
  /\ group \in 0 .. N /\ next \in 1 .. N + 1

LEMMA TypesAround ==
  ASSUME TypeOK, PipesStand, TypesOfCall'
  PROVE  TypeOK'
<1>1. {sawEof', valid', background', processOpen', stdinOpen', readOpen', writePending',
       readPending', lastErrno'} \subseteq [Procs -> BOOLEAN]
  <2>1. {sawEof, valid, background, processOpen, stdinOpen, readOpen, writePending, readPending}
        \subseteq [Procs -> BOOLEAN]
    BY DEF TypeOK
  <2> QED
    BY <2>1 DEF PipesStand, TypesOfCall
<1> QED
  BY <1>1 DEF TypeOK, PipesStand, TypesOfCall

NotPumping == todo' = <<>> \/ Head(todo')[1] \notin {"write", "read", "readMore"}

(* Where no pipe is touched, what is said of the pipes stays.               *)
LEMMA PipesKeep ==
  ASSUME WindowsInv, PipesStand, NotPumping, \A q \in Procs : lastErrno[q] => lastErrno'[q]
  PROVE  WriteInv' /\ ReadInv' /\ InputInv' /\ OutputInv'
<1>1. \A q \in Procs : \A name \in {"write", "read", "readMore"} : ~Doing(name, q)'
  BY DEF NotPumping, Doing
<1>2. WriteInv'
  BY <1>1 DEF WindowsInv, WriteInv, PipesStand
<1>3. ReadInv'
  BY <1>1 DEF WindowsInv, ReadInv, PipesStand
<1>4. InputInv'
  <2> SUFFICES ASSUME NEW q \in Procs PROVE InputOf(q)'
    BY DEF InputInv
  <2>1. InputOf(q)
    BY DEF WindowsInv, InputInv
  <2> QED
    BY <2>1 DEF InputOf, Sent, PipesStand
<1>5. OutputInv'
  <2> SUFFICES ASSUME NEW q \in Procs PROVE OutputOf(q)'
    BY DEF OutputInv
  <2>1. OutputOf(q)
    BY DEF WindowsInv, OutputInv
  <2> QED
    BY <2>1 DEF OutputOf, PipesStand
<1> QED
  BY <1>2, <1>3, <1>4, <1>5

(* A handle becomes terminal when its process is gone, but for the one a    *)
(* run gave up waiting for.                                                 *)
StatusStep(q) ==
  \/ status'[q] = status[q]
  \/ os[q] = "gone" /\ status'[q] \in Terminal
  \/ status[q] = "NOT_STARTED" /\ status'[q] = "FAILED_TO_START"
  \/ os[q] = "running" /\ status'[q] = "KILLED_BY_SIGNAL" /\ Runs /\ waitFailed'

(* A handle changes its status as its process allows.                       *)
LEMMA StartKeeps ==
  ASSUME StartInv, PipesStand, Runs /\ waitFailed => waitFailed',
         \A q \in Procs : StatusStep(q)
  PROVE  StartInv'
<1> SUFFICES ASSUME NEW q \in Procs
             PROVE  /\ os'[q] = "none" => Fresh(q)'
                    /\ os'[q] = "none" <=> status'[q] \in {"NOT_STARTED", "FAILED_TO_START"}
                    /\ status'[q] = "EXITED" => os'[q] = "gone"
                    /\ status'[q] \in Terminal /\ os'[q] = "running"
                       => Runs' /\ (waitFailed' \/ ~processOpen'[q])
                    /\ background'[q] => ~Runs' /\ valid'[q] /\ processOpen'[q]
                    /\ ~valid'[q] => /\ ~stdinOpen'[q] /\ ~readOpen'[q] /\ ~processOpen'[q]
                                     /\ inCap'[q] = 0 /\ outCap'[q] = 0
  BY DEF StartInv
<1>1. (Runs' <=> Runs) /\ (Fresh(q)' <=> Fresh(q))
  BY DEF PipesStand, Runs, Fresh
<1>2. CASE status'[q] = status[q]
  BY <1>1, <1>2 DEF StartInv, PipesStand
<1>3. CASE os[q] = "gone" /\ status'[q] \in Terminal
  BY <1>1, <1>3 DEF StartInv, PipesStand, Terminal
<1>4. CASE status[q] = "NOT_STARTED" /\ status'[q] = "FAILED_TO_START"
  BY <1>1, <1>4 DEF StartInv, PipesStand, Terminal
<1>5. CASE os[q] = "running" /\ status'[q] = "KILLED_BY_SIGNAL" /\ Runs /\ waitFailed'
  BY <1>1, <1>5 DEF StartInv, PipesStand, Terminal
<1> QED
  BY <1>2, <1>3, <1>4, <1>5 DEF StatusStep

(* While a call is under way there is no result to speak of.                *)
LEMMA NoCallResult ==
  ASSUME last' = NoCall
  PROVE  ResultInv'
BY DEF ResultInv, OutputComplete, ReturnContract, NoCall

(* Results of the other calls say nothing of a wait or a run.               *)
LEMMA OtherResult ==
  ASSUME last'.op \notin {"wait", "run"}, last'.on \subseteq Procs
  PROVE  ResultInv'
BY DEF ResultInv, OutputComplete, ReturnContract

(* Between two calls nothing is recorded.                                   *)
LEMMA Idle ==
  ASSUME todo' = <<>>, NoLocals', client' = client,
         Runs => \A q \in Procs : ~(status'[q] \in Terminal /\ ~lastErrno'[q] /\ readOpen'[q])
  PROVE  TaskInv' /\ CallInv' /\ WaitInv' /\ DrainInv' /\ DrainHarvested' /\ RunInv'
<1>1. Tasks' = {}
  BY DEF Tasks, TasksOf
<1>2. TaskInv'
  BY <1>1 DEF TaskInv, Chain
<1>3. CallInv'
  BY DEF CallInv, NoLocals, Doing
<1>4. WaitInv'
  BY <1>1 DEF WaitInv, NoLocals
<1>5. DrainInv'
  BY <1>1 DEF DrainInv, NoLocals, Runs
<1>6. DrainHarvested'
  BY <1>1 DEF DrainHarvested
<1>7. RunInv'
  BY DEF RunInv, InRun
<1> QED
  BY <1>2, <1>3, <1>4, <1>5, <1>6, <1>7

(* Without a run none of its tasks is there.                                *)
LEMMA WithoutRun ==
  ASSUME TaskInv', ~Runs'
  PROVE  DrainHarvested' /\ RunInv'
<1>1. \A q : <<"harvested", q>> \notin Tasks'
  BY DEF TaskInv, Allowed, RunNames
<1> QED
  BY <1>1 DEF DrainHarvested, RunInv, InRun

(* In a run nobody waits.                                                   *)
LEMMA WithoutWait ==
  ASSUME TaskInv', Runs', slots' = {}, waiting' = {}
  PROVE  WaitInv'
<1>1. \A q : <<"reported", q>> \notin Tasks'
  BY DEF TaskInv, Allowed, BackgroundNames
<1> QED
  BY <1>1 DEF WaitInv

(* What lies under the head was asked for by one above it.                  *)
LEMMA Above ==
  ASSUME TaskInv, todo # <<>>, NEW t \in Tasks
  PROVE  t = Head(todo) \/ \E u \in Tasks : Follows(u, t)
<1>1. PICK k \in 1 .. Len(todo) : t = todo[k]
  BY DEF Tasks, TasksOf
<1>2. Len(todo) \in Nat /\ Head(todo) = todo[1]
  BY DEF TaskInv
<1>3. CASE k = 1
  BY <1>1, <1>2, <1>3
<1>4. CASE k # 1
  <2>1. k - 1 \in 1 .. Len(todo) /\ k - 1 < Len(todo) /\ (k - 1) + 1 = k
    BY <1>1, <1>2, <1>4
  <2>2. Follows(todo[k - 1], todo[(k - 1) + 1])
    BY <2>1 DEF TaskInv, Chain
  <2> QED
    BY <1>1, <2>1, <2>2 DEF Tasks, TasksOf
<1> QED
  BY <1>3, <1>4

(* While a finalizer is at work the task at hand is a pump or its own.      *)
LEMMA FinalizingIsPumping ==
  ASSUME TaskInv, todo # <<>>, NEW p, Finalizing(p)
  PROVE  Head(todo)[1] \in PumpNames
<1>1. \A t \in Tasks : t[1] \in InPumps => Head(todo)[1] \in PumpNames
  <2> SUFFICES ASSUME NEW t \in Tasks, t[1] \in InPumps PROVE t = Head(todo)
    BY DEF InPumps, PumpNames
  <2> QED
    BY Above DEF Follows, InPumps
<1>2. \A t \in Tasks : t[1] \in OutPumps \cup {"finalize", "settle"} => Head(todo)[1] \in PumpNames
  <2>1. ASSUME NEW t \in Tasks, t[1] \in OutPumps \cup {"finalize"}
        PROVE  Head(todo)[1] \in PumpNames
    <3>1. CASE t = Head(todo)
      BY <2>1, <3>1 DEF OutPumps, PumpNames
    <3>2. CASE t # Head(todo)
      <4>1. PICK u \in Tasks : Follows(u, t)
        BY <3>2, Above
      <4>2. u[1] \in InPumps
        BY <2>1, <4>1 DEF Follows, InPumps, OutPumps
      <4> QED
        BY <1>1, <4>2
    <3> QED
      BY <3>1, <3>2
  <2>2. ASSUME NEW t \in Tasks, t[1] = "settle"
        PROVE  Head(todo)[1] \in PumpNames
    <3>1. CASE t = Head(todo)
      BY <2>2, <3>1 DEF PumpNames
    <3>2. CASE t # Head(todo)
      <4>1. PICK u \in Tasks : Follows(u, t)
        BY <3>2, Above
      <4>2. u[1] \in OutPumps
        BY <2>2, <4>1 DEF Follows, OutPumps
      <4> QED
        BY <2>1, <4>2
    <3> QED
      BY <3>1, <3>2
  <2> QED
    BY <2>1, <2>2
<1> QED
  BY <1>2 DEF Finalizing

(* The lists that the steps put on.                                         *)
LEMMA GivesOne ==
  ASSUME TaskInv, todo # <<>>, NEW a \in Task,
         InPlaceOf(a, Head(todo)), Allowed(a),
         todo' = <<a>> \o Tail(todo), UNCHANGED <<client, slots>>
  PROVE  /\ TaskInv' /\ todo' # <<>> /\ Head(todo') = a
         /\ Tasks' \subseteq {a} \cup Tasks /\ a \in Tasks' /\ Tasks \subseteq {Head(todo)} \cup Tasks'
<1> DEFINE new == <<a>>
<1>1. new \in Seq(Task) /\ new # <<>> /\ Len(new) = 1 /\ new[1] = a
  OBVIOUS
<1>2. TasksOf(new) = {a}
  BY <1>1 DEF TasksOf
<1>3. todo' = new \o Tail(todo)
  OBVIOUS
<1> HIDE DEF new
<1>4. \A k \in 1 .. Len(new) - 1 : Follows(new[k], new[k + 1])
  BY <1>1
<1>5. InPlaceOf(new[Len(new)], Head(todo)) /\ \A k \in 1 .. Len(new) : Allowed(new[k])
  BY <1>1
<1>6. /\ TaskInv' /\ todo' # <<>> /\ Head(todo') = new[1]
      /\ Tasks' \subseteq TasksOf(new) \cup Tasks
      /\ TasksOf(new) \subseteq Tasks' /\ Tasks \subseteq {Head(todo)} \cup Tasks'
  BY <1>1, <1>3, <1>4, <1>5, Gives
<1> QED
  BY <1>1, <1>2, <1>6

(* A task asks for two.                                                     *)
LEMMA GivesTwo ==
  ASSUME TaskInv, todo # <<>>, NEW a \in Task, NEW b \in Task, Follows(a, b),
         InPlaceOf(b, Head(todo)), Allowed(a), Allowed(b),
         todo' = <<a, b>> \o Tail(todo), UNCHANGED <<client, slots>>
  PROVE  /\ TaskInv' /\ todo' # <<>> /\ Head(todo') = a
         /\ Tasks' \subseteq {a, b} \cup Tasks /\ {a, b} \subseteq Tasks'
         /\ Tasks \subseteq {Head(todo)} \cup Tasks'
<1> DEFINE new == <<a, b>>
<1>1. new \in Seq(Task) /\ new # <<>> /\ Len(new) = 2 /\ new[1] = a /\ new[2] = b
  OBVIOUS
<1>2. TasksOf(new) = {a, b}
  BY <1>1 DEF TasksOf
<1>3. todo' = new \o Tail(todo)
  OBVIOUS
<1> HIDE DEF new
<1>4. \A k \in 1 .. Len(new) - 1 : Follows(new[k], new[k + 1])
  BY <1>1
<1>5. InPlaceOf(new[Len(new)], Head(todo)) /\ \A k \in 1 .. Len(new) : Allowed(new[k])
  BY <1>1
<1>6. /\ TaskInv' /\ todo' # <<>> /\ Head(todo') = new[1]
      /\ Tasks' \subseteq TasksOf(new) \cup Tasks
      /\ TasksOf(new) \subseteq Tasks' /\ Tasks \subseteq {Head(todo)} \cup Tasks'
  BY <1>1, <1>3, <1>4, <1>5, Gives
<1> QED
  BY <1>1, <1>2, <1>6

(* A task asks for three.                                                   *)
LEMMA GivesThree ==
  ASSUME TaskInv, todo # <<>>, NEW a \in Task, NEW b \in Task, NEW c \in Task,
         Follows(a, b), Follows(b, c),
         InPlaceOf(c, Head(todo)), Allowed(a), Allowed(b), Allowed(c),
         todo' = <<a, b, c>> \o Tail(todo), UNCHANGED <<client, slots>>
  PROVE  /\ TaskInv' /\ todo' # <<>> /\ Head(todo') = a
         /\ Tasks' \subseteq {a, b, c} \cup Tasks /\ {a, b, c} \subseteq Tasks'
         /\ Tasks \subseteq {Head(todo)} \cup Tasks'
<1> DEFINE new == <<a, b, c>>
<1>1. /\ new \in Seq(Task) /\ new # <<>> /\ Len(new) = 3
      /\ new[1] = a /\ new[2] = b /\ new[3] = c
  OBVIOUS
<1>2. TasksOf(new) = {a, b, c}
  BY <1>1 DEF TasksOf
<1>3. todo' = new \o Tail(todo)
  OBVIOUS
<1> HIDE DEF new
<1>4. \A k \in 1 .. Len(new) - 1 : Follows(new[k], new[k + 1])
  BY <1>1
<1>5. InPlaceOf(new[Len(new)], Head(todo)) /\ \A k \in 1 .. Len(new) : Allowed(new[k])
  BY <1>1
<1>6. /\ TaskInv' /\ todo' # <<>> /\ Head(todo') = new[1]
      /\ Tasks' \subseteq TasksOf(new) \cup Tasks
      /\ TasksOf(new) \subseteq Tasks' /\ Tasks \subseteq {Head(todo)} \cup Tasks'
  BY <1>1, <1>3, <1>4, <1>5, Gives
<1> QED
  BY <1>1, <1>2, <1>6

(* A task asks for four.                                                    *)
LEMMA GivesFour ==
  ASSUME TaskInv, todo # <<>>, NEW a \in Task, NEW b \in Task, NEW c \in Task, NEW d \in Task,
         Follows(a, b), Follows(b, c), Follows(c, d),
         InPlaceOf(d, Head(todo)), Allowed(a), Allowed(b), Allowed(c), Allowed(d),
         todo' = <<a, b, c, d>> \o Tail(todo), UNCHANGED <<client, slots>>
  PROVE  /\ TaskInv' /\ todo' # <<>> /\ Head(todo') = a
         /\ Tasks' \subseteq {a, b, c, d} \cup Tasks /\ {a, b, c, d} \subseteq Tasks'
         /\ Tasks \subseteq {Head(todo)} \cup Tasks'
<1> DEFINE new == <<a, b, c, d>>
<1>1. /\ new \in Seq(Task) /\ new # <<>> /\ Len(new) = 4
      /\ new[1] = a /\ new[2] = b /\ new[3] = c /\ new[4] = d
  OBVIOUS
<1>2. TasksOf(new) = {a, b, c, d}
  BY <1>1 DEF TasksOf
<1>3. todo' = new \o Tail(todo)
  OBVIOUS
<1> HIDE DEF new
<1>4. \A k \in 1 .. Len(new) - 1 : Follows(new[k], new[k + 1])
  BY <1>1
<1>5. InPlaceOf(new[Len(new)], Head(todo)) /\ \A k \in 1 .. Len(new) : Allowed(new[k])
  BY <1>1
<1>6. /\ TaskInv' /\ todo' # <<>> /\ Head(todo') = new[1]
      /\ Tasks' \subseteq TasksOf(new) \cup Tasks
      /\ TasksOf(new) \subseteq Tasks' /\ Tasks \subseteq {Head(todo)} \cup Tasks'
  BY <1>1, <1>3, <1>4, <1>5, Gives
<1> QED
  BY <1>1, <1>2, <1>6

(* The tasks asked for, with the next of a loop after them.                 *)
LEMMA GivesAhead ==
  ASSUME TaskInv, todo # <<>>, NEW asked \in Seq(Task), NEW t \in Task,
         \A k \in 1 .. Len(asked) - 1 : Follows(asked[k], asked[k + 1]),
         asked # <<>> => Follows(asked[Len(asked)], t),
         InPlaceOf(t, Head(todo)), Allowed(t), \A k \in 1 .. Len(asked) : Allowed(asked[k]),
         todo' = (asked \o <<t>>) \o Tail(todo), UNCHANGED <<client, slots>>
  PROVE  /\ TaskInv' /\ todo' # <<>>
         /\ Head(todo') = IF asked = <<>> THEN t ELSE asked[1]
         /\ Tasks' \subseteq {t} \cup TasksOf(asked) \cup Tasks
         /\ {t} \cup TasksOf(asked) \subseteq Tasks' /\ Tasks \subseteq {Head(todo)} \cup Tasks'
<1> DEFINE new == asked \o <<t>>
<1>1. /\ new \in Seq(Task) /\ Len(asked) \in Nat /\ Len(new) = Len(asked) + 1
      /\ \A k \in 1 .. Len(asked) : new[k] = asked[k]
      /\ new[Len(asked) + 1] = t
  OBVIOUS
<1>2. asked # <<>> => Len(asked) >= 1
  <2>1. asked # <<>> => Len(asked) \in Nat \ {0}
    BY EmptySeq, Zenon
  <2> QED
    BY <2>1
<1>3. asked = <<>> => Len(asked) = 0
  OBVIOUS
<1>4. todo' = new \o Tail(todo)
  OBVIOUS
<1> HIDE DEF new
<1>5. new # <<>> /\ new[Len(new)] = t
  BY <1>1
<1>6. ASSUME NEW k \in 1 .. Len(new) - 1
      PROVE  Follows(new[k], new[k + 1])
  <2>1. k \in 1 .. Len(asked) /\ new[k] = asked[k]
    BY <1>1
  <2>2. CASE k = Len(asked)
    <3>1. asked # <<>>
      BY <1>3, <2>1
    <3> QED
      BY <1>1, <2>1, <2>2, <3>1
  <2>3. CASE k # Len(asked)
    <3>1. k \in 1 .. Len(asked) - 1 /\ k + 1 \in 1 .. Len(asked)
      BY <1>1, <2>1, <2>3
    <3>2. new[k + 1] = asked[k + 1]
      BY <1>1, <3>1
    <3> QED
      BY <2>1, <3>1, <3>2
  <2> QED
    BY <2>2, <2>3
<1>7. \A k \in 1 .. Len(new) : Allowed(new[k])
  BY <1>1
<1>8. TasksOf(new) = {t} \cup TasksOf(asked)
  <2>1. \A k \in 1 .. Len(new) : new[k] \in {t} \cup TasksOf(asked)
    BY <1>1 DEF TasksOf
  <2>2. \A k \in 1 .. Len(asked) : asked[k] \in TasksOf(new)
    BY <1>1 DEF TasksOf
  <2>3. t \in TasksOf(new)
    BY <1>1 DEF TasksOf
  <2> QED
    BY <2>1, <2>2, <2>3 DEF TasksOf
<1>9. /\ TaskInv' /\ todo' # <<>> /\ Head(todo') = new[1]
      /\ Tasks' \subseteq TasksOf(new) \cup Tasks
      /\ TasksOf(new) \subseteq Tasks' /\ Tasks \subseteq {Head(todo)} \cup Tasks'
  BY <1>1, <1>4, <1>5, <1>6, <1>7, Gives
<1>10. new[1] = IF asked = <<>> THEN t ELSE asked[1]
  BY <1>1, <1>2, <1>3
<1> QED
  BY <1>8, <1>9, <1>10

(* A loop goes on with nothing ahead of it.                                 *)
LEMMA AheadNone ==
  ASSUME TaskInv, todo # <<>>, NEW t \in Task, InPlaceOf(t, Head(todo)), Allowed(t),
         todo' = (<<>> \o <<t>>) \o Tail(todo), UNCHANGED <<client, slots>>
  PROVE  /\ TaskInv' /\ todo' # <<>> /\ Head(todo') = t
         /\ Tasks' \subseteq {t} \cup Tasks /\ t \in Tasks' /\ Tasks \subseteq {Head(todo)} \cup Tasks'
<1> DEFINE asked == <<>>
<1>1. asked \in Seq(Task) /\ asked = <<>> /\ Len(asked) = 0
  OBVIOUS
<1>2. todo' = (asked \o <<t>>) \o Tail(todo)
  OBVIOUS
<1> HIDE DEF asked
<1>3. TasksOf(asked) = {}
  BY <1>1 DEF TasksOf
<1>4. /\ \A k \in 1 .. Len(asked) - 1 : Follows(asked[k], asked[k + 1])
      /\ asked # <<>> => Follows(asked[Len(asked)], t)
      /\ \A k \in 1 .. Len(asked) : Allowed(asked[k])
  BY <1>1
<1>5. /\ TaskInv' /\ todo' # <<>>
      /\ Head(todo') = IF asked = <<>> THEN t ELSE asked[1]
      /\ Tasks' \subseteq {t} \cup TasksOf(asked) \cup Tasks
      /\ {t} \cup TasksOf(asked) \subseteq Tasks' /\ Tasks \subseteq {Head(todo)} \cup Tasks'
  BY <1>1, <1>2, <1>4, GivesAhead
<1> QED
  BY <1>1, <1>3, <1>5

(* A loop goes on after one task.                                           *)
LEMMA AheadOne ==
  ASSUME TaskInv, todo # <<>>, NEW a \in Task, NEW t \in Task, Follows(a, t),
         InPlaceOf(t, Head(todo)), Allowed(a), Allowed(t),
         todo' = (<<a>> \o <<t>>) \o Tail(todo), UNCHANGED <<client, slots>>
  PROVE  /\ TaskInv' /\ todo' # <<>> /\ Head(todo') = a
         /\ Tasks' \subseteq {a, t} \cup Tasks /\ {a, t} \subseteq Tasks'
         /\ Tasks \subseteq {Head(todo)} \cup Tasks'
<1> DEFINE asked == <<a>>
<1>1. asked \in Seq(Task) /\ asked # <<>> /\ Len(asked) = 1 /\ asked[1] = a
  OBVIOUS
<1>2. todo' = (asked \o <<t>>) \o Tail(todo)
  OBVIOUS
<1> HIDE DEF asked
<1>3. TasksOf(asked) = {a}
  BY <1>1 DEF TasksOf
<1>4. /\ \A k \in 1 .. Len(asked) - 1 : Follows(asked[k], asked[k + 1])
      /\ asked # <<>> => Follows(asked[Len(asked)], t)
      /\ \A k \in 1 .. Len(asked) : Allowed(asked[k])
  BY <1>1
<1>5. /\ TaskInv' /\ todo' # <<>>
      /\ Head(todo') = IF asked = <<>> THEN t ELSE asked[1]
      /\ Tasks' \subseteq {t} \cup TasksOf(asked) \cup Tasks
      /\ {t} \cup TasksOf(asked) \subseteq Tasks' /\ Tasks \subseteq {Head(todo)} \cup Tasks'
  BY <1>1, <1>2, <1>4, GivesAhead
<1> QED
  BY <1>1, <1>3, <1>5

(* A loop goes on after two tasks.                                          *)
LEMMA AheadTwo ==
  ASSUME TaskInv, todo # <<>>, NEW a \in Task, NEW b \in Task, NEW t \in Task,
         Follows(a, b), Follows(b, t),
         InPlaceOf(t, Head(todo)), Allowed(a), Allowed(b), Allowed(t),
         todo' = (<<a, b>> \o <<t>>) \o Tail(todo), UNCHANGED <<client, slots>>
  PROVE  /\ TaskInv' /\ todo' # <<>> /\ Head(todo') = a
         /\ Tasks' \subseteq {a, b, t} \cup Tasks /\ {a, b, t} \subseteq Tasks'
         /\ Tasks \subseteq {Head(todo)} \cup Tasks'
<1> DEFINE asked == <<a, b>>
<1>1. asked \in Seq(Task) /\ asked # <<>> /\ Len(asked) = 2 /\ asked[1] = a /\ asked[2] = b
  OBVIOUS
<1>2. todo' = (asked \o <<t>>) \o Tail(todo)
  OBVIOUS
<1> HIDE DEF asked
<1>3. TasksOf(asked) = {a, b}
  BY <1>1 DEF TasksOf
<1>4. /\ \A k \in 1 .. Len(asked) - 1 : Follows(asked[k], asked[k + 1])
      /\ asked # <<>> => Follows(asked[Len(asked)], t)
      /\ \A k \in 1 .. Len(asked) : Allowed(asked[k])
  BY <1>1
<1>5. /\ TaskInv' /\ todo' # <<>>
      /\ Head(todo') = IF asked = <<>> THEN t ELSE asked[1]
      /\ Tasks' \subseteq {t} \cup TasksOf(asked) \cup Tasks
      /\ {t} \cup TasksOf(asked) \subseteq Tasks' /\ Tasks \subseteq {Head(todo)} \cup Tasks'
  BY <1>1, <1>2, <1>4, GivesAhead
<1> QED
  BY <1>1, <1>3, <1>5

(* A loop goes on after three tasks.                                        *)
LEMMA AheadThree ==
  ASSUME TaskInv, todo # <<>>, NEW a \in Task, NEW b \in Task, NEW c \in Task, NEW t \in Task,
         Follows(a, b), Follows(b, c), Follows(c, t),
         InPlaceOf(t, Head(todo)), Allowed(a), Allowed(b), Allowed(c), Allowed(t),
         todo' = (<<a, b, c>> \o <<t>>) \o Tail(todo), UNCHANGED <<client, slots>>
  PROVE  /\ TaskInv' /\ todo' # <<>> /\ Head(todo') = a
         /\ Tasks' \subseteq {a, b, c, t} \cup Tasks /\ {a, b, c, t} \subseteq Tasks'
         /\ Tasks \subseteq {Head(todo)} \cup Tasks'
<1> DEFINE asked == <<a, b, c>>
<1>1. /\ asked \in Seq(Task) /\ asked # <<>> /\ Len(asked) = 3
      /\ asked[1] = a /\ asked[2] = b /\ asked[3] = c
  OBVIOUS
<1>2. todo' = (asked \o <<t>>) \o Tail(todo)
  OBVIOUS
<1> HIDE DEF asked
<1>3. TasksOf(asked) = {a, b, c}
  BY <1>1 DEF TasksOf
<1>4. /\ \A k \in 1 .. Len(asked) - 1 : Follows(asked[k], asked[k + 1])
      /\ asked # <<>> => Follows(asked[Len(asked)], t)
      /\ \A k \in 1 .. Len(asked) : Allowed(asked[k])
  BY <1>1
<1>5. /\ TaskInv' /\ todo' # <<>>
      /\ Head(todo') = IF asked = <<>> THEN t ELSE asked[1]
      /\ Tasks' \subseteq {t} \cup TasksOf(asked) \cup Tasks
      /\ {t} \cup TasksOf(asked) \subseteq Tasks' /\ Tasks \subseteq {Head(todo)} \cup Tasks'
  BY <1>1, <1>2, <1>4, GivesAhead
<1> QED
  BY <1>1, <1>3, <1>5

(* The deadline of the call passes.                                         *)
LEMMA TimePassesKeeps ==
  ASSUME WindowsInv, TimePasses
  PROVE  WindowsInv'
<1>1. /\ PipesStand /\ expired' = TRUE
      /\ UNCHANGED <<terminated, status, lastErrno, todo, pumped, timeout, last>>
      /\ UNCHANGED <<slots, waiting, ioFailed, group, next, spawnFailed, timedOut, waitFailed>>
  BY DEF TimePasses, PipesStand, childVars, pipeVars, handleVars, startVars, stdinVars,
         outputVars, waitVars, runVars
<1>2. /\ Tasks' = Tasks /\ (Runs' <=> Runs) /\ (InRun' <=> InRun)
      /\ Running' = Running /\ Spawned' = Spawned
  BY <1>1 DEF Tasks, TasksOf, Runs, InRun, Running, Spawned, PipesStand
<1>3. TypeOK'
  BY <1>1 DEF WindowsInv, TypeOK, PipesStand
<1>4. TaskInv'
  BY <1>1, <1>2 DEF WindowsInv, TaskInv, Chain, Allowed
<1>5. StartInv' /\ InputInv' /\ OutputInv' /\ ReadInv' /\ WriteInv'
  BY <1>1, <1>2 DEF WindowsInv, StartInv, Fresh, InputInv, InputOf, Sent, OutputInv, OutputOf,
                    ReadInv, WriteInv, Doing, PipesStand
<1>6. CallInv' /\ WaitInv'
  BY <1>1, <1>2 DEF WindowsInv, CallInv, NoLocals, Doing, WaitInv, PipesStand
<1>7. DrainInv' /\ DrainHarvested'
  BY <1>1, <1>2 DEF WindowsInv, DrainInv, DrainHarvested, Finalizing, PipesStand
<1>8. RunInv'
  <2>1. RunInv
    BY DEF WindowsInv
  <2> QED
    BY <1>1, <1>2, <2>1 DEF RunInv, PipesStand
<1>9. ResultInv'
  <2>1. ResultInv
    BY DEF WindowsInv
  <2> QED
    BY <1>1, <1>2, <2>1 DEF ResultInv, OutputComplete, ReturnContract, PipesStand
<1> QED
  BY <1>3, <1>4, <1>5, <1>6, <1>7, <1>8, <1>9 DEF WindowsInv

(* The finalizer of pending reads, whichever way it goes.                   *)
Finalized(p) ==
  /\ todo # <<>> /\ Head(todo)[1] \in {"finalize", "settle"} /\ todo' # <<>>
  /\ Head(todo')[1] \notin {"release", "write", "read", "readMore"}
  /\ \A t \in Tasks' : t \in Tasks \/ t[1] \in PumpNames
  /\ \A t \in Tasks : t \in Tasks' \/ t \in {<<"finalize", p>>, <<"settle", p>>}
  /\ Finalizing(p)' \/ lastErrno[p] \/ ~readOpen[p]
  /\ \A q \in Procs :
       \A name \in {"settle", "primed", "drained", "reported", "noted", "harvested"} :
         Doing(name, q)' /\ pumped' = "IO_FAILED" => lastErrno[q]
  /\ pumped' \in {"SUCCESS", "IO_FAILED"} /\ PipesStand
  /\ UNCHANGED <<terminated, status, lastErrno, timeout, expired>>
  /\ UNCHANGED <<slots, waiting, ioFailed, group>>
  /\ UNCHANGED <<next, spawnFailed, timedOut, waitFailed, last>>

(* A step of the finalizer moves no pipe and forgets no read.               *)
LEMMA FinalizedKeeps ==
  ASSUME WindowsInv, NEW p \in Procs, Finalized(p), TaskInv'
  PROVE  WindowsInv'
<1>1. TypeOK'
  BY DEF WindowsInv, TypeOK, Finalized, PipesStand
<1>2. StartInv'
  <2>1. StartInv /\ PipesStand /\ UNCHANGED <<status, waitFailed>>
    BY DEF WindowsInv, Finalized
  <2> QED
    BY <2>1, StartKeeps DEF StatusStep
<1>3. WriteInv' /\ ReadInv' /\ InputInv' /\ OutputInv'
  <2>1. PipesStand /\ NotPumping /\ lastErrno' = lastErrno
    BY DEF Finalized, NotPumping
  <2> QED
    BY <2>1, PipesKeep
<1>4. CallInv'
  <2>1. CallInv
    BY DEF WindowsInv
  <2> QED
    BY <2>1 DEF CallInv, Finalized, PipesStand, Runs
<1>5. WaitInv'
  <2>1. WaitInv
    BY DEF WindowsInv
  <2>2. \A q \in Procs : <<"reported", q>> \in Tasks <=> <<"reported", q>> \in Tasks'
    BY DEF Finalized, PumpNames
  <2>3. waiting \subseteq Procs
    BY DEF WindowsInv, TypeOK
  <2> QED
    BY <2>1, <2>2, <2>3 DEF WaitInv, Finalized, PipesStand
<1>6. \A q \in Procs : Finalizing(q) => Finalizing(q)' \/ lastErrno[q] \/ ~readOpen[q]
  BY DEF Finalizing, Finalized
<1>7. DrainInv'
  <2>1. DrainInv
    BY DEF WindowsInv
  <2>2. \A j : <<"prime", j>> \in Tasks => <<"prime", j>> \in Tasks'
    BY DEF Finalized
  <2> QED
    BY <1>6, <2>1, <2>2 DEF DrainInv, Finalized, PipesStand, Runs
<1>8. DrainHarvested'
  <2>1. \A q \in Procs : <<"harvested", q>> \in Tasks' => <<"harvested", q>> \in Tasks
    BY DEF Finalized, PumpNames
  <2> QED
    BY <1>6, <2>1 DEF WindowsInv, DrainHarvested, Finalized, PipesStand
<1>9. RunInv'
  <2>1. \A j : /\ <<"harvest", j>> \in Tasks' <=> <<"harvest", j>> \in Tasks
               /\ <<"harvested", j>> \in Tasks' <=> <<"harvested", j>> \in Tasks
               /\ <<"end", j>> \in Tasks' <=> <<"end", j>> \in Tasks
               /\ <<"teardown", j>> \in Tasks' <=> <<"teardown", j>> \in Tasks
               /\ <<"terminate", j>> \in Tasks' <=> <<"terminate", j>> \in Tasks
    BY DEF Finalized, PumpNames
  <2>2. InRun' => InRun
    BY DEF InRun, Runs, Finalized, PipesStand
  <2>3. UNCHANGED <<os, valid, status, processOpen, spawnFailed, next, timedOut, waitFailed>>
    BY DEF Finalized, PipesStand
  <2>4. Running' = Running /\ Spawned' = Spawned
    BY <2>3 DEF Running, Spawned
  <2>5. RunInv
    BY DEF WindowsInv
  <2> QED
    BY <2>1, <2>2, <2>3, <2>4, <2>5 DEF RunInv
<1>10. ResultInv'
  BY NoCallResult DEF WindowsInv, CallInv, Finalized
<1> QED
  BY <1>1, <1>2, <1>3, <1>4, <1>5, <1>7, <1>8, <1>9, <1>10 DEF WindowsInv

(* The finalizer pumps again, or is done.                                   *)
LEMMA FinalizeKeeps ==
  ASSUME WindowsArguments, WindowsInv, NEW p \in Procs, Finalize(p)
  PROVE  WindowsInv'
<1>1. /\ todo # <<>> /\ Head(todo) = <<"finalize", p>> /\ PipesStand
      /\ IF readOpen[p] THEN todo' = <<<<"pumpOutput", p>>, <<"settle", p>>>> \o Tail(todo)
                             /\ pumped' = pumped
         ELSE todo' = <<>> \o Tail(todo) /\ pumped' = "SUCCESS"
      /\ UNCHANGED <<terminated, status, lastErrno, timeout, expired>>
      /\ UNCHANGED <<slots, waiting, ioFailed, group>>
      /\ UNCHANGED <<next, spawnFailed, timedOut, waitFailed, last>>
  BY DEF Finalize, At, Then, PipesStand, childVars, pipeVars, handleVars, startVars, stdinVars,
         outputVars, waitVars, runVars
<1>2. TaskInv /\ client' = client /\ pumped \in {"SUCCESS", "IO_FAILED"}
  BY <1>1 DEF WindowsInv, PipesStand, TypeOK
<1>3. CASE readOpen[p]
  <2>1. <<"pumpOutput", p>> \in Task /\ <<"settle", p>> \in Task
    BY DEF Task, PumpNames, Procs, WindowsArguments
  <2>2. Follows(<<"pumpOutput", p>>, <<"settle", p>>) /\ InPlaceOf(<<"settle", p>>, Head(todo))
    BY <1>1 DEF Follows, InPlaceOf, Bottom
  <2>3. Allowed(<<"pumpOutput", p>>) /\ Allowed(<<"settle", p>>)
    BY DEF Allowed, RunNames, BackgroundNames
  <2>4. /\ TaskInv' /\ todo' # <<>> /\ Head(todo') = <<"pumpOutput", p>>
        /\ Tasks' \subseteq {<<"pumpOutput", p>>, <<"settle", p>>} \cup Tasks
        /\ <<"settle", p>> \in Tasks' /\ Tasks \subseteq {<<"finalize", p>>} \cup Tasks'
    BY <1>1, <1>2, <1>3, <2>1, <2>2, <2>3, GivesTwo
  <2>5. Finalized(p)
    BY <1>1, <1>2, <1>3, <2>4 DEF Finalized, Finalizing, PumpNames, Doing
  <2> QED
    BY <2>4, <2>5, FinalizedKeeps
<1>4. CASE ~readOpen[p]
  <2>1. /\ TaskInv' /\ Tasks' \subseteq Tasks /\ Tasks \subseteq {<<"finalize", p>>} \cup Tasks'
        /\ IF todo' = <<>> THEN Bottom(<<"finalize", p>>) ELSE Follows(<<"finalize", p>>, Head(todo'))
    BY <1>1, <1>2, <1>4, GivesWay
  <2>2. todo' # <<>> /\ Head(todo')[1] \in {"primed", "reported", "noted", "harvested"}
    BY <2>1 DEF Bottom, Follows
  <2>3. Finalized(p)
    BY <1>1, <1>2, <1>4, <2>1, <2>2 DEF Finalized
  <2> QED
    BY <2>1, <2>3, FinalizedKeeps
<1> QED
  BY <1>3, <1>4

(* The finalizer has waited for the read it left pending.                   *)
LEMMA SettleKeeps ==
  ASSUME WindowsArguments, WindowsInv, NEW p \in Procs, Settle(p)
  PROVE  WindowsInv'
<1>1. /\ todo # <<>> /\ Head(todo) = <<"settle", p>> /\ PipesStand
      /\ IF pumped = "IO_FAILED" \/ ~readOpen[p] THEN todo' = <<>> \o Tail(todo)
         ELSE todo' = <<<<"finalize", p>>>> \o Tail(todo)
      /\ UNCHANGED <<terminated, status, lastErrno, pumped, timeout, expired>>
      /\ UNCHANGED <<slots, waiting, ioFailed, group>>
      /\ UNCHANGED <<next, spawnFailed, timedOut, waitFailed, last>>
  BY DEF Settle, At, Then, TaskOnly, PipesStand, childVars, pipeVars, handleVars, startVars,
         stdinVars, outputVars, callVars, waitVars, runVars
<1>2. TaskInv /\ client' = client /\ pumped \in {"SUCCESS", "IO_FAILED"}
  BY <1>1 DEF WindowsInv, PipesStand, TypeOK
<1>3. CASE pumped = "IO_FAILED" \/ ~readOpen[p]
  <2>1. /\ TaskInv' /\ Tasks' \subseteq Tasks /\ Tasks \subseteq {<<"settle", p>>} \cup Tasks'
        /\ IF todo' = <<>> THEN Bottom(<<"settle", p>>) ELSE Follows(<<"settle", p>>, Head(todo'))
    BY <1>1, <1>2, <1>3, GivesWay
  <2>2. /\ todo' # <<>> /\ Head(todo')[1] \in {"primed", "reported", "noted", "harvested"}
        /\ Head(todo')[2] = p
    BY <2>1 DEF Bottom, Follows
  <2>3. pumped = "IO_FAILED" => lastErrno[p]
    BY <1>1 DEF WindowsInv, CallInv, Doing
  <2>4. \A q \in Procs :
          \A name \in {"settle", "primed", "drained", "reported", "noted", "harvested"} :
            Doing(name, q)' => q = p
    BY <2>2 DEF Doing
  <2>5. Finalized(p)
    BY <1>1, <1>2, <1>3, <2>1, <2>2, <2>3, <2>4 DEF Finalized
  <2> QED
    BY <2>1, <2>5, FinalizedKeeps
<1>4. CASE ~(pumped = "IO_FAILED" \/ ~readOpen[p])
  <2>1. <<"finalize", p>> \in Task
    BY DEF Task, PumpNames, Procs, WindowsArguments
  <2>2. InPlaceOf(<<"finalize", p>>, Head(todo)) /\ Allowed(<<"finalize", p>>)
    BY <1>1 DEF Follows, InPlaceOf, Bottom, Allowed, RunNames, BackgroundNames
  <2>3. /\ TaskInv' /\ todo' # <<>> /\ Head(todo') = <<"finalize", p>>
        /\ Tasks' \subseteq {<<"finalize", p>>} \cup Tasks
        /\ <<"finalize", p>> \in Tasks' /\ Tasks \subseteq {<<"settle", p>>} \cup Tasks'
    BY <1>1, <1>2, <1>4, <2>1, <2>2, GivesOne
  <2>4. Finalized(p)
    BY <1>1, <1>2, <1>4, <2>3 DEF Finalized, Finalizing, PumpNames, Doing
  <2> QED
    BY <2>3, <2>4, FinalizedKeeps
<1> QED
  BY <1>3, <1>4

-----------------------------------------------------------------------------
(* The calls on one handle.                                                 *)
LEMMA BeginsOne ==
  ASSUME NEW a \in Task, Bottom(a), Allowed(a)', todo' = <<a>>
  PROVE  TaskInv' /\ todo' # <<>> /\ Head(todo') = a /\ Tasks' = {a}
<1>1. todo' \in Seq(Task) /\ todo' # <<>> /\ Len(todo') = 1 /\ todo'[1] = a /\ Head(todo') = a
  OBVIOUS
<1>2. Tasks' = {a}
  BY <1>1 DEF Tasks, TasksOf
<1>3. Chain(todo')
  BY <1>1 DEF Chain
<1> QED
  BY <1>1, <1>2, <1>3 DEF TaskInv

(* A call that begins with two tasks.                                       *)
LEMMA BeginsTwo ==
  ASSUME NEW a \in Task, NEW b \in Task, Follows(a, b), Bottom(b), Allowed(a)', Allowed(b)',
         todo' = <<a, b>>
  PROVE  TaskInv' /\ todo' # <<>> /\ Head(todo') = a /\ Tasks' = {a, b}
<1>1. /\ todo' \in Seq(Task) /\ todo' # <<>> /\ Len(todo') = 2
      /\ todo'[1] = a /\ todo'[2] = b /\ Head(todo') = a
  OBVIOUS
<1>2. Tasks' = {a, b}
  BY <1>1 DEF Tasks, TasksOf
<1>3. Chain(todo')
  BY <1>1 DEF Chain
<1> QED
  BY <1>1, <1>2, <1>3 DEF TaskInv

(* A call on a handle in the background has begun.                          *)
LEMMA BackgroundCall ==
  ASSUME TaskInv', todo' # <<>>, Head(todo')[1] # "release", ~Runs',
         slots' = {}, waiting' = {}, ioFailed' = {}, last' = NoCall, pumped' = "SUCCESS",
         \A q \in Procs : <<"reported", q>> \notin Tasks'
  PROVE  CallInv' /\ WaitInv' /\ DrainInv' /\ DrainHarvested' /\ RunInv' /\ ResultInv'
<1>1. CallInv'
  BY DEF CallInv
<1>2. WaitInv'
  BY DEF WaitInv
<1>3. DrainInv'
  BY DEF DrainInv
<1> QED
  BY <1>1, <1>2, <1>3, WithoutRun, NoCallResult

(* A process is launched, for the background or in a run.                   *)
LEMMA LaunchKeeps ==
  ASSUME WindowsInv, NEW p \in Procs, valid[p], status[p] = "NOT_STARTED",
         Launched(p), LaunchStands, NotPumping, UNCHANGED <<lastErrno, waitFailed>>,
         background' = background \/ (~Runs /\ background' = [background EXCEPT ![p] = TRUE])
  PROVE  /\ os' \in [Procs -> {"none", "running", "gone"}]
         /\ status' \in [Procs -> {"NOT_STARTED", "RUNNING", "FAILED_TO_START"} \cup Terminal]
         /\ {sawEof', valid', background', processOpen', stdinOpen', readOpen', writePending',
             readPending', lastErrno'} \subseteq [Procs -> BOOLEAN]
         /\ StartInv' /\ WriteInv' /\ ReadInv' /\ InputInv' /\ OutputInv'
<1>1. /\ valid[p] /\ status[p] = "NOT_STARTED"
      /\ os' = [os EXCEPT ![p] = "running"]
      /\ status' = [status EXCEPT ![p] = "RUNNING"]
      /\ processOpen' = [processOpen EXCEPT ![p] = TRUE]
      /\ stdinOpen' = [stdinOpen EXCEPT ![p] = p \in client.feeds]
      /\ readOpen' = [readOpen EXCEPT ![p] = p \in client.captures]
      /\ UNCHANGED <<client, terminated, inPipe, received, sawEof, outPipe, produced, writeOp, readOp>>
      /\ UNCHANGED <<valid, writePending, offset, inCap, readPending, sunk, outCap, lastErrno>>
  BY DEF Launched, LaunchStands, pipeVars
<1>2. /\ os \in [Procs -> {"none", "running", "gone"}]
      /\ status \in [Procs -> {"NOT_STARTED", "RUNNING", "FAILED_TO_START"} \cup Terminal]
      /\ processOpen \in [Procs -> BOOLEAN] /\ stdinOpen \in [Procs -> BOOLEAN]
      /\ readOpen \in [Procs -> BOOLEAN] /\ background \in [Procs -> BOOLEAN]
  BY DEF WindowsInv, TypeOK
<1>3. Fresh(p)
  BY <1>1 DEF WindowsInv, StartInv
<1>4. /\ os' \in [Procs -> {"none", "running", "gone"}]
      /\ status' \in [Procs -> {"NOT_STARTED", "RUNNING", "FAILED_TO_START"} \cup Terminal]
      /\ {sawEof', valid', background', processOpen', stdinOpen', readOpen', writePending',
          readPending', lastErrno'} \subseteq [Procs -> BOOLEAN]
  <2>1. os' \in [Procs -> {"none", "running", "gone"}]
    BY <1>1, <1>2
  <2>2. status' \in [Procs -> {"NOT_STARTED", "RUNNING", "FAILED_TO_START"} \cup Terminal]
    BY <1>1, <1>2
  <2>3. processOpen' \in [Procs -> BOOLEAN] /\ background' \in [Procs -> BOOLEAN]
    BY <1>1, <1>2
  <2>4. stdinOpen' \in [Procs -> BOOLEAN]
    BY <1>1, <1>2
  <2>5. readOpen' \in [Procs -> BOOLEAN]
    BY <1>1, <1>2
  <2>6. /\ sawEof' \in [Procs -> BOOLEAN] /\ valid' \in [Procs -> BOOLEAN]
        /\ writePending' \in [Procs -> BOOLEAN] /\ readPending' \in [Procs -> BOOLEAN]
        /\ lastErrno' \in [Procs -> BOOLEAN]
    BY <1>1 DEF WindowsInv, TypeOK
  <2> QED
    BY <2>1, <2>2, <2>3, <2>4, <2>5, <2>6
<1>5. \A q \in Procs \ {p} :
        /\ os'[q] = os[q] /\ status'[q] = status[q] /\ processOpen'[q] = processOpen[q]
        /\ stdinOpen'[q] = stdinOpen[q] /\ readOpen'[q] = readOpen[q]
        /\ background'[q] = background[q]
  BY <1>1, <1>2
<1>6. /\ os'[p] = "running" /\ status'[p] = "RUNNING" /\ processOpen'[p]
      /\ stdinOpen'[p] <=> p \in client.feeds
  BY <1>1, <1>2
<1>7. StartInv'
  <2> SUFFICES ASSUME NEW q \in Procs
               PROVE  /\ os'[q] = "none" => Fresh(q)'
                      /\ os'[q] = "none" <=> status'[q] \in {"NOT_STARTED", "FAILED_TO_START"}
                      /\ status'[q] = "EXITED" => os'[q] = "gone"
                      /\ status'[q] \in Terminal /\ os'[q] = "running"
                         => Runs' /\ (waitFailed' \/ ~processOpen'[q])
                      /\ background'[q] => ~Runs' /\ valid'[q] /\ processOpen'[q]
                      /\ ~valid'[q] => /\ ~stdinOpen'[q] /\ ~readOpen'[q] /\ ~processOpen'[q]
                                       /\ inCap'[q] = 0 /\ outCap'[q] = 0
    BY DEF StartInv
  <2>1. CASE q = p
    <3>1. background'[p] => ~Runs
      BY <1>2 DEF WindowsInv, StartInv
    <3> QED
      BY <1>1, <1>6, <2>1, <3>1 DEF Terminal, Runs
  <2>2. CASE q # p
    BY <1>1, <1>5, <2>2 DEF WindowsInv, StartInv, Fresh, Runs
  <2> QED
    BY <2>1, <2>2
<1>8. WriteInv' /\ ReadInv'
  <2>1. \A q \in Procs : ~Doing("write", q)' /\ ~Doing("read", q)' /\ ~Doing("readMore", q)'
    BY DEF Doing, NotPumping
  <2> SUFFICES ASSUME NEW q \in Procs
               PROVE  /\ (writeOp[q].st \in InFlight /\ ~writePending[q])' =>
                           (writeOp[q].st = "cancelled" /\ ~background[q])'
                      /\ (stdinOpen[q] /\ ~writePending[q])' => (writeOp[q] = NoWrite)'
                      /\ (readOp[q].st \in InFlight /\ ~readPending[q])' =>
                           (readOp[q].st = "cancelled" /\ ~background[q])'
                      /\ (readOpen[q] /\ ~readPending[q])' => (readOp[q] = NoRead)'
    BY <2>1 DEF WriteInv, ReadInv
  <2>2. CASE q = p
    BY <1>1, <1>3, <2>2 DEF Fresh, NoWrite, NoRead, InFlight
  <2>3. CASE q # p
    BY <1>1, <1>5, <2>3 DEF WindowsInv, WriteInv, ReadInv
  <2> QED
    BY <2>2, <2>3
<1>9. InputInv'
  <2> SUFFICES ASSUME NEW q \in Procs PROVE InputOf(q)'
    BY DEF InputInv
  <2>1. InputOf(q)
    BY DEF WindowsInv, InputInv
  <2>2. CASE q = p
    <3>1. /\ writeOp[p].st = "none" /\ writeOp[p].len = 0 /\ writeOp[p].left = 0
          /\ received[p] = 0 /\ inPipe[p] = 0 /\ offset[p] = 0 /\ ~sawEof[p]
      BY <1>3 DEF Fresh, NoWrite
    <3> QED
      BY <1>1, <1>6, <2>1, <2>2, <3>1 DEF InputOf, Sent, InFlight
  <2>3. CASE q # p
    BY <1>1, <1>5, <2>1, <2>3 DEF InputOf, Sent
  <2> QED
    BY <2>2, <2>3
<1>10. OutputInv'
  <2> SUFFICES ASSUME NEW q \in Procs PROVE OutputOf(q)'
    BY DEF OutputInv
  <2>1. OutputOf(q)
    BY DEF WindowsInv, OutputInv
  <2>2. CASE q = p
    <3>1. readOp[p].st = "none" /\ readOp[p].got = 0 /\ outPipe[p] = 0
      BY <1>3 DEF Fresh, NoRead
    <3> QED
      BY <1>1, <1>6, <2>1, <2>2, <3>1 DEF OutputOf, InFlight
  <2>3. CASE q # p
    BY <1>1, <1>5, <2>1, <2>3 DEF OutputOf
  <2> QED
    BY <2>2, <2>3
<1> QED
  BY <1>4, <1>7, <1>8, <1>9, <1>10

(* A handle is started in the background.                                   *)
LEMMA StartCallKeeps ==
  ASSUME WindowsInv, NEW p \in Procs, ~Runs, Start(p)
  PROVE  WindowsInv'
<1>1. /\ todo = <<>> /\ todo' = <<>> /\ valid[p] /\ status[p] = "NOT_STARTED"
      /\ Launched(p) /\ LaunchStands
      /\ background' = [background EXCEPT ![p] = TRUE]
      /\ last' = [op |-> "start", on |-> {p}, result |-> "SUCCESS"]
      /\ UNCHANGED <<lastErrno, pumped, timeout, expired, slots, waiting, ioFailed, group>>
      /\ UNCHANGED <<next, spawnFailed, timedOut, waitFailed>>
  BY DEF Start, Returns, callVars, waitVars, runVars
<1>2. /\ os' \in [Procs -> {"none", "running", "gone"}]
      /\ status' \in [Procs -> {"NOT_STARTED", "RUNNING", "FAILED_TO_START"} \cup Terminal]
      /\ {sawEof', valid', background', processOpen', stdinOpen', readOpen', writePending',
          readPending', lastErrno'} \subseteq [Procs -> BOOLEAN]
      /\ StartInv' /\ WriteInv' /\ ReadInv' /\ InputInv' /\ OutputInv'
  BY <1>1, LaunchKeeps DEF NotPumping
<1>3. TypeOK'
  <2>1. UNCHANGED <<client, terminated, inPipe, received, outPipe, produced, writeOp, readOp,
                    offset, inCap, sunk, outCap>>
    BY <1>1 DEF LaunchStands, pipeVars
  <2> QED
    BY <1>1, <1>2, <2>1 DEF WindowsInv, TypeOK
<1>4. TaskInv' /\ CallInv' /\ WaitInv' /\ DrainInv' /\ DrainHarvested' /\ RunInv'
  <2>1. NoLocals' /\ client' = client
    BY <1>1 DEF WindowsInv, CallInv, NoLocals, LaunchStands
  <2> QED
    BY <1>1, <2>1, Idle
<1>5. ResultInv'
  BY <1>1 DEF ResultInv, OutputComplete, ReturnContract
<1> QED
  BY <1>2, <1>3, <1>4, <1>5 DEF WindowsInv

(* A handle fails to start.                                                 *)
LEMMA StartFailsKeeps ==
  ASSUME WindowsInv, NEW p \in Procs, ~Runs, StartFails(p)
  PROVE  WindowsInv'
<1>1. /\ todo = <<>> /\ todo' = <<>> /\ status[p] = "NOT_STARTED" /\ PipesStand
      /\ status' = [status EXCEPT ![p] = "FAILED_TO_START"]
      /\ last' = [op |-> "start", on |-> {p}, result |-> "START_FAILED"]
      /\ UNCHANGED <<terminated, lastErrno, pumped, timeout, expired>>
      /\ UNCHANGED <<slots, waiting, ioFailed, group>>
      /\ UNCHANGED <<next, spawnFailed, timedOut, waitFailed>>
  BY DEF StartFails, Returns, PipesStand, childVars, pipeVars, stdinVars, outputVars, callVars,
         waitVars, runVars
<1>2. status \in [Procs -> {"NOT_STARTED", "RUNNING", "FAILED_TO_START"} \cup Terminal]
  BY DEF WindowsInv, TypeOK
<1>3. TypeOK'
  <2>1. status' \in [Procs -> {"NOT_STARTED", "RUNNING", "FAILED_TO_START"} \cup Terminal]
    BY <1>1, <1>2
  <2> QED
    BY <1>1, <2>1 DEF WindowsInv, TypeOK, PipesStand
<1>4. StartInv' /\ WriteInv' /\ ReadInv' /\ InputInv' /\ OutputInv'
  <2>1. StartInv /\ NotPumping /\ \A q \in Procs : StatusStep(q)
    BY <1>1, <1>2 DEF WindowsInv, NotPumping, StatusStep
  <2> QED
    BY <1>1, <2>1, StartKeeps, PipesKeep
<1>5. TaskInv' /\ CallInv' /\ WaitInv' /\ DrainInv' /\ DrainHarvested' /\ RunInv'
  <2>1. NoLocals' /\ client' = client
    BY <1>1 DEF WindowsInv, CallInv, NoLocals, PipesStand
  <2> QED
    BY <1>1, <2>1, Idle
<1> QED
  BY <1>1, <1>3, <1>4, <1>5, OtherResult DEF WindowsInv

(* send_stdin and receive_output begin.                                     *)
LEMMA PumpBeginsKeeps ==
  ASSUME WindowsArguments, WindowsInv, NEW p \in Procs, NEW op \in DOMAIN Pumping,
         PumpBegins(op, p)
  PROVE  WindowsInv'
<1>1. /\ todo = <<>> /\ background[p] /\ PipesStand /\ last' = NoCall
      /\ todo' = <<<<Pumping[op], p>>, <<op, p>>>>
      /\ UNCHANGED <<terminated, status, lastErrno, pumped, timeout, expired>>
      /\ UNCHANGED <<slots, waiting, ioFailed, group>>
      /\ UNCHANGED <<next, spawnFailed, timedOut, waitFailed>>
  BY DEF PumpBegins, Callable, CallUnderWay, PipesStand, childVars, pipeVars, handleVars,
         startVars, stdinVars, outputVars, callVars, waitVars, runVars
<1>2. \/ op = "send_stdin" /\ Pumping[op] = "pumpStdin"
      \/ op = "receive_output" /\ Pumping[op] = "pumpOutput"
  BY DEF Pumping
<1>3. ~Runs /\ ~Runs' /\ NoLocals
  BY <1>1 DEF WindowsInv, StartInv, CallInv, Runs, PipesStand
<1>4. TypeOK'
  BY <1>1 DEF WindowsInv, TypeOK, PipesStand
<1>5. /\ TaskInv' /\ todo' # <<>> /\ Head(todo') = <<Pumping[op], p>>
      /\ Tasks' = {<<Pumping[op], p>>, <<op, p>>}
  <2>1. <<Pumping[op], p>> \in Task /\ <<op, p>> \in Task
    BY <1>2 DEF Task, PumpNames, BackgroundNames, Procs, WindowsArguments
  <2>2. Follows(<<Pumping[op], p>>, <<op, p>>) /\ Bottom(<<op, p>>)
    BY <1>2 DEF Follows, Bottom
  <2>3. Allowed(<<Pumping[op], p>>)' /\ Allowed(<<op, p>>)'
    BY <1>2, <1>3 DEF Allowed, RunNames, BackgroundNames
  <2> QED
    BY <1>1, <2>1, <2>2, <2>3, BeginsTwo
<1>6. StartInv' /\ WriteInv' /\ ReadInv' /\ InputInv' /\ OutputInv'
  <2>1. StartInv /\ NotPumping /\ \A q \in Procs : StatusStep(q)
    BY <1>1, <1>2, <1>5 DEF WindowsInv, NotPumping, StatusStep
  <2> QED
    BY <1>1, <2>1, StartKeeps, PipesKeep
<1>7. CallInv' /\ WaitInv' /\ DrainInv' /\ DrainHarvested' /\ RunInv' /\ ResultInv'
  <2>1. /\ slots' = {} /\ waiting' = {} /\ ioFailed' = {} /\ pumped' = "SUCCESS"
        /\ Head(todo')[1] # "release" /\ \A q \in Procs : <<"reported", q>> \notin Tasks'
    BY <1>1, <1>2, <1>3, <1>5 DEF NoLocals
  <2> QED
    BY <1>1, <1>3, <1>5, <2>1, BackgroundCall
<1> QED
  BY <1>4, <1>5, <1>6, <1>7 DEF WindowsInv

(* send_stdin and receive_output return.                                    *)
LEMMA PumpReturnsKeeps ==
  ASSUME WindowsArguments, WindowsInv, NEW p \in Procs, NEW op \in DOMAIN Pumping, PumpReturns(op, p)
  PROVE  WindowsInv'
<1>1. /\ todo # <<>> /\ Head(todo) = <<op, p>> /\ PipesStand
      /\ todo' = <<>> \o Tail(todo)
      /\ last' = [op |-> op, on |-> {p}, result |-> pumped]
      /\ UNCHANGED <<terminated, status, lastErrno>>
      /\ pumped' = "SUCCESS" /\ timeout' = "none" /\ expired' = FALSE
      /\ slots' = {} /\ waiting' = {} /\ ioFailed' = {} /\ group' = 0
      /\ next' = 1 /\ spawnFailed' = FALSE /\ timedOut' = FALSE /\ waitFailed' = FALSE
  BY DEF PumpReturns, At, Then, Returns, LocalsGone, PipesStand, childVars, pipeVars, handleVars,
         startVars, stdinVars, outputVars
<1>2. op \in {"send_stdin", "receive_output"}
  BY DEF Pumping
<1>3. todo' = <<>> /\ ~Runs
  <2>1. TaskInv /\ Bottom(Head(todo)) /\ Head(todo)[1] \in BackgroundNames
    BY <1>1, <1>2 DEF WindowsInv, Bottom, BackgroundNames
  <2>2. Tail(todo) = <<>> /\ Tasks = {Head(todo)}
    BY <1>1, <2>1, Alone
  <2> QED
    BY <1>1, <2>1, <2>2 DEF TaskInv, Allowed
<1>4. TypeOK'
  <2>1. group' \in 0 .. N /\ next' \in 1 .. N + 1
    BY <1>1 DEF WindowsArguments
  <2> QED
    BY <1>1, <2>1 DEF WindowsInv, TypeOK, PipesStand
<1>5. StartInv' /\ WriteInv' /\ ReadInv' /\ InputInv' /\ OutputInv'
  <2>1. StartInv /\ NotPumping /\ \A q \in Procs : StatusStep(q)
    BY <1>1, <1>3 DEF WindowsInv, NotPumping, StatusStep
  <2> QED
    BY <1>1, <1>3, <2>1, StartKeeps, PipesKeep
<1>6. TaskInv' /\ CallInv' /\ WaitInv' /\ DrainInv' /\ DrainHarvested' /\ RunInv'
  <2>1. NoLocals' /\ client' = client
    BY <1>1 DEF NoLocals, PipesStand
  <2> QED
    BY <1>3, <2>1, Idle
<1> QED
  BY <1>1, <1>2, <1>4, <1>5, <1>6, OtherResult DEF WindowsInv

(* A poll of a handle that is terminal returns at once.                     *)
LEMMA PollTerminalKeeps ==
  ASSUME WindowsInv, NEW p \in Procs, PollTerminal(p)
  PROVE  WindowsInv'
<1>1. /\ todo = <<>> /\ todo' = <<>> /\ background[p] /\ PipesStand
      /\ last' = [op |-> "poll", on |-> {p}, result |-> "SUCCESS"]
      /\ UNCHANGED <<terminated, status, lastErrno, pumped, timeout, expired>>
      /\ UNCHANGED <<slots, waiting, ioFailed, group>>
      /\ UNCHANGED <<next, spawnFailed, timedOut, waitFailed>>
  BY DEF PollTerminal, Callable, Returns, PipesStand, childVars, pipeVars, handleVars,
         startVars, stdinVars, outputVars, callVars, waitVars, runVars
<1>2. ~Runs /\ NoLocals' /\ client' = client
  BY <1>1 DEF WindowsInv, StartInv, CallInv, NoLocals, PipesStand
<1>3. TypeOK'
  BY <1>1 DEF WindowsInv, TypeOK, PipesStand
<1>4. StartInv' /\ WriteInv' /\ ReadInv' /\ InputInv' /\ OutputInv'
  <2>1. StartInv /\ NotPumping /\ \A q \in Procs : StatusStep(q)
    BY <1>1 DEF WindowsInv, NotPumping, StatusStep
  <2> QED
    BY <1>1, <2>1, StartKeeps, PipesKeep
<1>5. TaskInv' /\ CallInv' /\ WaitInv' /\ DrainInv' /\ DrainHarvested' /\ RunInv'
  BY <1>1, <1>2, Idle
<1> QED
  BY <1>1, <1>3, <1>4, <1>5, OtherResult DEF WindowsInv

(* A poll of a handle that runs begins.                                     *)
LEMMA PollBeginsKeeps ==
  ASSUME WindowsArguments, WindowsInv, NEW p \in Procs, NEW t \in client.timeouts,
         PollBegins(p, t)
  PROVE  WindowsInv'
<1>1. /\ todo = <<>> /\ background[p] /\ PipesStand /\ last' = NoCall
      /\ todo' = <<<<"poll", p>>>> /\ timeout' = t /\ expired' = (t = "zero")
      /\ UNCHANGED <<terminated, status, lastErrno, pumped>>
      /\ UNCHANGED <<slots, waiting, ioFailed, group>>
      /\ UNCHANGED <<next, spawnFailed, timedOut, waitFailed>>
  BY DEF PollBegins, Callable, CallUnderWay, PipesStand, childVars, pipeVars, handleVars,
         startVars, stdinVars, outputVars, waitVars, runVars
<1>2. ~Runs /\ ~Runs' /\ NoLocals
  BY <1>1 DEF WindowsInv, StartInv, CallInv, Runs, PipesStand
<1>3. TypeOK'
  <2>1. expired' \in BOOLEAN
    BY <1>1
  <2> QED
    BY <1>1, <2>1 DEF WindowsInv, TypeOK, PipesStand
<1>4. TaskInv' /\ todo' # <<>> /\ Head(todo') = <<"poll", p>> /\ Tasks' = {<<"poll", p>>}
  <2>1. <<"poll", p>> \in Task /\ Bottom(<<"poll", p>>) /\ Allowed(<<"poll", p>>)'
    BY <1>2 DEF Task, BackgroundNames, Procs, WindowsArguments, Bottom, Allowed, RunNames
  <2> QED
    BY <1>1, <2>1, BeginsOne
<1>5. StartInv' /\ WriteInv' /\ ReadInv' /\ InputInv' /\ OutputInv'
  <2>1. StartInv /\ NotPumping /\ \A q \in Procs : StatusStep(q)
    BY <1>1, <1>4 DEF WindowsInv, NotPumping, StatusStep
  <2> QED
    BY <1>1, <2>1, StartKeeps, PipesKeep
<1>6. CallInv' /\ WaitInv' /\ DrainInv' /\ DrainHarvested' /\ RunInv' /\ ResultInv'
  <2>1. /\ slots' = {} /\ waiting' = {} /\ ioFailed' = {} /\ pumped' = "SUCCESS"
        /\ Head(todo')[1] # "release" /\ \A q \in Procs : <<"reported", q>> \notin Tasks'
    BY <1>1, <1>2, <1>4 DEF NoLocals
  <2> QED
    BY <1>1, <1>2, <1>4, <2>1, BackgroundCall
<1> QED
  BY <1>3, <1>4, <1>5, <1>6 DEF WindowsInv

(* A poll ends: gone, late or refused.                                      *)
LEMMA PollEndsKeeps ==
  ASSUME WindowsArguments, WindowsInv, NEW p \in Procs, PollEnds(p)
  PROVE  WindowsInv'
<1>1. /\ todo # <<>> /\ Head(todo) = <<"poll", p>> /\ PipesStand
      /\ todo' = <<>> \o Tail(todo) /\ terminated' = terminated
      /\ status' = status \/ (os[p] = "gone" /\ status' = [status EXCEPT ![p] = "EXITED"])
      /\ lastErrno' = lastErrno \/ lastErrno' = [lastErrno EXCEPT ![p] = TRUE]
      /\ last'.op = "poll" /\ last'.on = {p}
      /\ pumped' = "SUCCESS" /\ timeout' = "none" /\ expired' = FALSE
      /\ slots' = {} /\ waiting' = {} /\ ioFailed' = {} /\ group' = 0
      /\ next' = 1 /\ spawnFailed' = FALSE /\ timedOut' = FALSE /\ waitFailed' = FALSE
  BY DEF PollEnds, At, Then, Returns, LocalsGone, PipesStand, childVars, pipeVars,
         stdinVars, outputVars
<1>2. /\ status \in [Procs -> {"NOT_STARTED", "RUNNING", "FAILED_TO_START"} \cup Terminal]
      /\ lastErrno \in [Procs -> BOOLEAN]
  BY DEF WindowsInv, TypeOK
<1>3. todo' = <<>> /\ ~Runs
  <2>1. TaskInv /\ Bottom(Head(todo)) /\ Head(todo)[1] \in BackgroundNames
    BY <1>1 DEF WindowsInv, Bottom, BackgroundNames
  <2>2. Tail(todo) = <<>> /\ Tasks = {Head(todo)}
    BY <1>1, <2>1, Alone
  <2> QED
    BY <1>1, <2>1, <2>2 DEF TaskInv, Allowed
<1>4. TypeOK'
  <2>1. group' \in 0 .. N /\ next' \in 1 .. N + 1
    BY <1>1 DEF WindowsArguments
  <2>2. status' \in [Procs -> {"NOT_STARTED", "RUNNING", "FAILED_TO_START"} \cup Terminal]
    BY <1>1, <1>2 DEF Terminal
  <2>3. lastErrno' \in [Procs -> BOOLEAN]
    BY <1>1, <1>2
  <2>4. TypeOK /\ TypesOfCall'
    BY <1>1, <2>1, <2>2, <2>3 DEF WindowsInv, TypeOK, TypesOfCall
  <2> QED
    BY <1>1, <2>4, TypesAround
<1>5. StartInv' /\ WriteInv' /\ ReadInv' /\ InputInv' /\ OutputInv'
  <2>1. StartInv /\ NotPumping
    BY <1>1, <1>3 DEF WindowsInv, NotPumping
  <2>2. \A q \in Procs : StatusStep(q) /\ (lastErrno[q] => lastErrno'[q])
    BY <1>1, <1>2 DEF StatusStep, Terminal
  <2> QED
    BY <1>1, <1>3, <2>1, <2>2, StartKeeps, PipesKeep
<1>6. TaskInv' /\ CallInv' /\ WaitInv' /\ DrainInv' /\ DrainHarvested' /\ RunInv'
  <2>1. NoLocals' /\ client' = client
    BY <1>1 DEF NoLocals, PipesStand
  <2> QED
    BY <1>3, <2>1, Idle
<1> QED
  BY <1>1, <1>4, <1>5, <1>6, OtherResult DEF WindowsInv

(* A handle is terminated.                                                  *)
LEMMA KillKeeps ==
  ASSUME WindowsInv, NEW p \in Procs, Kill(p)
  PROVE  WindowsInv'
<1>1. /\ todo = <<>> /\ todo' = <<>> /\ background[p] /\ PipesStand
      /\ terminated' \in {terminated, terminated \cup {p}}
      /\ last'.op = "kill" /\ last'.on = {p}
      /\ UNCHANGED <<status, lastErrno, pumped, timeout, expired>>
      /\ UNCHANGED <<slots, waiting, ioFailed, group>>
      /\ UNCHANGED <<next, spawnFailed, timedOut, waitFailed>>
  BY DEF Kill, Callable, Returns, PipesStand, pipeVars, handleVars,
         startVars, stdinVars, outputVars, callVars, waitVars, runVars
<1>2. ~Runs /\ NoLocals' /\ client' = client
  BY <1>1 DEF WindowsInv, StartInv, CallInv, NoLocals, PipesStand
<1>3. TypeOK'
  BY <1>1 DEF WindowsInv, TypeOK, PipesStand
<1>4. StartInv' /\ WriteInv' /\ ReadInv' /\ InputInv' /\ OutputInv'
  <2>1. StartInv /\ NotPumping /\ \A q \in Procs : StatusStep(q)
    BY <1>1 DEF WindowsInv, NotPumping, StatusStep
  <2> QED
    BY <1>1, <2>1, StartKeeps, PipesKeep
<1>5. TaskInv' /\ CallInv' /\ WaitInv' /\ DrainInv' /\ DrainHarvested' /\ RunInv'
  BY <1>1, <1>2, Idle
<1> QED
  BY <1>1, <1>3, <1>4, <1>5, OtherResult DEF WindowsInv

(* What was pending is cancelled: it stays in flight until the kernel says  *)
(* otherwise.                                                               *)
LEMMA Cancels ==
  ASSUME TypeOK, NEW q \in Procs
  PROVE  /\ WriteCancelled(q) \in [st : OpStates, len : 0 .. BufferMax, left : 0 .. BufferMax]
         /\ WriteCancelled(q).len = writeOp[q].len /\ WriteCancelled(q).left = writeOp[q].left
         /\ \/ WriteCancelled(q) = writeOp[q] /\ ~(writePending[q] /\ writeOp[q].st = "flight")
            \/ WriteCancelled(q).st = "cancelled" /\ writePending[q] /\ writeOp[q].st = "flight"
         /\ ReadCancelled(q) \in [st : OpStates, size : 0 .. BufferMax, got : 0 .. BufferMax]
         /\ ReadCancelled(q).size = readOp[q].size /\ ReadCancelled(q).got = readOp[q].got
         /\ \/ ReadCancelled(q) = readOp[q] /\ ~(readPending[q] /\ readOp[q].st = "flight")
            \/ ReadCancelled(q).st = "cancelled" /\ readPending[q] /\ readOp[q].st = "flight"
<1>1. /\ writeOp[q] \in [st : OpStates, len : 0 .. BufferMax, left : 0 .. BufferMax]
      /\ readOp[q] \in [st : OpStates, size : 0 .. BufferMax, got : 0 .. BufferMax]
      /\ "cancelled" \in OpStates
  BY DEF TypeOK, OpStates, InFlight
<1> QED
  BY <1>1 DEF WriteCancelled, ReadCancelled

(* A cleanup cancels what is pending.                                       *)
LEMMA CleanupBeginsKeeps ==
  ASSUME WindowsArguments, WindowsInv, NEW p \in Procs, CleanupBegins(p)
  PROVE  WindowsInv'
<1>1. /\ todo = <<>> /\ todo' = <<<<"release", p>>>> /\ last' = NoCall
      /\ \/ /\ writeOp' = [writeOp EXCEPT ![p] = WriteCancelled(p)]
            /\ readOp' = [readOp EXCEPT ![p] = ReadCancelled(p)]
         \/ writeOp' = writeOp /\ readOp' = readOp
      /\ UNCHANGED <<client, os, terminated, inPipe, received, sawEof, outPipe, produced>>
      /\ UNCHANGED <<valid, status, background, processOpen, lastErrno>>
      /\ UNCHANGED <<stdinOpen, writePending, offset, inCap, readOpen, readPending, sunk, outCap>>
      /\ UNCHANGED <<pumped, timeout, expired, slots, waiting, ioFailed, group>>
      /\ UNCHANGED <<next, spawnFailed, timedOut, waitFailed>>
  BY DEF CleanupBegins, CallUnderWay, childVars, pipeVars, handleVars, startVars, stdinVars,
         outputVars, callVars, waitVars, runVars
<1>2. /\ writeOp \in [Procs -> [st : OpStates, len : 0 .. BufferMax, left : 0 .. BufferMax]]
      /\ readOp \in [Procs -> [st : OpStates, size : 0 .. BufferMax, got : 0 .. BufferMax]]
      /\ TypeOK
  BY DEF WindowsInv, TypeOK
<1>3. /\ writeOp' \in [Procs -> [st : OpStates, len : 0 .. BufferMax, left : 0 .. BufferMax]]
      /\ readOp' \in [Procs -> [st : OpStates, size : 0 .. BufferMax, got : 0 .. BufferMax]]
  <2>1. /\ WriteCancelled(p) \in [st : OpStates, len : 0 .. BufferMax, left : 0 .. BufferMax]
        /\ ReadCancelled(p) \in [st : OpStates, size : 0 .. BufferMax, got : 0 .. BufferMax]
    BY <1>2, Cancels
  <2> QED
    BY <1>1, <1>2, <2>1
<1>4. ASSUME NEW q \in Procs
      PROVE  /\ writeOp'[q].len = writeOp[q].len /\ writeOp'[q].left = writeOp[q].left
             /\ \/ writeOp'[q] = writeOp[q]
                \/ writeOp'[q].st = "cancelled" /\ writePending[q] /\ writeOp[q].st = "flight"
             /\ readOp'[q].size = readOp[q].size /\ readOp'[q].got = readOp[q].got
             /\ \/ readOp'[q] = readOp[q]
                \/ readOp'[q].st = "cancelled" /\ readPending[q] /\ readOp[q].st = "flight"
  <2>1. writeOp'[q] \in {writeOp[q], WriteCancelled(q)} /\ readOp'[q] \in {readOp[q], ReadCancelled(q)}
    BY <1>1, <1>2
  <2>2. /\ WriteCancelled(q).len = writeOp[q].len /\ WriteCancelled(q).left = writeOp[q].left
        /\ \/ WriteCancelled(q) = writeOp[q]
           \/ WriteCancelled(q).st = "cancelled" /\ writePending[q] /\ writeOp[q].st = "flight"
    BY <1>2, Cancels
  <2>3. /\ ReadCancelled(q).size = readOp[q].size /\ ReadCancelled(q).got = readOp[q].got
        /\ \/ ReadCancelled(q) = readOp[q]
           \/ ReadCancelled(q).st = "cancelled" /\ readPending[q] /\ readOp[q].st = "flight"
    BY <1>2, Cancels
  <2>4. /\ writeOp'[q].len = writeOp[q].len /\ writeOp'[q].left = writeOp[q].left
        /\ \/ writeOp'[q] = writeOp[q]
           \/ writeOp'[q].st = "cancelled" /\ writePending[q] /\ writeOp[q].st = "flight"
    BY <2>1, <2>2
  <2>5. /\ readOp'[q].size = readOp[q].size /\ readOp'[q].got = readOp[q].got
        /\ \/ readOp'[q] = readOp[q]
           \/ readOp'[q].st = "cancelled" /\ readPending[q] /\ readOp[q].st = "flight"
    BY <2>1, <2>3
  <2> QED
    BY <2>4, <2>5
<1>5. TypeOK'
  BY <1>1, <1>3 DEF WindowsInv, TypeOK
<1>6. /\ TaskInv' /\ todo' # <<>> /\ Head(todo') = <<"release", p>>
      /\ Tasks' = {<<"release", p>>}
  <2>1. <<"release", p>> \in Task /\ Bottom(<<"release", p>>) /\ Allowed(<<"release", p>>)'
    BY DEF Task, Procs, WindowsArguments, Bottom, Allowed, RunNames, BackgroundNames
  <2> QED
    BY <1>1, <2>1, BeginsOne
<1>7. StartInv'
  <2> SUFFICES ASSUME NEW q \in Procs PROVE os'[q] = "none" => Fresh(q)'
    BY <1>1 DEF WindowsInv, StartInv, Runs
  <2> QED
    BY <1>1, <1>4 DEF WindowsInv, StartInv, Fresh
<1>8. WriteInv' /\ ReadInv'
  <2>1. \A q \in Procs : ~Doing("write", q)' /\ ~Doing("read", q)' /\ ~Doing("readMore", q)'
    BY <1>6 DEF Doing
  <2> QED
    BY <1>1, <1>4, <2>1 DEF WindowsInv, WriteInv, ReadInv
<1>9. InputInv'
  <2> SUFFICES ASSUME NEW q \in Procs PROVE InputOf(q)'
    BY DEF InputInv
  <2>1. InputOf(q)
    BY DEF WindowsInv, InputInv
  <2>2. Sent(q)' = Sent(q)
    BY <1>1, <1>4 DEF Sent
  <2> QED
    BY <1>1, <1>4, <2>1, <2>2 DEF InputOf, InFlight
<1>10. OutputInv'
  <2> SUFFICES ASSUME NEW q \in Procs PROVE OutputOf(q)'
    BY DEF OutputInv
  <2>1. OutputOf(q)
    BY DEF WindowsInv, OutputInv
  <2> QED
    BY <1>1, <1>4, <2>1 DEF OutputOf, InFlight
<1>11. NoLocals'
  BY <1>1 DEF WindowsInv, CallInv, NoLocals
<1>12. CallInv' /\ WaitInv'
  BY <1>1, <1>6, <1>11 DEF CallInv, WaitInv, NoLocals, Doing
<1>13. DrainInv'
  <2>1. Tasks = {}
    BY <1>1 DEF Tasks, TasksOf
  <2> QED
    BY <1>1, <1>11, <2>1 DEF WindowsInv, DrainInv, Finalizing, NoLocals, Runs
<1>14. DrainHarvested' /\ RunInv'
  BY <1>6 DEF DrainHarvested, RunInv, InRun
<1> QED
  BY <1>1, <1>5, <1>6, <1>7, <1>8, <1>9, <1>10, <1>12, <1>13, <1>14, NoCallResult DEF WindowsInv

(* A cleanup frees the handle, once nothing pending is left.                *)
LEMMA ReleaseKeeps ==
  ASSUME WindowsArguments, WindowsInv, NEW p \in Procs, Release(p)
  PROVE  WindowsInv'
<1>1. /\ todo # <<>> /\ Head(todo) = <<"release", p>> /\ todo' = <<>> \o Tail(todo)
      /\ writePending[p] => writeOp[p].st \notin InFlight
      /\ readPending[p] => readOp[p].st \notin InFlight
      /\ terminated' \in {terminated, terminated \cup {p}}
      /\ stdinOpen' = [stdinOpen EXCEPT ![p] = FALSE]
      /\ readOpen' = [readOpen EXCEPT ![p] = FALSE]
      /\ writePending' = [writePending EXCEPT ![p] = FALSE]
      /\ readPending' = [readPending EXCEPT ![p] = FALSE]
      /\ processOpen' = [processOpen EXCEPT ![p] = FALSE]
      /\ background' = [background EXCEPT ![p] = FALSE]
      /\ inCap' = [inCap EXCEPT ![p] = 0] /\ outCap' = [outCap EXCEPT ![p] = 0]
      /\ valid' = [valid EXCEPT ![p] = FALSE]
      /\ last'.op = "cleanup" /\ last'.on = {p}
      /\ UNCHANGED <<client, os, inPipe, received, sawEof, outPipe, produced, writeOp, readOp>>
      /\ UNCHANGED <<status, offset, sunk, lastErrno>>
      /\ pumped' = "SUCCESS" /\ timeout' = "none" /\ expired' = FALSE
      /\ slots' = {} /\ waiting' = {} /\ ioFailed' = {} /\ group' = 0
      /\ next' = 1 /\ spawnFailed' = FALSE /\ timedOut' = FALSE /\ waitFailed' = FALSE
  BY DEF Release, Freed, At, Then, Returns, LocalsGone, pipeVars
<1>2. /\ stdinOpen \in [Procs -> BOOLEAN] /\ readOpen \in [Procs -> BOOLEAN]
      /\ writePending \in [Procs -> BOOLEAN] /\ readPending \in [Procs -> BOOLEAN]
      /\ processOpen \in [Procs -> BOOLEAN] /\ background \in [Procs -> BOOLEAN]
      /\ valid \in [Procs -> BOOLEAN]
      /\ inCap \in [Procs -> 0 .. BufferMax] /\ outCap \in [Procs -> 0 .. BufferMax]
      /\ BufferMax \in Nat /\ N \in Nat
  BY DEF WindowsInv, TypeOK, WindowsArguments
<1>3. todo' = <<>> /\ Tasks = {<<"release", p>>} /\ NoLocals
  <2>1. TaskInv /\ Bottom(Head(todo)) /\ NoLocals
    BY <1>1 DEF WindowsInv, Bottom, CallInv
  <2>2. Tail(todo) = <<>> /\ Tasks = {Head(todo)}
    BY <1>1, <2>1, Alone
  <2>3. todo' = <<>>
    BY <1>1, <2>2
  <2>4. Tasks = {<<"release", p>>}
    BY <1>1, <2>2
  <2> QED
    BY <2>1, <2>3, <2>4
<1>4. \A q \in Procs \ {p} :
        /\ stdinOpen'[q] = stdinOpen[q] /\ readOpen'[q] = readOpen[q]
        /\ writePending'[q] = writePending[q] /\ readPending'[q] = readPending[q]
        /\ processOpen'[q] = processOpen[q] /\ background'[q] = background[q]
        /\ inCap'[q] = inCap[q] /\ outCap'[q] = outCap[q] /\ valid'[q] = valid[q]
  BY <1>1, <1>2
<1>5. /\ ~stdinOpen'[p] /\ ~readOpen'[p] /\ ~writePending'[p] /\ ~readPending'[p]
      /\ ~processOpen'[p] /\ ~background'[p] /\ ~valid'[p]
      /\ inCap'[p] = 0 /\ outCap'[p] = 0
  BY <1>1, <1>2
<1>6. TypeOK'
  <2>1. /\ stdinOpen' \in [Procs -> BOOLEAN] /\ readOpen' \in [Procs -> BOOLEAN]
        /\ writePending' \in [Procs -> BOOLEAN] /\ readPending' \in [Procs -> BOOLEAN]
        /\ processOpen' \in [Procs -> BOOLEAN] /\ background' \in [Procs -> BOOLEAN]
        /\ valid' \in [Procs -> BOOLEAN]
    BY <1>1, <1>2
  <2>2. inCap' \in [Procs -> 0 .. BufferMax] /\ outCap' \in [Procs -> 0 .. BufferMax]
    BY <1>1, <1>2
  <2>3. {sawEof', valid', background', processOpen', stdinOpen', readOpen', writePending',
         readPending', lastErrno'} \subseteq [Procs -> BOOLEAN]
    BY <1>1, <2>1 DEF WindowsInv, TypeOK
  <2>4. group' \in 0 .. N /\ next' \in 1 .. N + 1
    BY <1>1, <1>2
  <2>5. /\ {expired', spawnFailed', timedOut', waitFailed'} \subseteq BOOLEAN
        /\ {slots', waiting', ioFailed'} \subseteq SUBSET Procs
    BY <1>1
  <2>6. /\ client' \in Clients /\ os' \in [Procs -> {"none", "running", "gone"}]
        /\ terminated' \subseteq Procs
        /\ inPipe' \in [Procs -> 0 .. PipeCap] /\ outPipe' \in [Procs -> 0 .. PipeCap]
        /\ received' \in [Procs -> 0 .. InputLen] /\ produced' \in [Procs -> 0 .. OutputLen]
        /\ offset' \in [Procs -> 0 .. InputLen] /\ sunk' \in [Procs -> 0 .. OutputLen]
    BY <1>1 DEF WindowsInv, TypeOK
  <2>7. /\ writeOp' \in [Procs -> [st : OpStates, len : 0 .. BufferMax, left : 0 .. BufferMax]]
        /\ readOp' \in [Procs -> [st : OpStates, size : 0 .. BufferMax, got : 0 .. BufferMax]]
        /\ status' \in [Procs -> {"NOT_STARTED", "RUNNING", "FAILED_TO_START"} \cup Terminal]
        /\ pumped' \in {"SUCCESS", "IO_FAILED"} /\ timeout' \in client'.timeouts \cup {"none"}
    BY <1>1 DEF WindowsInv, TypeOK
  <2> QED
    BY <2>2, <2>3, <2>4, <2>5, <2>6, <2>7 DEF TypeOK
<1>7. StartInv'
  <2> SUFFICES ASSUME NEW q \in Procs
               PROVE  /\ os'[q] = "none" => Fresh(q)'
                      /\ os'[q] = "none" <=> status'[q] \in {"NOT_STARTED", "FAILED_TO_START"}
                      /\ status'[q] = "EXITED" => os'[q] = "gone"
                      /\ status'[q] \in Terminal /\ os'[q] = "running"
                         => Runs' /\ (waitFailed' \/ ~processOpen'[q])
                      /\ background'[q] => ~Runs' /\ valid'[q] /\ processOpen'[q]
                      /\ ~valid'[q] => /\ ~stdinOpen'[q] /\ ~readOpen'[q] /\ ~processOpen'[q]
                                       /\ inCap'[q] = 0 /\ outCap'[q] = 0
    BY DEF StartInv
  <2>1. CASE q = p
    BY <1>1, <1>5, <2>1 DEF WindowsInv, StartInv, Fresh, Runs
  <2>2. CASE q # p
    BY <1>1, <1>3, <1>4, <2>2 DEF WindowsInv, StartInv, Fresh, Runs, NoLocals
  <2> QED
    BY <2>1, <2>2
<1>8. WriteInv' /\ ReadInv'
  <2>1. \A q \in Procs : ~Doing("write", q)' /\ ~Doing("read", q)' /\ ~Doing("readMore", q)'
    BY <1>3 DEF Doing
  <2> SUFFICES ASSUME NEW q \in Procs
               PROVE  /\ (writeOp[q].st \in InFlight /\ ~writePending[q])' =>
                           (writeOp[q].st = "cancelled" /\ ~background[q])'
                      /\ (stdinOpen[q] /\ ~writePending[q])' => (writeOp[q] = NoWrite)'
                      /\ (readOp[q].st \in InFlight /\ ~readPending[q])' =>
                           (readOp[q].st = "cancelled" /\ ~background[q])'
                      /\ (readOpen[q] /\ ~readPending[q])' => (readOp[q] = NoRead)'
    BY <2>1 DEF WriteInv, ReadInv
  <2>2. CASE q = p
    BY <1>1, <1>5, <2>2 DEF WindowsInv, WriteInv, ReadInv
  <2>3. CASE q # p
    BY <1>1, <1>4, <2>3 DEF WindowsInv, WriteInv, ReadInv
  <2> QED
    BY <2>2, <2>3
<1>9. InputInv' /\ OutputInv'
  <2> SUFFICES ASSUME NEW q \in Procs PROVE InputOf(q)' /\ OutputOf(q)'
    BY DEF InputInv, OutputInv
  <2>1. InputOf(q) /\ OutputOf(q) /\ Sent(q)' = Sent(q)
    BY <1>1 DEF WindowsInv, InputInv, OutputInv, Sent
  <2>2. CASE q = p
    BY <1>1, <1>5, <2>1, <2>2 DEF InputOf, OutputOf
  <2>3. CASE q # p
    BY <1>1, <1>4, <2>1, <2>3 DEF InputOf, OutputOf
  <2> QED
    BY <2>2, <2>3
<1>10. TaskInv' /\ CallInv' /\ WaitInv' /\ DrainInv' /\ DrainHarvested' /\ RunInv'
  <2>1. NoLocals' /\ client' = client
    BY <1>1 DEF NoLocals
  <2>2. Runs => \A q \in Procs : ~(status[q] \in Terminal /\ ~lastErrno[q] /\ readOpen[q])
    BY <1>3 DEF WindowsInv, DrainInv, Finalizing, NoLocals
  <2>3. \A q \in Procs : readOpen'[q] => readOpen[q]
    BY <1>4, <1>5
  <2> QED
    BY <1>1, <1>3, <2>1, <2>2, <2>3, Idle
<1> QED
  BY <1>1, <1>6, <1>7, <1>8, <1>9, <1>10, OtherResult DEF WindowsInv

-----------------------------------------------------------------------------
(* The wait on handles in the background.                                   *)
LEMMA WaitNothingKeeps ==
  ASSUME WindowsInv, NEW a, WaitNothing(a)
  PROVE  WindowsInv'
<1>1. /\ todo = <<>> /\ todo' = <<>> /\ PipesStand
      /\ last' = [op |-> "wait", on |-> {}, result |-> "SUCCESS"]
      /\ UNCHANGED <<terminated, status, lastErrno, pumped, timeout, expired>>
      /\ UNCHANGED <<slots, waiting, ioFailed, group>>
      /\ UNCHANGED <<next, spawnFailed, timedOut, waitFailed>>
  BY DEF WaitNothing, Returns, PipesStand, childVars, pipeVars, handleVars,
         startVars, stdinVars, outputVars, callVars, waitVars, runVars
<1>2. NoLocals /\ NoLocals' /\ client' = client /\ Tasks = {}
  BY <1>1 DEF WindowsInv, CallInv, NoLocals, PipesStand, Tasks, TasksOf
<1>3. TypeOK'
  BY <1>1 DEF WindowsInv, TypeOK, PipesStand
<1>4. StartInv' /\ WriteInv' /\ ReadInv' /\ InputInv' /\ OutputInv'
  <2>1. StartInv /\ NotPumping /\ \A q \in Procs : StatusStep(q)
    BY <1>1 DEF WindowsInv, NotPumping, StatusStep
  <2> QED
    BY <1>1, <2>1, StartKeeps, PipesKeep
<1>5. TaskInv' /\ CallInv' /\ WaitInv' /\ DrainInv' /\ DrainHarvested' /\ RunInv'
  <2>1. Runs => \A q \in Procs : ~(status[q] \in Terminal /\ ~lastErrno[q] /\ readOpen[q])
    BY <1>2 DEF WindowsInv, DrainInv, Finalizing, NoLocals
  <2> QED
    BY <1>1, <1>2, <2>1, Idle DEF PipesStand
<1>6. ResultInv'
  BY <1>1 DEF ResultInv, OutputComplete, ReturnContract
<1> QED
  BY <1>3, <1>4, <1>5, <1>6 DEF WindowsInv

(* A step of a wait that has begun.                                         *)
LEMMA WaitStepKeeps ==
  ASSUME WindowsInv, TypeOK', TaskInv', WaitInv', DrainInv', ~Runs, todo # <<>>, todo' # <<>>,
         NotPumping, Head(todo')[1] # "release", PipesStand, UNCHANGED <<lastErrno, last, slots>>,
         \A q \in Procs : StatusStep(q),
         \A q \in Procs :
           \A name \in {"settle", "primed", "drained", "reported", "noted", "harvested"} :
             Doing(name, q)' /\ pumped' = "IO_FAILED" => lastErrno[q],
         ioFailed' \subseteq ioFailed \cup {q \in slots : lastErrno[q]}
  PROVE  WindowsInv'
<1>1. ~Runs' /\ client' = client
  BY DEF PipesStand, Runs
<1>2. StartInv' /\ WriteInv' /\ ReadInv' /\ InputInv' /\ OutputInv'
  <2>1. StartInv
    BY DEF WindowsInv
  <2> QED
    BY <2>1, StartKeeps, PipesKeep
<1>3. CallInv' /\ last' = NoCall
  <2>1. last = NoCall /\ ioFailed \subseteq {q \in Procs : lastErrno[q]} /\ ioFailed \subseteq slots
    BY DEF WindowsInv, CallInv
  <2>2. slots \subseteq Procs
    BY DEF WindowsInv, TypeOK
  <2> QED
    BY <1>1, <2>1, <2>2 DEF CallInv
<1>4. DrainHarvested' /\ RunInv' /\ ResultInv'
  BY <1>1, <1>3, WithoutRun, NoCallResult
<1> QED
  BY <1>2, <1>3, <1>4 DEF WindowsInv

(* A wait collects its handles.                                             *)
LEMMA WaitBeginsKeeps ==
  ASSUME WindowsArguments, WindowsInv, NEW a \in client.arrays, NEW t \in client.timeouts,
         WaitBegins(a, t)
  PROVE  WindowsInv'
<1>1. /\ todo = <<>> /\ Live(a) \cup Done(a) # {} /\ PipesStand /\ last' = NoCall
      /\ todo' = <<<<"prime", 1>>>> /\ timeout' = t /\ expired' = (t = "zero")
      /\ slots' = Live(a) \cup Done(a) /\ waiting' = Live(a) /\ ioFailed' = {} /\ group' = 0
      /\ UNCHANGED <<terminated, status, lastErrno, pumped>>
      /\ UNCHANGED <<next, spawnFailed, timedOut, waitFailed>>
  BY DEF WaitBegins, CallUnderWay, PipesStand, childVars, pipeVars, handleVars,
         startVars, stdinVars, outputVars, runVars
<1>2. a \subseteq Procs /\ N \in Nat
  BY DEF WindowsArguments, WindowsInv, TypeOK
<1>3. ~Runs /\ ~Runs' /\ NoLocals
  <2>1. \E p \in Procs : background[p]
    BY <1>1, <1>2 DEF Live, Done
  <2> QED
    BY <1>1, <2>1 DEF WindowsInv, StartInv, CallInv, Runs, PipesStand
<1>4. slots' \subseteq Procs /\ waiting' \subseteq slots'
  BY <1>1, <1>2 DEF Live, Done
<1>5. TypeOK'
  <2>1. expired' \in BOOLEAN /\ group' \in 0 .. N
    BY <1>1, <1>2
  <2>2. {slots', waiting', ioFailed'} \subseteq SUBSET Procs
    BY <1>1, <1>4, <2>1
  <2>3. {expired', spawnFailed', timedOut', waitFailed'} \subseteq BOOLEAN
    BY <1>1, <2>1 DEF WindowsInv, TypeOK
  <2> QED
    BY <1>1, <2>1, <2>2, <2>3 DEF WindowsInv, TypeOK, PipesStand
<1>6. TaskInv' /\ todo' # <<>> /\ Head(todo') = <<"prime", 1>> /\ Tasks' = {<<"prime", 1>>}
  <2>1. <<"prime", 1>> \in Task /\ Bottom(<<"prime", 1>>)
    BY <1>2 DEF Task, BackgroundNames, Bottom
  <2>2. Allowed(<<"prime", 1>>)'
    BY <1>3 DEF Allowed, RunNames
  <2> QED
    BY <1>1, <2>1, <2>2, BeginsOne
<1>7. StartInv' /\ WriteInv' /\ ReadInv' /\ InputInv' /\ OutputInv'
  <2>1. StartInv /\ NotPumping /\ \A q \in Procs : StatusStep(q)
    BY <1>1, <1>6 DEF WindowsInv, NotPumping, StatusStep
  <2>2. PipesStand /\ waitFailed' = waitFailed /\ lastErrno' = lastErrno
    BY <1>1
  <2> QED
    BY <2>1, <2>2, StartKeeps, PipesKeep
<1>8. CallInv'
  BY <1>1, <1>3, <1>6 DEF CallInv, Doing
<1>9. WaitInv'
  <2>1. \A p \in slots' : /\ background[p] /\ status[p] \in {"RUNNING"} \cup Terminal
                          /\ p \in waiting' <=> status[p] = "RUNNING"
    BY <1>1 DEF Live, Done, Terminal
  <2>2. \A p \in Procs : <<"reported", p>> \notin Tasks'
    BY <1>6
  <2> QED
    BY <1>1, <1>4, <2>1, <2>2 DEF WaitInv, PipesStand
<1>10. DrainInv'
  <2>1. \A p \in Procs : \E j \in 1 .. p : <<"prime", j>> \in Tasks'
    BY <1>2, <1>6 DEF Procs
  <2> QED
    BY <2>1 DEF DrainInv
<1> QED
  BY <1>1, <1>3, <1>5, <1>6, <1>7, <1>8, <1>9, <1>10, WithoutRun, NoCallResult DEF WindowsInv

(* The wait primes one handle, or enters its loop.                          *)
LEMMA PrimeKeeps ==
  ASSUME WindowsArguments, WindowsInv, NEW p \in 1 .. N + 1, Prime(p)
  PROVE  WindowsInv'
<1>1. /\ todo # <<>> /\ Head(todo) = <<"prime", p>> /\ PipesStand
      /\ UNCHANGED <<terminated, status, lastErrno, pumped, timeout, expired>>
      /\ UNCHANGED <<slots, waiting, ioFailed, group>>
      /\ UNCHANGED <<next, spawnFailed, timedOut, waitFailed, last>>
  BY DEF Prime, At, TaskOnly, PipesStand, childVars, pipeVars, handleVars,
         startVars, stdinVars, outputVars, callVars, waitVars, runVars
<1> DEFINE middle == IF p \in waiting THEN "pumpOutput" ELSE "finalize"
<1>2. /\ p > N => todo' = <<<<"loop", 0>>>> \o Tail(todo)
      /\ p <= N /\ p \notin slots => todo' = (<<>> \o <<<<"prime", p + 1>>>>) \o Tail(todo)
      /\ p <= N /\ p \in slots =>
           todo' = (<<<<"pumpStdin", p>>, <<middle, p>>, <<"primed", p>>>> \o <<<<"prime", p + 1>>>>)
                   \o Tail(todo)
  <2>1. N \in Nat /\ p \in Nat
    BY DEF WindowsArguments
  <2>2. CASE p > N
    BY <2>1, <2>2 DEF Prime, Then
  <2>3. CASE p <= N /\ p \notin slots
    BY <2>1, <2>3 DEF Prime, Then
  <2>4. CASE p <= N /\ p \in slots
    <3>1. ~(p > N) /\ ~(p \notin slots)
      BY <2>1, <2>4
    <3>2. todo' = (<<<<"pumpStdin", p>>, <<middle, p>>, <<"primed", p>>>> \o <<<<"prime", p + 1>>>>)
                  \o Tail(todo)
      BY <3>1, Zenon DEF Prime, Then
    <3> QED
      BY <2>4, <3>1, <3>2, Zenon
  <2> QED
    BY <2>1, <2>2, <2>3, <2>4
<1>3. /\ TaskInv /\ ~Runs /\ Tasks = {<<"prime", p>>} /\ client' = client /\ N \in Nat
  <2>1. TaskInv /\ Bottom(Head(todo))
    BY <1>1 DEF WindowsInv, Bottom
  <2>2. Tasks = {<<"prime", p>>}
    BY <1>1, <2>1, Alone
  <2> QED
    BY <1>1, <2>1, <2>2 DEF TaskInv, Allowed, BackgroundNames, PipesStand, WindowsArguments
<1>4. TypeOK'
  BY <1>1 DEF WindowsInv, TypeOK, PipesStand
<1>5. \A q \in Procs : /\ status[q] \in Terminal /\ ~lastErrno[q] /\ readOpen[q] /\ q \in slots
                          => p <= q
                       /\ q \in waiting => status[q] = "RUNNING"
  <2> SUFFICES ASSUME NEW q \in Procs
               PROVE  /\ status[q] \in Terminal /\ ~lastErrno[q] /\ readOpen[q] /\ q \in slots
                         => p <= q
                      /\ q \in waiting => status[q] = "RUNNING"
    OBVIOUS
  <2>1. ~Finalizing(q) /\ <<"reported", q>> \notin Tasks
    BY <1>3 DEF Finalizing
  <2>2. \A j \in 1 .. q : <<"prime", j>> \in Tasks => p = j
    BY <1>3
  <2>3. q \in waiting => status[q] = "RUNNING"
    BY <2>1 DEF WindowsInv, WaitInv
  <2>4. ASSUME status[q] \in Terminal, ~lastErrno[q], readOpen[q], q \in slots PROVE p <= q
    <3>1. \E j \in 1 .. q : <<"prime", j>> \in Tasks
      BY <2>1, <2>4 DEF WindowsInv, DrainInv
    <3> QED
      BY <2>2, <3>1 DEF Procs
  <2> QED
    BY <2>3, <2>4
<1>6. /\ TaskInv' /\ todo' # <<>> /\ Head(todo')[1] \in {"loop", "prime", "pumpStdin"}
      /\ \A q \in Procs : <<"reported", q>> \notin Tasks'
      /\ p <= N => <<"prime", p + 1>> \in Tasks'
      /\ p <= N /\ p \in slots /\ p \notin waiting => <<"finalize", p>> \in Tasks'
  <2>1. CASE p > N
    <3>1. <<"loop", 0>> \in Task /\ InPlaceOf(<<"loop", 0>>, Head(todo)) /\ Allowed(<<"loop", 0>>)
      BY <1>1, <1>3 DEF Task, BackgroundNames, InPlaceOf, Bottom, Follows, Allowed, RunNames
    <3>2. /\ TaskInv' /\ todo' # <<>> /\ Head(todo') = <<"loop", 0>>
          /\ Tasks' \subseteq {<<"loop", 0>>} \cup Tasks
      BY <1>1, <1>2, <1>3, <2>1, <3>1, GivesOne
    <3> QED
      BY <1>3, <2>1, <3>2
  <2>2. CASE p <= N /\ p \notin slots
    <3>1. /\ <<"prime", p + 1>> \in Task /\ InPlaceOf(<<"prime", p + 1>>, Head(todo))
          /\ Allowed(<<"prime", p + 1>>)
      BY <1>1, <1>3, <2>2 DEF Task, BackgroundNames, InPlaceOf, Bottom, Follows, Allowed, RunNames
    <3>2. /\ TaskInv' /\ todo' # <<>> /\ Head(todo') = <<"prime", p + 1>>
          /\ Tasks' \subseteq {<<"prime", p + 1>>} \cup Tasks /\ <<"prime", p + 1>> \in Tasks'
      BY <1>1, <1>2, <1>3, <2>2, <3>1, AheadNone
    <3> QED
      BY <1>3, <2>2, <3>2
  <2>3. CASE p <= N /\ p \in slots
    <3>1. /\ <<"pumpStdin", p>> \in Task /\ <<middle, p>> \in Task /\ <<"primed", p>> \in Task
          /\ <<"prime", p + 1>> \in Task
      BY <1>3, <2>3 DEF Task, BackgroundNames, PumpNames
    <3>2. /\ Follows(<<"pumpStdin", p>>, <<middle, p>>) /\ Follows(<<middle, p>>, <<"primed", p>>)
          /\ Follows(<<"primed", p>>, <<"prime", p + 1>>)
          /\ InPlaceOf(<<"prime", p + 1>>, Head(todo))
      BY <1>1 DEF Follows, InPlaceOf, Bottom
    <3>3. /\ Allowed(<<"pumpStdin", p>>) /\ Allowed(<<middle, p>>) /\ Allowed(<<"primed", p>>)
          /\ Allowed(<<"prime", p + 1>>)
      BY <1>3, <2>3 DEF Allowed, RunNames, BackgroundNames
    <3>4. middle \in {"pumpOutput", "finalize"} /\ (p \notin waiting => middle = "finalize")
      OBVIOUS
    <3>5. todo' = (<<<<"pumpStdin", p>>, <<middle, p>>, <<"primed", p>>>> \o <<<<"prime", p + 1>>>>)
                  \o Tail(todo)
      BY <1>2, <2>3
    <3> HIDE DEF middle
    <3>6. /\ TaskInv' /\ todo' # <<>> /\ Head(todo') = <<"pumpStdin", p>>
          /\ Tasks' \subseteq {<<"pumpStdin", p>>, <<middle, p>>, <<"primed", p>>,
                               <<"prime", p + 1>>} \cup Tasks
          /\ {<<"pumpStdin", p>>, <<middle, p>>, <<"primed", p>>, <<"prime", p + 1>>}
             \subseteq Tasks'
      <4>1. TaskInv /\ todo # <<>> /\ client' = client /\ slots' = slots
        BY <1>1, <1>3
      <4> DEFINE a == <<"pumpStdin", p>>
      <4> DEFINE b == <<middle, p>>
      <4> DEFINE c == <<"primed", p>>
      <4> DEFINE t == <<"prime", p + 1>>
      <4>2. /\ a \in Task /\ b \in Task /\ c \in Task /\ t \in Task
            /\ Follows(a, b) /\ Follows(b, c) /\ Follows(c, t)
            /\ InPlaceOf(t, Head(todo))
            /\ Allowed(a) /\ Allowed(b) /\ Allowed(c) /\ Allowed(t)
        BY <3>1, <3>2, <3>3
      <4>3. todo' = (<<a, b, c>> \o <<t>>) \o Tail(todo)
        BY <3>5
      <4> HIDE DEF a, b, c, t
      <4>4. /\ TaskInv' /\ todo' # <<>> /\ Head(todo') = a
            /\ Tasks' \subseteq {a, b, c, t} \cup Tasks /\ {a, b, c, t} \subseteq Tasks'
        BY <4>1, <4>2, <4>3, AheadThree
      <4> QED
        BY <4>4 DEF a, b, c, t
    <3> QED
      BY <1>3, <2>3, <3>4, <3>6
  <2> QED
    BY <1>3, <2>1, <2>2, <2>3
<1>7. WaitInv'
  <2>1. \A q \in Procs : <<"reported", q>> \notin Tasks'
    BY <1>6
  <2>2. waiting \subseteq Procs /\ WaitInv
    BY DEF WindowsInv, TypeOK
  <2> QED
    BY <1>1, <1>5, <2>1, <2>2 DEF WaitInv, PipesStand
<1>8. DrainInv'
  <2> SUFFICES ASSUME NEW q \in Procs, status[q] \in Terminal, ~lastErrno[q], readOpen[q],
                      q \in slots
               PROVE  Finalizing(q)' \/ \E j \in 1 .. q : <<"prime", j>> \in Tasks'
    BY <1>1, <1>3 DEF DrainInv, PipesStand, Runs
  <2>1. p <= q /\ q <= N /\ q \in Nat
    BY <1>3, <1>5 DEF Procs
  <2>2. CASE p = q
    <3>1. p \notin waiting
      BY <1>5, <2>2 DEF Terminal
    <3>2. <<"finalize", p>> \in Tasks'
      BY <1>6, <2>1, <2>2, <3>1
    <3> QED
      BY <2>2, <3>2 DEF Finalizing
  <2>3. CASE p # q
    <3>1. p + 1 \in 1 .. q /\ p <= N
      BY <1>3, <2>1, <2>3
    <3>2. <<"prime", p + 1>> \in Tasks'
      BY <1>6, <3>1
    <3> QED
      BY <3>1, <3>2
  <2> QED
    BY <2>2, <2>3
<1> QED
  <2>1. NotPumping /\ Head(todo')[1] # "release" /\ \A q \in Procs : StatusStep(q)
    BY <1>1, <1>6 DEF NotPumping, StatusStep
  <2>2. \A q \in Procs :
          \A name \in {"settle", "primed", "drained", "reported", "noted", "harvested"} :
            ~Doing(name, q)'
    BY <1>6 DEF Doing
  <2> QED
    BY <1>1, <1>3, <1>4, <1>6, <1>7, <1>8, <2>1, <2>2, WaitStepKeeps

(* A pump or the finalizer has returned to the wait.                        *)
LEMMA ServedKeeps ==
  ASSUME WindowsArguments, WindowsInv, NEW p \in Procs,
         NEW name \in {"primed", "drained", "reported"}, At(name, p),
         Served(p, name = "reported" \/ pumped = "IO_FAILED"), group' \in 0 .. N
  PROVE  WindowsInv'
<1>1. /\ todo # <<>> /\ Head(todo) = <<name, p>> /\ todo' = <<>> \o Tail(todo) /\ PipesStand
      /\ ioFailed' = IF pumped = "IO_FAILED" THEN ioFailed \cup {p} ELSE ioFailed
      /\ waiting' = IF name = "reported" \/ pumped = "IO_FAILED" THEN waiting \ {p} ELSE waiting
      /\ UNCHANGED <<terminated, status, lastErrno, pumped, timeout, expired, slots>>
      /\ UNCHANGED <<next, spawnFailed, timedOut, waitFailed, last>>
  BY DEF Served, At, Then, PipesStand, childVars, pipeVars, handleVars,
         startVars, stdinVars, outputVars, runVars
<1>2. /\ TaskInv /\ WaitInv /\ DrainInv /\ TypeOK /\ client' = client
      /\ Head(todo) \in Tasks
  BY <1>1, Popped DEF WindowsInv, PipesStand, TaskInv, Tasks
<1>3. ~Runs /\ p \in slots /\ (pumped = "IO_FAILED" => lastErrno[p])
  <2>1. pumped = "IO_FAILED" => lastErrno[p]
    BY <1>1 DEF WindowsInv, CallInv, Doing
  <2>2. Allowed(<<name, p>>)
    BY <1>1, <1>2 DEF TaskInv
  <2> QED
    BY <2>1, <2>2 DEF Allowed, BackgroundNames
<1>4. /\ TaskInv' /\ Tasks' \subseteq Tasks /\ Tasks \subseteq {<<name, p>>} \cup Tasks'
      /\ todo' # <<>> /\ Head(todo')[1] \in {"prime", "loop"}
  <2>1. /\ TaskInv' /\ Tasks' \subseteq Tasks /\ Tasks \subseteq {<<name, p>>} \cup Tasks'
        /\ IF todo' = <<>> THEN Bottom(<<name, p>>) ELSE Follows(<<name, p>>, Head(todo'))
    BY <1>1, <1>2, GivesWay
  <2>2. ~Bottom(<<name, p>>)
    BY DEF Bottom
  <2> QED
    BY <2>1, <2>2 DEF Follows
<1>5. TypeOK'
  <2>1. {slots', waiting', ioFailed'} \subseteq SUBSET Procs
    <3>1. {slots, waiting, ioFailed} \subseteq SUBSET Procs
      BY <1>2 DEF TypeOK
    <3>2. waiting' \subseteq waiting /\ ioFailed' \subseteq ioFailed \cup {p}
      BY <1>1
    <3> QED
      BY <1>1, <3>1, <3>2
  <2>2. {expired', spawnFailed', timedOut', waitFailed'} \subseteq BOOLEAN
    BY <1>1, <1>2 DEF TypeOK
  <2>3. /\ terminated' \subseteq Procs
        /\ status' \in [Procs -> {"NOT_STARTED", "RUNNING", "FAILED_TO_START"} \cup Terminal]
        /\ lastErrno' \in [Procs -> BOOLEAN]
        /\ pumped' \in {"SUCCESS", "IO_FAILED"} /\ timeout' \in client'.timeouts \cup {"none"}
        /\ group' \in 0 .. N /\ next' \in 1 .. N + 1
    BY <1>1, <1>2 DEF TypeOK
  <2>4. TypesOfCall'
    BY <2>1, <2>2, <2>3 DEF TypesOfCall
  <2> QED
    BY <1>1, <1>2, <2>4, TypesAround
<1>6. WaitInv'
  <2>1. waiting' \subseteq slots' /\ \A q \in slots' : background'[q] /\ status'[q] \in {"RUNNING"} \cup Terminal
    BY <1>1, <1>2 DEF WaitInv, PipesStand
  <2>2. ASSUME NEW q \in slots' \ waiting'
        PROVE  status'[q] \in Terminal \/ q \in ioFailed'
    <3>1. CASE q \notin waiting
      BY <1>1, <1>2, <3>1 DEF WaitInv
    <3>2. CASE q \in waiting
      <4>1. q = p /\ (name = "reported" \/ pumped = "IO_FAILED")
        BY <1>1, <3>2
      <4>2. name = "reported" => status[p] \in Terminal
        BY <1>1, <1>2 DEF WaitInv
      <4> QED
        BY <1>1, <4>1, <4>2
    <3> QED
      BY <3>1, <3>2
  <2>3. ASSUME NEW q \in waiting'
        PROVE  status'[q] = "RUNNING" \/ <<"reported", q>> \in Tasks'
    <3>1. q \in waiting /\ (status[q] = "RUNNING" \/ <<"reported", q>> \in Tasks)
      BY <1>1, <1>2 DEF WaitInv
    <3>2. CASE <<"reported", q>> = <<name, p>>
      BY <1>1, <3>2
    <3>3. CASE <<"reported", q>> # <<name, p>>
      BY <1>1, <1>4, <3>1, <3>3
    <3> QED
      BY <3>2, <3>3
  <2>4. \A q \in Procs : <<"reported", q>> \in Tasks' => status'[q] \in Terminal
    BY <1>1, <1>2, <1>4 DEF WaitInv
  <2> QED
    BY <2>1, <2>2, <2>3, <2>4 DEF WaitInv
<1>7. DrainInv'
  <2>1. \A q \in Procs : Finalizing(q) => Finalizing(q)'
    BY <1>4 DEF Finalizing
  <2>2. \A j \in 1 .. N : <<"prime", j>> \in Tasks => <<"prime", j>> \in Tasks'
    BY <1>4
  <2> SUFFICES ASSUME NEW q \in Procs, status[q] \in Terminal, ~lastErrno[q], readOpen[q],
                      q \in slots
               PROVE  Finalizing(q)' \/ \E j \in 1 .. q : <<"prime", j>> \in Tasks'
    BY <1>1, <1>2, <1>3 DEF DrainInv, PipesStand, Runs
  <2>3. Finalizing(q) \/ \E j \in 1 .. q : <<"prime", j>> \in Tasks
    BY <1>2 DEF DrainInv
  <2>4. \A j \in 1 .. q : j \in 1 .. N
    BY DEF WindowsArguments, Procs
  <2> QED
    BY <2>1, <2>2, <2>3, <2>4
<1> QED
  <2>1. NotPumping /\ Head(todo')[1] # "release" /\ \A q \in Procs : StatusStep(q)
    BY <1>1, <1>4 DEF NotPumping, StatusStep
  <2>2. \A q \in Procs :
          \A other \in {"settle", "primed", "drained", "reported", "noted", "harvested"} :
            ~Doing(other, q)'
    BY <1>4 DEF Doing
  <2>3. ioFailed' \subseteq ioFailed \cup {q \in slots : lastErrno[q]}
    BY <1>1, <1>3
  <2> QED
    BY <1>1, <1>3, <1>4, <1>5, <1>6, <1>7, <2>1, <2>2, <2>3, WaitStepKeeps

(* A handle has been primed.                                                *)
LEMMA PrimedKeeps ==
  ASSUME WindowsArguments, WindowsInv, NEW p \in Procs, Primed(p)
  PROVE  WindowsInv'
<1>1. At("primed", p) /\ Served(p, "primed" = "reported" \/ pumped = "IO_FAILED")
  BY DEF Primed
<1>2. group' \in 0 .. N
  BY DEF Primed, WindowsInv, TypeOK
<1> QED
  BY <1>1, <1>2, ServedKeeps

(* A handle has been pumped, or reported terminal.                          *)
LEMMA DrainedKeeps ==
  ASSUME WindowsArguments, WindowsInv, NEW p \in Procs, Drained(p)
  PROVE  WindowsInv'
<1>1. group' \in 0 .. N
  BY DEF Drained, WindowsInv, TypeOK, WindowsArguments
<1>2. CASE At("drained", p)
  <2>1. ~At("reported", p)
    BY <1>2 DEF At
  <2>2. Served(p, "drained" = "reported" \/ pumped = "IO_FAILED")
    BY <2>1 DEF Drained, Served
  <2> QED
    BY <1>1, <1>2, <2>2, ServedKeeps
<1>3. CASE At("reported", p)
  <2>1. Served(p, "reported" = "reported" \/ pumped = "IO_FAILED")
    BY <1>3 DEF Drained, Served
  <2> QED
    BY <1>1, <1>3, <2>1, ServedKeeps
<1> QED
  BY <1>2, <1>3 DEF Drained

(* A wait ends with what it has recorded.                                   *)
LEMMA WaitReturnsKeeps ==
  ASSUME WindowsArguments, WindowsInv, At("loop", 0), NEW result,
         \/ result = "WAIT_FAILED"
         \/ result = IF waiting # {} THEN "TIMEOUT_REACHED"
                     ELSE IF ioFailed # {} THEN "IO_FAILED" ELSE "SUCCESS",
         Returns("wait", slots, result), Then(<<>>), LocalsGone,
         UNCHANGED <<client, childVars, pipeVars, handleVars>>
  PROVE  WindowsInv'
<1>1. /\ todo # <<>> /\ Head(todo) = <<"loop", 0>> /\ PipesStand
      /\ todo' = <<>> \o Tail(todo) /\ UNCHANGED <<terminated, status, lastErrno>>
      /\ last'.op = "wait" /\ last'.on = slots /\ last'.result = result
      /\ pumped' = "SUCCESS" /\ timeout' = "none" /\ expired' = FALSE
      /\ slots' = {} /\ waiting' = {} /\ ioFailed' = {} /\ group' = 0
      /\ next' = 1 /\ spawnFailed' = FALSE /\ timedOut' = FALSE /\ waitFailed' = FALSE
  BY DEF At, Then, Returns, LocalsGone, PipesStand, childVars, pipeVars, handleVars, startVars,
         stdinVars, outputVars
<1>2. /\ TypeOK /\ TaskInv /\ WaitInv /\ DrainInv /\ CallInv /\ slots \subseteq Procs
      /\ waiting \subseteq Procs /\ ioFailed \subseteq Procs
  BY DEF WindowsInv, TypeOK
<1>3. todo' = <<>> /\ ~Runs /\ Tasks = {<<"loop", 0>>}
  <2>1. Bottom(Head(todo)) /\ Head(todo)[1] \in BackgroundNames
    BY <1>1 DEF Bottom, BackgroundNames
  <2>2. Tail(todo) = <<>> /\ Tasks = {Head(todo)}
    BY <1>1, <1>2, <2>1, Alone
  <2>3. todo' = <<>>
    BY <1>1, <2>2
  <2>4. ~Runs
    BY <1>1, <1>2, <2>1, <2>2 DEF TaskInv, Allowed
  <2> QED
    BY <1>1, <2>2, <2>3, <2>4
<1>4. TypeOK'
  <2>1. group' \in 0 .. N /\ next' \in 1 .. N + 1
    BY <1>1 DEF WindowsArguments
  <2> QED
    BY <1>1, <1>2, <2>1 DEF TypeOK, PipesStand
<1>5. StartInv' /\ WriteInv' /\ ReadInv' /\ InputInv' /\ OutputInv'
  <2>1. StartInv /\ NotPumping
    BY <1>1, <1>3 DEF WindowsInv, NotPumping
  <2>2. \A q \in Procs : StatusStep(q) /\ (lastErrno[q] => lastErrno'[q])
    BY <1>1 DEF StatusStep
  <2> QED
    BY <1>1, <1>3, <2>1, <2>2, StartKeeps, PipesKeep
<1>6. TaskInv' /\ CallInv' /\ WaitInv' /\ DrainInv' /\ DrainHarvested' /\ RunInv'
  <2>1. NoLocals' /\ client' = client
    BY <1>1 DEF NoLocals, PipesStand
  <2> QED
    BY <1>3, <2>1, Idle
<1>7. OutputComplete'
  <2> SUFFICES ASSUME NEW q \in slots, status[q] \in Terminal, ~lastErrno[q]
               PROVE  sunk[q] = produced[q]
    BY <1>1 DEF OutputComplete, PipesStand
  <2>1. ~Finalizing(q) /\ \A j \in 1 .. q : <<"prime", j>> \notin Tasks
    BY <1>3 DEF Finalizing
  <2>2. ~readOpen[q]
    BY <1>2, <2>1 DEF DrainInv
  <2>3. processOpen[q]
    BY <1>2 DEF WindowsInv, WaitInv, StartInv
  <2>4. OutputOf(q)
    BY <1>2 DEF WindowsInv, OutputInv
  <2>5. sunk[q] \in Nat
    BY <1>2 DEF TypeOK
  <2> QED
    BY <2>2, <2>3, <2>4, <2>5 DEF OutputOf
<1>8. ReturnContract'
  <2>1. \A q \in Procs : <<"reported", q>> \notin Tasks
    BY <1>3
  <2>2. result = "SUCCESS" => \A q \in slots : status[q] \in Terminal
    BY <1>2 DEF WaitInv
  <2>3. result = "TIMEOUT_REACHED" => \E q \in slots : status[q] = "RUNNING"
    <3> HAVE result = "TIMEOUT_REACHED"
    <3>1. PICK q \in waiting : TRUE
      OBVIOUS
    <3>2. q \in slots /\ status[q] = "RUNNING"
      BY <1>2, <2>1 DEF WaitInv
    <3> QED
      BY <3>2
  <2>4. result = "IO_FAILED" => \E q \in slots : lastErrno[q]
    <3> HAVE result = "IO_FAILED"
    <3>1. PICK q \in ioFailed : TRUE
      OBVIOUS
    <3>2. q \in slots /\ lastErrno[q]
      BY <1>2, <1>3 DEF CallInv
    <3> QED
      BY <3>2
  <2> QED
    BY <1>1, <2>2, <2>3, <2>4 DEF ReturnContract
<1>9. ResultInv'
  <2>1. \A q \in slots : background'[q]
    BY <1>1, <1>2 DEF WaitInv, PipesStand
  <2> QED
    BY <1>1, <1>2, <1>7, <1>8, <2>1 DEF ResultInv
<1> QED
  BY <1>4, <1>5, <1>6, <1>9 DEF WindowsInv

(* The wait ends: nobody left, or late.                                     *)
LEMMA LoopEndsKeeps ==
  ASSUME WindowsArguments, WindowsInv, LoopEnds
  PROVE  WindowsInv'
<1> DEFINE result == IF waiting # {} THEN "TIMEOUT_REACHED"
                     ELSE IF ioFailed # {} THEN "IO_FAILED" ELSE "SUCCESS"
<1>1. /\ At("loop", 0) /\ Returns("wait", slots, result) /\ Then(<<>>) /\ LocalsGone
      /\ UNCHANGED <<client, childVars, pipeVars, handleVars>>
  BY DEF LoopEnds
<1> QED
  BY <1>1, WaitReturnsKeeps

(* The system refuses the wait.                                             *)
LEMMA WaitFailsKeeps ==
  ASSUME WindowsArguments, WindowsInv, WaitFails
  PROVE  WindowsInv'
BY WaitReturnsKeeps DEF WaitFails

(* A turn of the loop looks at the lowest handle of the group that is       *)
(* signalled.                                                               *)
LEMMA WakesKeeps ==
  ASSUME WindowsArguments, WindowsInv, NEW p \in Procs, Wakes(p)
  PROVE  WindowsInv'
<1>1. /\ todo # <<>> /\ Head(todo) = <<"loop", 0>> /\ p \in waiting /\ PipesStand
      /\ status' = IF os[p] = "gone" THEN [status EXCEPT ![p] = "EXITED"] ELSE status
      /\ UNCHANGED <<terminated, lastErrno, pumped, timeout, expired>>
      /\ UNCHANGED <<slots, waiting, ioFailed, group>>
      /\ UNCHANGED <<next, spawnFailed, timedOut, waitFailed, last>>
  BY DEF Wakes, At, InGroup, PipesStand, childVars, pipeVars, handleVars,
         startVars, stdinVars, outputVars, callVars, waitVars, runVars
<1>2. /\ os[p] = "gone" =>
           todo' = (<<<<"finalize", p>>, <<"reported", p>>>> \o <<<<"loop", 0>>>>) \o Tail(todo)
      /\ os[p] # "gone" /\ WriteDone(p) =>
           todo' = (<<<<"pumpStdin", p>>>> \o <<<<"loop", 0>>>>) \o Tail(todo)
      /\ os[p] # "gone" /\ ~WriteDone(p) =>
           todo' = (<<<<"pumpOutput", p>>, <<"drained", p>>>> \o <<<<"loop", 0>>>>) \o Tail(todo)
  <2>1. CASE os[p] = "gone"
    BY <2>1, Zenon DEF Wakes, Then
  <2>2. CASE os[p] # "gone" /\ WriteDone(p)
    BY <2>2, Zenon DEF Wakes, Then
  <2>3. CASE os[p] # "gone" /\ ~WriteDone(p)
    BY <2>3, Zenon DEF Wakes, Then
  <2> QED
    BY <2>1, <2>2, <2>3
<1>3. /\ TypeOK /\ TaskInv /\ WaitInv /\ DrainInv /\ StartInv /\ client' = client
      /\ p \in slots /\ waiting \subseteq Procs /\ slots \subseteq Procs
  BY <1>1 DEF WindowsInv, TypeOK, WaitInv, PipesStand
<1>4. Tasks = {<<"loop", 0>>} /\ ~Runs
  <2>1. Bottom(Head(todo)) /\ Head(todo)[1] \in BackgroundNames
    BY <1>1 DEF Bottom, BackgroundNames
  <2>2. Tasks = {Head(todo)}
    BY <1>1, <1>3, <2>1, Alone
  <2> QED
    BY <1>1, <1>3, <2>1, <2>2 DEF TaskInv, Allowed
<1>5. /\ TaskInv' /\ todo' # <<>> /\ Head(todo')[1] \in {"finalize", "pumpStdin", "pumpOutput"}
      /\ os[p] = "gone" => <<"finalize", p>> \in Tasks' /\ <<"reported", p>> \in Tasks'
      /\ \A q \in Procs : <<"reported", q>> \in Tasks' => q = p /\ os[p] = "gone"
  <2> DEFINE t == <<"loop", 0>>
  <2>1. /\ t \in Task /\ InPlaceOf(t, Head(todo)) /\ Allowed(t)
        /\ todo # <<>> /\ UNCHANGED <<client, slots>> /\ t = <<"loop", 0>>
    BY <1>1, <1>3, <1>4 DEF Task, BackgroundNames, InPlaceOf, Allowed, RunNames, WindowsArguments
  <2>2. CASE os[p] = "gone"
    <3> DEFINE a == <<"finalize", p>>
    <3> DEFINE b == <<"reported", p>>
    <3>1. /\ a \in Task /\ b \in Task /\ Follows(a, b) /\ Follows(b, t) /\ Allowed(a) /\ Allowed(b)
      BY <1>3, <1>4 DEF Task, Procs, WindowsArguments, PumpNames, BackgroundNames, RunNames,
                        Follows, Allowed
    <3>2. todo' = (<<a, b>> \o <<t>>) \o Tail(todo)
      BY <1>2, <2>2
    <3> HIDE DEF a, b, t
    <3>3. /\ TaskInv' /\ todo' # <<>> /\ Head(todo') = a
          /\ Tasks' \subseteq {a, b, t} \cup Tasks /\ {a, b, t} \subseteq Tasks'
      BY <1>3, <2>1, <3>1, <3>2, AheadTwo
    <3> QED
      BY <1>4, <2>1, <2>2, <3>3 DEF a, b
  <2>3. CASE os[p] # "gone" /\ WriteDone(p)
    <3> DEFINE a == <<"pumpStdin", p>>
    <3>1. a \in Task /\ Follows(a, t) /\ Allowed(a)
      BY <1>3, <1>4 DEF Task, Procs, WindowsArguments, PumpNames, BackgroundNames, RunNames,
                        Follows, Allowed
    <3>2. todo' = (<<a>> \o <<t>>) \o Tail(todo)
      BY <1>2, <2>3
    <3> HIDE DEF a, t
    <3>3. /\ TaskInv' /\ todo' # <<>> /\ Head(todo') = a
          /\ Tasks' \subseteq {a, t} \cup Tasks
      BY <1>3, <2>1, <3>1, <3>2, AheadOne
    <3> QED
      BY <1>4, <2>1, <2>3, <3>3 DEF a
  <2>4. CASE os[p] # "gone" /\ ~WriteDone(p)
    <3> DEFINE a == <<"pumpOutput", p>>
    <3> DEFINE b == <<"drained", p>>
    <3>1. /\ a \in Task /\ b \in Task /\ Follows(a, b) /\ Follows(b, t) /\ Allowed(a) /\ Allowed(b)
      BY <1>3, <1>4 DEF Task, Procs, WindowsArguments, PumpNames, BackgroundNames, RunNames,
                        Follows, Allowed
    <3>2. todo' = (<<a, b>> \o <<t>>) \o Tail(todo)
      BY <1>2, <2>4
    <3> HIDE DEF a, b, t
    <3>3. /\ TaskInv' /\ todo' # <<>> /\ Head(todo') = a
          /\ Tasks' \subseteq {a, b, t} \cup Tasks
      BY <1>3, <2>1, <3>1, <3>2, AheadTwo
    <3> QED
      BY <1>4, <2>1, <2>4, <3>3 DEF a, b
  <2> QED
    BY <2>2, <2>3, <2>4
<1>6. /\ \A q \in Procs : q # p => status'[q] = status[q]
      /\ status'[p] = IF os[p] = "gone" THEN "EXITED" ELSE status[p]
  BY <1>1, <1>3 DEF TypeOK
<1>7. TypeOK'
  <2>1. status' \in [Procs -> {"NOT_STARTED", "RUNNING", "FAILED_TO_START"} \cup Terminal]
    BY <1>1, <1>3 DEF TypeOK, Terminal
  <2> QED
    BY <1>1, <1>3, <2>1 DEF TypeOK, PipesStand
<1>8. WaitInv'
  <2>1. \A q \in waiting : status[q] = "RUNNING"
    BY <1>3, <1>4 DEF WaitInv
  <2>2. ASSUME NEW q \in slots
        PROVE  /\ background[q] /\ status'[q] \in {"RUNNING"} \cup Terminal
               /\ q \notin waiting => status'[q] \in Terminal \/ q \in ioFailed
               /\ q \in waiting => status'[q] = "RUNNING" \/ <<"reported", q>> \in Tasks'
    BY <1>3, <1>5, <1>6, <2>1 DEF WaitInv, Terminal
  <2>3. \A q \in Procs : <<"reported", q>> \in Tasks' => status'[q] \in Terminal
    BY <1>5, <1>6 DEF Terminal
  <2> QED
    BY <1>1, <1>3, <2>2, <2>3 DEF WaitInv, PipesStand
<1>9. DrainInv'
  <2> SUFFICES ASSUME NEW q \in Procs, status'[q] \in Terminal, ~lastErrno[q], readOpen[q],
                      q \in slots
               PROVE  Finalizing(q)' \/ \E j \in 1 .. q : <<"prime", j>> \in Tasks'
    BY <1>1, <1>4 DEF DrainInv, PipesStand, Runs
  <2>1. ~Finalizing(q) /\ \A j \in 1 .. q : <<"prime", j>> \notin Tasks
    BY <1>4 DEF Finalizing
  <2>2. status[q] \notin Terminal
    BY <1>3, <2>1 DEF DrainInv
  <2> QED
    BY <1>5, <1>6, <2>2 DEF Finalizing
<1> QED
  <2>1. NotPumping /\ Head(todo')[1] # "release" /\ \A q \in Procs : StatusStep(q)
    BY <1>5, <1>6 DEF NotPumping, StatusStep, Terminal
  <2>2. \A q \in Procs :
          \A name \in {"settle", "primed", "drained", "reported", "noted", "harvested"} :
            ~Doing(name, q)'
    BY <1>5 DEF Doing
  <2> QED
    BY <1>1, <1>4, <1>5, <1>7, <1>8, <1>9, <2>1, <2>2, WaitStepKeeps

(* There are as many groups as the handles waited for fill.                 *)
LEMMA GroupsOf ==
  ASSUME WindowsArguments, waiting \subseteq Procs
  PROVE  Groups(waiting) \in Nat /\ Groups(waiting) >= 1 /\ (Groups(waiting) > 1 => Groups(waiting) <= N)
<1>1. /\ IsFiniteSet(waiting) /\ Cardinality(waiting) \in Nat /\ Cardinality(waiting) <= N
      /\ waiting # {} => Cardinality(waiting) >= 1
  <2>1. IsFiniteSet(Procs) /\ Cardinality(Procs) = N
    <3>1. N \in Nat \ {0}
      BY DEF WindowsArguments
    <3> QED
      BY <3>1, FS_Interval DEF Procs
  <2>2. IsFiniteSet(waiting) /\ Cardinality(waiting) <= N
    BY <2>1, FS_Subset
  <2>3. Cardinality(waiting) \in Nat
    BY <2>2, FS_CardinalityType
  <2>4. waiting # {} => Cardinality(waiting) # 0
    BY <2>2, FS_EmptySet
  <2> QED
    BY <2>2, <2>3, <2>4
<1>2. CASE waiting = {}
  BY <1>2 DEF Groups
<1>3. CASE waiting # {}
  <2> DEFINE c == Cardinality(waiting)
  <2> DEFINE g == (c + GroupSize - 1) \div GroupSize
  <2>1. c \in Nat /\ 1 <= c /\ c <= N /\ GroupSize \in Nat /\ GroupSize >= 1 /\ N \in Nat
    BY <1>1, <1>3 DEF WindowsArguments
  <2>2. g \in Nat /\ g * GroupSize <= c + GroupSize - 1 /\ c + GroupSize - 1 < (g + 1) * GroupSize
    <3> HIDE DEF c
    <3> QED
      BY <2>1, SMTT(30)
  <2>3. Groups(waiting) = g
    BY <1>3 DEF Groups
  <2> HIDE DEF g, c
  <2>4. g >= 1
    <3>1. g = 0 => (g + 1) * GroupSize = GroupSize
      BY <2>1
    <3> QED
      BY <2>1, <2>2, <3>1
  <2>5. g <= c
    <3> SUFFICES ASSUME g >= c + 1 PROVE FALSE
      BY <2>1, <2>2
    <3>1. PICK d \in Nat : g = c + 1 + d
      <4>1. g - (c + 1) \in Nat /\ g = c + 1 + (g - (c + 1))
        BY <2>1, <2>2
      <4> QED
        BY <4>1
    <3>2. g * GroupSize = c * GroupSize + GroupSize + d * GroupSize
      BY <2>1, <3>1
    <3>3. c * GroupSize >= c /\ d * GroupSize >= 0
      <4>1. PICK e \in Nat : GroupSize = e + 1
        <5>1. GroupSize - 1 \in Nat /\ GroupSize = (GroupSize - 1) + 1
          BY <2>1
        <5> QED
          BY <5>1
      <4>2. c * e \in Nat /\ d * GroupSize \in Nat
        BY <2>1, <3>1
      <4>3. c * GroupSize = c * e + c
        BY <2>1, <4>1
      <4> QED
        BY <2>1, <4>2, <4>3
    <3>4. c * GroupSize \in Nat /\ d * GroupSize \in Nat
      BY <2>1, <3>1
    <3> QED
      BY <2>1, <2>2, <3>2, <3>3, <3>4
  <2> QED
    BY <2>1, <2>2, <2>3, <2>4, <2>5
<1> QED
  BY <1>2, <1>3

(* The slice of a group ends without a signal.                              *)
LEMMA SliceEndsKeeps ==
  ASSUME WindowsArguments, WindowsInv, SliceEnds
  PROVE  WindowsInv'
<1>1. /\ todo # <<>> /\ Head(todo) = <<"loop", 0>> /\ todo' = todo /\ PipesStand
      /\ Groups(waiting) > 1 /\ group' = (group + 1) % Groups(waiting)
      /\ UNCHANGED <<terminated, status, lastErrno, pumped, timeout, expired>>
      /\ UNCHANGED <<slots, waiting, ioFailed>>
      /\ UNCHANGED <<next, spawnFailed, timedOut, waitFailed, last>>
  BY DEF SliceEnds, At, PipesStand, childVars, pipeVars, handleVars,
         startVars, stdinVars, outputVars, runVars
<1>2. TypeOK /\ TaskInv /\ WaitInv /\ DrainInv
  BY DEF WindowsInv
<1>3. group' \in 0 .. N
  <2>1. Groups(waiting) \in Nat /\ Groups(waiting) <= N /\ group \in Nat /\ N \in Nat
    <3>1. waiting \subseteq Procs
      BY <1>2 DEF TypeOK
    <3>2. N \in Nat
      BY DEF WindowsArguments
    <3>3. group \in Nat
      BY <1>2, <3>2 DEF TypeOK
    <3> QED
      BY <1>1, <3>1, <3>2, <3>3, GroupsOf
  <2>2. (group + 1) % Groups(waiting) \in 0 .. Groups(waiting) - 1
    BY <1>1, <2>1
  <2> QED
    BY <1>1, <2>1, <2>2
<1>4. ~Runs
  <2>1. Head(todo) \in Tasks
    BY <1>1, <1>2, Popped DEF TaskInv, Tasks
  <2> QED
    BY <1>1, <1>2, <2>1 DEF TaskInv, Allowed, BackgroundNames
<1>5. TypeOK'
  BY <1>1, <1>2, <1>3 DEF TypeOK, PipesStand
<1>6. TaskInv' /\ Tasks' = Tasks
  BY <1>1, <1>2 DEF TaskInv, Tasks, Allowed, Runs, PipesStand
<1>7. WaitInv' /\ DrainInv'
  BY <1>1, <1>2, <1>6 DEF WaitInv, DrainInv, Finalizing, Runs, PipesStand
<1> QED
  <2>1. NotPumping /\ Head(todo')[1] # "release" /\ \A q \in Procs : StatusStep(q)
    BY <1>1 DEF NotPumping, StatusStep
  <2>2. \A q \in Procs :
          \A name \in {"settle", "primed", "drained", "reported", "noted", "harvested"} :
            ~Doing(name, q)'
    BY <1>1 DEF Doing
  <2> QED
    BY <1>1, <1>4, <1>5, <1>6, <1>7, <2>1, <2>2, WaitStepKeeps

-----------------------------------------------------------------------------
(* The blocking run.                                                        *)

(* A step of a run that leaves the pipes to the pumps.                      *)
LEMMA RunStepKeeps ==
  ASSUME WindowsInv, TypeOK', TaskInv', DrainInv', DrainHarvested', RunInv', Runs,
         todo # <<>>, todo' # <<>>, NotPumping, Head(todo')[1] # "release", PipesStand,
         UNCHANGED <<last, slots, waiting>>, waitFailed => waitFailed',
         \A q \in Procs : StatusStep(q) /\ (lastErrno[q] => lastErrno'[q]),
         \A q \in Procs :
           \A name \in {"settle", "primed", "drained", "reported", "noted", "harvested"} :
             Doing(name, q)' /\ pumped' = "IO_FAILED" => lastErrno'[q],
         ioFailed' \subseteq ioFailed \cup {q \in Procs : lastErrno'[q]}
  PROVE  WindowsInv'
<1>1. Runs' /\ slots' = {} /\ waiting' = {}
  BY DEF WindowsInv, CallInv, WaitInv, PipesStand, Runs
<1>2. StartInv' /\ WriteInv' /\ ReadInv' /\ InputInv' /\ OutputInv'
  <2>1. StartInv
    BY DEF WindowsInv
  <2> QED
    BY <2>1, StartKeeps, PipesKeep
<1>3. CallInv' /\ last' = NoCall
  <2>1. last = NoCall /\ ioFailed \subseteq {q \in Procs : lastErrno[q]}
    BY DEF WindowsInv, CallInv
  <2> QED
    BY <1>1, <2>1 DEF CallInv
<1>4. WaitInv' /\ ResultInv'
  BY <1>1, <1>3, WithoutWait, NoCallResult
<1> QED
  BY <1>2, <1>3, <1>4 DEF WindowsInv

(* What the tasks of a run say of it.                                       *)
MarkNames == {"harvest", "harvested", "end", "terminate", "teardown"}
Marks == {t \in Tasks : t[1] \in MarkNames}

(* What is said of a run stays while its marks and its handles do.          *)
LEMMA MarksStay ==
  ASSUME RunInv, InRun, Marks' = Marks, timedOut => timedOut',
         UNCHANGED <<client, os, valid, processOpen, status, next, spawnFailed, waitFailed>>
  PROVE  RunInv'
<1>1. \A name \in MarkNames : \A j : <<name, j>> \in Tasks' <=> <<name, j>> \in Tasks
  <2> SUFFICES ASSUME NEW name \in MarkNames, NEW j
               PROVE  <<name, j>> \in Tasks' <=> <<name, j>> \in Tasks
    OBVIOUS
  <2>1. <<name, j>> \in Marks' <=> <<name, j>> \in Tasks'
    BY DEF Marks
  <2>2. <<name, j>> \in Marks <=> <<name, j>> \in Tasks
    BY DEF Marks
  <2> QED
    BY <2>1, <2>2
<1>2. /\ \A j : <<"harvest", j>> \in Tasks' <=> <<"harvest", j>> \in Tasks
      /\ \A j : <<"harvested", j>> \in Tasks' <=> <<"harvested", j>> \in Tasks
      /\ <<"end", 0>> \in Tasks' <=> <<"end", 0>> \in Tasks
      /\ <<"terminate", 1>> \in Tasks' <=> <<"terminate", 1>> \in Tasks
      /\ <<"teardown", 0>> \in Tasks' <=> <<"teardown", 0>> \in Tasks
  BY <1>1 DEF MarkNames
<1>3. Running' = Running /\ Spawned' = Spawned
  BY DEF Running, Spawned
<1> QED
  BY <1>2, <1>3 DEF RunInv, InRun

(* At the bottom of a run, a task that says nothing of it.                  *)
LEMMA BottomOfRun ==
  ASSUME WindowsInv, todo # <<>>, Bottom(Head(todo)), Head(todo)[1] \in RunNames
  PROVE  /\ Runs /\ Tasks = {Head(todo)} /\ Tail(todo) = <<>> /\ InRun
         /\ TypeOK /\ TaskInv /\ RunInv /\ StartInv /\ CallInv /\ slots = {} /\ waiting = {}
         /\ \A q \in Procs : ~(status[q] \in Terminal /\ ~lastErrno[q] /\ readOpen[q] /\ ~waitFailed)
         /\ pumped \in {"SUCCESS", "IO_FAILED"}
<1>1. Tasks = {Head(todo)} /\ Tail(todo) = <<>>
  BY Alone DEF WindowsInv
<1>2. Runs /\ InRun
  <2>1. Runs
    BY <1>1 DEF WindowsInv, TaskInv, Allowed
  <2>2. "release" \notin RunNames
    BY DEF RunNames
  <2> QED
    BY <2>1, <2>2 DEF InRun
<1>3. slots = {} /\ waiting = {}
  BY <1>2 DEF WindowsInv, CallInv, WaitInv
<1>4. \A q \in Procs : ~(status[q] \in Terminal /\ ~lastErrno[q] /\ readOpen[q] /\ ~waitFailed)
  <2> SUFFICES ASSUME NEW q \in Procs, status[q] \in Terminal, ~lastErrno[q], readOpen[q], ~waitFailed
               PROVE  FALSE
    OBVIOUS
  <2>1. Finalizing(q) \/ \E j \in 1 .. q : <<"prime", j>> \in Tasks
    BY <1>2 DEF WindowsInv, DrainInv
  <2>2. Head(todo)[1] \in {"finalize", "settle", "prime"}
    BY <1>1, <2>1 DEF Finalizing
  <2> QED
    BY <2>2 DEF RunNames
<1> QED
  BY <1>1, <1>2, <1>3, <1>4 DEF WindowsInv, TypeOK

(* Sequences one after the other.                                           *)
LEMMA Concatenation ==
  ASSUME NEW S, NEW x \in Seq(S), NEW y \in Seq(S)
  PROVE  /\ x \o y \in Seq(S) /\ Len(x \o y) = Len(x) + Len(y)
         /\ \A k \in 1 .. Len(x) : (x \o y)[k] = x[k]
         /\ \A k \in 1 .. Len(y) : (x \o y)[Len(x) + k] = y[k]
<1>1. x \o y \in Seq(S)
  OBVIOUS
<1>2. Len(x \o y) = Len(x) + Len(y)
  OBVIOUS
<1>3. \A k \in 1 .. Len(x) : (x \o y)[k] = x[k]
  OBVIOUS
<1>4. \A k \in 1 .. Len(y) : (x \o y)[Len(x) + k] = y[k]
  OBVIOUS
<1> QED
  BY <1>1, <1>2, <1>3, <1>4

(* A list of one before a list of one, with nothing below, is a list of two.*)
LEMMA PairOf ==
  ASSUME NEW S, NEW a \in S, NEW b \in S
  PROVE  (<<a>> \o <<b>>) \o <<>> = <<a, b>>
<1> DEFINE x == <<a>>
<1> DEFINE y == <<b>>
<1> DEFINE w == x \o y
<1> DEFINE z == <<a, b>>
<1>1. x \in Seq(S) /\ y \in Seq(S)
  OBVIOUS
<1>2. /\ Len(x) = 1 /\ x[1] = a /\ Len(y) = 1 /\ y[1] = b
      /\ z \in Seq(S) /\ Len(z) = 2 /\ z[1] = a /\ z[2] = b
  OBVIOUS
<1> HIDE DEF x, y, z
<1>3. w \in Seq(S) /\ Len(w) = Len(x) + Len(y)
  BY <1>1, Concatenation
<1>4. \A k \in 1 .. Len(x) : w[k] = x[k]
  BY <1>1, Concatenation
<1>5. \A k \in 1 .. Len(y) : w[Len(x) + k] = y[k]
  BY <1>1, Concatenation
<1> HIDE DEF w
<1>6. Len(w) = 2 /\ w[1] = a
  BY <1>2, <1>3, <1>4
<1>7. w[2] = b
  <2>1. w[1 + 1] = b
    BY <1>2, <1>5
  <2> QED
    BY <2>1
<1>8. \A k \in 1 .. 2 : w[k] = z[k]
  BY <1>2, <1>6, <1>7
<1>9. w = z
  BY <1>2, <1>3, <1>6, <1>8, SeqEqual
<1>10. w \o <<>> = w
  BY <1>3, ConcatEmptySeq
<1> QED
  BY <1>9, <1>10 DEF w, x, y, z

(* Another task takes its place.                                            *)
LEMMA BottomStepKeeps ==
  ASSUME WindowsArguments, WindowsInv, todo # <<>>, Bottom(Head(todo)), Head(todo)[1] \in RunNames,
         NEW a \in Task, NEW t \in Task, a[1] \in RunNames, Bottom(t), t[1] \in RunNames,
         \/ a = t /\ (todo' = <<t>> \o Tail(todo) \/ todo' = (<<>> \o <<t>>) \o Tail(todo))
         \/ Follows(a, t) /\ todo' = (<<a>> \o <<t>>) \o Tail(todo),
         PipesStand, UNCHANGED <<terminated, status, lastErrno, pumped, timeout, expired>>,
         UNCHANGED <<slots, waiting, ioFailed, group, next, spawnFailed, last>>,
         timedOut' \in BOOLEAN, waitFailed' \in BOOLEAN, timedOut => timedOut', waitFailed => waitFailed',
         a[1] \notin {"noted", "harvested", "harvest"},
         <<"end", 0>> \in {a, t} => waitFailed' \/ timedOut' \/ (Running = {} /\ next > N),
         <<"teardown", 0>> \in {a, t} =>
           /\ waitFailed' \/ timedOut' \/ next > N
           /\ waitFailed' \/ Running = {} \/ <<"terminate", 1>> \in {a, t}
  PROVE  WindowsInv'
<1>1. /\ Runs /\ Tasks = {Head(todo)} /\ Tail(todo) = <<>> /\ InRun
      /\ TypeOK /\ TaskInv /\ RunInv /\ StartInv /\ CallInv /\ slots = {} /\ waiting = {}
      /\ \A q \in Procs : ~(status[q] \in Terminal /\ ~lastErrno[q] /\ readOpen[q] /\ ~waitFailed)
  BY BottomOfRun
<1>2. Runs' /\ client' = client
  BY <1>1 DEF PipesStand, Runs
<1>3. Allowed(a)' /\ Allowed(t)'
  <2>1. RunNames \cap (BackgroundNames \cup {"primed", "drained", "reported"}) = {}
    BY DEF RunNames, BackgroundNames
  <2> QED
    BY <1>2, <2>1 DEF Allowed
<1>4. TaskInv' /\ todo' # <<>> /\ Head(todo') = a /\ Tasks' = {a, t}
  <2>1. CASE a = t
    <3>1. todo' = <<t>>
      <4>1. <<>> \o <<t>> = <<t>> /\ <<t>> \o <<>> = <<t>>
        OBVIOUS
      <4>2. CASE todo' = <<t>> \o Tail(todo) \/ todo' = (<<>> \o <<t>>) \o Tail(todo)
        BY <1>1, <4>1, <4>2
      <4>3. CASE Follows(a, t)
        BY <2>1, <4>3 DEF Follows, Bottom
      <4> QED
        BY <4>2, <4>3
    <3>2. TaskInv' /\ todo' # <<>> /\ Head(todo') = t /\ Tasks' = {t}
      BY <1>3, <3>1, BeginsOne
    <3> QED
      BY <2>1, <3>2
  <2>2. CASE a # t
    <3>1. Follows(a, t) /\ todo' = <<a, t>>
      <4>1. (<<a>> \o <<t>>) \o <<>> = <<a, t>>
        BY PairOf
      <4> QED
        BY <1>1, <2>2, <4>1
    <3>2. TaskInv' /\ todo' # <<>> /\ Head(todo') = a /\ Tasks' = {a, t}
      BY <1>3, <3>1, BeginsTwo
    <3> QED
      BY <3>2
  <2> QED
    BY <2>1, <2>2
<1>5. /\ \A q : <<"harvested", q>> \notin Tasks'
      /\ \A j : <<"harvest", j>> \notin Tasks'
  BY <1>4 DEF Bottom
<1>6. TypeOK'
  <2>1. {expired', spawnFailed', timedOut', waitFailed'} \subseteq BOOLEAN
    BY <1>1 DEF TypeOK
  <2> QED
    BY <1>1, <2>1 DEF TypeOK, PipesStand
<1>7. DrainInv' /\ DrainHarvested'
  <2>1. \A q \in Procs : ~(status'[q] \in Terminal /\ ~lastErrno'[q] /\ readOpen'[q] /\ ~waitFailed')
    BY <1>1 DEF PipesStand
  <2> QED
    BY <1>1, <1>2, <1>5, <2>1 DEF DrainInv, DrainHarvested
<1>8. RunInv'
  <2>1. Running' = Running /\ Spawned' = Spawned
    BY DEF Running, Spawned
  <2>2. /\ \A q \in Procs : /\ valid'[q] /\ (status'[q] = "NOT_STARTED" <=> q >= next')
                            /\ q \in Spawned' => processOpen'[q]
        /\ spawnFailed' => \E q \in Procs : status'[q] = "FAILED_TO_START"
    BY <1>1, <2>1 DEF RunInv, PipesStand
  <2>3. <<"end", 0>> \in Tasks' => waitFailed' \/ timedOut' \/ (Running' = {} /\ next' > N)
    BY <1>4, <2>1
  <2>4. <<"teardown", 0>> \in Tasks' =>
         /\ waitFailed' \/ timedOut' \/ next' > N
         /\ waitFailed' \/ Running' = {} \/ <<"terminate", 1>> \in Tasks'
    BY <1>4, <2>1
  <2> QED
    BY <1>5, <2>2, <2>3, <2>4 DEF RunInv
<1> QED
  <2>1. /\ NotPumping /\ Head(todo')[1] # "release" /\ \A q \in Procs : StatusStep(q)
        /\ \A q \in Procs :
             \A name \in {"settle", "primed", "drained", "reported", "noted", "harvested"} :
               ~Doing(name, q)'
    BY <1>4 DEF NotPumping, StatusStep, RunNames, Doing
  <2> QED
    BY <1>1, <1>4, <1>6, <1>7, <1>8, <2>1, RunStepKeeps

(* A run begins.                                                            *)
LEMMA RunBeginsKeeps ==
  ASSUME WindowsArguments, WindowsInv, Runs, NEW t \in client.timeouts, RunBegins(t)
  PROVE  WindowsInv'
<1>1. /\ todo = <<>> /\ \A q \in Procs : valid[q] /\ status[q] = "NOT_STARTED"
      /\ PipesStand /\ last' = NoCall /\ todo' = <<<<"fill", 0>>>> /\ timeout' = t
      /\ lastErrno' = Everywhere(FALSE)
      /\ UNCHANGED <<terminated, status, pumped, expired, slots, waiting, ioFailed, group>>
      /\ UNCHANGED <<next, spawnFailed, timedOut, waitFailed>>
  BY DEF RunBegins, CallUnderWay, PipesStand, childVars, pipeVars, startVars, stdinVars,
         outputVars, waitVars, runVars
<1>2. Runs' /\ NoLocals' /\ client' = client
  BY <1>1 DEF WindowsInv, CallInv, NoLocals, PipesStand, Runs
<1>3. TypeOK'
  <2>1. lastErrno' \in [Procs -> BOOLEAN]
    BY <1>1 DEF Everywhere
  <2>2. {sawEof', valid', background', processOpen', stdinOpen', readOpen', writePending',
         readPending', lastErrno'} \subseteq [Procs -> BOOLEAN]
    <3>1. {sawEof, valid, background, processOpen, stdinOpen, readOpen, writePending,
           readPending} \subseteq [Procs -> BOOLEAN]
      BY DEF WindowsInv, TypeOK
    <3>2. /\ sawEof' = sawEof /\ valid' = valid /\ background' = background
          /\ processOpen' = processOpen /\ stdinOpen' = stdinOpen /\ readOpen' = readOpen
          /\ writePending' = writePending /\ readPending' = readPending
      BY <1>1 DEF PipesStand
    <3> QED
      BY <2>1, <3>1, <3>2
  <2> QED
    BY <1>1, <2>2 DEF WindowsInv, TypeOK, PipesStand
<1>4. /\ TaskInv' /\ todo' # <<>> /\ Head(todo') = <<"fill", 0>> /\ Tasks' = {<<"fill", 0>>}
  <2>1. <<"fill", 0>> \in Task /\ Bottom(<<"fill", 0>>) /\ Allowed(<<"fill", 0>>)'
    BY <1>2 DEF Task, RunNames, Bottom, Allowed, BackgroundNames, WindowsArguments
  <2> QED
    BY <1>1, <2>1, BeginsOne
<1>5. StartInv'
  BY <1>1, StartKeeps DEF WindowsInv, StatusStep
<1>6. \A q \in Procs : os[q] = "none" /\ Fresh(q)
  BY <1>1 DEF WindowsInv, StartInv
<1>7. WriteInv' /\ ReadInv'
  <2>1. \A q \in Procs : ~Doing("write", q)' /\ ~Doing("read", q)' /\ ~Doing("readMore", q)'
    BY <1>4 DEF Doing
  <2> QED
    BY <1>1, <2>1 DEF WindowsInv, WriteInv, ReadInv, PipesStand
<1>8. InputInv' /\ OutputInv'
  <2> SUFFICES ASSUME NEW q \in Procs PROVE InputOf(q)' /\ OutputOf(q)'
    BY DEF InputInv, OutputInv
  <2>1. InputOf(q) /\ OutputOf(q) /\ Sent(q)' = Sent(q)
    BY <1>1 DEF WindowsInv, InputInv, OutputInv, Sent, PipesStand
  <2>2. os[q] = "none" /\ ~processOpen[q]
    BY <1>6 DEF Fresh
  <2> QED
    BY <1>1, <2>1, <2>2 DEF InputOf, OutputOf, PipesStand
<1>9. CallInv' /\ WaitInv'
  BY <1>1, <1>2, <1>4 DEF CallInv, WaitInv, NoLocals, Doing
<1>10. DrainInv' /\ DrainHarvested'
  BY <1>1, <1>4 DEF DrainInv, DrainHarvested, Terminal
<1>11. RunInv'
  <2>1. \A q \in Procs : valid'[q] /\ status'[q] = "NOT_STARTED" /\ q >= next' /\ q \notin Spawned'
    BY <1>1, <1>2 DEF PipesStand, NoLocals, Spawned, Terminal, Procs
  <2>2. ~spawnFailed'
    BY <1>2 DEF NoLocals
  <2> QED
    BY <1>4, <2>1, <2>2 DEF RunInv
<1> QED
  BY <1>1, <1>3, <1>4, <1>5, <1>7, <1>8, <1>9, <1>10, <1>11, NoCallResult DEF WindowsInv

(* The slots are full, or procs or time used up.                            *)
LEMMA FilledKeeps ==
  ASSUME WindowsArguments, WindowsInv, Filled
  PROVE  WindowsInv'
<1> DEFINE t == <<IF Running = {} \/ expired THEN "end" ELSE "wait", 0>>
<1>1. /\ todo # <<>> /\ Head(todo) = <<"fill", 0>> /\ PipesStand
      /\ todo' = <<t>> \o Tail(todo)
      /\ timedOut' = (timedOut \/ (Running # {} /\ expired) \/ (Running = {} /\ next <= N))
      /\ UNCHANGED <<terminated, status, lastErrno, pumped, timeout, expired>>
      /\ UNCHANGED <<slots, waiting, ioFailed, group, next, spawnFailed, waitFailed, last>>
  BY DEF Filled, At, Then, AllRunStands, PipesStand, childVars, pipeVars, handleVars, startVars,
         stdinVars, outputVars
<1>2. /\ Bottom(Head(todo)) /\ Head(todo)[1] \in RunNames /\ t \in Task /\ t[1] \in RunNames
      /\ Bottom(t)
  BY <1>1 DEF Bottom, RunNames, Task, WindowsArguments
<1>3. N \in Nat /\ next \in Nat /\ expired \in BOOLEAN /\ timedOut \in BOOLEAN /\ waitFailed \in BOOLEAN
  BY DEF WindowsInv, TypeOK, WindowsArguments
<1>4. timedOut' \in BOOLEAN /\ waitFailed' \in BOOLEAN /\ (timedOut => timedOut')
      /\ (waitFailed => waitFailed')
  BY <1>1, <1>3
<1>5. t[1] \notin {"noted", "harvested", "harvest"} /\ t # <<"teardown", 0>>
      /\ (<<"end", 0>> = t => waitFailed' \/ timedOut' \/ (Running = {} /\ next > N))
  <2>1. <<"end", 0>> = t => Running = {} \/ expired
    OBVIOUS
  <2>2. t[1] \notin {"noted", "harvested", "harvest"} /\ t # <<"teardown", 0>>
    OBVIOUS
  <2> HIDE DEF t
  <2>3. Running = {} \/ expired => timedOut' \/ (Running = {} /\ next > N)
    <3>1. Running = {} /\ ~(next > N) => timedOut'
      <4>1. timedOut' = (timedOut \/ (Running # {} /\ expired) \/ (Running = {} /\ next <= N))
        BY <1>1
      <4>2. ~(next > N) => next <= N
        BY <1>3
      <4> QED
        BY <4>1, <4>2, Zenon
    <3>2. Running # {} /\ expired => timedOut'
      <4>1. timedOut' = (timedOut \/ (Running # {} /\ expired) \/ (Running = {} /\ next <= N))
        BY <1>1
      <4> QED
        BY <4>1, Zenon
    <3> QED
      BY <3>1, <3>2
  <2> QED
    BY <2>1, <2>2, <2>3
<1> HIDE DEF t
<1> QED
  BY <1>1, <1>2, <1>4, <1>5, BottomStepKeeps

(* The wait of a run wakes, or its time is up.                              *)
LEMMA RunWakesKeeps ==
  ASSUME WindowsArguments, WindowsInv, RunWakes
  PROVE  WindowsInv'
<1> DEFINE t == <<IF \E p \in Running : Signalled(p) THEN "scan" ELSE "passed", 1>>
<1>1. /\ todo # <<>> /\ Head(todo) = <<"wait", 0>> /\ PipesStand
      /\ todo' = <<t>> \o Tail(todo)
      /\ UNCHANGED <<terminated, status, lastErrno, pumped, timeout, expired>>
      /\ UNCHANGED <<slots, waiting, ioFailed, group, next, spawnFailed, last>>
      /\ UNCHANGED <<timedOut, waitFailed>>
  BY DEF RunWakes, TaskOnly, At, Then, PipesStand, childVars, pipeVars, handleVars, startVars,
         stdinVars, outputVars, callVars, waitVars, runVars
<1>2. /\ Bottom(Head(todo)) /\ Head(todo)[1] \in RunNames /\ t \in Task /\ t[1] \in RunNames
      /\ Bottom(t)
  BY <1>1 DEF Bottom, RunNames, Task, WindowsArguments
<1>3. timedOut' \in BOOLEAN /\ waitFailed' \in BOOLEAN
  BY <1>1 DEF WindowsInv, TypeOK
<1>4. t[1] \notin {"noted", "harvested", "harvest"} /\ t # <<"teardown", 0>> /\ t # <<"end", 0>>
  OBVIOUS
<1> HIDE DEF t
<1> QED
  BY <1>1, <1>2, <1>3, <1>4, BottomStepKeeps

(* The system refuses the wait of a run.                                    *)
LEMMA RunWaitFailsKeeps ==
  ASSUME WindowsArguments, WindowsInv, RunWaitFails
  PROVE  WindowsInv'
<1> DEFINE t == <<"end", 0>>
<1>1. /\ todo # <<>> /\ Head(todo) = <<"wait", 0>> /\ PipesStand
      /\ todo' = <<t>> \o Tail(todo) /\ waitFailed' = TRUE /\ timedOut' = timedOut
      /\ UNCHANGED <<terminated, status, lastErrno, pumped, timeout, expired>>
      /\ UNCHANGED <<slots, waiting, ioFailed, group, next, spawnFailed, last>>
  BY DEF RunWaitFails, AllRunStands, At, Then, PipesStand, childVars, pipeVars, handleVars,
         startVars, stdinVars, outputVars
<1>2. /\ Bottom(Head(todo)) /\ Head(todo)[1] \in RunNames /\ t \in Task /\ t[1] \in RunNames
      /\ Bottom(t)
  BY <1>1 DEF Bottom, RunNames, Task, WindowsArguments
<1>3. timedOut' \in BOOLEAN /\ waitFailed' \in BOOLEAN
  BY <1>1 DEF WindowsInv, TypeOK
<1>4. t[1] \notin {"noted", "harvested", "harvest"} /\ t # <<"teardown", 0>>
  OBVIOUS
<1> HIDE DEF t
<1> QED
  BY <1>1, <1>2, <1>3, <1>4, BottomStepKeeps

(* Another turn of the loop of a run, or its end.                           *)
LEMMA AgainKeeps ==
  ASSUME WindowsArguments, WindowsInv, Again
  PROVE  WindowsInv'
<1> DEFINE t == <<IF (Running # {} \/ next <= N) /\ ~waitFailed THEN "fill" ELSE "end", 0>>
<1>1. /\ todo # <<>> /\ Head(todo) = <<"again", 0>> /\ PipesStand
      /\ todo' = <<t>> \o Tail(todo)
      /\ UNCHANGED <<terminated, status, lastErrno, pumped, timeout, expired>>
      /\ UNCHANGED <<slots, waiting, ioFailed, group, next, spawnFailed, last>>
      /\ UNCHANGED <<timedOut, waitFailed>>
  BY DEF Again, TaskOnly, At, Then, PipesStand, childVars, pipeVars, handleVars, startVars,
         stdinVars, outputVars, callVars, waitVars, runVars
<1>2. /\ Bottom(Head(todo)) /\ Head(todo)[1] \in RunNames /\ t \in Task /\ t[1] \in RunNames
      /\ Bottom(t)
  BY <1>1 DEF Bottom, RunNames, Task, WindowsArguments
<1>3. timedOut' \in BOOLEAN /\ waitFailed' \in BOOLEAN /\ N \in Nat /\ next \in Nat
  BY <1>1 DEF WindowsInv, TypeOK, WindowsArguments
<1>4. t[1] \notin {"noted", "harvested", "harvest"} /\ t # <<"teardown", 0>>
      /\ (<<"end", 0>> = t => waitFailed' \/ timedOut' \/ (Running = {} /\ next > N))
  BY <1>1, <1>3
<1> HIDE DEF t
<1> QED
  BY <1>1, <1>2, <1>3, <1>4, BottomStepKeeps

(* After the loop: kill what is left when late, then the teardown.          *)
LEMMA EndOfLoopKeeps ==
  ASSUME WindowsArguments, WindowsInv, EndOfLoop
  PROVE  WindowsInv'
<1> DEFINE t == <<"teardown", 0>>
<1> DEFINE a == IF timedOut /\ Running # {} THEN <<"terminate", 1>> ELSE t
<1>1. /\ todo # <<>> /\ Head(todo) = <<"end", 0>> /\ PipesStand
      /\ UNCHANGED <<terminated, status, lastErrno, pumped, timeout, expired>>
      /\ UNCHANGED <<slots, waiting, ioFailed, group, next, spawnFailed, last>>
      /\ UNCHANGED <<timedOut, waitFailed>>
  BY DEF EndOfLoop, TaskOnly, At, PipesStand, childVars, pipeVars, handleVars, startVars,
         stdinVars, outputVars, callVars, waitVars, runVars
<1>2. /\ Bottom(Head(todo)) /\ Head(todo)[1] \in RunNames /\ t \in Task /\ t[1] \in RunNames
      /\ Bottom(t) /\ a \in Task /\ a[1] \in RunNames
  BY <1>1 DEF Bottom, RunNames, Task, WindowsArguments
<1>3. \/ a = t /\ todo' = (<<>> \o <<t>>) \o Tail(todo)
      \/ Follows(a, t) /\ todo' = (<<a>> \o <<t>>) \o Tail(todo)
  <2>1. CASE timedOut /\ Running # {}
    <3>1. todo' = (<<<<"terminate", 1>>>> \o <<<<"teardown", 0>>>>) \o Tail(todo)
      BY <2>1, Zenon DEF EndOfLoop, Then
    <3> QED
      BY <2>1, <3>1 DEF Follows
  <2>2. CASE ~(timedOut /\ Running # {})
    <3>1. todo' = (<<>> \o <<<<"teardown", 0>>>>) \o Tail(todo)
      BY <2>2, Zenon DEF EndOfLoop, Then
    <3> QED
      BY <2>2, <3>1
  <2> QED
    BY <2>1, <2>2
<1>4. timedOut' \in BOOLEAN /\ waitFailed' \in BOOLEAN /\ N \in Nat /\ next \in Nat
  BY <1>1 DEF WindowsInv, TypeOK, WindowsArguments
<1>5. waitFailed \/ timedOut \/ (Running = {} /\ next > N)
  <2>1. RunInv /\ InRun /\ Tasks = {<<"end", 0>>}
    BY <1>1, <1>2, BottomOfRun
  <2> QED
    BY <2>1 DEF RunInv
<1>6. /\ a[1] \notin {"noted", "harvested", "harvest"} /\ a # <<"end", 0>> /\ t # <<"end", 0>>
      /\ waitFailed' \/ timedOut' \/ next > N
      /\ waitFailed' \/ Running = {} \/ <<"terminate", 1>> \in {a, t}
  BY <1>1, <1>4, <1>5
<1> HIDE DEF a, t
<1> QED
  BY <1>1, <1>2, <1>3, <1>4, <1>6, BottomStepKeeps

(* The end of a turn, where timeout 0 kills the wave.                       *)
LEMMA PassedKeeps ==
  ASSUME WindowsArguments, WindowsInv, Passed
  PROVE  WindowsInv'
<1> DEFINE finished == Running = {} /\ next > N
<1> DEFINE wave == ~finished /\ timeout = "zero" /\ Running # {}
<1> DEFINE t == IF finished \/ expired THEN <<"end", 0>> ELSE <<"again", 0>>
<1> DEFINE a == IF ~(finished \/ expired) /\ wave THEN <<"terminate", 1>> ELSE t
<1>1. /\ todo # <<>> /\ Head(todo) = <<"passed", 1>> /\ PipesStand
      /\ timedOut' = (timedOut \/ wave \/ (~finished /\ expired))
      /\ UNCHANGED <<terminated, status, lastErrno, pumped, timeout, expired>>
      /\ UNCHANGED <<slots, waiting, ioFailed, group, next, spawnFailed, last>>
      /\ waitFailed' = waitFailed
  BY DEF Passed, AllRunStands, At, PipesStand, childVars, pipeVars, handleVars, startVars,
         stdinVars, outputVars
<1>2. /\ Bottom(Head(todo)) /\ Head(todo)[1] \in RunNames /\ t \in Task /\ t[1] \in RunNames
      /\ Bottom(t) /\ a \in Task /\ a[1] \in RunNames
  BY <1>1 DEF Bottom, RunNames, Task, WindowsArguments
<1>3. \/ a = t /\ (todo' = <<t>> \o Tail(todo) \/ todo' = (<<>> \o <<t>>) \o Tail(todo))
      \/ Follows(a, t) /\ todo' = (<<a>> \o <<t>>) \o Tail(todo)
  <2>1. CASE finished \/ expired
    <3>1. todo' = <<<<"end", 0>>>> \o Tail(todo)
      BY <2>1, Zenon DEF Passed, Then
    <3> QED
      BY <2>1, <3>1
  <2>2. CASE ~(finished \/ expired) /\ wave
    <3>1. todo' = (<<<<"terminate", 1>>>> \o <<<<"again", 0>>>>) \o Tail(todo)
      BY <2>2, Zenon DEF Passed, Then
    <3> QED
      BY <2>2, <3>1 DEF Follows
  <2>3. CASE ~(finished \/ expired) /\ ~wave
    <3>1. todo' = (<<>> \o <<<<"again", 0>>>>) \o Tail(todo)
      BY <2>3, Zenon DEF Passed, Then
    <3> QED
      BY <2>3, <3>1
  <2> QED
    BY <2>1, <2>2, <2>3
<1>4. /\ timedOut' \in BOOLEAN /\ waitFailed' \in BOOLEAN /\ N \in Nat /\ next \in Nat
      /\ (timedOut => timedOut')
  BY <1>1 DEF WindowsInv, TypeOK, WindowsArguments
<1>5. /\ a[1] \notin {"noted", "harvested", "harvest"} /\ a # <<"teardown", 0>>
      /\ t # <<"teardown", 0>>
      /\ <<"end", 0>> \in {a, t} => waitFailed' \/ timedOut' \/ (Running = {} /\ next > N)
  BY <1>1
<1> HIDE DEF a, t
<1> QED
  BY <1>1, <1>2, <1>3, <1>4, <1>5, BottomStepKeeps

(* The next proc is launched.                                               *)
LEMMA SpawnKeeps ==
  ASSUME WindowsArguments, WindowsInv, Spawn
  PROVE  WindowsInv'
<1>1. /\ todo # <<>> /\ Head(todo) = <<"fill", 0>> /\ next <= N
      /\ Launched(next) /\ LaunchStands /\ next' = next + 1
      /\ todo' = <<<<"pumpStdin", next>>, <<"pumpOutput", next>>, <<"noted", next>>, <<"fill", 0>>>>
                 \o Tail(todo)
      /\ UNCHANGED <<client, background, lastErrno, pumped, timeout, expired>>
      /\ UNCHANGED <<slots, waiting, ioFailed, group>>
      /\ UNCHANGED <<spawnFailed, timedOut, waitFailed, last>>
  BY DEF Spawn, Filling, At, Then, LaunchStands, waitVars
<1>2. /\ Runs /\ Tasks = {<<"fill", 0>>} /\ TypeOK /\ TaskInv /\ RunInv /\ StartInv /\ CallInv
      /\ slots = {} /\ waiting = {} /\ InRun
      /\ \A q \in Procs : ~(status[q] \in Terminal /\ ~lastErrno[q] /\ readOpen[q] /\ ~waitFailed)
  <2>1. Bottom(Head(todo)) /\ Head(todo)[1] \in RunNames
    BY <1>1 DEF Bottom, RunNames
  <2> QED
    BY <1>1, <2>1, BottomOfRun
<1>3. next \in Procs /\ N \in Nat /\ next \in Nat
  BY <1>1, <1>2 DEF TypeOK, Procs, WindowsArguments
<1>4. valid[next] /\ status[next] = "NOT_STARTED"
  BY <1>2, <1>3 DEF RunInv
<1>5. /\ TaskInv' /\ todo' # <<>> /\ Head(todo')[1] = "pumpStdin"
      /\ \A t \in Tasks' : t[1] \in {"pumpStdin", "pumpOutput", "noted", "fill"}
  <2> DEFINE a == <<"pumpStdin", next>>
  <2> DEFINE b == <<"pumpOutput", next>>
  <2> DEFINE c == <<"noted", next>>
  <2> DEFINE d == <<"fill", 0>>
  <2>1. /\ a \in Task /\ b \in Task /\ c \in Task /\ d \in Task
        /\ Follows(a, b) /\ Follows(b, c) /\ Follows(c, d) /\ InPlaceOf(d, Head(todo))
    <3>1. a \in Task /\ b \in Task /\ c \in Task /\ d \in Task
      BY <1>3 DEF Task, Procs, PumpNames, RunNames
    <3>2. Follows(a, b) /\ Follows(b, c) /\ Follows(c, d)
      BY DEF Follows
    <3>3. InPlaceOf(d, Head(todo))
      BY <1>1 DEF InPlaceOf
    <3> QED
      BY <3>1, <3>2, <3>3
  <2>2. Allowed(a) /\ Allowed(b) /\ Allowed(c) /\ Allowed(d)
    BY <1>2 DEF Allowed, RunNames, BackgroundNames
  <2>3. todo' = <<a, b, c, d>> \o Tail(todo) /\ UNCHANGED <<client, slots>> /\ Tasks = {d}
    BY <1>1, <1>2
  <2>4. a[1] = "pumpStdin" /\ b[1] = "pumpOutput" /\ c[1] = "noted" /\ d[1] = "fill"
    OBVIOUS
  <2> HIDE DEF a, b, c, d
  <2>5. TaskInv /\ todo # <<>>
    BY <1>1, <1>2
  <2>6. /\ TaskInv' /\ todo' # <<>> /\ Head(todo') = a
        /\ Tasks' \subseteq {a, b, c, d} \cup Tasks
    BY <2>1, <2>2, <2>3, <2>5, GivesFour
  <2> QED
    BY <2>3, <2>4, <2>6
<1>6. /\ os' \in [Procs -> {"none", "running", "gone"}]
      /\ status' \in [Procs -> {"NOT_STARTED", "RUNNING", "FAILED_TO_START"} \cup Terminal]
      /\ {sawEof', valid', background', processOpen', stdinOpen', readOpen', writePending',
          readPending', lastErrno'} \subseteq [Procs -> BOOLEAN]
      /\ StartInv' /\ WriteInv' /\ ReadInv' /\ InputInv' /\ OutputInv'
  <2>1. NotPumping
    BY <1>5 DEF NotPumping
  <2> QED
    BY <1>1, <1>3, <1>4, <2>1, LaunchKeeps
<1>7. TypeOK'
  <2>1. UNCHANGED <<terminated, inPipe, received, outPipe, produced, writeOp, readOp,
                    offset, inCap, sunk, outCap>>
    BY <1>1 DEF LaunchStands, pipeVars
  <2>2. next' \in 1 .. N + 1
    BY <1>1, <1>3 DEF Procs
  <2>3. /\ {expired', spawnFailed', timedOut', waitFailed'} \subseteq BOOLEAN
        /\ {slots', waiting', ioFailed'} \subseteq SUBSET Procs
    BY <1>1, <1>2 DEF TypeOK
  <2>4. /\ client' \in Clients /\ os' \in [Procs -> {"none", "running", "gone"}]
        /\ terminated' \subseteq Procs
        /\ inPipe' \in [Procs -> 0 .. PipeCap] /\ outPipe' \in [Procs -> 0 .. PipeCap]
        /\ received' \in [Procs -> 0 .. InputLen] /\ produced' \in [Procs -> 0 .. OutputLen]
        /\ offset' \in [Procs -> 0 .. InputLen] /\ sunk' \in [Procs -> 0 .. OutputLen]
    BY <1>1, <1>2, <1>6, <2>1 DEF TypeOK
  <2>5. /\ writeOp' \in [Procs -> [st : OpStates, len : 0 .. BufferMax, left : 0 .. BufferMax]]
        /\ readOp' \in [Procs -> [st : OpStates, size : 0 .. BufferMax, got : 0 .. BufferMax]]
        /\ status' \in [Procs -> {"NOT_STARTED", "RUNNING", "FAILED_TO_START"} \cup Terminal]
        /\ pumped' \in {"SUCCESS", "IO_FAILED"} /\ timeout' \in client'.timeouts \cup {"none"}
    BY <1>1, <1>2, <1>6, <2>1 DEF TypeOK
  <2>6. inCap' \in [Procs -> 0 .. BufferMax] /\ outCap' \in [Procs -> 0 .. BufferMax]
        /\ group' \in 0 .. N
    BY <1>1, <1>2, <2>1 DEF TypeOK
  <2> QED
    BY <1>6, <2>2, <2>3, <2>4, <2>5, <2>6 DEF TypeOK
<1>8. /\ \A q \in Procs \ {next} : /\ status'[q] = status[q] /\ processOpen'[q] = processOpen[q]
                                   /\ readOpen'[q] = readOpen[q]
      /\ status'[next] = "RUNNING" /\ processOpen'[next] /\ valid' = valid
  BY <1>1, <1>2, <1>3 DEF TypeOK, Launched, LaunchStands
<1>9. Runs' /\ CallInv' /\ WaitInv' /\ last' = NoCall
  <2>1. Runs' /\ last' = NoCall
    BY <1>1, <1>2 DEF Runs, CallInv
  <2>2. \A q \in Procs :
          \A name \in {"settle", "primed", "drained", "reported", "noted", "harvested"} :
            ~Doing(name, q)'
    BY <1>5 DEF Doing
  <2>3. CallInv'
    BY <1>1, <1>2, <1>5, <2>1, <2>2 DEF CallInv
  <2> QED
    BY <1>1, <1>2, <1>5, <2>1, <2>3, WithoutWait
<1>10. DrainInv' /\ DrainHarvested'
  <2>1. \A q \in Procs : ~(status'[q] \in Terminal /\ ~lastErrno'[q] /\ readOpen'[q] /\ ~waitFailed')
    BY <1>1, <1>2, <1>8 DEF Terminal
  <2>2. \A q : <<"harvested", q>> \notin Tasks'
    BY <1>5
  <2> QED
    BY <1>1, <1>2, <2>1, <2>2 DEF DrainInv, DrainHarvested
<1>11. RunInv'
  <2>1. ASSUME NEW q \in Procs
        PROVE  /\ valid'[q] /\ (status'[q] = "NOT_STARTED" <=> q >= next')
               /\ q \in Spawned' => processOpen'[q]
    <3>1. CASE q = next
      BY <1>1, <1>3, <1>4, <1>8, <3>1
    <3>2. CASE q # next
      <4>1. valid[q] /\ (status[q] = "NOT_STARTED" <=> q >= next)
        BY <1>2 DEF RunInv
      <4>2. q >= next <=> q >= next + 1
        BY <1>3, <3>2 DEF Procs
      <4>3. q \in Spawned' => q \in Spawned
        BY <1>8, <3>2 DEF Spawned
      <4>4. q \in Spawned => processOpen[q]
        BY <1>2 DEF RunInv
      <4> QED
        BY <1>1, <1>8, <3>2, <4>1, <4>2, <4>3, <4>4
    <3> QED
      BY <3>1, <3>2
  <2>2. spawnFailed' => \E q \in Procs : status'[q] = "FAILED_TO_START"
    <3> HAVE spawnFailed'
    <3>1. PICK q \in Procs : status[q] = "FAILED_TO_START"
      BY <1>1, <1>2 DEF RunInv
    <3> QED
      BY <1>4, <1>8, <3>1
  <2>3. /\ \A j : <<"harvest", j>> \notin Tasks' /\ <<"harvested", j>> \notin Tasks'
        /\ <<"end", 0>> \notin Tasks' /\ <<"teardown", 0>> \notin Tasks'
    BY <1>5
  <2> QED
    BY <2>1, <2>2, <2>3 DEF RunInv
<1> QED
  BY <1>5, <1>6, <1>7, <1>9, <1>10, <1>11, NoCallResult DEF WindowsInv

(* The next proc fails to start.                                            *)
LEMMA SpawnFailsKeeps ==
  ASSUME WindowsArguments, WindowsInv, SpawnFails
  PROVE  WindowsInv'
<1>1. /\ todo # <<>> /\ Head(todo) = <<"fill", 0>> /\ todo' = todo /\ next <= N /\ PipesStand
      /\ status' = [status EXCEPT ![next] = "FAILED_TO_START"]
      /\ lastErrno' = [lastErrno EXCEPT ![next] = TRUE]
      /\ spawnFailed' = TRUE /\ next' = next + 1
      /\ UNCHANGED <<terminated, pumped, timeout, expired>>
      /\ UNCHANGED <<slots, waiting, ioFailed, group, timedOut, waitFailed, last>>
  BY DEF SpawnFails, Filling, At, PipesStand, childVars, pipeVars, stdinVars, outputVars, waitVars
<1>2. /\ Runs /\ Tasks = {<<"fill", 0>>} /\ TypeOK /\ TaskInv /\ RunInv /\ StartInv /\ CallInv
      /\ slots = {} /\ waiting = {} /\ InRun
      /\ \A q \in Procs : ~(status[q] \in Terminal /\ ~lastErrno[q] /\ readOpen[q] /\ ~waitFailed)
  <2>1. Bottom(Head(todo)) /\ Head(todo)[1] \in RunNames
    BY <1>1 DEF Bottom, RunNames
  <2> QED
    BY <1>1, <2>1, BottomOfRun
<1>3. next \in Procs /\ N \in Nat /\ next \in Nat
  BY <1>1, <1>2 DEF TypeOK, Procs, WindowsArguments
<1>4. status[next] = "NOT_STARTED"
  BY <1>2, <1>3 DEF RunInv
<1>5. /\ \A q \in Procs \ {next} : status'[q] = status[q] /\ lastErrno'[q] = lastErrno[q]
      /\ status'[next] = "FAILED_TO_START" /\ lastErrno'[next]
  BY <1>1, <1>2, <1>3 DEF TypeOK
<1>6. TaskInv' /\ Tasks' = {<<"fill", 0>>}
  BY <1>1, <1>2 DEF TaskInv, Tasks, Allowed, Runs, PipesStand
<1>7. TypeOK'
  <2>1. status' \in [Procs -> {"NOT_STARTED", "RUNNING", "FAILED_TO_START"} \cup Terminal]
    BY <1>1, <1>2 DEF TypeOK
  <2>2. lastErrno' \in [Procs -> BOOLEAN]
    BY <1>1, <1>2 DEF TypeOK
  <2>3. {sawEof', valid', background', processOpen', stdinOpen', readOpen', writePending',
         readPending', lastErrno'} \subseteq [Procs -> BOOLEAN]
    BY <1>1, <1>2, <2>2 DEF TypeOK, PipesStand
  <2>4. next' \in 1 .. N + 1
    BY <1>1, <1>3 DEF Procs
  <2> QED
    BY <1>1, <1>2, <2>1, <2>3, <2>4 DEF TypeOK, PipesStand
<1>8. DrainInv' /\ DrainHarvested'
  <2>1. \A q \in Procs : ~(status'[q] \in Terminal /\ ~lastErrno'[q] /\ readOpen'[q] /\ ~waitFailed')
    BY <1>1, <1>2, <1>5 DEF PipesStand, Terminal
  <2> QED
    BY <1>1, <1>2, <1>6, <2>1 DEF DrainInv, DrainHarvested
<1>9. RunInv'
  <2>1. ASSUME NEW q \in Procs
        PROVE  /\ valid'[q] /\ (status'[q] = "NOT_STARTED" <=> q >= next')
               /\ q \in Spawned' => processOpen'[q]
    <3>1. valid'[q] /\ (q \in Spawned => processOpen'[q])
      BY <1>1, <1>2 DEF RunInv, PipesStand
    <3>2. CASE q = next
      <4>1. q \notin Spawned'
        BY <1>5, <3>2 DEF Spawned, Terminal
      <4> QED
        BY <1>1, <1>3, <1>5, <3>1, <3>2, <4>1
    <3>3. CASE q # next
      <4>1. status[q] = "NOT_STARTED" <=> q >= next
        BY <1>2 DEF RunInv
      <4>2. q >= next <=> q >= next + 1
        BY <1>3, <3>3 DEF Procs
      <4>3. q \in Spawned' => q \in Spawned
        BY <1>5, <3>3 DEF Spawned
      <4> QED
        BY <1>1, <1>5, <3>1, <3>3, <4>1, <4>2, <4>3
    <3> QED
      BY <3>2, <3>3
  <2>2. \E q \in Procs : status'[q] = "FAILED_TO_START"
    BY <1>3, <1>5
  <2> QED
    BY <1>6, <2>1, <2>2 DEF RunInv
<1> QED
  <2>1. NotPumping /\ Head(todo')[1] # "release"
    BY <1>1 DEF NotPumping
  <2>2. \A q \in Procs : StatusStep(q) /\ (lastErrno[q] => lastErrno'[q])
    BY <1>4, <1>5 DEF StatusStep
  <2>3. \A q \in Procs :
          \A name \in {"settle", "primed", "drained", "reported", "noted", "harvested"} :
            ~Doing(name, q)'
    BY <1>1 DEF Doing
  <2> QED
    BY <1>1, <1>2, <1>6, <1>7, <1>8, <1>9, <2>1, <2>2, <2>3, RunStepKeeps

(* The scan looks at one handle.                                            *)
LEMMA ScanKeeps ==
  ASSUME WindowsArguments, WindowsInv, NEW p \in 1 .. N + 1, Scan(p)
  PROVE  WindowsInv'
<1> DEFINE exits == p <= N /\ status[p] = "RUNNING" /\ os[p] = "gone"
<1> DEFINE live == p <= N /\ status[p] = "RUNNING" /\ os[p] = "running"
<1> DEFINE t == <<"scan", p + 1>>
<1>1. /\ todo # <<>> /\ Head(todo) = <<"scan", p>> /\ PipesStand
      /\ status' = IF exits THEN [status EXCEPT ![p] = "EXITED"] ELSE status
      /\ UNCHANGED <<terminated, lastErrno, pumped, timeout, expired>>
      /\ UNCHANGED <<slots, waiting, ioFailed, group>>
      /\ UNCHANGED <<next, spawnFailed, timedOut, waitFailed, last>>
  BY DEF Scan, At, PipesStand, childVars, pipeVars, handleVars, startVars, stdinVars, outputVars,
         callVars, waitVars, runVars
<1>2. Bottom(Head(todo)) /\ Head(todo)[1] \in RunNames /\ N \in Nat
  BY <1>1 DEF Bottom, RunNames, WindowsArguments
<1>3. /\ Runs /\ Tasks = {<<"scan", p>>} /\ TypeOK /\ TaskInv /\ RunInv /\ StartInv /\ CallInv
      /\ slots = {} /\ waiting = {} /\ InRun /\ client' = client
      /\ \A q \in Procs : ~(status[q] \in Terminal /\ ~lastErrno[q] /\ readOpen[q] /\ ~waitFailed)
  BY <1>1, <1>2, BottomOfRun DEF PipesStand
<1>4. CASE p > N
  <2> DEFINE u == <<"passed", 1>>
  <2>1. todo' = <<u>> \o Tail(todo)
    BY <1>4, Zenon DEF Scan, Then
  <2>2. status' = status
    <3>1. ~exits
      BY <1>2, <1>4
    <3> QED
      BY <1>1, <3>1
  <2>3. timedOut' \in BOOLEAN /\ waitFailed' \in BOOLEAN
    BY <1>1, <1>3 DEF TypeOK
  <2>4. /\ u \in Task /\ u[1] \in RunNames /\ Bottom(u) /\ u # <<"end", 0>> /\ u # <<"teardown", 0>>
        /\ u[1] \notin {"noted", "harvested", "harvest"}
    BY <1>2 DEF Task, RunNames, Bottom
  <2> HIDE DEF u
  <2> QED
    BY <1>1, <1>2, <2>1, <2>2, <2>3, <2>4, BottomStepKeeps
<1>5. CASE p <= N
  <2>1. p \in Procs /\ ~(p > N)
    BY <1>2, <1>5 DEF Procs
  <2>2. /\ t \in Task /\ t[1] \in RunNames /\ Bottom(t) /\ t # <<"end", 0>> /\ t # <<"teardown", 0>>
        /\ t[1] \notin {"noted", "harvested", "harvest"} /\ InPlaceOf(t, Head(todo))
    BY <1>1, <1>2, <1>5 DEF Task, RunNames, Bottom, InPlaceOf, Follows
  <2>3. todo # <<>> /\ UNCHANGED <<client, slots>> /\ Allowed(t)
    BY <1>1, <1>3 DEF Allowed, RunNames, BackgroundNames
  <2>4. CASE exits
    <3> DEFINE a == <<"finalize", p>>
    <3> DEFINE b == <<"noted", p>>
    <3>1. todo' = (<<a, b>> \o <<t>>) \o Tail(todo)
      <4>1. todo' = (<<<<"finalize", p>>, <<"noted", p>>>> \o <<<<"scan", p + 1>>>>) \o Tail(todo)
        BY <2>1, <2>4, Zenon DEF Scan, Then
      <4> QED
        BY <4>1
    <3>2. a \in Task /\ b \in Task /\ Follows(a, b) /\ Follows(b, t)
      BY <2>1, <1>2 DEF Task, Procs, PumpNames, RunNames, Follows
    <3>3. Allowed(a) /\ Allowed(b)
      BY <1>3 DEF Allowed, RunNames, BackgroundNames
    <3>4. /\ TaskInv' /\ todo' # <<>> /\ Head(todo') = a
          /\ Tasks' \subseteq {a, b, t} \cup Tasks /\ {a, b, t} \subseteq Tasks'
      <4> HIDE DEF a, b, t
      <4> QED
        BY <1>3, <2>2, <2>3, <3>1, <3>2, <3>3, AheadTwo
    <3>5. /\ \A u \in Tasks' : u[1] \in {"finalize", "noted", "scan"}
          /\ <<"finalize", p>> \in Tasks'
      BY <1>3, <3>4
    <3>6. /\ \A q \in Procs \ {p} : status'[q] = status[q]
          /\ status'[p] = "EXITED"
      BY <1>1, <1>3, <2>1, <2>4 DEF TypeOK
    <3>7. TypeOK'
      <4>1. status' \in [Procs -> {"NOT_STARTED", "RUNNING", "FAILED_TO_START"} \cup Terminal]
        BY <1>1, <1>3 DEF TypeOK, Terminal
      <4> QED
        BY <1>1, <1>3, <4>1 DEF TypeOK, PipesStand
    <3>8. DrainInv' /\ DrainHarvested'
      <4>1. \A q : <<"harvested", q>> \notin Tasks'
        BY <3>5
      <4>2. \A q \in Procs : status'[q] \in Terminal /\ ~lastErrno'[q] /\ readOpen'[q] /\ ~waitFailed'
                             => Finalizing(q)'
        BY <1>1, <1>3, <3>5, <3>6 DEF PipesStand, Finalizing
      <4> QED
        BY <1>1, <1>3, <4>1, <4>2 DEF DrainInv, DrainHarvested
    <3>9. RunInv'
      <4>1. \A q \in Procs : q \in Spawned' => q \in Spawned
        BY <2>4, <3>6 DEF Spawned
      <4>2. \A q \in Procs : /\ valid'[q] /\ (status'[q] = "NOT_STARTED" <=> q >= next')
                             /\ q \in Spawned' => processOpen'[q]
        BY <1>1, <1>3, <2>4, <3>6, <4>1 DEF RunInv, PipesStand
      <4>3. spawnFailed' => \E q \in Procs : status'[q] = "FAILED_TO_START"
        <5> HAVE spawnFailed'
        <5>1. PICK q \in Procs : status[q] = "FAILED_TO_START"
          BY <1>1, <1>3 DEF RunInv
        <5> QED
          BY <2>4, <3>6, <5>1
      <4>4. /\ \A j : <<"harvest", j>> \notin Tasks' /\ <<"harvested", j>> \notin Tasks'
            /\ <<"end", 0>> \notin Tasks' /\ <<"teardown", 0>> \notin Tasks'
        BY <3>5
      <4> QED
        BY <4>2, <4>3, <4>4 DEF RunInv
    <3> QED
      <4>1. /\ NotPumping /\ Head(todo')[1] # "release"
            /\ \A q \in Procs :
                 \A name \in {"settle", "primed", "drained", "reported", "noted", "harvested"} :
                   ~Doing(name, q)'
        BY <3>4 DEF NotPumping, Doing
      <4>2. \A q \in Procs : StatusStep(q) /\ (lastErrno[q] => lastErrno'[q])
        BY <1>1, <2>4, <3>6 DEF StatusStep, Terminal
      <4> QED
        BY <1>1, <1>3, <3>4, <3>7, <3>8, <3>9, <4>1, <4>2, RunStepKeeps
  <2>5. CASE ~exits /\ live
    <3> DEFINE a == <<"scanWrite", p>>
    <3> DEFINE b == <<"scanRead", p>>
    <3>1. todo' = (<<a, b>> \o <<t>>) \o Tail(todo)
      <4>1. todo' = (<<<<"scanWrite", p>>, <<"scanRead", p>>>> \o <<<<"scan", p + 1>>>>) \o Tail(todo)
        BY <2>1, <2>5, Zenon DEF Scan, Then
      <4> QED
        BY <4>1
    <3>2. a \in Task /\ b \in Task /\ Follows(a, b) /\ Follows(b, t)
      BY <2>1, <1>2 DEF Task, Procs, PumpNames, RunNames, Follows
    <3>3. Allowed(a) /\ Allowed(b)
      BY <1>3 DEF Allowed, RunNames, BackgroundNames
    <3>4. /\ TaskInv' /\ todo' # <<>> /\ Head(todo') = a
          /\ Tasks' \subseteq {a, b, t} \cup Tasks
      <4> HIDE DEF a, b, t
      <4> QED
        BY <1>3, <2>2, <2>3, <3>1, <3>2, <3>3, AheadTwo
    <3>5. \A u \in Tasks' : u[1] \in {"scanWrite", "scanRead", "scan"}
      BY <1>3, <3>4
    <3>6. status' = status
      BY <1>1, <2>5
    <3>7. TypeOK'
      BY <1>1, <1>3, <3>6 DEF TypeOK, PipesStand
    <3>8. DrainInv' /\ DrainHarvested'
      <4>1. \A q : <<"harvested", q>> \notin Tasks'
        BY <3>5
      <4>2. \A q \in Procs : ~(status'[q] \in Terminal /\ ~lastErrno'[q] /\ readOpen'[q] /\ ~waitFailed')
        BY <1>1, <1>3, <3>6 DEF PipesStand
      <4> QED
        BY <1>1, <1>3, <4>1, <4>2 DEF DrainInv, DrainHarvested
    <3>9. RunInv'
      <4>1. Marks' = {} /\ Marks = {}
        BY <1>3, <3>5 DEF Marks, MarkNames
      <4> QED
        BY <1>1, <1>3, <3>6, <4>1, MarksStay DEF PipesStand
    <3> QED
      <4>1. /\ NotPumping /\ Head(todo')[1] # "release"
            /\ \A q \in Procs :
                 \A name \in {"settle", "primed", "drained", "reported", "noted", "harvested"} :
                   ~Doing(name, q)'
        BY <3>4 DEF NotPumping, Doing
      <4>2. \A q \in Procs : StatusStep(q) /\ (lastErrno[q] => lastErrno'[q])
        BY <1>1, <3>6 DEF StatusStep
      <4> QED
        BY <1>1, <1>3, <3>4, <3>7, <3>8, <3>9, <4>1, <4>2, RunStepKeeps
  <2>6. CASE ~exits /\ ~live
    <3>1. todo' = (<<>> \o <<t>>) \o Tail(todo)
      BY <2>1, <2>6, Zenon DEF Scan, Then
    <3>2. status' = status
      BY <1>1, <2>6
    <3>3. timedOut' \in BOOLEAN /\ waitFailed' \in BOOLEAN
      BY <1>1, <1>3 DEF TypeOK
    <3> HIDE DEF t
    <3> QED
      BY <1>1, <1>2, <2>2, <3>1, <3>2, <3>3, BottomStepKeeps
  <2> QED
    BY <2>4, <2>5, <2>6
<1> QED
  BY <1>2, <1>4, <1>5

(* Within a run, a step that leaves what the tasks say of it.               *)
LEMMA WithinRunKeeps ==
  ASSUME WindowsInv, TypeOK', TaskInv', Runs, todo # <<>>, Head(todo)[1] # "release",
         todo' # <<>>, NotPumping, Head(todo')[1] # "release", Marks' = Marks, PipesStand,
         \A q \in Procs : Finalizing(q) => Finalizing(q)',
         \A j : <<"prime", j>> \notin Tasks,
         UNCHANGED <<status, lastErrno, last, slots, waiting, next, spawnFailed, timedOut, waitFailed>>,
         \A q \in Procs :
           \A name \in {"settle", "primed", "drained", "reported", "noted", "harvested"} :
             Doing(name, q)' /\ pumped' = "IO_FAILED" => lastErrno'[q],
         ioFailed' \subseteq ioFailed \cup {q \in Procs : lastErrno'[q]}
  PROVE  WindowsInv'
<1>1. RunInv'
  <2>1. RunInv /\ InRun
    BY DEF WindowsInv, InRun
  <2> QED
    BY <2>1, MarksStay DEF PipesStand
<1>2. DrainInv'
  <2> SUFFICES ASSUME NEW q \in Procs, status[q] \in Terminal, ~lastErrno[q], readOpen[q], ~waitFailed
               PROVE  Finalizing(q)'
    BY DEF DrainInv, PipesStand, WindowsInv, CallInv
  <2>1. Finalizing(q) \/ \E j \in 1 .. q : <<"prime", j>> \in Tasks
    BY DEF WindowsInv, DrainInv
  <2> QED
    BY <2>1
<1>3. DrainHarvested'
  <2> SUFFICES ASSUME NEW q \in Procs, <<"harvested", q>> \in Tasks'
               PROVE  Finalizing(q)' \/ lastErrno[q] \/ ~readOpen[q]
    BY DEF DrainHarvested, PipesStand
  <2>1. <<"harvested", q>> \in Marks'
    BY DEF Marks, MarkNames
  <2>2. <<"harvested", q>> \in Tasks
    BY <2>1 DEF Marks
  <2>3. Finalizing(q) \/ lastErrno[q] \/ ~readOpen[q]
    BY <2>2 DEF WindowsInv, DrainHarvested
  <2> QED
    BY <2>3
<1> QED
  BY <1>1, <1>2, <1>3, RunStepKeeps DEF StatusStep

(* A run has no task of a wait.                                             *)
LEMMA NothingPrimes ==
  ASSUME TaskInv, Runs
  PROVE  \A j : <<"prime", j>> \notin Tasks
BY DEF TaskInv, Allowed, BackgroundNames

(* The scan looks at the pipes of a live handle.                            *)
LEMMA ScanPipesKeeps ==
  ASSUME WindowsArguments, WindowsInv, NEW p \in Procs, ScanPipes(p)
  PROVE  WindowsInv'
<1>1. /\ todo # <<>> /\ PipesStand
      /\ UNCHANGED <<terminated, status, lastErrno, pumped, timeout, expired>>
      /\ UNCHANGED <<slots, waiting, ioFailed, group>>
      /\ UNCHANGED <<next, spawnFailed, timedOut, waitFailed, last>>
  BY DEF ScanPipes, TaskOnly, At, PipesStand, childVars, pipeVars, handleVars, startVars,
         stdinVars, outputVars, callVars, waitVars, runVars
<1>2. PICK name \in {"scanWrite", "scanRead"} : Head(todo) = <<name, p>>
  BY DEF ScanPipes, At
<1>3. \/ todo' = <<>> \o Tail(todo)
      \/ name = "scanWrite" /\ todo' = <<<<"pumpStdin", p>>>> \o Tail(todo)
      \/ name = "scanRead" /\ todo' = <<<<"pumpOutput", p>>, <<"noted", p>>>> \o Tail(todo)
  <2>1. CASE name = "scanWrite"
    <3>1. ~At("scanRead", p)
      BY <1>2, <2>1 DEF At
    <3>2. Then(IF WriteDone(p) THEN <<<<"pumpStdin", p>>>> ELSE <<>>)
      BY <3>1 DEF ScanPipes
    <3> QED
      BY <2>1, <3>2, Zenon DEF Then
  <2>2. CASE name = "scanRead"
    <3>1. ~At("scanWrite", p)
      BY <1>2, <2>2 DEF At
    <3>2. Then(IF ReadDone(p) THEN <<<<"pumpOutput", p>>, <<"noted", p>>>> ELSE <<>>)
      BY <3>1 DEF ScanPipes
    <3> QED
      BY <2>2, <3>2, Zenon DEF Then
  <2> QED
    BY <2>1, <2>2
<1>4. /\ TaskInv /\ TypeOK /\ Runs /\ Head(todo)[1] = name /\ client' = client
      /\ \A j : <<"prime", j>> \notin Tasks
  <2>1. TaskInv /\ Head(todo) \in Tasks
    BY <1>1, Popped DEF WindowsInv, TaskInv, Tasks
  <2>2. Runs
    BY <1>2, <2>1 DEF TaskInv, Allowed, RunNames
  <2>3. TypeOK /\ Head(todo)[1] = name /\ client' = client
    BY <1>1, <1>2 DEF WindowsInv, PipesStand
  <2> QED
    BY <2>1, <2>2, <2>3, NothingPrimes
<1>5. /\ TaskInv' /\ todo' # <<>> /\ Head(todo')[1] \in {"scanRead", "scan", "pumpStdin", "pumpOutput"}
      /\ Tasks \subseteq {<<name, p>>} \cup Tasks'
      /\ \A t \in Tasks' : t \in Tasks \/ t[1] \in {"pumpStdin", "pumpOutput", "noted"}
  <2>1. todo # <<>> /\ UNCHANGED <<client, slots>>
    BY <1>1, <1>4
  <2>2. CASE todo' = <<>> \o Tail(todo)
    <3>1. /\ TaskInv' /\ Tasks' \subseteq Tasks /\ Tasks \subseteq {Head(todo)} \cup Tasks'
          /\ IF todo' = <<>> THEN Bottom(Head(todo)) ELSE Follows(Head(todo), Head(todo'))
      BY <1>4, <2>1, <2>2, GivesWay
    <3>2. ~Bottom(Head(todo))
      BY <1>2 DEF Bottom
    <3>3. todo' # <<>> /\ Head(todo')[1] \in {"scanRead", "scan"}
      BY <1>2, <3>1, <3>2 DEF Follows
    <3> QED
      BY <1>2, <3>1, <3>3
  <2>3. CASE name = "scanWrite" /\ todo' = <<<<"pumpStdin", p>>>> \o Tail(todo)
    <3> DEFINE a == <<"pumpStdin", p>>
    <3>1. a \in Task /\ Allowed(a) /\ InPlaceOf(a, Head(todo)) /\ a[1] = "pumpStdin"
      <4>1. a \in Task
        BY DEF Task, Procs, PumpNames, WindowsArguments
      <4>2. Allowed(a)
        BY DEF Allowed, RunNames, BackgroundNames
      <4>3. InPlaceOf(a, Head(todo))
        BY <1>2, <2>3 DEF InPlaceOf, Bottom, Follows
      <4> QED
        BY <4>1, <4>2, <4>3
    <3>2. todo' = <<a>> \o Tail(todo)
      BY <2>3
    <3> HIDE DEF a
    <3>3. /\ TaskInv' /\ todo' # <<>> /\ Head(todo') = a
          /\ Tasks' \subseteq {a} \cup Tasks /\ Tasks \subseteq {Head(todo)} \cup Tasks'
      BY <1>4, <2>1, <3>1, <3>2, GivesOne
    <3> QED
      BY <1>2, <3>1, <3>3
  <2>4. CASE name = "scanRead" /\ todo' = <<<<"pumpOutput", p>>, <<"noted", p>>>> \o Tail(todo)
    <3> DEFINE a == <<"pumpOutput", p>>
    <3> DEFINE b == <<"noted", p>>
    <3>1. a \in Task /\ b \in Task /\ Follows(a, b) /\ a[1] = "pumpOutput" /\ b[1] = "noted"
      BY DEF Task, Procs, PumpNames, RunNames, WindowsArguments, Follows
    <3>2. Allowed(a) /\ Allowed(b)
      BY <1>4 DEF Allowed, RunNames, BackgroundNames
    <3>3. InPlaceOf(b, Head(todo))
      BY <1>2, <2>4 DEF InPlaceOf, Bottom, Follows
    <3>4. todo' = <<a, b>> \o Tail(todo)
      BY <2>4
    <3> HIDE DEF a, b
    <3>5. /\ TaskInv' /\ todo' # <<>> /\ Head(todo') = a
          /\ Tasks' \subseteq {a, b} \cup Tasks /\ Tasks \subseteq {Head(todo)} \cup Tasks'
      BY <1>4, <2>1, <3>1, <3>2, <3>3, <3>4, GivesTwo
    <3> QED
      BY <1>2, <3>1, <3>5
  <2> QED
    BY <1>3, <2>2, <2>3, <2>4
<1>6. TypeOK'
  BY <1>1, <1>4 DEF TypeOK, PipesStand
<1>7. Marks' = Marks
  BY <1>5 DEF Marks, MarkNames
<1>8. \A q \in Procs : Finalizing(q) => Finalizing(q)'
  BY <1>5 DEF Finalizing
<1> QED
  <2>1. /\ NotPumping /\ Head(todo')[1] # "release" /\ Head(todo)[1] # "release"
        /\ \A q \in Procs :
             \A other \in {"settle", "primed", "drained", "reported", "noted", "harvested"} :
               ~Doing(other, q)'
    BY <1>4, <1>5 DEF NotPumping, Doing
  <2> QED
    BY <1>1, <1>4, <1>5, <1>6, <1>7, <1>8, <2>1, WithinRunKeeps

(* A pump or the finalizer has returned to the run.                         *)
LEMMA NotedKeeps ==
  ASSUME WindowsArguments, WindowsInv, NEW p \in Procs, Noted(p)
  PROVE  WindowsInv'
<1>1. /\ todo # <<>> /\ PipesStand /\ todo' = <<>> \o Tail(todo)
      /\ ioFailed' = IF pumped = "IO_FAILED" THEN ioFailed \cup {p} ELSE ioFailed
      /\ status' = IF At("harvested", p) THEN [status EXCEPT ![p] = "KILLED_BY_SIGNAL"] ELSE status
      /\ UNCHANGED <<terminated, lastErrno, pumped, timeout, expired>>
      /\ UNCHANGED <<slots, waiting, group>>
      /\ UNCHANGED <<next, spawnFailed, timedOut, waitFailed, last>>
  BY DEF Noted, AllRunStands, At, Then, PipesStand, childVars, pipeVars, stdinVars, outputVars,
         runVars
<1>2. PICK name \in {"noted", "harvested"} : Head(todo) = <<name, p>>
  BY DEF Noted, At
<1>3. /\ TaskInv /\ TypeOK /\ Runs /\ Head(todo)[1] = name /\ client' = client
      /\ <<name, p>> \in Tasks
      /\ \A j : <<"prime", j>> \notin Tasks
  <2>1. TaskInv /\ Head(todo) \in Tasks
    BY <1>1, Popped DEF WindowsInv, TaskInv, Tasks
  <2>2. Runs
    BY <1>2, <2>1 DEF TaskInv, Allowed, RunNames
  <2>3. TypeOK /\ Head(todo)[1] = name /\ client' = client
    BY <1>1, <1>2 DEF WindowsInv, PipesStand
  <2> QED
    BY <1>2, <2>1, <2>2, <2>3, NothingPrimes
<1>4. /\ TaskInv' /\ todo' # <<>> /\ Head(todo')[1] \in {"fill", "scan", "harvest"}
      /\ Tasks' \subseteq Tasks /\ Tasks \subseteq {<<name, p>>} \cup Tasks'
  <2>1. todo # <<>> /\ UNCHANGED <<client, slots>>
    BY <1>1, <1>3
  <2>2. /\ TaskInv' /\ Tasks' \subseteq Tasks /\ Tasks \subseteq {Head(todo)} \cup Tasks'
        /\ IF todo' = <<>> THEN Bottom(Head(todo)) ELSE Follows(Head(todo), Head(todo'))
    BY <1>1, <1>3, <2>1, GivesWay
  <2>3. ~Bottom(Head(todo))
    BY <1>2 DEF Bottom
  <2>4. todo' # <<>> /\ Head(todo')[1] \in {"fill", "scan", "harvest"}
    BY <1>2, <2>2, <2>3 DEF Follows
  <2> QED
    BY <1>2, <2>2, <2>4
<1>5. pumped = "IO_FAILED" => lastErrno[p]
  BY <1>1, <1>2 DEF WindowsInv, CallInv, Doing
<1>6. ioFailed' \subseteq ioFailed \cup {q \in Procs : lastErrno'[q]} /\ ioFailed' \subseteq Procs
  BY <1>1, <1>3, <1>5 DEF TypeOK
<1>7. /\ NotPumping /\ Head(todo')[1] # "release" /\ Head(todo)[1] # "release"
      /\ \A q \in Procs :
           \A other \in {"settle", "primed", "drained", "reported", "noted", "harvested"} :
             ~Doing(other, q)'
  BY <1>3, <1>4 DEF NotPumping, Doing
<1>8. CASE name = "noted"
  <2>1. status' = status
    BY <1>1, <1>2, <1>8 DEF At
  <2>2. TypeOK'
    <3>1. {slots', waiting', ioFailed'} \subseteq SUBSET Procs
      BY <1>1, <1>3, <1>6 DEF TypeOK
    <3>2. TypesOfCall'
      BY <1>1, <1>3, <2>1, <3>1 DEF TypeOK, TypesOfCall
    <3> QED
      BY <1>1, <1>3, <3>2, TypesAround
  <2>3. Marks' = Marks
    BY <1>4, <1>8 DEF Marks, MarkNames
  <2>4. \A q \in Procs : Finalizing(q) => Finalizing(q)'
    BY <1>4, <1>8 DEF Finalizing
  <2> QED
    BY <1>1, <1>3, <1>4, <1>6, <1>7, <2>1, <2>2, <2>3, <2>4, WithinRunKeeps
<1>9. CASE name = "harvested"
  <2>1. status' = [status EXCEPT ![p] = "KILLED_BY_SIGNAL"]
    BY <1>1, <1>2, <1>9 DEF At
  <2>2. /\ \A q \in Procs \ {p} : status'[q] = status[q]
        /\ status'[p] = "KILLED_BY_SIGNAL"
    BY <1>3, <2>1 DEF TypeOK
  <2>3. TypeOK'
    <3>1. status' \in [Procs -> {"NOT_STARTED", "RUNNING", "FAILED_TO_START"} \cup Terminal]
      BY <1>3, <2>1 DEF TypeOK, Terminal
    <3>2. {slots', waiting', ioFailed'} \subseteq SUBSET Procs
      BY <1>1, <1>3, <1>6 DEF TypeOK
    <3>3. TypesOfCall'
      BY <1>1, <1>3, <3>1, <3>2 DEF TypeOK, TypesOfCall
    <3> QED
      BY <1>1, <1>3, <3>3, TypesAround
  <2>4. RunInv /\ InRun /\ StartInv /\ DrainInv /\ DrainHarvested
    BY <1>1, <1>3, <1>7 DEF WindowsInv, InRun
  <2>5. os[p] = "gone" /\ status[p] \in {"RUNNING"} \cup Terminal /\ processOpen[p]
    <3>1. os[p] = "gone"
      BY <1>3, <1>9, <2>4 DEF RunInv
    <3>2. status[p] \notin {"NOT_STARTED", "FAILED_TO_START"}
      BY <2>4, <3>1 DEF StartInv
    <3>3. status[p] \in {"RUNNING"} \cup Terminal
      BY <1>3, <3>2 DEF TypeOK
    <3> QED
      BY <2>4, <3>1, <3>3 DEF RunInv, Spawned
  <2>6. ~Finalizing(p) /\ (lastErrno[p] \/ ~readOpen[p])
    <3>1. ~Finalizing(p)
      <4>1. Head(todo)[1] \notin PumpNames
        BY <1>3, <1>9 DEF PumpNames
      <4> QED
        BY <1>1, <1>3, <4>1, FinalizingIsPumping
    <3> QED
      BY <1>3, <1>9, <2>4, <3>1 DEF DrainHarvested
  <2>7. \A q \in Procs : Finalizing(q) => Finalizing(q)'
    BY <1>4, <1>9 DEF Finalizing
  <2>8. DrainInv' /\ DrainHarvested'
    <3>1. ASSUME NEW q \in Procs, status'[q] \in Terminal, ~lastErrno[q], readOpen[q], ~waitFailed
          PROVE  Finalizing(q)'
      <4>1. q # p
        BY <2>6, <3>1
      <4>2. Finalizing(q) \/ \E j \in 1 .. q : <<"prime", j>> \in Tasks
        BY <1>3, <2>2, <2>4, <3>1, <4>1 DEF DrainInv
      <4> QED
        BY <1>3, <2>7, <4>2
    <3>2. slots' = {}
      BY <1>1, <1>3 DEF WindowsInv, CallInv
    <3>3. DrainInv'
      BY <1>1, <3>1, <3>2 DEF DrainInv, PipesStand
    <3>4. DrainHarvested'
      BY <1>1, <1>4, <2>4, <2>7 DEF DrainHarvested, PipesStand
    <3> QED
      BY <3>3, <3>4
  <2>9. RunInv'
    <3>1. ASSUME NEW q \in Procs
          PROVE  /\ valid'[q] /\ (status'[q] = "NOT_STARTED" <=> q >= next')
                 /\ q \in Spawned' => processOpen'[q]
      <4>1. q \in Spawned' => q \in Spawned
        BY <2>2, <2>5 DEF Spawned
      <4>2. status'[q] = "NOT_STARTED" <=> status[q] = "NOT_STARTED"
        BY <2>2, <2>5 DEF Terminal
      <4> QED
        BY <1>1, <2>4, <4>1, <4>2 DEF RunInv, PipesStand
    <3>2. spawnFailed' => \E q \in Procs : status'[q] = "FAILED_TO_START"
      <4> HAVE spawnFailed'
      <4>1. PICK q \in Procs : status[q] = "FAILED_TO_START"
        BY <1>1, <2>4 DEF RunInv
      <4>2. q # p
        BY <2>5, <4>1 DEF Terminal
      <4> QED
        BY <2>2, <4>1, <4>2
    <3>3. ASSUME NEW q \in Procs, NEW j \in q + 1 .. N + 1, <<"harvest", j>> \in Tasks',
                 status'[q] = "RUNNING"
          PROVE  <<"harvested", q>> \in Tasks'
      <4>1. q # p /\ status[q] = "RUNNING" /\ <<"harvest", j>> \in Tasks
        BY <1>4, <2>2, <3>3
      <4>2. <<"harvested", q>> \in Tasks
        BY <2>4, <4>1 DEF RunInv
      <4> QED
        BY <1>4, <1>9, <4>1, <4>2
    <3>4. \A q \in Procs : <<"harvested", q>> \in Tasks' => os'[q] = "gone"
      BY <1>1, <1>4, <2>4 DEF RunInv, PipesStand
    <3>5. Running = {} => Running' = {}
      BY <2>2 DEF Running
    <3>6. <<"end", 0>> \in Tasks' => waitFailed' \/ timedOut' \/ (Running' = {} /\ next' > N)
      BY <1>1, <1>4, <2>4, <3>5 DEF RunInv
    <3>7. <<"teardown", 0>> \in Tasks' =>
           /\ waitFailed' \/ timedOut' \/ next' > N
           /\ \/ waitFailed' \/ Running' = {} \/ <<"terminate", 1>> \in Tasks'
              \/ \E j \in 1 .. N + 1 : <<"harvest", j>> \in Tasks'
      <4> HAVE <<"teardown", 0>> \in Tasks'
      <4>1. /\ waitFailed \/ timedOut \/ next > N
            /\ \/ waitFailed \/ Running = {} \/ <<"terminate", 1>> \in Tasks
               \/ \E j \in 1 .. N + 1 : <<"harvest", j>> \in Tasks
        BY <1>4, <2>4 DEF RunInv
      <4>2. /\ <<"terminate", 1>> \in Tasks => <<"terminate", 1>> \in Tasks'
            /\ \A j : <<"harvest", j>> \in Tasks => <<"harvest", j>> \in Tasks'
        BY <1>4, <1>9
      <4> QED
        BY <1>1, <3>5, <4>1, <4>2
    <3> QED
      BY <3>1, <3>2, <3>3, <3>4, <3>6, <3>7 DEF RunInv
  <2>10. \A q \in Procs : StatusStep(q) /\ (lastErrno[q] => lastErrno'[q])
    BY <1>1, <2>2, <2>5 DEF StatusStep, Terminal
  <2> QED
    BY <1>1, <1>3, <1>4, <1>6, <1>7, <2>3, <2>8, <2>9, <2>10, RunStepKeeps
<1> QED
  BY <1>8, <1>9

(* The handles are killed and reaped.                                       *)
LEMMA TerminateAllKeeps ==
  ASSUME WindowsArguments, WindowsInv, TerminateAll
  PROVE  WindowsInv'
<1> DEFINE t == <<"harvest", 1>>
<1>1. /\ todo # <<>> /\ Head(todo) = <<"terminate", 1>> /\ PipesStand
      /\ todo' = <<t>> \o Tail(todo)
      /\ terminated' = terminated \cup {p \in Running : os[p] = "running"}
      /\ UNCHANGED <<status, lastErrno, pumped, timeout, expired>>
      /\ UNCHANGED <<slots, waiting, ioFailed, group>>
      /\ UNCHANGED <<next, spawnFailed, timedOut, waitFailed, last>>
  BY DEF TerminateAll, At, Then, PipesStand, childVars, pipeVars, handleVars, startVars,
         stdinVars, outputVars, callVars, waitVars, runVars
<1>2. TaskInv /\ TypeOK /\ Runs /\ client' = client /\ Head(todo) \in Tasks
  <2>1. TaskInv /\ Head(todo) \in Tasks
    BY <1>1, Popped DEF WindowsInv, TaskInv, Tasks
  <2>2. Runs
    BY <1>1, <2>1 DEF TaskInv, Allowed, RunNames
  <2> QED
    BY <1>1, <2>1, <2>2 DEF WindowsInv, PipesStand
<1>3. RunInv /\ InRun /\ DrainInv /\ DrainHarvested
  BY <1>1, <1>2 DEF WindowsInv, InRun
<1>4. /\ TaskInv' /\ todo' # <<>> /\ Head(todo') = t /\ t \in Tasks'
      /\ Tasks' \subseteq {t} \cup Tasks /\ Tasks \subseteq {<<"terminate", 1>>} \cup Tasks'
  <2>1. t \in Task /\ Allowed(t)
    BY <1>2 DEF Task, RunNames, Allowed, BackgroundNames, WindowsArguments
  <2>2. InPlaceOf(t, Head(todo))
    BY <1>1 DEF InPlaceOf, Bottom, Follows
  <2>3. todo # <<>> /\ UNCHANGED <<client, slots>>
    BY <1>1, <1>2
  <2>4. todo' = <<t>> \o Tail(todo)
    BY <1>1
  <2> HIDE DEF t
  <2>5. /\ TaskInv' /\ todo' # <<>> /\ Head(todo') = t /\ t \in Tasks'
        /\ Tasks' \subseteq {t} \cup Tasks /\ Tasks \subseteq {Head(todo)} \cup Tasks'
    BY <1>2, <2>1, <2>2, <2>3, <2>4, GivesOne
  <2> QED
    BY <1>1, <2>5
<1>5. TypeOK'
  <2>1. terminated' \subseteq Procs
    BY <1>1, <1>2 DEF TypeOK, Running
  <2> QED
    BY <1>1, <1>2, <2>1 DEF TypeOK, PipesStand
<1>6. DrainInv' /\ DrainHarvested'
  <2>1. \A q \in Procs : Finalizing(q) => Finalizing(q)'
    BY <1>4 DEF Finalizing
  <2>2. \A q \in Procs : <<"harvested", q>> \in Tasks' => <<"harvested", q>> \in Tasks
    BY <1>4
  <2>3. \A j : <<"prime", j>> \notin Tasks
    BY <1>2, NothingPrimes
  <2> QED
    BY <1>1, <1>2, <1>3, <2>1, <2>2, <2>3 DEF DrainInv, DrainHarvested, PipesStand, Runs
<1>7. RunInv'
  <2>1. Running' = Running /\ Spawned' = Spawned /\ N \in Nat
    BY <1>1 DEF Running, Spawned, WindowsArguments
  <2>2. /\ \A q \in Procs : /\ valid'[q] /\ (status'[q] = "NOT_STARTED" <=> q >= next')
                            /\ q \in Spawned' => processOpen'[q]
        /\ spawnFailed' => \E q \in Procs : status'[q] = "FAILED_TO_START"
    BY <1>1, <1>3, <2>1 DEF RunInv, PipesStand
  <2>3. ASSUME NEW q \in Procs, NEW j \in q + 1 .. N + 1, <<"harvest", j>> \in Tasks',
               status'[q] = "RUNNING"
        PROVE  <<"harvested", q>> \in Tasks'
    <3>1. <<"harvest", j>> # t
      BY <2>1 DEF Procs
    <3>2. <<"harvest", j>> \in Tasks
      BY <1>4, <2>3, <3>1
    <3>3. <<"harvested", q>> \in Tasks
      BY <1>1, <1>3, <2>3, <3>2 DEF RunInv
    <3> QED
      BY <1>4, <3>3
  <2>4. \A q \in Procs : <<"harvested", q>> \in Tasks' => os'[q] = "gone"
    BY <1>1, <1>3, <1>4 DEF RunInv, PipesStand
  <2>5. <<"end", 0>> \in Tasks' => waitFailed' \/ timedOut' \/ (Running' = {} /\ next' > N)
    BY <1>1, <1>3, <1>4, <2>1 DEF RunInv
  <2>6. <<"teardown", 0>> \in Tasks' => waitFailed' \/ timedOut' \/ next' > N
    BY <1>1, <1>3, <1>4, <2>1 DEF RunInv
  <2>7. \E j \in 1 .. N + 1 : <<"harvest", j>> \in Tasks'
    BY <1>4, <2>1
  <2> QED
    BY <2>2, <2>3, <2>4, <2>5, <2>6, <2>7 DEF RunInv
<1> QED
  <2>1. /\ NotPumping /\ Head(todo')[1] # "release" /\ Head(todo)[1] # "release"
        /\ \A q \in Procs :
             \A other \in {"settle", "primed", "drained", "reported", "noted", "harvested"} :
               ~Doing(other, q)'
    BY <1>1, <1>4 DEF NotPumping, Doing
  <2>2. \A q \in Procs : StatusStep(q) /\ (lastErrno[q] => lastErrno'[q])
    BY <1>1 DEF StatusStep
  <2> QED
    BY <1>1, <1>2, <1>4, <1>5, <1>6, <1>7, <2>1, <2>2, RunStepKeeps

(* What holds where a harvest goes on.                                      *)
LEMMA Harvesting ==
  ASSUME WindowsInv, NEW p \in 1 .. N + 1, At("harvest", p)
  PROVE  /\ TaskInv /\ TypeOK /\ Runs /\ RunInv /\ InRun /\ DrainInv /\ DrainHarvested
         /\ <<"harvest", p>> \in Tasks
         /\ \A q : ~Finalizing(q) /\ <<"harvested", q>> \notin Tasks
         /\ \A j : <<"prime", j>> \notin Tasks
         /\ \A q \in Procs : q < p => status[q] # "RUNNING"
         /\ \A q \in Procs : ~(status[q] \in Terminal /\ ~lastErrno[q] /\ readOpen[q] /\ ~waitFailed)
<1>1. TaskInv /\ todo # <<>> /\ Head(todo) = <<"harvest", p>> /\ Head(todo) \in Tasks
  BY Popped DEF WindowsInv, At, TaskInv, Tasks
<1>2. Runs
  BY <1>1 DEF TaskInv, Allowed, RunNames
<1>3. RunInv /\ InRun /\ DrainInv /\ DrainHarvested /\ TypeOK
  BY <1>1, <1>2 DEF WindowsInv, InRun
<1>4. \A q : ~Finalizing(q)
  BY <1>1, FinalizingIsPumping DEF PumpNames
<1>5. \A q : <<"harvested", q>> \notin Tasks
  <2> SUFFICES ASSUME NEW q, <<"harvested", q>> \in Tasks PROVE FALSE
    OBVIOUS
  <2>1. PICK u \in Tasks : Follows(u, <<"harvested", q>>)
    BY <1>1, Above
  <2>2. u[1] \in {"finalize", "settle"} /\ u[2] = q
    BY <2>1 DEF Follows
  <2>3. u[1] # "harvest"
    BY <2>2
  <2>4. u # Head(todo)
    BY <1>1, <2>3
  <2>5. u = <<"finalize", q>> \/ u = <<"settle", q>>
    BY <1>1, <2>2 DEF TaskInv, Tasks, TasksOf, Task
  <2> QED
    BY <1>4, <2>5 DEF Finalizing
<1>6. \A j : <<"prime", j>> \notin Tasks
  BY <1>1, <1>2, NothingPrimes
<1>7. \A q \in Procs : q < p => status[q] # "RUNNING"
  <2> SUFFICES ASSUME NEW q \in Procs, q < p, status[q] = "RUNNING" PROVE FALSE
    OBVIOUS
  <2>1. p \in q + 1 .. N + 1
    BY DEF Procs
  <2> QED
    BY <1>1, <1>3, <1>5, <2>1 DEF RunInv
<1>8. \A q \in Procs : ~(status[q] \in Terminal /\ ~lastErrno[q] /\ readOpen[q] /\ ~waitFailed)
  BY <1>2, <1>3, <1>4, <1>6 DEF DrainInv
<1> QED
  BY <1>1, <1>2, <1>3, <1>4, <1>5, <1>6, <1>7, <1>8

(* The harvest leaves a handle that does not run, or not any more.          *)
LEMMA HarvestMovesOn ==
  ASSUME WindowsArguments, WindowsInv, NEW p \in Procs, At("harvest", p),
         Then(<<<<"harvest", p + 1>>>>), PipesStand,
         UNCHANGED <<terminated, lastErrno, pumped, timeout, expired>>,
         UNCHANGED <<slots, waiting, ioFailed, group, next, spawnFailed, timedOut, last>>,
         \/ status' = status /\ waitFailed' = waitFailed /\ status[p] # "RUNNING"
         \/ /\ status' = [status EXCEPT ![p] = "KILLED_BY_SIGNAL"]
            /\ waitFailed' = TRUE /\ os[p] = "running" /\ status[p] = "RUNNING"
  PROVE  WindowsInv'
<1> DEFINE t == <<"harvest", p + 1>>
<1>1. /\ todo # <<>> /\ Head(todo) = <<"harvest", p>> /\ todo' = <<t>> \o Tail(todo)
      /\ client' = client
  BY DEF At, Then, PipesStand
<1>2. N \in Nat /\ p \in 1 .. N + 1 /\ p + 1 \in 1 .. N + 1 /\ p <= N
  BY DEF WindowsArguments, Procs
<1>3. /\ TaskInv /\ TypeOK /\ Runs /\ RunInv /\ InRun /\ DrainInv /\ DrainHarvested
      /\ \A q : ~Finalizing(q) /\ <<"harvested", q>> \notin Tasks
      /\ \A j : <<"prime", j>> \notin Tasks
      /\ \A q \in Procs : q < p => status[q] # "RUNNING"
      /\ \A q \in Procs : ~(status[q] \in Terminal /\ ~lastErrno[q] /\ readOpen[q] /\ ~waitFailed)
  BY <1>2, Harvesting
<1>4. /\ TaskInv' /\ todo' # <<>> /\ Head(todo') = t /\ t \in Tasks'
      /\ Tasks' \subseteq {t} \cup Tasks /\ Tasks \subseteq {<<"harvest", p>>} \cup Tasks'
  <2>1. t \in Task /\ Allowed(t)
    BY <1>2, <1>3 DEF Task, RunNames, Allowed, BackgroundNames
  <2>2. InPlaceOf(t, Head(todo))
    BY <1>1 DEF InPlaceOf, Bottom, Follows
  <2>3. todo # <<>> /\ UNCHANGED <<client, slots>>
    BY <1>1
  <2>4. todo' = <<t>> \o Tail(todo)
    BY <1>1
  <2> HIDE DEF t
  <2>5. /\ TaskInv' /\ todo' # <<>> /\ Head(todo') = t /\ t \in Tasks'
        /\ Tasks' \subseteq {t} \cup Tasks /\ Tasks \subseteq {Head(todo)} \cup Tasks'
    BY <1>3, <2>1, <2>2, <2>3, <2>4, GivesOne
  <2> QED
    BY <1>1, <2>5
<1>5. /\ \A q \in Procs \ {p} : status'[q] = status[q]
      /\ status' = status \/ status'[p] = "KILLED_BY_SIGNAL"
      /\ status'[p] # "RUNNING"
  BY <1>3 DEF TypeOK
<1>6. waitFailed => waitFailed'
  OBVIOUS
<1>7. TypeOK'
  <2>1. status' \in [Procs -> {"NOT_STARTED", "RUNNING", "FAILED_TO_START"} \cup Terminal]
    BY <1>3 DEF TypeOK, Terminal
  <2>2. {expired', spawnFailed', timedOut', waitFailed'} \subseteq BOOLEAN
    BY <1>3 DEF TypeOK
  <2> QED
    BY <1>1, <1>3, <2>1, <2>2 DEF TypeOK, PipesStand
<1>8. DrainInv' /\ DrainHarvested'
  <2>1. \A q \in Procs : <<"harvested", q>> \notin Tasks'
    BY <1>3, <1>4
  <2>2. ASSUME NEW q \in Procs
        PROVE  ~(status'[q] \in Terminal /\ ~lastErrno'[q] /\ readOpen'[q] /\ ~waitFailed')
    BY <1>3, <1>5, <1>6 DEF PipesStand
  <2>3. slots' = {}
    BY <1>1, <1>3 DEF WindowsInv, CallInv
  <2> QED
    BY <2>1, <2>2, <2>3 DEF DrainInv, DrainHarvested
<1>9. RunInv'
  <2>1. \A q \in Procs :
          /\ status'[q] = "NOT_STARTED" <=> status[q] = "NOT_STARTED"
          /\ q \in Spawned' <=> q \in Spawned
          /\ status'[q] = "RUNNING" => status[q] = "RUNNING"
          /\ status[q] = "FAILED_TO_START" => status'[q] = "FAILED_TO_START"
    BY <1>5 DEF Spawned, Terminal
  <2>2. /\ \A q \in Procs : /\ valid'[q] /\ (status'[q] = "NOT_STARTED" <=> q >= next')
                            /\ q \in Spawned' => processOpen'[q]
        /\ spawnFailed' => \E q \in Procs : status'[q] = "FAILED_TO_START"
    BY <1>3, <2>1 DEF RunInv, PipesStand
  <2>3. ASSUME NEW q \in Procs, NEW j \in q + 1 .. N + 1, <<"harvest", j>> \in Tasks',
               status'[q] = "RUNNING"
        PROVE  <<"harvested", q>> \in Tasks'
    <3>1. status[q] = "RUNNING" /\ q # p
      BY <1>5, <2>1, <2>3
    <3>2. q > p
      BY <1>2, <1>3, <3>1 DEF Procs
    <3>3. <<"harvest", j>> # t
      BY <1>2, <3>2 DEF Procs
    <3>4. <<"harvest", j>> \in Tasks
      BY <1>4, <2>3, <3>3
    <3>5. <<"harvested", q>> \in Tasks
      BY <1>3, <3>1, <3>4 DEF RunInv
    <3> QED
      BY <1>3, <3>5
  <2>4. \A q \in Procs : <<"harvested", q>> \in Tasks' => os'[q] = "gone"
    BY <1>3, <1>4
  <2>5. Running = {} => Running' = {}
    BY <2>1 DEF Running
  <2>6. <<"end", 0>> \in Tasks' => waitFailed' \/ timedOut' \/ (Running' = {} /\ next' > N)
    BY <1>3, <1>4, <1>6, <2>5 DEF RunInv
  <2>7. <<"teardown", 0>> \in Tasks' => waitFailed' \/ timedOut' \/ next' > N
    BY <1>3, <1>4, <1>6 DEF RunInv
  <2>8. \E j \in 1 .. N + 1 : <<"harvest", j>> \in Tasks'
    BY <1>2, <1>4
  <2> QED
    BY <2>2, <2>3, <2>4, <2>6, <2>7, <2>8 DEF RunInv
<1> QED
  <2>1. /\ NotPumping /\ Head(todo')[1] # "release"
        /\ \A q \in Procs :
             \A other \in {"settle", "primed", "drained", "reported", "noted", "harvested"} :
               ~Doing(other, q)'
    BY <1>4 DEF NotPumping, Doing
  <2>2. \A q \in Procs : StatusStep(q) /\ (lastErrno[q] => lastErrno'[q])
    BY <1>3, <1>5 DEF StatusStep
  <2> QED
    BY <1>1, <1>3, <1>4, <1>6, <1>7, <1>8, <1>9, <2>1, <2>2, RunStepKeeps

(* The harvest passes a handle that does not run, or ends.                  *)
LEMMA HarvestNextKeeps ==
  ASSUME WindowsArguments, WindowsInv, NEW p \in 1 .. N + 1, HarvestNext(p)
  PROVE  WindowsInv'
<1>1. /\ todo # <<>> /\ Head(todo) = <<"harvest", p>> /\ PipesStand /\ At("harvest", p)
      /\ UNCHANGED <<terminated, status, lastErrno, pumped, timeout, expired>>
      /\ UNCHANGED <<slots, waiting, ioFailed, group>>
      /\ UNCHANGED <<next, spawnFailed, timedOut, waitFailed, last>>
  BY DEF HarvestNext, At, TaskOnly, PipesStand, childVars, pipeVars, handleVars, startVars,
         stdinVars, outputVars, callVars, waitVars, runVars
<1>2. N \in Nat
  BY DEF WindowsArguments
<1>3. CASE p <= N
  <2>1. p \in Procs /\ status[p] # "RUNNING" /\ Then(<<<<"harvest", p + 1>>>>)
    <3>1. p \in Procs
      BY <1>2, <1>3 DEF Procs
    <3>2. p \notin Running /\ Then(IF p > N THEN <<>> ELSE <<<<"harvest", p + 1>>>>)
      BY <1>2, <1>3 DEF HarvestNext
    <3>3. (IF p > N THEN <<>> ELSE <<<<"harvest", p + 1>>>>) = <<<<"harvest", p + 1>>>>
      BY <1>2, <1>3
    <3> QED
      BY <3>1, <3>2, <3>3 DEF Running
  <2> QED
    BY <1>1, <2>1, HarvestMovesOn
<1>4. CASE p > N
  <2>1. todo' = <<>> \o Tail(todo)
    <3>1. Then(IF p > N THEN <<>> ELSE <<<<"harvest", p + 1>>>>)
      BY DEF HarvestNext
    <3> QED
      BY <1>4, <3>1, Zenon DEF Then
  <2>2. /\ TaskInv /\ TypeOK /\ Runs /\ RunInv /\ InRun /\ DrainInv /\ DrainHarvested
        /\ \A q : ~Finalizing(q) /\ <<"harvested", q>> \notin Tasks
        /\ \A q \in Procs : q < p => status[q] # "RUNNING"
        /\ \A j : <<"prime", j>> \notin Tasks
        /\ client' = client
    BY <1>1, Harvesting DEF PipesStand
  <2>3. Running = {}
    BY <1>2, <1>4, <2>2 DEF Running, Procs
  <2>4. /\ TaskInv' /\ Tasks' \subseteq Tasks
        /\ todo' # <<>> /\ Head(todo')[1] \in {"again", "teardown"}
    <3>1. todo # <<>> /\ UNCHANGED <<client, slots>>
      BY <1>1, <2>2
    <3>2. /\ TaskInv' /\ Tasks' \subseteq Tasks
          /\ IF todo' = <<>> THEN Bottom(Head(todo)) ELSE Follows(Head(todo), Head(todo'))
      BY <2>1, <2>2, <3>1, GivesWay
    <3>3. ~Bottom(Head(todo))
      BY <1>1 DEF Bottom
    <3>4. todo' # <<>> /\ Head(todo')[1] \in {"again", "teardown"}
      BY <1>1, <3>2, <3>3 DEF Follows
    <3> QED
      BY <3>2, <3>4
  <2>5. TypeOK'
    BY <1>1, <2>2 DEF TypeOK, PipesStand
  <2>6. DrainInv' /\ DrainHarvested'
    BY <1>1, <2>2, <2>4 DEF DrainInv, DrainHarvested, PipesStand, Runs
  <2>7. RunInv'
    <3>1. Running' = {} /\ Spawned' = Spawned
      BY <1>1, <2>3 DEF Running, Spawned
    <3>2. /\ \A q \in Procs : /\ valid'[q] /\ (status'[q] = "NOT_STARTED" <=> q >= next')
                              /\ q \in Spawned' => processOpen'[q]
          /\ spawnFailed' => \E q \in Procs : status'[q] = "FAILED_TO_START"
      BY <1>1, <2>2, <3>1 DEF RunInv, PipesStand
    <3>3. \A q \in Procs : status'[q] # "RUNNING" /\ <<"harvested", q>> \notin Tasks'
      BY <2>2, <2>4, <3>1 DEF Running
    <3>4. <<"end", 0>> \in Tasks' => waitFailed' \/ timedOut' \/ (Running' = {} /\ next' > N)
      BY <1>1, <2>2, <2>4, <3>1 DEF RunInv
    <3>5. <<"teardown", 0>> \in Tasks' => waitFailed' \/ timedOut' \/ next' > N
      BY <1>1, <2>2, <2>4 DEF RunInv
    <3> QED
      BY <3>1, <3>2, <3>3, <3>4, <3>5 DEF RunInv
  <2>8. /\ NotPumping /\ Head(todo')[1] # "release"
        /\ \A q \in Procs :
             \A other \in {"settle", "primed", "drained", "reported", "noted", "harvested"} :
               ~Doing(other, q)'
    BY <2>4 DEF NotPumping, Doing
  <2>9. \A q \in Procs : StatusStep(q) /\ (lastErrno[q] => lastErrno'[q])
    BY <1>1 DEF StatusStep
  <2> QED
    BY <1>1, <2>2, <2>4, <2>5, <2>6, <2>7, <2>8, <2>9, RunStepKeeps
<1> QED
  BY <1>2, <1>3, <1>4

(* The harvest gives up on a handle that did not die in time.               *)
LEMMA HarvestGivesUpKeeps ==
  ASSUME WindowsArguments, WindowsInv, NEW p \in Procs, HarvestGivesUp(p)
  PROVE  WindowsInv'
<1>1. /\ At("harvest", p) /\ Then(<<<<"harvest", p + 1>>>>) /\ PipesStand
      /\ UNCHANGED <<terminated, lastErrno, pumped, timeout, expired>>
      /\ UNCHANGED <<slots, waiting, ioFailed, group, next, spawnFailed, timedOut, last>>
      /\ status' = [status EXCEPT ![p] = "KILLED_BY_SIGNAL"]
      /\ waitFailed' = TRUE /\ os[p] = "running" /\ status[p] = "RUNNING"
  BY DEF HarvestGivesUp, AllRunStands, Running, PipesStand, childVars, pipeVars,
         stdinVars, outputVars
<1> QED
  BY <1>1, HarvestMovesOn

(* The harvest finalizes a handle that is gone.                             *)
LEMMA HarvestKeeps ==
  ASSUME WindowsArguments, WindowsInv, NEW p \in Procs, Harvest(p)
  PROVE  WindowsInv'
<1> DEFINE a == <<"finalize", p>>
           b == <<"harvested", p>>
           c == <<"harvest", p + 1>>
<1>1. /\ todo # <<>> /\ Head(todo) = <<"harvest", p>> /\ PipesStand /\ At("harvest", p)
      /\ todo' = <<a, b, c>> \o Tail(todo) /\ os[p] = "gone"
      /\ UNCHANGED <<terminated, status, lastErrno, pumped, timeout, expired>>
      /\ UNCHANGED <<slots, waiting, ioFailed, group>>
      /\ UNCHANGED <<next, spawnFailed, timedOut, waitFailed, last>>
  BY DEF Harvest, At, Then, TaskOnly, PipesStand, childVars, pipeVars, handleVars, startVars,
         stdinVars, outputVars, callVars, waitVars, runVars
<1>2. N \in Nat /\ p \in 1 .. N + 1 /\ p + 1 \in 1 .. N + 1 /\ p <= N /\ p \in 0 .. N + 1
  BY DEF WindowsArguments, Procs
<1>3. /\ TaskInv /\ TypeOK /\ Runs /\ RunInv /\ InRun /\ DrainInv /\ DrainHarvested
      /\ \A q : ~Finalizing(q) /\ <<"harvested", q>> \notin Tasks
      /\ \A j : <<"prime", j>> \notin Tasks
      /\ \A q \in Procs : q < p => status[q] # "RUNNING"
      /\ client' = client
  BY <1>1, <1>2, Harvesting DEF PipesStand
<1>4. /\ TaskInv' /\ todo' # <<>> /\ Head(todo') = a /\ {a, b, c} \subseteq Tasks'
      /\ Tasks' \subseteq {a, b, c} \cup Tasks /\ Tasks \subseteq {<<"harvest", p>>} \cup Tasks'
  <2>1. a \in Task /\ b \in Task /\ c \in Task
    BY <1>2 DEF Task, RunNames, PumpNames
  <2>2. Allowed(a) /\ Allowed(b) /\ Allowed(c)
    BY <1>3 DEF Allowed, RunNames, BackgroundNames
  <2>3. Follows(a, b) /\ Follows(b, c)
    BY DEF Follows
  <2>4. InPlaceOf(c, Head(todo))
    BY <1>1 DEF InPlaceOf, Bottom, Follows
  <2>5. todo # <<>> /\ UNCHANGED <<client, slots>>
    BY <1>1, <1>3
  <2>6. todo' = <<a, b, c>> \o Tail(todo)
    BY <1>1
  <2> HIDE DEF a, b, c
  <2>7. /\ TaskInv' /\ todo' # <<>> /\ Head(todo') = a
        /\ Tasks' \subseteq {a, b, c} \cup Tasks /\ {a, b, c} \subseteq Tasks'
        /\ Tasks \subseteq {Head(todo)} \cup Tasks'
    BY <1>3, <2>1, <2>2, <2>3, <2>4, <2>5, <2>6, GivesThree
  <2> QED
    BY <1>1, <2>7
<1>5. TypeOK'
  BY <1>1, <1>3 DEF TypeOK, PipesStand
<1>6. DrainInv' /\ DrainHarvested'
  <2>1. Finalizing(p)'
    BY <1>4 DEF Finalizing
  <2>2. \A q \in Procs : <<"harvested", q>> \in Tasks' => q = p
    BY <1>3, <1>4
  <2>3. \A q \in Procs : ~Finalizing(q) /\ ~\E j \in 1 .. q : <<"prime", j>> \in Tasks
    BY <1>3
  <2>4. DrainHarvested'
    BY <2>1, <2>2 DEF DrainHarvested
  <2>5. DrainInv'
    BY <1>1, <1>3, <2>3 DEF DrainInv, PipesStand, Runs
  <2> QED
    BY <2>4, <2>5
<1>7. RunInv'
  <2>1. Running' = Running /\ Spawned' = Spawned
    BY <1>1 DEF Running, Spawned
  <2>2. /\ \A q \in Procs : /\ valid'[q] /\ (status'[q] = "NOT_STARTED" <=> q >= next')
                            /\ q \in Spawned' => processOpen'[q]
        /\ spawnFailed' => \E q \in Procs : status'[q] = "FAILED_TO_START"
    BY <1>1, <1>3, <2>1 DEF RunInv, PipesStand
  <2>3. ASSUME NEW q \in Procs, NEW j \in q + 1 .. N + 1, <<"harvest", j>> \in Tasks',
               status'[q] = "RUNNING"
        PROVE  <<"harvested", q>> \in Tasks'
    <3>1. CASE q = p
      BY <1>4, <3>1
    <3>2. CASE q # p
      <4>1. q > p
        BY <1>1, <1>2, <1>3, <2>3, <3>2 DEF Procs
      <4>2. <<"harvest", j>> \notin {a, b, c}
        BY <1>2, <4>1 DEF Procs
      <4>3. <<"harvest", j>> \in Tasks
        BY <1>4, <2>3, <4>2
      <4>4. <<"harvested", q>> \in Tasks
        BY <1>1, <1>3, <2>3, <4>3 DEF RunInv
      <4> QED
        BY <1>3, <4>4
    <3> QED
      BY <3>1, <3>2
  <2>4. \A q \in Procs : <<"harvested", q>> \in Tasks' => os'[q] = "gone"
    BY <1>1, <1>3, <1>4 DEF PipesStand
  <2>5. <<"end", 0>> \in Tasks' => waitFailed' \/ timedOut' \/ (Running' = {} /\ next' > N)
    BY <1>1, <1>3, <1>4, <2>1 DEF RunInv
  <2>6. <<"teardown", 0>> \in Tasks' => waitFailed' \/ timedOut' \/ next' > N
    BY <1>1, <1>3, <1>4 DEF RunInv
  <2>7. \E j \in 1 .. N + 1 : <<"harvest", j>> \in Tasks'
    BY <1>2, <1>4
  <2> QED
    BY <2>2, <2>3, <2>4, <2>5, <2>6, <2>7 DEF RunInv
<1> QED
  <2>1. /\ NotPumping /\ Head(todo')[1] # "release"
        /\ \A q \in Procs :
             \A other \in {"settle", "primed", "drained", "reported", "noted", "harvested"} :
               ~Doing(other, q)'
    BY <1>4 DEF NotPumping, Doing
  <2>2. \A q \in Procs : StatusStep(q) /\ (lastErrno[q] => lastErrno'[q])
    BY <1>1 DEF StatusStep
  <2> QED
    BY <1>1, <1>3, <1>4, <1>5, <1>6, <1>7, <2>1, <2>2, RunStepKeeps

(* The end of a run: every handle is closed and the result stated.          *)
LEMMA TeardownKeeps ==
  ASSUME WindowsArguments, WindowsInv, Teardown
  PROVE  WindowsInv'
<1>1. /\ todo # <<>> /\ Head(todo) = <<"teardown", 0>> /\ todo' = <<>> \o Tail(todo)
      /\ writeOp' = [q \in Procs |-> WriteCancelled(q)]
      /\ readOp' = [q \in Procs |-> ReadCancelled(q)]
      /\ stdinOpen' = Closed(stdinOpen) /\ readOpen' = Closed(readOpen)
      /\ processOpen' = Closed(processOpen)
      /\ writePending' = Everywhere(FALSE) /\ readPending' = Everywhere(FALSE)
      /\ last'.op = "run" /\ last'.on = Procs /\ last'.result = RunResult
      /\ UNCHANGED <<client, os, terminated, inPipe, received, sawEof, outPipe, produced>>
      /\ UNCHANGED <<valid, status, background, offset, inCap, sunk, outCap, lastErrno>>
      /\ pumped' = "SUCCESS" /\ timeout' = "none" /\ expired' = FALSE
      /\ slots' = {} /\ waiting' = {} /\ ioFailed' = {} /\ group' = 0
      /\ next' = 1 /\ spawnFailed' = FALSE /\ timedOut' = FALSE /\ waitFailed' = FALSE
  BY DEF Teardown, At, Then, Returns, LocalsGone, childVars
<1>2. /\ Runs /\ Tasks = {<<"teardown", 0>>} /\ todo' = <<>>
      /\ TypeOK /\ TaskInv /\ RunInv /\ InRun /\ StartInv /\ CallInv
      /\ WriteInv /\ ReadInv /\ InputInv /\ OutputInv
      /\ \A q \in Procs : ~(status[q] \in Terminal /\ ~lastErrno[q] /\ readOpen[q] /\ ~waitFailed)
  <2>1. Bottom(Head(todo)) /\ Head(todo)[1] \in RunNames
    BY <1>1 DEF Bottom, RunNames
  <2>2. /\ Runs /\ Tasks = {Head(todo)} /\ Tail(todo) = <<>> /\ InRun
        /\ TypeOK /\ TaskInv /\ RunInv /\ StartInv /\ CallInv
        /\ \A q \in Procs : ~(status[q] \in Terminal /\ ~lastErrno[q] /\ readOpen[q] /\ ~waitFailed)
    BY <1>1, <2>1, BottomOfRun
  <2>3. todo' = <<>>
    BY <1>1, <2>2
  <2>4. Tasks = {<<"teardown", 0>>}
    BY <1>1, <2>2
  <2> QED
    BY <2>2, <2>3, <2>4 DEF WindowsInv
<1>same. /\ UNCHANGED <<client, os, terminated, inPipe, received, sawEof, outPipe, produced>>
      /\ UNCHANGED <<valid, status, background, offset, inCap, sunk, outCap, lastErrno>>
  BY <1>1
<1>3. ASSUME NEW q \in Procs
      PROVE  ~readOpen'[q] /\ ~stdinOpen'[q] /\ ~processOpen'[q] /\ ~writePending'[q] /\ ~readPending'[q]
  <2>1. ~writePending'[q] /\ ~readPending'[q]
    BY <1>1 DEF Everywhere
  <2>2. /\ readOpen'[q] = (readOpen[q] /\ q \notin Spawned)
        /\ stdinOpen'[q] = (stdinOpen[q] /\ q \notin Spawned)
        /\ processOpen'[q] = (processOpen[q] /\ q \notin Spawned)
    BY <1>1, Zenon DEF Closed
  <2>3. q \in Spawned \/ (~readOpen[q] /\ ~stdinOpen[q] /\ ~processOpen[q])
    BY <1>2 DEF TypeOK, StartInv, Fresh, Spawned
  <2> QED
    BY <2>1, <2>2, <2>3
<1>4. ASSUME NEW q \in Procs
      PROVE  /\ writeOp'[q].len = writeOp[q].len /\ writeOp'[q].left = writeOp[q].left
             /\ \/ writeOp'[q] = writeOp[q] /\ ~(writePending[q] /\ writeOp[q].st = "flight")
                \/ writeOp'[q].st = "cancelled" /\ writePending[q] /\ writeOp[q].st = "flight"
             /\ readOp'[q].size = readOp[q].size /\ readOp'[q].got = readOp[q].got
             /\ \/ readOp'[q] = readOp[q] /\ ~(readPending[q] /\ readOp[q].st = "flight")
                \/ readOp'[q].st = "cancelled" /\ readPending[q] /\ readOp[q].st = "flight"
  <2>1. writeOp'[q] = WriteCancelled(q) /\ readOp'[q] = ReadCancelled(q)
    BY <1>1
  <2> QED
    BY <1>2, <2>1, Cancels
<1>5. TypeOK'
  <2>1. /\ writeOp' \in [Procs -> [st : OpStates, len : 0 .. BufferMax, left : 0 .. BufferMax]]
        /\ readOp' \in [Procs -> [st : OpStates, size : 0 .. BufferMax, got : 0 .. BufferMax]]
    BY <1>1, <1>2, Cancels
  <2>2. /\ stdinOpen' \in [Procs -> BOOLEAN] /\ readOpen' \in [Procs -> BOOLEAN]
        /\ processOpen' \in [Procs -> BOOLEAN]
    BY <1>1, <1>2, Zenon DEF TypeOK, Closed
  <2>3. writePending' \in [Procs -> BOOLEAN] /\ readPending' \in [Procs -> BOOLEAN]
    BY <1>1 DEF Everywhere
  <2>4. {sawEof', valid', background', processOpen', stdinOpen', readOpen', writePending',
         readPending', lastErrno'} \subseteq [Procs -> BOOLEAN]
    BY <1>same, <1>2, <2>2, <2>3 DEF TypeOK
  <2>5. group' \in 0 .. N /\ next' \in 1 .. N + 1
    BY <1>1 DEF WindowsArguments
  <2> QED
    BY <1>1, <1>2, <2>1, <2>4, <2>5 DEF TypeOK
<1>6. StartInv'
  <2> SUFFICES ASSUME NEW q \in Procs
               PROVE  /\ os'[q] = "none" => Fresh(q)'
                      /\ os'[q] = "none" <=> status'[q] \in {"NOT_STARTED", "FAILED_TO_START"}
                      /\ status'[q] = "EXITED" => os'[q] = "gone"
                      /\ status'[q] \in Terminal /\ os'[q] = "running"
                         => Runs' /\ (waitFailed' \/ ~processOpen'[q])
                      /\ background'[q] => ~Runs' /\ valid'[q] /\ processOpen'[q]
                      /\ ~valid'[q] => /\ ~stdinOpen'[q] /\ ~readOpen'[q] /\ ~processOpen'[q]
                                       /\ inCap'[q] = 0 /\ outCap'[q] = 0
    BY DEF StartInv
  <2>1. os'[q] = "none" => Fresh(q)'
    <3> HAVE os'[q] = "none"
    <3>1. Fresh(q)
      BY <1>same, <1>2 DEF StartInv
    <3>2. writeOp'[q] = writeOp[q] /\ readOp'[q] = readOp[q]
      BY <1>4, <3>1 DEF Fresh
    <3>3. ~background[q]
      BY <3>1 DEF Fresh
    <3> QED
      BY <1>same, <1>3, <3>1, <3>2, <3>3 DEF Fresh
  <2>2. valid[q] /\ ~background[q]
    BY <1>2 DEF RunInv, StartInv
  <2> QED
    BY <1>1, <1>2, <1>3, <2>1, <2>2 DEF StartInv, Runs
<1>7. WriteInv' /\ ReadInv'
  <2>1. \A q \in Procs : ~Doing("write", q)' /\ ~Doing("read", q)' /\ ~Doing("readMore", q)'
    BY <1>2 DEF Doing
  <2> SUFFICES ASSUME NEW q \in Procs
               PROVE  /\ (writeOp[q].st \in InFlight /\ ~writePending[q])' =>
                           (writeOp[q].st = "cancelled" /\ ~background[q])'
                      /\ (stdinOpen[q] /\ ~writePending[q])' => (writeOp[q] = NoWrite)'
                      /\ (readOp[q].st \in InFlight /\ ~readPending[q])' =>
                           (readOp[q].st = "cancelled" /\ ~background[q])'
                      /\ (readOpen[q] /\ ~readPending[q])' => (readOp[q] = NoRead)'
    BY <2>1 DEF WriteInv, ReadInv
  <2>2. ~background'[q]
    BY <1>1, <1>2 DEF StartInv
  <2> QED
    BY <1>2, <1>3, <1>4, <2>2 DEF WriteInv, ReadInv, InFlight
<1>8. InputInv' /\ OutputInv'
  <2> SUFFICES ASSUME NEW q \in Procs PROVE InputOf(q)' /\ OutputOf(q)'
    BY DEF InputInv, OutputInv
  <2>1. InputOf(q) /\ OutputOf(q)
    BY <1>2 DEF InputInv, OutputInv
  <2>2. Sent(q)' = Sent(q)
    BY <1>1, <1>4 DEF Sent
  <2>3. InputOf(q)'
    BY <1>same, <1>3, <1>4, <2>1, <2>2 DEF InputOf, InFlight
  <2>4. OutputOf(q)'
    BY <1>same, <1>3, <1>4, <2>1 DEF OutputOf, InFlight
  <2> QED
    BY <2>3, <2>4
<1>9. TaskInv' /\ CallInv' /\ WaitInv' /\ DrainInv' /\ DrainHarvested' /\ RunInv'
  <2>1. NoLocals' /\ client' = client
    BY <1>1 DEF NoLocals
  <2> QED
    BY <1>2, <1>3, <2>1, Idle
<1>10. /\ RunResult # "WAIT_FAILED" => ~waitFailed
       /\ RunResult \notin {"WAIT_FAILED", "TIMEOUT_REACHED"} => ~timedOut
       /\ RunResult = "SPAWN_FAILED" => spawnFailed
       /\ RunResult = "IO_FAILED" => ioFailed # {}
  BY DEF RunResult
<1>11. OutputComplete'
  <2> SUFFICES ASSUME NEW q \in Procs, ~waitFailed, status[q] \in Terminal, ~lastErrno[q]
               PROVE  sunk[q] = produced[q]
    BY <1>1, <1>10 DEF OutputComplete
  <2>1. ~readOpen[q]
    BY <1>2
  <2>2. processOpen[q]
    BY <1>2 DEF RunInv, Spawned
  <2>3. OutputOf(q) /\ sunk[q] \in Nat
    BY <1>2 DEF OutputInv, TypeOK
  <2> QED
    BY <2>1, <2>2, <2>3 DEF OutputOf
<1>12. ReturnContract'
  <2> SUFFICES ASSUME ~waitFailed
               PROVE  /\ \A q \in Spawned : status[q] \in Terminal /\ os[q] = "gone"
                      /\ ~timedOut => \A q \in Procs : status[q] # "NOT_STARTED"
                      /\ spawnFailed => \E q \in Procs : status[q] = "FAILED_TO_START"
                      /\ ioFailed # {} => \E q \in Procs : lastErrno[q]
    <3>1. Spawned' = Spawned
      BY <1>1 DEF Spawned
    <3> QED
      BY <1>1, <1>10, <3>1 DEF ReturnContract
  <2>1. Running = {} /\ (timedOut \/ next > N)
    <3>1. <<"teardown", 0>> \in Tasks /\ <<"terminate", 1>> \notin Tasks
          /\ \A j : <<"harvest", j>> \notin Tasks
      BY <1>2
    <3> QED
      BY <1>2, <3>1 DEF RunInv
  <2>2. ASSUME NEW q \in Spawned
        PROVE  status[q] \in Terminal /\ os[q] = "gone"
    <3>1. q \in Procs /\ status[q] \in Terminal
      BY <2>1 DEF Spawned, Running
    <3>2. processOpen[q]
      BY <1>2, <3>1 DEF RunInv
    <3>3. status[q] \notin {"NOT_STARTED", "FAILED_TO_START"}
      BY <3>1 DEF Terminal
    <3> QED
      BY <1>2, <3>1, <3>2, <3>3 DEF StartInv, TypeOK
  <2>3. ~timedOut => \A q \in Procs : status[q] # "NOT_STARTED"
    <3>1. N \in Nat /\ next \in Nat
      BY <1>2 DEF WindowsArguments, TypeOK
    <3> QED
      BY <1>2, <2>1, <3>1 DEF RunInv, Procs
  <2>4. spawnFailed => \E q \in Procs : status[q] = "FAILED_TO_START"
    BY <1>2 DEF RunInv
  <2>5. ioFailed # {} => \E q \in Procs : lastErrno[q]
    BY <1>2 DEF CallInv
  <2> QED
    BY <2>2, <2>3, <2>4, <2>5
<1>13. ResultInv'
  BY <1>1, <1>3, <1>11, <1>12 DEF ResultInv
<1> QED
  BY <1>5, <1>6, <1>7, <1>8, <1>9, <1>13 DEF WindowsInv

-----------------------------------------------------------------------------
(* The beginning, and every step.                                           *)
LEMMA InitSound ==
  ASSUME WindowsArguments, Init
  PROVE  WindowsInv
<1>1. /\ client \in Clients
      /\ os = Everywhere("none") /\ terminated = {}
      /\ inPipe = Everywhere(0) /\ outPipe = Everywhere(0)
      /\ received = Everywhere(0) /\ produced = Everywhere(0) /\ sawEof = Everywhere(FALSE)
      /\ writeOp = Everywhere(NoWrite) /\ readOp = Everywhere(NoRead)
      /\ valid = Everywhere(TRUE) /\ status = Everywhere("NOT_STARTED")
      /\ background = Everywhere(FALSE) /\ processOpen = Everywhere(FALSE)
      /\ stdinOpen = Everywhere(FALSE) /\ readOpen = Everywhere(FALSE)
      /\ writePending = Everywhere(FALSE) /\ readPending = Everywhere(FALSE)
      /\ offset = Everywhere(0) /\ sunk = Everywhere(0) /\ lastErrno = Everywhere(FALSE)
      /\ inCap = Everywhere(0) /\ outCap = Everywhere(0)
      /\ todo = <<>> /\ pumped = "SUCCESS" /\ timeout = "none" /\ expired = FALSE
      /\ slots = {} /\ waiting = {} /\ ioFailed = {} /\ group = 0
      /\ next = 1 /\ spawnFailed = FALSE /\ timedOut = FALSE /\ waitFailed = FALSE
      /\ last = NoCall
  BY DEF Init
<1>2. /\ N \in Nat /\ N >= 1 /\ InputLen \in Nat /\ OutputLen \in Nat /\ PipeCap \in Nat
      /\ BufferMax \in Nat
  BY DEF WindowsArguments
<1>3. ASSUME NEW q \in Procs
      PROVE  /\ os[q] = "none" /\ status[q] = "NOT_STARTED" /\ valid[q] /\ ~lastErrno[q]
             /\ inPipe[q] = 0 /\ received[q] = 0 /\ outPipe[q] = 0 /\ produced[q] = 0
             /\ offset[q] = 0 /\ sunk[q] = 0 /\ ~sawEof[q]
             /\ writeOp[q] = NoWrite /\ readOp[q] = NoRead
             /\ ~writePending[q] /\ ~readPending[q]
             /\ ~stdinOpen[q] /\ ~readOpen[q] /\ ~processOpen[q] /\ ~background[q]
  BY <1>1 DEF Everywhere
<1>4. TypeOK
  <2>1. /\ NoWrite \in [st : OpStates, len : 0 .. BufferMax, left : 0 .. BufferMax]
        /\ NoRead \in [st : OpStates, size : 0 .. BufferMax, got : 0 .. BufferMax]
    BY <1>2 DEF NoWrite, NoRead, OpStates
  <2>2. /\ writeOp \in [Procs -> [st : OpStates, len : 0 .. BufferMax, left : 0 .. BufferMax]]
        /\ readOp \in [Procs -> [st : OpStates, size : 0 .. BufferMax, got : 0 .. BufferMax]]
    BY <1>1, <2>1 DEF Everywhere
  <2>3. /\ os \in [Procs -> {"none", "running", "gone"}]
        /\ status \in [Procs -> {"NOT_STARTED", "RUNNING", "FAILED_TO_START"} \cup Terminal]
    BY <1>1 DEF Everywhere
  <2>4. /\ inPipe \in [Procs -> 0 .. PipeCap] /\ outPipe \in [Procs -> 0 .. PipeCap]
        /\ received \in [Procs -> 0 .. InputLen] /\ produced \in [Procs -> 0 .. OutputLen]
        /\ offset \in [Procs -> 0 .. InputLen] /\ sunk \in [Procs -> 0 .. OutputLen]
        /\ inCap \in [Procs -> 0 .. BufferMax] /\ outCap \in [Procs -> 0 .. BufferMax]
    BY <1>1, <1>2 DEF Everywhere
  <2>5. Everywhere(FALSE) \in [Procs -> BOOLEAN] /\ Everywhere(TRUE) \in [Procs -> BOOLEAN]
    BY DEF Everywhere
  <2>6. {sawEof, valid, background, processOpen, stdinOpen, readOpen, writePending,
         readPending, lastErrno} \subseteq [Procs -> BOOLEAN]
    BY <1>1, <2>5
  <2>7. {expired, spawnFailed, timedOut, waitFailed} \subseteq BOOLEAN
    BY <1>1
  <2>8. {slots, waiting, ioFailed} \subseteq SUBSET Procs /\ terminated \subseteq Procs
    BY <1>1
  <2>9. group \in 0 .. N /\ next \in 1 .. N + 1
    BY <1>1, <1>2
  <2> QED
    BY <1>1, <2>2, <2>3, <2>4, <2>6, <2>7, <2>8, <2>9 DEF TypeOK
<1>5. Tasks = {} /\ TaskInv
  <2>1. Tasks = {}
    BY <1>1 DEF Tasks, TasksOf
  <2> QED
    BY <1>1, <2>1 DEF TaskInv, Chain
<1>6. StartInv /\ WriteInv /\ ReadInv
  <2>1. \A q \in Procs : Fresh(q)
    BY <1>3 DEF Fresh
  <2>2. StartInv
    BY <1>3, <2>1 DEF StartInv, Terminal
  <2>3. \A name, q : ~Doing(name, q)
    BY <1>1 DEF Doing
  <2> QED
    BY <1>3, <2>2, <2>3 DEF WriteInv, ReadInv, NoWrite, NoRead, InFlight
<1>7. InputInv /\ OutputInv
  BY <1>2, <1>3 DEF InputInv, InputOf, OutputInv, OutputOf, Sent, NoWrite, NoRead, InFlight
<1>8. CallInv /\ WaitInv /\ DrainInv /\ DrainHarvested /\ RunInv
  BY <1>1, <1>3, <1>5 DEF CallInv, NoLocals, Doing, WaitInv, DrainInv, DrainHarvested, RunInv, InRun
<1>9. ResultInv
  BY <1>1 DEF ResultInv, OutputComplete, ReturnContract, NoCall
<1> QED
  BY <1>4, <1>5, <1>6, <1>7, <1>8, <1>9 DEF WindowsInv

(* Nothing happens.                                                         *)
LEMMA StutterKeeps ==
  ASSUME WindowsInv, UNCHANGED vars
  PROVE  WindowsInv'
<1>1. /\ PipesStand
      /\ UNCHANGED <<terminated, status, lastErrno, todo, pumped, timeout, expired, last>>
      /\ UNCHANGED <<slots, waiting, ioFailed, group, next, spawnFailed, timedOut, waitFailed>>
  BY DEF vars, PipesStand, childVars, pipeVars, handleVars, startVars, stdinVars, outputVars,
         callVars, waitVars, runVars
<1>2. /\ Tasks' = Tasks /\ (Runs' <=> Runs) /\ (InRun' <=> InRun)
      /\ Running' = Running /\ Spawned' = Spawned
  BY <1>1 DEF Tasks, TasksOf, Runs, InRun, Running, Spawned, PipesStand
<1>3. TypeOK'
  BY <1>1 DEF WindowsInv, TypeOK, PipesStand
<1>4. TaskInv'
  BY <1>1, <1>2 DEF WindowsInv, TaskInv, Chain, Allowed
<1>5. StartInv' /\ InputInv' /\ OutputInv' /\ ReadInv' /\ WriteInv'
  BY <1>1, <1>2 DEF WindowsInv, StartInv, Fresh, InputInv, InputOf, Sent, OutputInv, OutputOf,
                    ReadInv, WriteInv, Doing, PipesStand
<1>6. CallInv' /\ WaitInv'
  BY <1>1, <1>2 DEF WindowsInv, CallInv, NoLocals, Doing, WaitInv, PipesStand
<1>7. DrainInv' /\ DrainHarvested'
  BY <1>1, <1>2 DEF WindowsInv, DrainInv, DrainHarvested, Finalizing, PipesStand
<1>8. RunInv'
  <2>1. RunInv
    BY DEF WindowsInv
  <2> QED
    BY <1>1, <1>2, <2>1 DEF RunInv, PipesStand
<1>9. ResultInv'
  <2>1. ResultInv
    BY DEF WindowsInv
  <2> QED
    BY <1>1, <1>2, <2>1 DEF ResultInv, OutputComplete, ReturnContract, PipesStand
<1> QED
  BY <1>3, <1>4, <1>5, <1>6, <1>7, <1>8, <1>9 DEF WindowsInv

(* Every step of the specification keeps the invariant.                     *)
LEMMA StepKeeps ==
  ASSUME WindowsArguments, WindowsInv, [Next]_vars
  PROVE  WindowsInv'
<1>1. Handles \subseteq Procs
  <2>1. client.arrays \subseteq SUBSET Procs
    BY DEF WindowsInv, TypeOK, WindowsArguments
  <2> QED
    BY <2>1 DEF Handles
<1>2. CASE NewCall
  <2>1. CASE \E p \in Handles :
               \/ "run" \notin client.calls /\ (Start(p) \/ StartFails(p))
               \/ \E op \in DOMAIN Pumping : PumpBegins(op, p)
               \/ "kill" \in client.calls /\ Kill(p)
               \/ "poll" \in client.calls /\ PollTerminal(p)
               \/ "poll" \in client.calls /\ \E t \in client.timeouts : PollBegins(p, t)
               \/ "cleanup" \in client.calls /\ CleanupBegins(p)
    <3>1. PICK p \in Procs :
               \/ ~Runs /\ (Start(p) \/ StartFails(p))
               \/ \E op \in DOMAIN Pumping : PumpBegins(op, p)
               \/ Kill(p) \/ PollTerminal(p) \/ CleanupBegins(p)
               \/ \E t \in client.timeouts : PollBegins(p, t)
      BY <1>1, <2>1 DEF Runs
    <3> QED
      BY <3>1, StartCallKeeps, StartFailsKeeps, PumpBeginsKeeps, KillKeeps, PollTerminalKeeps,
         PollBeginsKeeps, CleanupBeginsKeeps
  <2>2. CASE \E a \in client.arrays :
               WaitNothing(a) \/ \E t \in client.timeouts : WaitBegins(a, t)
    BY <2>2, WaitNothingKeeps, WaitBeginsKeeps
  <2>3. CASE "run" \in client.calls /\ \E t \in client.timeouts : RunBegins(t)
    BY <2>3, RunBeginsKeeps DEF Runs
  <2> QED
    BY <1>2, <2>1, <2>2, <2>3 DEF NewCall
<1>3. CASE CallStep
  <2>1. ASSUME NEW p \in Procs, PumpStep(p)
        PROVE  WindowsInv'
    BY <2>1, PumpStdinKeeps, WriteKeeps, PumpOutputKeeps, ReadKeeps, FinalizeKeeps, SettleKeeps
       DEF PumpStep
  <2>2. ASSUME NEW p \in Procs,
               PollEnds(p) \/ Release(p) \/ \E op \in DOMAIN Pumping : PumpReturns(op, p)
        PROVE  WindowsInv'
    BY <2>2, PollEndsKeeps, ReleaseKeeps, PumpReturnsKeeps
  <2>3. CASE WaitStep
    BY <2>3, PrimeKeeps, PrimedKeeps, DrainedKeeps, WakesKeeps, LoopEndsKeeps, SliceEndsKeeps
       DEF WaitStep
  <2>4. CASE RunStep
    <3>1. CASE Spawn \/ Filled \/ RunWakes \/ Passed
      BY <3>1, SpawnKeeps, FilledKeeps, RunWakesKeeps, PassedKeeps
    <3>2. CASE Again \/ EndOfLoop \/ TerminateAll \/ Teardown
      BY <3>2, AgainKeeps, EndOfLoopKeeps, TerminateAllKeeps, TeardownKeeps
    <3>3. CASE \E p \in 1 .. N + 1 : Scan(p) \/ HarvestNext(p)
      BY <3>3, ScanKeeps, HarvestNextKeeps
    <3>4. CASE \E p \in Procs : ScanPipes(p) \/ Noted(p) \/ Harvest(p)
      BY <3>4, ScanPipesKeeps, NotedKeeps, HarvestKeeps
    <3> QED
      BY <2>4, <3>1, <3>2, <3>3, <3>4 DEF RunStep
  <2> QED
    BY <1>3, <2>1, <2>2, <2>3, <2>4 DEF CallStep
<1>4. CASE Refused
  BY <1>4, WaitFailsKeeps, RunWaitFailsKeeps, SpawnFailsKeeps, HarvestGivesUpKeeps DEF Refused
<1>5. CASE TimePasses
  BY <1>5, TimePassesKeeps
<1>6. ASSUME NEW p \in Procs, ChildStep(p) \/ WriteEnds(p, "failed") \/ ReadEnds(p, "failed")
      PROVE  WindowsInv'
  BY <1>6, ChildReadsKeeps, ChildSeesEofKeeps, ChildWritesKeeps, DiesKeeps, WriteMovesKeeps,
     ReadTakesKeeps, WriteEndsKeeps, ReadEndsKeeps DEF ChildStep, Completes
<1>7. CASE UNCHANGED vars
  BY <1>7, StutterKeeps
<1> QED
  BY <1>2, <1>3, <1>4, <1>5, <1>6, <1>7 DEF Next

-----------------------------------------------------------------------------
(* In every state the pipes, the operations of the kernel, the tasks of the *)
(* call and what the call has recorded agree.                               *)
THEOREM WindowsInvariant == ASSUME WindowsArguments PROVE Spec => []WindowsInv
<1>1. Init => WindowsInv
  BY InitSound
<1>2. WindowsInv /\ [Next]_vars => WindowsInv'
  BY StepKeeps
<1> QED
  BY <1>1, <1>2, PTL DEF Spec

(* Every variable keeps its type: no stream grows past what was given or    *)
(* written, no buffer past its maximum.                                     *)
THEOREM WindowsTypeCorrect == ASSUME WindowsArguments PROVE Spec => []TypeOK
<1>1. WindowsInv => TypeOK
  BY DEF WindowsInv
<1> QED
  BY <1>1, WindowsInvariant, PTL

(* Whatever the order in which the end of a process and the completion of   *)
(* its last read reach the library, a wait and a run leave every chunk of a *)
(* child reported terminal in its sink.                                     *)
THEOREM WindowsOutputSafe == ASSUME WindowsArguments PROVE Spec => []OutputComplete
<1>1. WindowsInv => OutputComplete
  BY DEF WindowsInv, ResultInv
<1> QED
  BY <1>1, WindowsInvariant, PTL

(* A child that has seen the end of its input had all of the memory.        *)
LEMMA InputFollows == ASSUME WindowsArguments, WindowsInv PROVE EofAfterWholeInput
<1> SUFFICES ASSUME NEW p \in Procs, sawEof[p], processOpen[p], ~lastErrno[p]
             PROVE  received[p] = InputLen
  BY DEF EofAfterWholeInput
<1>1. InputOf(p)
  BY DEF WindowsInv, InputInv
<1>2. /\ os[p] = "running" /\ p \in client.feeds /\ ~stdinOpen[p] /\ inPipe[p] = 0
      /\ writeOp[p].st \notin InFlight
  BY <1>1 DEF InputOf
<1>3. Sent(p) = offset[p] + writeOp[p].len /\ offset[p] = InputLen
  BY <1>1, <1>2 DEF InputOf
<1>4. /\ received[p] \in Nat /\ InputLen \in Nat
      /\ writeOp[p].len \in Nat /\ writeOp[p].left \in Nat
  BY DEF WindowsInv, TypeOK, WindowsArguments
<1>5. writeOp[p].left <= writeOp[p].len /\ offset[p] + writeOp[p].len <= InputLen
  BY <1>1 DEF InputOf
<1>6. received[p] + 0 + writeOp[p].left = InputLen + writeOp[p].len
  BY <1>2, <1>3 DEF Sent
<1>7. writeOp[p].len = 0 /\ writeOp[p].left = 0
  BY <1>3, <1>4, <1>5
<1> QED
  BY <1>4, <1>6, <1>7

(* A child reads end-of-file only after all of the memory, though a piece   *)
(* may have been with the kernel when the next was due.                     *)
THEOREM WindowsInputSafe == ASSUME WindowsArguments PROVE Spec => []EofAfterWholeInput
<1>1. WindowsInv => EofAfterWholeInput
  BY InputFollows
<1> QED
  BY <1>1, WindowsInvariant, PTL

(* After cleanup, whatever was pending, nothing of the handle is open and   *)
(* the buffers are free.                                                    *)
THEOREM WindowsCleanupSafe == ASSUME WindowsArguments PROVE Spec => []CleanupLeavesNothing
<1>1. WindowsInv => CleanupLeavesNothing
  BY DEF WindowsInv, StartInv, CleanupLeavesNothing
<1> QED
  BY <1>1, WindowsInvariant, PTL

(* What the results of the wait and of the run say of the handles.          *)
THEOREM WindowsReturnSafe == ASSUME WindowsArguments PROVE Spec => []ReturnContract
<1>1. WindowsInv => ReturnContract
  BY DEF WindowsInv, ResultInv
<1> QED
  BY <1>1, WindowsInvariant, PTL

-----------------------------------------------------------------------------
(* Who touches a scratch buffer.                                            *)
CapsStand == inCap' = inCap /\ outCap' = outCap

(* Only the two pumps and the release of a handle change a capacity.        *)
LEMMA OnlyTheseTouchBuffers ==
  ASSUME Next
  PROVE  CapsStand \/ \E p \in Procs : Write(p) \/ Read(p) \/ Release(p)
<1> USE DEF CapsStand, handleVars, stdinVars, outputVars
<1>1. CASE NewCall
  BY <1>1 DEF NewCall, Start, StartFails, LaunchStands, PumpBegins, Kill, PollTerminal, PollBegins,
              CleanupBegins, WaitNothing, WaitBegins, RunBegins
<1>2. CASE CallStep
  <2>1. ASSUME NEW p \in Procs, PumpStep(p)
        PROVE  CapsStand \/ Write(p) \/ Read(p)
    BY <2>1 DEF PumpStep, PumpStdin, PumpStdinStands, PumpOutput, PumpOutputStands, Finalize,
                Settle, TaskOnly
  <2>2. ASSUME NEW p \in Procs, PollEnds(p) \/ \E op \in DOMAIN Pumping : PumpReturns(op, p)
        PROVE  CapsStand
    BY <2>2 DEF PollEnds, PumpReturns
  <2>3. CASE WaitStep
    BY <2>3 DEF WaitStep, Prime, TaskOnly, Primed, Drained, Served, Wakes, LoopEnds, SliceEnds
  <2>4. CASE RunStep
    <3>1. CASE Spawn \/ Filled \/ RunWakes \/ Passed
      BY <3>1 DEF Spawn, LaunchStands, Filled, RunWakes, Passed, TaskOnly
    <3>2. CASE Again \/ EndOfLoop \/ TerminateAll \/ Teardown
      BY <3>2 DEF Again, EndOfLoop, TerminateAll, Teardown, TaskOnly
    <3>3. CASE \E p \in 1 .. N + 1 : Scan(p) \/ HarvestNext(p)
      BY <3>3 DEF Scan, HarvestNext, TaskOnly
    <3>4. CASE \E p \in Procs : ScanPipes(p) \/ Noted(p) \/ Harvest(p)
      BY <3>4 DEF ScanPipes, Noted, Harvest, TaskOnly
    <3> QED
      BY <2>4, <3>1, <3>2, <3>3, <3>4 DEF RunStep
  <2> QED
    BY <1>2, <2>1, <2>2, <2>3, <2>4 DEF CallStep
<1>3. CASE Refused
  BY <1>3 DEF Refused, WaitFails, RunWaitFails, SpawnFails, HarvestGivesUp
<1>4. CASE TimePasses
  BY <1>4 DEF TimePasses
<1>5. ASSUME NEW p \in Procs, ChildStep(p) \/ WriteEnds(p, "failed") \/ ReadEnds(p, "failed")
      PROVE  CapsStand
  BY <1>5 DEF ChildStep, ChildReads, ChildSeesEof, ChildWrites, Dies, Completes, WriteMoves,
              ReadTakes, WriteEnds, ReadEnds, LibraryStands
<1> QED
  BY <1>1, <1>2, <1>3, <1>4, <1>5 DEF Next

(* Where a capacity changes, no operation of the kernel needs the buffer.   *)
LEMMA BuffersHeld ==
  ASSUME WindowsInv, Next, NEW p \in Procs
  PROVE  /\ \/ inCap'[p] = inCap[p] \/ writeOp[p].st \notin InFlight
            \/ ~background[p] /\ ~valid'[p] /\ writeOp[p].st = "cancelled"
         /\ \/ outCap'[p] = outCap[p] \/ readOp[p].st \notin InFlight
            \/ ~background[p] /\ ~valid'[p] /\ readOp[p].st = "cancelled"
<1>1. /\ inCap \in [Procs -> 0 .. BufferMax] /\ outCap \in [Procs -> 0 .. BufferMax]
      /\ valid \in [Procs -> BOOLEAN]
      /\ "none" \notin InFlight
  BY DEF WindowsInv, TypeOK, InFlight
<1>2. WriteInv /\ ReadInv
  BY DEF WindowsInv
<1>3. CASE CapsStand
  BY <1>3 DEF CapsStand
<1>4. ASSUME NEW q \in Procs, Write(q)
      PROVE  outCap' = outCap /\ (inCap'[p] = inCap[p] \/ writeOp[p].st \notin InFlight)
  <2>1. outCap' = outCap
    BY <1>4 DEF Write, PumpStdinStands, outputVars
  <2>2. CASE q = p
    <3>1. stdinOpen[p] /\ ~writePending[p]
      BY <1>2, <1>4, <2>2 DEF Write, At, WriteInv, Doing
    <3>2. writeOp[p] = NoWrite
      BY <1>2, <3>1 DEF WriteInv
    <3> QED
      BY <1>1, <2>1, <3>2 DEF NoWrite
  <2>3. CASE q # p
    <3>1. inCap' = inCap \/ \E room : inCap' = [inCap EXCEPT ![q] = room]
      BY <1>4 DEF Write
    <3>2. inCap'[p] = inCap[p]
      BY <1>1, <2>3, <3>1
    <3> QED
      BY <2>1, <3>2
  <2> QED
    BY <2>2, <2>3
<1>5. ASSUME NEW q \in Procs, Read(q)
      PROVE  inCap' = inCap /\ (outCap'[p] = outCap[p] \/ readOp[p].st \notin InFlight)
  <2>1. inCap' = inCap
    BY <1>5 DEF Read, PumpOutputStands, stdinVars
  <2>2. CASE q = p
    <3>1. readOpen[p] /\ ~readPending[p]
      BY <1>2, <1>5, <2>2 DEF Read, At, ReadInv, Doing
    <3>2. readOp[p] = NoRead
      BY <1>2, <3>1 DEF ReadInv
    <3> QED
      BY <1>1, <2>1, <3>2 DEF NoRead
  <2>3. CASE q # p
    <3>1. outCap' = outCap \/ \E room : outCap' = [outCap EXCEPT ![q] = room]
      BY <1>5 DEF Read
    <3>2. outCap'[p] = outCap[p]
      BY <1>1, <2>3, <3>1
    <3> QED
      BY <2>1, <3>2
  <2> QED
    BY <2>2, <2>3
<1>6. ASSUME NEW q \in Procs, Release(q)
      PROVE  /\ \/ inCap'[p] = inCap[p] \/ writeOp[p].st \notin InFlight
                \/ ~background[p] /\ ~valid'[p] /\ writeOp[p].st = "cancelled"
             /\ \/ outCap'[p] = outCap[p] \/ readOp[p].st \notin InFlight
                \/ ~background[p] /\ ~valid'[p] /\ readOp[p].st = "cancelled"
  <2>1. /\ inCap' = [inCap EXCEPT ![q] = 0] /\ outCap' = [outCap EXCEPT ![q] = 0]
        /\ valid' = [valid EXCEPT ![q] = FALSE]
        /\ writePending[q] => writeOp[q].st \notin InFlight
        /\ readPending[q] => readOp[q].st \notin InFlight
    BY <1>6 DEF Release, Freed
  <2>2. CASE q = p
    <3>1. ~valid'[p]
      BY <1>1, <2>1, <2>2
    <3> QED
      BY <1>2, <2>1, <2>2, <3>1 DEF WriteInv, ReadInv
  <2>3. CASE q # p
    BY <1>1, <2>1, <2>3
  <2> QED
    BY <2>2, <2>3
<1> QED
  BY <1>3, <1>4, <1>5, <1>6, OnlyTheseTouchBuffers

(* A scratch buffer is never replaced or freed under an operation of the    *)
(* kernel but by the cleanup after a run, which had cancelled it.           *)
THEOREM WindowsBuffersSafe == ASSUME WindowsArguments PROVE Spec => BuffersHeldForKernel
<1>1. WindowsInv /\ [Next]_vars
      => [\A p \in Procs :
            \/ inCap'[p] = inCap[p] \/ writeOp[p].st \notin InFlight
            \/ ~background[p] /\ ~valid'[p] /\ writeOp[p].st = "cancelled"]_vars
  BY BuffersHeld
<1>2. WindowsInv /\ [Next]_vars
      => [\A p \in Procs :
            \/ outCap'[p] = outCap[p] \/ readOp[p].st \notin InFlight
            \/ ~background[p] /\ ~valid'[p] /\ readOp[p].st = "cancelled"]_vars
  BY BuffersHeld
<1> QED
  BY <1>1, <1>2, WindowsInvariant, PTL DEF Spec, BuffersHeldForKernel
=============================================================================
