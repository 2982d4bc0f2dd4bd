---------------------------- MODULE AbstractStrSet ----------------------------
(***************************************************************************)
(* What str_set.h promises: a set of values.  An insertion may fail for    *)
(* want of memory and then changes nothing; every other answer is exact.   *)
(* The code is weaker in one way, which the last call names: when the      *)
(* allocator refuses the copy of a long value, lost, the insertion returns *)
(* true without it.                                                        *)
(***************************************************************************)
CONSTANTS Values, Long, NoValue

VARIABLES
  contents,
  last       \* the last call: its name, its argument, its result, and the loss

vars == <<contents, last>>

Call(op, v, answer) == [op |-> op, value |-> v, answer |-> answer, lost |-> FALSE]

Init == contents = {} /\ last = Call("init", NoValue, TRUE)

(* The cheap half comes first: contents is a state function of the set.     *)
Returns(op, v, answer) == last'.op = op /\ last'.value = v /\ last' = Call(op, v, answer)

Has(v) == Returns("has", v, v \in contents) /\ UNCHANGED contents

Insert(v) == Returns("insert", v, TRUE) /\ contents' = contents \cup {v}

InsertWithLoss(v) ==
  /\ last'.op = "insert" /\ last'.value = v
  /\ last' = [op |-> "insert", value |-> v, answer |-> TRUE, lost |-> TRUE]
  /\ v \in Long /\ v \notin contents
  /\ UNCHANGED contents

InsertOutOfMemory(v) == Returns("insert", v, FALSE) /\ UNCHANGED contents

Delete(v) == Returns("delete", v, v \in contents) /\ contents' = contents \ {v}

Empty(op) == Returns(op, NoValue, TRUE) /\ contents' = {}

Next ==
  \/ \E v \in Values :
       Has(v) \/ Insert(v) \/ InsertWithLoss(v) \/ InsertOutOfMemory(v) \/ Delete(v)
  \/ \E op \in {"clear", "free", "init"} : Empty(op)

Spec == Init /\ [][Next]_vars
=============================================================================
