---------------------------- MODULE AbstractStrMap ----------------------------
(***************************************************************************)
(* What str_to_str_map.h promises: a function from keys to values.  Only   *)
(* an insertion may fail, and then it changes nothing.  The code is weaker *)
(* in one way, which the last call names: when the allocator refuses the   *)
(* copy of a long string, lost, the insertion succeeds all the same,       *)
(* without its key or with a NULL value.                                   *)
(***************************************************************************)
CONSTANTS Keys, Vals, LongKeys, LongVals, Absent, NoKey, NoValue, CopyMayFail

VARIABLES
  contents,   \* of a key: its value, NoValue (NULL) or Absent
  last        \* the last call, its arguments, what it returned and what it lost

vars == <<contents, last>>

Call(op, k, v, answer) == [op |-> op, key |-> k, value |-> v, answer |-> answer, lost |-> {}]

Init ==
  /\ contents = [k \in Keys |-> Absent]
  /\ last = Call("init", NoKey, NoValue, TRUE)

(* The cheap half comes first: contents is a state function of the map.     *)
Returns(op, k, v, answer) == last'.op = op /\ last'.key = k /\ last' = Call(op, k, v, answer)

Has(k) ==
  /\ Returns("has", k, NoValue, contents[k] # Absent)
  /\ UNCHANGED contents

Get(k) ==
  /\ Returns("get", k, IF contents[k] = Absent THEN NoValue ELSE contents[k],
             contents[k] # Absent)
  /\ UNCHANGED contents

Inserted(k, v) ==
  /\ Returns("insert", k, v, TRUE)
  /\ contents' = [contents EXCEPT ![k] = v]

(* A lost key belongs to no entry that was there: contents[k] is Absent.    *)
InsertedWithLoss(k, v) ==
  \E lost \in {{"key"}, {"value"}, {"key", "value"}} :
    /\ last'.op = "insert" /\ last'.key = k
    /\ last' = [Call("insert", k, v, TRUE) EXCEPT !.lost = lost]
    /\ CopyMayFail
    /\ "key" \in lost => k \in LongKeys /\ contents[k] = Absent
    /\ "value" \in lost => v \in LongVals
    /\ contents' = IF "key" \in lost THEN contents ELSE [contents EXCEPT ![k] = NoValue]

InsertOutOfMemory(k, v) ==
  /\ Returns("insert", k, v, FALSE)
  /\ UNCHANGED contents

Delete(k) ==
  /\ Returns("delete", k, NoValue, contents[k] # Absent)
  /\ contents' = [contents EXCEPT ![k] = Absent]

Empty(op) ==
  /\ Returns(op, NoKey, NoValue, TRUE)
  /\ contents' = [k \in Keys |-> Absent]

(* A step of the iterator; what it returns is the iterator's affair.        *)
Iterate ==
  /\ Returns("iterate", NoKey, NoValue, TRUE)
  /\ UNCHANGED contents

Next ==
  \/ Iterate
  \/ \E k \in Keys : Has(k) \/ Get(k) \/ Delete(k)
  \/ \E k \in Keys, v \in Vals : Inserted(k, v) \/ InsertedWithLoss(k, v) \/ InsertOutOfMemory(k, v)
  \/ \E op \in {"clear", "free", "init"} : Empty(op)

Spec == Init /\ [][Next]_vars
=============================================================================
