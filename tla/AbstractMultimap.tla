--------------------------- MODULE AbstractMultimap ---------------------------
(***************************************************************************)
(* What str_to_str_multimap.h promises: for each key a bag of values.  A   *)
(* key is there when its bag is not empty.  Only an insertion may fail,    *)
(* and then it changes nothing.                                            *)
(***************************************************************************)
EXTENDS Naturals, FiniteSets

CONSTANTS Keys, Vals, NoKey, NoValue

VARIABLES
  bags,   \* of a key and a value: how often the value is there
  last    \* the last call, its arguments and what it returned, false as 0

vars == <<bags, last>>

Call(op, k, v, answer) == [op |-> op, key |-> k, value |-> v, answer |-> answer]
Size(k) == Cardinality(UNION {{v} \X (1 .. bags[k][v]) : v \in Vals})
NoBags == [k \in Keys |-> [v \in Vals |-> 0]]

Init == bags = NoBags /\ last = Call("init", NoKey, NoValue, 1)

(* The cheap half comes first: bags is a state function of the multimap.    *)
Returns(op, k, v, answer) == last'.op = op /\ last'.key = k /\ last' = Call(op, k, v, answer)

Has(k) ==
  /\ Returns("has", k, NoValue, IF Size(k) > 0 THEN 1 ELSE 0)
  /\ UNCHANGED bags

CountForKey(k) ==
  /\ Returns("count", k, NoValue, Size(k))
  /\ UNCHANGED bags

Insert(k, v) ==
  \/ /\ Returns("insert", k, v, 1)
     /\ bags' = [bags EXCEPT ![k][v] = @ + 1]
  \/ /\ Returns("insert", k, v, 0)
     /\ UNCHANGED bags

DeleteKey(k) ==
  /\ Returns("delete_key", k, NoValue, IF Size(k) > 0 THEN 1 ELSE 0)
  /\ bags' = [bags EXCEPT ![k] = NoBags[k]]

DeleteValue(k, v) ==
  /\ Returns("delete_value", k, v, IF bags[k][v] > 0 THEN 1 ELSE 0)
  /\ bags' = [bags EXCEPT ![k][v] = IF @ > 0 THEN @ - 1 ELSE 0]

Clear ==
  /\ Returns("clear", NoKey, NoValue, 1)
  /\ bags' = NoBags

(* A step of an iterator; what it returns is the iterator's affair.         *)
Iterate ==
  /\ Returns("iterate", NoKey, NoValue, 1)
  /\ UNCHANGED bags

Next ==
  \/ \E k \in Keys : Has(k) \/ CountForKey(k) \/ DeleteKey(k)
  \/ \E k \in Keys, v \in Vals : Insert(k, v) \/ DeleteValue(k, v)
  \/ Clear \/ Iterate

Spec == Init /\ [][Next]_vars
=============================================================================
