----------------------------- MODULE SetOperations -----------------------------
(***************************************************************************)
(* jsl_str_set_intersection, _union and _difference of str_set.c: loops    *)
(* over one or two iterators that insert into a third set.  The three sets *)
(* may be one and the same; an insertion ends every iteration of the set   *)
(* it goes to.  StrSet models the calls made here, so that a set is its    *)
(* values, and the entries whose copy found no memory: insert reports them *)
(* as inserted and counts them.                                            *)
(***************************************************************************)
EXTENDS Naturals, FiniteSets

CONSTANTS
  Sets,      \* the sets of the caller
  Values,
  Long       \* values whose insertion copies

VARIABLES
  contents, lost,           \* of a set: its values, the number of lost entries
  op, a, b, out,            \* the call
  pc,                       \* the loop it is in
  smaller, larger,
  left,                     \* of each loop: the values its iterator has still to return
  fresh,                    \* of each loop: its iterator is still valid
  success,
  before                    \* history: the contents at the call

call == <<op, a, b, out>>
loops == <<smaller, larger, left, fresh>>
vars == <<contents, lost, call, pc, loops, success, before>>

Operations == {"intersection", "union", "difference"}
Loops == {"first", "second"}

TypeOK ==
  /\ contents \in [Sets -> SUBSET Values] /\ lost \in [Sets -> 0 .. 2 * Cardinality(Values)]
  /\ op \in Operations /\ {a, b, out, smaller, larger} \subseteq Sets
  /\ pc \in Loops \cup {"ready", "done"}
  /\ left \in [Loops -> SUBSET Values] /\ fresh \in [Loops -> BOOLEAN]
  /\ success \in BOOLEAN /\ before \in [Sets -> SUBSET Values]

item_count(s) == Cardinality(contents[s]) + lost[s]

Init ==
  /\ contents \in [Sets -> SUBSET Values] /\ lost = [s \in Sets |-> 0] /\ before = contents
  /\ op \in Operations /\ a \in Sets /\ b \in Sets /\ out \in Sets
  /\ pc = "ready" /\ success = TRUE
  /\ smaller = a /\ larger = b
  /\ left = [l \in Loops |-> {}] /\ fresh = [l \in Loops |-> FALSE]

IteratorsOf(first, second) ==
  /\ left' = [l \in Loops |-> contents[IF l = "first" THEN first ELSE second]]
  /\ fresh' = [l \in Loops |-> TRUE]

Begin ==
  /\ pc = "ready" /\ pc' = "first"
  /\ IF op = "intersection" /\ item_count(a) > item_count(b)
     THEN smaller' = b /\ larger' = a
     ELSE smaller' = a /\ larger' = b
  /\ IteratorsOf(smaller', b)
  /\ UNCHANGED <<contents, lost, call, success, before>>

(* Which set a loop iterates over, and whether it takes a value.            *)
Source(l) == IF l = "second" THEN b ELSE IF op = "intersection" THEN smaller ELSE a

Takes(v) ==
  CASE op = "intersection" -> v \in contents[larger]
    [] op = "union"        -> TRUE
    [] op = "difference"   -> v \notin contents[b]

More(l) == pc = l /\ success /\ fresh[l] /\ left[l] # {}
Yielded(l, v) == left' = [left EXCEPT ![l] = @ \ {v}]

Stale == fresh' = [l \in Loops |-> fresh[l] /\ Source(l) # out]

Skip(l, v) ==
  /\ More(l) /\ v \in left[l] /\ ~Takes(v)
  /\ Yielded(l, v)
  /\ UNCHANGED <<contents, lost, call, pc, smaller, larger, fresh, success, before>>

InsertValue(l, v) ==
  /\ More(l) /\ v \in left[l] /\ Takes(v)
  /\ contents' = [contents EXCEPT ![out] = @ \cup {v}]
  /\ Yielded(l, v) /\ Stale
  /\ UNCHANGED <<lost, call, pc, smaller, larger, success, before>>

InsertLosesValue(l, v) ==
  /\ More(l) /\ v \in left[l] \cap Long /\ Takes(v) /\ v \notin contents[out]
  /\ lost' = [lost EXCEPT ![out] = @ + 1]
  /\ Yielded(l, v) /\ Stale
  /\ UNCHANGED <<contents, call, pc, smaller, larger, success, before>>

InsertFails(l, v) ==
  /\ More(l) /\ v \in left[l] /\ Takes(v)
  /\ success' = FALSE
  /\ Yielded(l, v)
  /\ UNCHANGED <<contents, lost, call, pc, smaller, larger, fresh, before>>

LoopEnds(l) ==
  /\ pc = l /\ ~More(l)
  /\ pc' = IF l = "first" /\ op = "union" THEN "second" ELSE "done"
  /\ UNCHANGED <<contents, lost, call, loops, success, before>>

Next ==
  \/ Begin
  \/ \E l \in Loops : \/ \E v \in Values : \/ Skip(l, v) \/ InsertValue(l, v)
                                           \/ InsertLosesValue(l, v) \/ InsertFails(l, v)
                      \/ LoopEnds(l)

Spec == Init /\ [][Next]_vars

-----------------------------------------------------------------------------
Result ==
  CASE op = "intersection" -> before[a] \cap before[b]
    [] op = "union"        -> before[a] \cup before[b]
    [] op = "difference"   -> before[a] \ before[b]

(* A call that returns true has added exactly its result to what out held,  *)
(* an out that is also an input included: the union then stops an iteration *)
(* early, but only of values that are there already.  No copy was lost.     *)
ResultExact ==
  pc = "done" /\ success /\ lost[out] = 0 => contents[out] = before[out] \cup Result

(* At every moment, failures included, out holds nothing but what it held   *)
(* and values of the result, and no other set is touched.                   *)
NothingElse ==
  /\ contents[out] \subseteq before[out] \cup Result
  /\ \A s \in Sets \ {out} : contents[s] = before[s] /\ lost[s] = 0

=============================================================================
