--------------------------- MODULE AbstractFixedMap ----------------------------
(***************************************************************************)
(* What the header of a generated map of a fixed size promises: a partial  *)
(* function of at most max_item_count keys.  The code is weaker in two     *)
(* ways, each an action of its own: an insertion whose copies the          *)
(* allocator refused, lost, returns true without its key or with a NULL    *)
(* value; and while the map is full a key it has gets no new value.        *)
(***************************************************************************)
EXTENDS Naturals, FiniteSets

CONSTANTS Keys, Values, max_item_count, Lifetimes, Absent, NoKey, NoValue

VARIABLES
  contents,      \* of a key: its value, NoValue (NULL) or Absent
  unreachable,   \* entries without their key, which nothing deletes
  last           \* the last call, its arguments, its result and what it lost

state == <<contents, unreachable>>
vars == <<state, last>>

Full == Cardinality({k \in Keys : contents[k] # Absent}) + unreachable >= max_item_count
Call(op, k, v, answer) == [op |-> op, key |-> k, value |-> v, answer |-> answer, lost |-> {}]

Init ==
  /\ contents = [k \in Keys |-> Absent] /\ unreachable = 0
  /\ last = Call("init", NoKey, NoValue, TRUE)

(* The cheap half comes first: contents is a state function of the map.     *)
Returns(op, k, v, answer) == last'.op = op /\ last'.key = k /\ last' = Call(op, k, v, answer)

(* A new key, or a new value of a key: "If the key already exists in the    *)
(* map the value will be overwritten."                                      *)
Insert(k, v) ==
  /\ Returns("insert", k, v, TRUE)
  /\ contents[k] = Absent => ~Full
  /\ contents' = [contents EXCEPT ![k] = v]
  /\ UNCHANGED unreachable

InsertRefused(k, v) ==
  /\ Returns("insert", k, v, FALSE)
  /\ contents[k] = Absent /\ Full
  /\ UNCHANGED state

(* Not what the header says.                                                *)
UpdateRefused(k, v) ==
  /\ Returns("insert", k, v, FALSE)
  /\ contents[k] # Absent /\ Full
  /\ UNCHANGED state

InsertWithLoss(k, v) ==
  \E lost \in {{"key"}, {"value"}, {"key", "value"}} :
    /\ last'.op = "insert" /\ last'.key = k
    /\ last' = [op |-> "insert", key |-> k, value |-> v, answer |-> TRUE, lost |-> lost]
    /\ ~Full
    /\ "key" \in lost => contents[k] = Absent /\ "SHORTER" \in Lifetimes[k]
    /\ "value" \in lost => "SHORTER" \in Lifetimes[v]
    /\ IF "key" \in lost THEN unreachable' = unreachable + 1 /\ UNCHANGED contents
                          ELSE contents' = [contents EXCEPT ![k] = NoValue] /\ UNCHANGED unreachable

Get(k) ==
  /\ Returns("get", k, IF contents[k] = Absent THEN NoValue ELSE contents[k], TRUE)
  /\ UNCHANGED state

Delete(k) ==
  /\ Returns("delete", k, NoValue, contents[k] # Absent)
  /\ contents' = [contents EXCEPT ![k] = Absent]
  /\ UNCHANGED unreachable

(* A step of the iterator, whose answer is its own affair, or free.         *)
Iterate == Returns("iterate", NoKey, NoValue, TRUE) /\ UNCHANGED state

Free == Returns("free", NoKey, NoValue, TRUE) /\ UNCHANGED state

Next ==
  \/ \E k \in Keys :
       \/ \E v \in Values :
            Insert(k, v) \/ InsertRefused(k, v) \/ UpdateRefused(k, v) \/ InsertWithLoss(k, v)
       \/ Get(k) \/ Delete(k)
  \/ Iterate \/ Free

Spec == Init /\ [][Next]_vars
=============================================================================
