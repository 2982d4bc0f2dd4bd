----------------------------- MODULE FixedHashMap ------------------------------
(***************************************************************************)
(* The hash map of a fixed size that generate_hash_map.h writes (its       *)
(* fixed_source_template), with strings for keys and values: arrays with   *)
(* open addressing and linear probing, that never grow, and a deletion     *)
(* that shifts the entries behind it back instead of leaving a tombstone.  *)
(***************************************************************************)
EXTENDS Integers, FiniteSets, FiniteSetsExt

CONSTANTS
  Keys, Values,
  Hash,            \* of a key, with the seed of the map
  arrays_length,   \* a power of two
  max_item_count,
  Lifetimes,       \* of a string, those it is given to insert with:
                   \* "SHORTER" is copied, "LONGER" is not
  Absent, NoKey, NoValue

EMPTY == 0
VALUE_OK == 2

(* init makes the arrays long enough for a load of at most three quarters.  *)
Sizes ==
  /\ arrays_length \in Nat \ {0} /\ max_item_count \in Nat
  /\ 4 * max_item_count <= 3 * arrays_length
  /\ Hash \in [Keys -> Nat] /\ NoKey \notin Keys
  /\ {Absent, NoValue} \cap Values = {} /\ Absent # NoValue
  /\ Lifetimes \in [Keys \cup Values -> SUBSET {"SHORTER", "LONGER"}]

VARIABLES
  valid,                    \* the sentinel is in place
  hashes_array, keys_array, values_array,
  key_lifetime_array, value_lifetime_array,
  item_count,
  current_slot, fresh,      \* of the iterator; its generational_id is the map's
  yielded,                  \* history: what it has returned
  shifted,                  \* history: a deletion has moved an entry
  last                      \* history: the last call, see AbstractFixedMap

arrays == <<hashes_array, keys_array, values_array, key_lifetime_array, value_lifetime_array>>
iterator == <<current_slot, fresh, yielded>>
vars == <<valid, arrays, item_count, iterator, shifted, last>>

Slots == 0 .. arrays_length - 1
Stored(data) == [data : data, memory : {"copy", "caller", "null"}]
Nothing(data) == [data |-> data, memory |-> "null"]

TypeOK ==
  /\ valid \in BOOLEAN
  /\ hashes_array \in [Slots -> Nat \ {1}]
  /\ keys_array \in [Slots -> Stored(Keys \cup {NoKey})]
  /\ values_array \in [Slots -> Stored(Values \cup {NoValue})]
  /\ key_lifetime_array \in [Slots -> {"SHORTER", "LONGER"}]
  /\ value_lifetime_array \in [Slots -> {"SHORTER", "LONGER"}]
  /\ item_count \in 0 .. max_item_count
  /\ current_slot \in 0 .. arrays_length /\ fresh \in BOOLEAN
  /\ yielded \in SUBSET ((Keys \cup {NoKey}) \X (Values \cup {NoValue}))
  /\ shifted \in BOOLEAN

Call(op, k, v, answer) ==
  last' = [op |-> op, key |-> k, value |-> v, answer |-> answer, lost |-> {}]

Zeroed ==
  /\ hashes_array = [i \in Slots |-> EMPTY]
  /\ keys_array = [i \in Slots |-> Nothing(NoKey)] /\ values_array = [i \in Slots |-> Nothing(NoValue)]
  /\ key_lifetime_array = [i \in Slots |-> "SHORTER"]
  /\ value_lifetime_array = [i \in Slots |-> "SHORTER"]

(* All arrays were allocated; otherwise init returns false.                 *)
Init ==
  /\ valid = TRUE /\ Zeroed /\ item_count = 0
  /\ current_slot = 0 /\ fresh = FALSE /\ yielded = {}
  /\ shifted = FALSE
  /\ last = [op |-> "init", key |-> NoKey, value |-> NoValue, answer |-> TRUE, lost |-> {}]

-----------------------------------------------------------------------------
HashOf(k) == IF Hash[k] <= 1 THEN VALUE_OK ELSE Hash[k]
At(k, n) == (HashOf(k) + n) % arrays_length
Matches(k, i) == hashes_array[i] = HashOf(k) /\ keys_array[i].data = k

(* {{ function_prefix }}_probe: the slot of the key, or the first free one. *)
Slot(k) == At(k, Min({n \in Slots : hashes_array[At(k, n)] = EMPTY \/ Matches(k, At(k, n))}))
Found(k) == Matches(k, Slot(k))

(* Mutant: the case of a hole before the end and an entry behind it.        *)
ShouldMoveAhead(ideal, hole, current) == ideal <= hole \/ ideal > current

ShouldMove(ideal, hole, current) ==
  IF current > hole THEN ideal <= hole \/ ideal > current
                    ELSE ideal <= hole /\ ideal > current

(* {{ function_prefix }}_backshift: the arrays after it, the two arrays of  *)
(* lifetimes not among them.  What the slot freed last still holds is never *)
(* looked at.                                                               *)
Backshifted(start) ==
  LET after[n \in 0 .. arrays_length] ==
        IF n = 0
        THEN [hole |-> start, done |-> FALSE,
              hashes |-> hashes_array, keys |-> keys_array, values |-> values_array]
        ELSE LET s == after[n - 1]
                 current == (start + n) % arrays_length
                 h == s.hashes[current]
             IN  IF s.done THEN s
                 ELSE IF h = EMPTY
                 THEN [s EXCEPT !.hashes[s.hole] = EMPTY, !.keys[s.hole] = Nothing(NoKey),
                                !.values[s.hole] = Nothing(NoValue), !.done = TRUE]
                 ELSE IF ShouldMove(h % arrays_length, s.hole, current)
                 THEN [s EXCEPT !.hashes[s.hole] = h, !.keys[s.hole] = s.keys[current],
                                !.values[s.hole] = s.values[current], !.hole = current]
                 ELSE s
  IN  after[arrays_length]

-----------------------------------------------------------------------------
Full == item_count >= max_item_count

(* ++generational_id: the iterator will not go on.                          *)
Mutated == fresh' = FALSE /\ current_slot' = 0 /\ yielded' = {}

(* jsl_duplicate may run out of memory: then the string is NULL, and the    *)
(* insertion goes on and returns true.                                      *)
Memories(lifetime) == IF lifetime = "LONGER" THEN {"caller"} ELSE {"copy", "null"}
Kept(data, none, memory) == [data |-> IF memory = "null" THEN none ELSE data, memory |-> memory]
Inserted(k, v, keyMemory, valueMemory) ==
  last' = [op |-> "insert", key |-> k, value |-> v, answer |-> TRUE,
           lost |-> {s \in {"key"} : keyMemory = "null"} \cup {s \in {"value"} : valueMemory = "null"}]

InsertFull(k, v) ==
  /\ valid /\ Full
  /\ Call("insert", k, v, FALSE)
  /\ UNCHANGED <<valid, arrays, item_count, iterator, shifted>>

InsertNew(k, kl, v, vl) ==
  /\ valid /\ ~Full /\ ~Found(k)
  /\ LET slot == Slot(k) IN
       /\ \E km \in Memories(kl), vm \in Memories(vl) :
            /\ keys_array' = [keys_array EXCEPT ![slot] = Kept(k, NoKey, km)]
            /\ values_array' = [values_array EXCEPT ![slot] = Kept(v, NoValue, vm)]
            /\ Inserted(k, v, km, vm)
       /\ key_lifetime_array' = [key_lifetime_array EXCEPT ![slot] = kl]
       /\ value_lifetime_array' = [value_lifetime_array EXCEPT ![slot] = vl]
       /\ hashes_array' = [hashes_array EXCEPT ![slot] = HashOf(k)]
  /\ item_count' = item_count + 1
  /\ Mutated
  /\ UNCHANGED <<valid, shifted>>

(* A value that the lifetime of its slot calls a copy is freed.             *)
InsertUpdate(k, v, vl) ==
  /\ valid /\ ~Full /\ Found(k)
  /\ LET slot == Slot(k) IN
       /\ \E vm \in Memories(vl) :
            /\ values_array' = [values_array EXCEPT ![slot] = Kept(v, NoValue, vm)]
            /\ Inserted(k, v, "kept", vm)
       /\ value_lifetime_array' = [value_lifetime_array EXCEPT ![slot] = vl]
  /\ Mutated
  /\ UNCHANGED <<valid, hashes_array, keys_array, key_lifetime_array, item_count, shifted>>

(* get of a string returns no more than the string, NULL for none.          *)
Get(k) ==
  /\ valid
  /\ Call("get", k, IF Found(k) THEN values_array[Slot(k)].data ELSE NoValue, TRUE)
  /\ UNCHANGED <<valid, arrays, item_count, iterator, shifted>>

(* The arrays without the entry of a slot, and no other entry moved.        *)
Cleared(slot) ==
  [hashes |-> [hashes_array EXCEPT ![slot] = EMPTY],
   keys |-> [keys_array EXCEPT ![slot] = Nothing(NoKey)],
   values |-> [values_array EXCEPT ![slot] = Nothing(NoValue)]]
LifetimesOf(lifetimes, hashes) ==
  [i \in Slots |-> IF hashes[i] = EMPTY THEN "SHORTER" ELSE lifetimes[i]]

DeletePresent(k) ==
  /\ valid /\ Found(k)
  /\ LET after == Backshifted(Slot(k)) IN
       /\ hashes_array' = after.hashes /\ keys_array' = after.keys /\ values_array' = after.values
       /\ key_lifetime_array' = LifetimesOf(key_lifetime_array, after.hashes)
       /\ value_lifetime_array' = LifetimesOf(value_lifetime_array, after.hashes)
       /\ shifted' =
            (shifted \/ Cleared(Slot(k)) # [hashes |-> after.hashes, keys |-> after.keys, values |-> after.values])
  /\ item_count' = item_count - 1
  /\ Mutated
  /\ Call("delete", k, NoValue, TRUE)
  /\ UNCHANGED valid

DeleteAbsent(k) ==
  /\ valid /\ ~Found(k)
  /\ Call("delete", k, NoValue, FALSE)
  /\ UNCHANGED <<valid, arrays, item_count, iterator, shifted>>

Occupied(from) == {i \in Slots : i >= from /\ hashes_array[i] # EMPTY}

(* Of a map with strings for keys, free gives back the keys only, those that *)
(* the lifetime of their slot calls copies; the sentinel stays, so that a   *)
(* map must not be used after its free.                                     *)
Free ==
  /\ valid /\ valid' = FALSE
  /\ Call("free", NoKey, NoValue, TRUE)
  /\ UNCHANGED <<arrays, item_count, iterator, shifted>>

IteratorStart ==
  /\ valid
  /\ current_slot' = 0 /\ fresh' = TRUE /\ yielded' = {}
  /\ Call("iterate", NoKey, NoValue, TRUE)
  /\ UNCHANGED <<valid, arrays, item_count, shifted>>

IteratorNext ==
  /\ valid /\ fresh /\ current_slot < arrays_length
  /\ IF Occupied(current_slot) = {}
     THEN current_slot' = arrays_length /\ UNCHANGED yielded
     ELSE LET i == Min(Occupied(current_slot)) IN
            /\ current_slot' = i + 1
            /\ yielded' = yielded \cup {<<keys_array[i].data, values_array[i].data>>}
  /\ Call("iterate", NoKey, NoValue, TRUE)
  /\ UNCHANGED <<valid, arrays, item_count, fresh, shifted>>

Next ==
  \/ \E k \in Keys :
       \/ \E v \in Values :
            \/ InsertFull(k, v)
            \/ \E l \in Lifetimes[v] : InsertUpdate(k, v, l) \/ \E kl \in Lifetimes[k] : InsertNew(k, kl, v, l)
       \/ Get(k) \/ DeletePresent(k) \/ DeleteAbsent(k)
  \/ Free \/ IteratorStart \/ IteratorNext

Spec == Init /\ [][Next]_vars

-----------------------------------------------------------------------------
Contents ==
  [k \in Keys |-> IF \E i \in Slots : Matches(k, i)
                  THEN values_array[CHOOSE i \in Slots : Matches(k, i)].data ELSE Absent]
Unreachable == item_count - Cardinality({k \in Keys : Contents[k] # Absent})

(* The map answers like a function of at most max_item_count keys, whatever *)
(* collided with, wrapped behind or was shifted over what: no deletion cuts *)
(* a key off from the slot its probe starts at, and what an insertion was   *)
(* given is there, but for a string whose copy the allocator refused.       *)
Promise == INSTANCE AbstractFixedMap WITH contents <- Contents, unreachable <- Unreachable
KeepsPromise == Promise!Spec

(* item_count is the number of slots in use, each key is in one of them.    *)
CountsSound ==
  /\ item_count = Cardinality(Occupied(0))
  /\ \A k \in Keys : Cardinality({i \in Slots : Matches(k, i)}) <= 1

(* As long as no deletion has moved an entry into a slot with the lifetimes *)
(* of another, the lifetimes tell which strings are copies, and only copies *)
(* are given to the allocator.                                              *)
LifetimesKept ==
  ~shifted =>
    /\ \A i \in Occupied(0) :
         /\ keys_array[i].memory = "caller" <=> key_lifetime_array[i] = "LONGER"
         /\ values_array[i].memory = "caller" <=> value_lifetime_array[i] = "LONGER"

(* An iterator that is still valid at its end has returned every pair.      *)
IterationComplete ==
  fresh /\ current_slot = arrays_length =>
    {p \in yielded : p[1] # NoKey} = {<<k, Contents[k]>> : k \in {j \in Keys : Contents[j] # Absent}}
=============================================================================
