-------------------------------- MODULE StrSet --------------------------------
(***************************************************************************)
(* str_set.c: a hash set of strings with open addressing and linear        *)
(* probing.  The lookup table holds pointers to entries; a deleted slot is *)
(* a tombstone, and its entry goes to a free list.  An insertion rehashes  *)
(* into a table twice as long when the load or the tombstones are too many.*)
(*                                                                         *)
(* A string is a value with a hash.  Every allocation may fail.            *)
(***************************************************************************)
EXTENDS Integers, Sequences, FiniteSets, FiniteSetsExt, Functions

CONSTANTS
  Values,         \* the strings
  Hash,           \* rapidhash with the seed of the set
  Long,           \* values that insert must copy: SHORTER, over 16 bytes
  InitLength,     \* length of the table after init2, a power of two
  LoadFactor,     \* load_factor in percent
  MaxEntries,     \* bound: entries the allocator can supply
  MaxLength,      \* bound: longest table the allocator can supply
  MaxTombstones,  \* bound: tombstone_count is not pushed above it
  NoValue

EMPTY == 0
TOMBSTONE == 1
Entries == 2 .. MaxEntries + 1

SizesAssumption ==
  /\ InitLength \in Nat \ {0} /\ MaxLength \in Nat /\ MaxTombstones \in Nat
  /\ MaxEntries \in Nat
  /\ LoadFactor \in 1 .. 99
ValuesAssumption ==
  Hash \in [Values -> Nat] /\ Long \subseteq Values /\ NoValue \notin Values

VARIABLES
  valid,            \* the sentinel is in place
  table,            \* entry_lookup_table
  value, state,     \* of an entry; "lost" if its copy could not be made
  entry_free_list,
  item_count, tombstone_count,
  cursor,           \* current_lut_index of the one iterator
  fresh,            \* its generational_id is the set's
  yielded,          \* values it has returned
  last              \* the last call, see AbstractStrSet

entries == <<value, state, entry_free_list>>
iterator == <<cursor, fresh, yielded>>
vars == <<valid, table, entries, item_count, tombstone_count, iterator, last>>

Length == Cardinality(DOMAIN table)
Calls == [op : {"init", "has", "insert", "delete", "clear", "free"},
          value : Values \cup {NoValue}, answer : BOOLEAN, lost : BOOLEAN]

TypeOK ==
  /\ valid \in BOOLEAN
  /\ \E n \in {0} \cup InitLength .. MaxLength : table \in [0 .. n - 1 -> {EMPTY, TOMBSTONE} \cup Entries]
  /\ value \in [Entries -> Values \cup {NoValue}]
  /\ state \in [Entries -> {"unused", "set", "lost", "free"}]
  /\ entry_free_list \in Seq(Entries)
  /\ item_count \in 0 .. MaxEntries /\ tombstone_count \in Nat
  /\ cursor \in Nat /\ fresh \in BOOLEAN /\ yielded \subseteq Values
  /\ last \in Calls

Call(op, v, answer) == last' = [op |-> op, value |-> v, answer |-> answer, lost |-> FALSE]

EmptyTable(n) == [i \in 0 .. n - 1 |-> EMPTY]

(* The table of a set whose init2 could not allocate one, NULL: only an     *)
(* iterator can be made, every other call follows the pointer.              *)
NoTable == EmptyTable(0)
Usable == valid /\ table # NoTable

Init ==
  /\ valid = TRUE
  /\ table = EmptyTable(InitLength)
  /\ value = [e \in Entries |-> NoValue]
  /\ state = [e \in Entries |-> "unused"]
  /\ entry_free_list = <<>>
  /\ item_count = 0 /\ tombstone_count = 0
  /\ cursor = 0 /\ fresh = FALSE /\ yielded = {}
  /\ last = [op |-> "init", value |-> NoValue, answer |-> TRUE, lost |-> FALSE]

(* ++generational_id: the iterator will refuse to go on, so that where it   *)
(* stood is forgotten.                                                      *)
Mutated == fresh' = FALSE /\ cursor' = 0 /\ yielded' = {}

-----------------------------------------------------------------------------
(* jsl__str_set_probe: from the home slot to the value or an empty slot.    *)
(* The slot for an insertion is the first tombstone passed, if any; every   *)
(* tombstone passed is counted once more.                                   *)

At(t, v, k) == (Hash[v] + k) % Cardinality(DOMAIN t)
Matches(t, v, i) == t[i] \in Entries /\ state[t[i]] = "set" /\ value[t[i]] = v

Probe(t, v) ==
  LET stops == {k \in DOMAIN t : t[At(t, v, k)] = EMPTY \/ Matches(t, v, At(t, v, k))}
      stop == Min(stops \cup {Cardinality(DOMAIN t)})
      found == stop \in stops /\ Matches(t, v, At(t, v, stop))
      passed == {k \in 0 .. stop - 1 : t[At(t, v, k)] = TOMBSTONE}
      free == passed \cup (stops \cap {stop})
  IN  [found |-> found,
       index |-> IF found THEN At(t, v, stop)
                 ELSE IF free = {} THEN -1 ELSE At(t, v, Min(free)),
       passed |-> Cardinality(passed)]

(* jsl__str_set_rehash: the entries, in table order, into a table twice as  *)
(* long.                                                                    *)
Rehashed ==
  LET firstFree(t, v) == At(t, v, Min({k \in DOMAIN t : t[At(t, v, k)] = EMPTY}))
      migrated[n \in 0 .. Length] ==
        IF n = 0 THEN EmptyTable(2 * Length)
        ELSE LET t == migrated[n - 1]
                 e == table[n - 1]
             IN  IF e \in Entries THEN [t EXCEPT ![firstFree(t, value[e])] = e] ELSE t
  IN  migrated[Length]

NeedsRehash ==
  \/ (item_count + tombstone_count) * 100 >= LoadFactor * Length
  \/ tombstone_count > Length \div 4

-----------------------------------------------------------------------------
Has(v) ==
  LET p == Probe(table, v) IN
    /\ Usable
    /\ tombstone_count + p.passed <= MaxTombstones
    /\ tombstone_count' = tombstone_count + p.passed
    /\ Call("has", v, p.found)
    /\ UNCHANGED <<valid, table, entries, item_count, iterator>>

RehashFails(v) ==
  /\ Usable /\ NeedsRehash
  /\ Call("insert", v, FALSE)
  /\ UNCHANGED <<valid, table, entries, item_count, tombstone_count, iterator>>

(* jsl__str_set_add takes the first entry of the free list, or a new one.   *)
Unused == {e \in Entries : state[e] = "unused"}
Available == IF entry_free_list = <<>> THEN Unused ELSE {entry_free_list[1]}

(* What insert finds after its rehash, if it needs one.                     *)
TableForInsert == IF NeedsRehash THEN Rehashed ELSE table
TombstonesForInsert == IF NeedsRehash THEN 0 ELSE tombstone_count
RehashPossible == NeedsRehash => 2 * Length <= MaxLength

InsertExisting(v) ==
  /\ Usable /\ RehashPossible
  /\ LET p == Probe(TableForInsert, v) IN
       /\ p.found \/ p.index = -1
       /\ TombstonesForInsert + p.passed <= MaxTombstones
       /\ tombstone_count' = TombstonesForInsert + p.passed
  /\ table' = TableForInsert
  /\ Mutated
  /\ Call("insert", v, TRUE)
  /\ UNCHANGED <<valid, entries, item_count>>

InsertNew(v) ==
  /\ Usable /\ RehashPossible /\ Available # {}
  /\ LET t == TableForInsert
         p == Probe(t, v)
         e == Min(Available)
         count == TombstonesForInsert + p.passed
     IN  /\ ~p.found /\ p.index # -1
         /\ count <= MaxTombstones
         /\ table' = [t EXCEPT ![p.index] = e]
         /\ tombstone_count' = IF t[p.index] = TOMBSTONE THEN count - 1 ELSE count
         /\ value' = [value EXCEPT ![e] = v]
         /\ \E lost \in IF v \in Long THEN BOOLEAN ELSE {FALSE} :
              /\ state' = [state EXCEPT ![e] = IF lost THEN "lost" ELSE "set"]
              /\ last' = [op |-> "insert", value |-> v, answer |-> TRUE, lost |-> lost]
  /\ entry_free_list' = IF entry_free_list = <<>> THEN <<>> ELSE Tail(entry_free_list)
  /\ item_count' = item_count + 1
  /\ Mutated
  /\ UNCHANGED valid

(* No memory for a new entry: a rehash before it stays.                     *)
InsertFails(v) ==
  /\ Usable /\ RehashPossible /\ entry_free_list = <<>>
  /\ LET p == Probe(TableForInsert, v) IN
       /\ ~p.found /\ p.index # -1
       /\ TombstonesForInsert + p.passed <= MaxTombstones
       /\ tombstone_count' = TombstonesForInsert + p.passed
  /\ table' = TableForInsert
  /\ IF NeedsRehash THEN Mutated ELSE UNCHANGED iterator
  /\ Call("insert", v, FALSE)
  /\ UNCHANGED <<valid, entries, item_count>>

Insert(v) == RehashFails(v) \/ InsertExisting(v) \/ InsertNew(v) \/ InsertFails(v)

(* Mutant: the new tombstone is not counted.                                *)
DeleteForgetsTombstone(v) ==
  /\ Usable
  /\ LET p == Probe(table, v)
         e == table[p.index]
     IN  /\ p.found
         /\ tombstone_count + p.passed <= MaxTombstones
         /\ tombstone_count' = tombstone_count + p.passed
         /\ table' = [table EXCEPT ![p.index] = TOMBSTONE]
         /\ state' = [state EXCEPT ![e] = "free"]
         /\ value' = [value EXCEPT ![e] = NoValue]
         /\ entry_free_list' = <<e>> \o entry_free_list
  /\ item_count' = item_count - 1
  /\ Mutated
  /\ Call("delete", v, TRUE)
  /\ UNCHANGED valid

DeletePresent(v) ==
  /\ Usable
  /\ LET p == Probe(table, v)
         e == table[p.index]
     IN  /\ p.found
         /\ tombstone_count + p.passed + 1 <= MaxTombstones
         /\ tombstone_count' = tombstone_count + p.passed + 1
         /\ table' = [table EXCEPT ![p.index] = TOMBSTONE]
         /\ state' = [state EXCEPT ![e] = "free"]
         /\ value' = [value EXCEPT ![e] = NoValue]
         /\ entry_free_list' = <<e>> \o entry_free_list
  /\ item_count' = item_count - 1
  /\ Mutated
  /\ Call("delete", v, TRUE)
  /\ UNCHANGED valid

DeleteAbsent(v) ==
  LET p == Probe(table, v) IN
    /\ Usable /\ ~p.found
    /\ tombstone_count + p.passed <= MaxTombstones
    /\ tombstone_count' = tombstone_count + p.passed
    /\ Call("delete", v, FALSE)
    /\ UNCHANGED <<valid, table, entries, item_count, iterator>>

Delete(v) == DeletePresent(v) \/ DeleteAbsent(v)

(* The entries of the table, the last slot first: each goes to the front of *)
(* the free list.                                                           *)
TableEntries ==
  LET from[n \in 0 .. Length] ==
        IF n = 0 THEN <<>>
        ELSE IF table[n - 1] \in Entries THEN <<table[n - 1]>> \o from[n - 1] ELSE from[n - 1]
  IN  from[Length]

Clear ==
  /\ Usable
  /\ entry_free_list' = TableEntries \o entry_free_list
  /\ state' = [e \in Entries |-> IF e \in Range(TableEntries) THEN "free" ELSE state[e]]
  /\ value' = [e \in Entries |-> IF e \in Range(TableEntries) THEN NoValue ELSE value[e]]
  /\ table' = EmptyTable(Length)
  /\ item_count' = 0 /\ tombstone_count' = 0
  /\ Mutated
  /\ Call("clear", NoValue, TRUE)
  /\ UNCHANGED valid

(* jsl_str_set_free walks the table and the free list.                      *)
Free ==
  /\ Usable
  /\ LET freed == Range(TableEntries) \cup Range(entry_free_list) IN
       /\ state' = [e \in Entries |-> IF e \in freed THEN "unused" ELSE state[e]]
       /\ value' = [e \in Entries |-> IF e \in freed THEN NoValue ELSE value[e]]
  /\ valid' = FALSE
  /\ table' = EmptyTable(InitLength)
  /\ entry_free_list' = <<>>
  /\ item_count' = 0 /\ tombstone_count' = 0
  /\ Mutated
  /\ Call("free", NoValue, TRUE)

(* The allocation of the table is not checked.                              *)
InitAgain ==
  /\ ~valid
  /\ valid' = TRUE
  /\ table' \in {EmptyTable(InitLength), NoTable}
  /\ Call("init", NoValue, TRUE)
  /\ UNCHANGED <<entries, item_count, tombstone_count, iterator>>

-----------------------------------------------------------------------------
IteratorInit ==
  /\ valid
  /\ cursor' = 0 /\ fresh' = TRUE /\ yielded' = {}
  /\ UNCHANGED <<valid, table, entries, item_count, tombstone_count, last>>

Occupied(from) == {i \in DOMAIN table : i >= from /\ table[i] \in Entries}

IteratorNext ==
  /\ Usable /\ fresh /\ cursor < Length
  /\ IF Occupied(cursor) = {}
     THEN cursor' = Length /\ UNCHANGED yielded
     ELSE LET e == table[Min(Occupied(cursor))] IN
            /\ cursor' = Min(Occupied(cursor)) + 1
            /\ yielded' = yielded \cup (IF state[e] = "set" THEN {value[e]} ELSE {})
  /\ UNCHANGED <<valid, table, entries, item_count, tombstone_count, fresh, last>>

-----------------------------------------------------------------------------
Next ==
  \/ \E v \in Values : Has(v) \/ Insert(v) \/ Delete(v)
  \/ Clear \/ Free \/ InitAgain
  \/ IteratorInit \/ IteratorNext

Spec == Init /\ [][Next]_vars

-----------------------------------------------------------------------------
Contents == {v \in Values : \E i \in DOMAIN table : Matches(table, v, i)}

(* The set answers as str_set.h says, whatever tombstones, collisions,      *)
(* rehashes and failed allocations came before, but for a long value whose  *)
(* copy the allocator refused.                                              *)
Promise == INSTANCE AbstractStrSet WITH contents <- Contents
KeepsPromise == Promise!Spec

(* item_count is the number of entries in the table, and tombstone_count is *)
(* never below the number of tombstones, so the rehash that keeps an empty  *)
(* slot in the table is never late.                                         *)
CountsSound ==
  /\ item_count = Cardinality(Occupied(0))
  /\ tombstone_count >= Cardinality({i \in DOMAIN table : table[i] = TOMBSTONE})

(* Every entry taken from the allocator is in the table once or in the free *)
(* list once; after free none is left.                                      *)
EntriesAccounted ==
  \A e \in Entries :
    LET inTable == Cardinality({i \in DOMAIN table : table[i] = e})
        inList == Cardinality({k \in DOMAIN entry_free_list : entry_free_list[k] = e})
    IN  /\ inTable + inList = IF state[e] = "unused" THEN 0 ELSE 1
        /\ inList = 1 <=> state[e] = "free"
        /\ ~valid => state[e] = "unused"

(* An iterator that is still valid at its end has returned every value.     *)
IterationComplete == fresh /\ cursor = Length => yielded = Contents
=============================================================================
