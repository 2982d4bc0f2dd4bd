------------------------------ MODULE StrToStrMap ------------------------------
(***************************************************************************)
(* str_to_str_map.c: a hash map of strings, open addressing with linear    *)
(* probing.  Unlike the set's, its probe *writes*: every slot without an   *)
(* entry that it visits, the empty one that ends it included, becomes a    *)
(* tombstone and is counted, by a lookup too.  Every allocation may fail.  *)
(***************************************************************************)
EXTENDS Integers, Sequences, FiniteSets, FiniteSetsExt, Functions

CONSTANTS
  Keys, Vals,     \* the strings used as keys and as values
  Hash,           \* rapidhash of a key with the seed of the map
  LongKeys,       \* keys that insert duplicates: SHORTER, over 8 bytes
  LongVals,       \* values that insert duplicates
  InitLength,     \* length of the table after init2, a power of two
  LoadFactor,     \* load_factor in percent
  MaxEntries,     \* bound: entries the allocator can supply
  MaxLength,      \* bound: longest table the allocator can supply
  MaxTombstones,  \* bound: tombstone_count is not pushed above it
  MaxCopies,      \* bound: duplicates the allocator can supply
  CopyMayFail,    \* jsl_duplicate may run out of memory
  Absent, NoKey, NoValue

EMPTY == 0
TOMBSTONE == 1
Entries == 2 .. MaxEntries + 1

MapArguments ==
  /\ InitLength \in Nat \ {0} /\ MaxLength \in Nat /\ InitLength <= MaxLength
  /\ MaxTombstones \in Nat
  /\ MaxEntries \in Nat /\ MaxCopies \in Nat
  /\ LoadFactor \in 1 .. 99 /\ CopyMayFail \in BOOLEAN
  /\ Hash \in [Keys -> Nat] /\ LongKeys \subseteq Keys /\ LongVals \subseteq Vals
  /\ NoKey \notin Keys /\ {Absent, NoValue} \cap Vals = {} /\ Absent # NoValue

VARIABLES
  valid,            \* the sentinel is in place
  table,            \* entry_lookup_table
  key, value,       \* of an entry; the value is NoValue (NULL) if it was lost
  state,            \* of an entry; "lost" if its key could not be duplicated
  entry_free_list,
  item_count, tombstone_count,
  copies,           \* duplicated strings not yet given back to the allocator
  overwritten,      \* history: duplicates that an update has overwritten
  cursor, fresh, yielded,  \* the iterator: position, validity, keys returned
  last              \* the last call, see AbstractStrMap

entries == <<key, value, state, entry_free_list>>
heap == <<copies, overwritten>>
iterator == <<cursor, fresh, yielded>>
vars == <<valid, table, entries, item_count, tombstone_count, heap, iterator, last>>

Length == Cardinality(DOMAIN table)
Call(op, k, v, answer) ==
  last' = [op |-> op, key |-> k, value |-> v, answer |-> answer, lost |-> {}]

TypeOK ==
  /\ valid \in BOOLEAN
  /\ \E n \in 0 .. MaxLength :
       /\ n % InitLength = 0   \* NULL or doubled, and no sum is off by one
       /\ table \in [0 .. n - 1 -> {EMPTY, TOMBSTONE} \cup Entries]
  /\ key \in [Entries -> Keys \cup {NoKey}]
  /\ value \in [Entries -> Vals \cup {NoValue}]
  /\ state \in [Entries -> {"unused", "set", "lost", "free"}]
  /\ entry_free_list \in Seq(Entries)
  /\ item_count \in 0 .. MaxEntries /\ tombstone_count \in Nat
  /\ copies \in 0 .. MaxCopies /\ overwritten \in Nat
  /\ cursor \in Nat /\ fresh \in BOOLEAN /\ yielded \subseteq Keys

(* Mutant: off by one.                                                      *)
EmptyTableLonger(n) == [i \in 0 .. n |-> EMPTY]

EmptyTable(n) == [i \in 0 .. n - 1 |-> EMPTY]

(* The table of a map whose init2 could not allocate one, NULL.             *)
NoTable == EmptyTable(0)

Init ==
  /\ valid = TRUE
  /\ table = EmptyTable(InitLength)
  /\ key = [e \in Entries |-> NoKey]
  /\ value = [e \in Entries |-> NoValue]
  /\ state = [e \in Entries |-> "unused"]
  /\ entry_free_list = <<>>
  /\ item_count = 0 /\ tombstone_count = 0
  /\ copies = 0 /\ overwritten = 0
  /\ cursor = 0 /\ fresh = FALSE /\ yielded = {}
  /\ last = [op |-> "init", key |-> NoKey, value |-> NoValue, answer |-> TRUE, lost |-> {}]

(* ++generational_id: the iterator will refuse to go on.                    *)
Mutated == fresh' = FALSE /\ cursor' = 0 /\ yielded' = {}

-----------------------------------------------------------------------------
(* jsl__str_to_str_map_probe: from the home slot to the key or an empty     *)
(* slot.  after is the table it leaves behind.                              *)
Slots(t, k) == [n \in DOMAIN t |-> (Hash[k] + n) % Cardinality(DOMAIN t)]
Matches(t, k, i) == t[i] \in Entries /\ state[t[i]] = "set" /\ key[t[i]] = k

Probe(t, k) ==
  LET at == Slots(t, k)
      stops == {n \in DOMAIN t : t[at[n]] = EMPTY \/ Matches(t, k, at[n])}
      stop == Min(stops \cup {Cardinality(DOMAIN t)})
      found == stop \in stops /\ Matches(t, k, at[stop])
      touched == {n \in DOMAIN t : n <= stop /\ t[at[n]] \notin Entries}
      tombstones == {at[n] : n \in touched}
  IN  [found |-> found,
       index |-> IF found THEN at[stop] ELSE IF touched = {} THEN -1 ELSE at[Min(touched)],
       counted |-> Cardinality(touched),
       after |-> [i \in DOMAIN t |-> IF i \in tombstones THEN TOMBSTONE ELSE t[i]]]

(* jsl__str_to_str_map_rehash: the entries, in table order, into a table    *)
(* twice as long.                                                           *)
Rehashed ==
  LET firstFree(t, k) ==
        LET at == Slots(t, k) IN at[Min({n \in DOMAIN t : t[at[n]] = EMPTY})]
      migrated[n \in 0 .. Length] ==
        IF n = 0 THEN EmptyTable(2 * Length)
        ELSE LET t == migrated[n - 1]
                 e == table[n - 1]
             IN  IF e \in Entries THEN [t EXCEPT ![firstFree(t, key[e])] = e] ELSE t
  IN  migrated[Length]

NeedsRehash ==
  \/ (item_count + tombstone_count) * 100 >= LoadFactor * Length
  \/ tombstone_count > Length \div 4

-----------------------------------------------------------------------------
(* has_key and get look up, and so write the table, but are no mutation.    *)
(* A map without a table has no key for get and delete; has_key, insert and *)
(* free follow the NULL pointer, and no step is left for them.              *)
Lookup(k, p) ==
  /\ valid
  /\ tombstone_count + p.counted <= MaxTombstones
  /\ table' = p.after
  /\ tombstone_count' = tombstone_count + p.counted
  /\ UNCHANGED <<valid, entries, item_count, heap, iterator>>

Has(k) ==
  LET p == Probe(table, k) IN
    table # NoTable /\ Lookup(k, p) /\ Call("has", k, NoValue, p.found)

Get(k) ==
  LET p == Probe(table, k) IN
    Lookup(k, p) /\ Call("get", k, IF p.found THEN value[table[p.index]] ELSE NoValue, p.found)

-----------------------------------------------------------------------------
RehashFails(k, v) ==
  /\ valid /\ NeedsRehash
  /\ Call("insert", k, v, FALSE)
  /\ UNCHANGED <<valid, table, entries, item_count, tombstone_count, heap, iterator>>

(* What insert finds after its rehash, if it needs one, and its probe.      *)
RehashPossible == NeedsRehash => 2 * Length <= MaxLength
TableForInsert == IF NeedsRehash THEN Rehashed ELSE table
CountForInsert == IF NeedsRehash THEN 0 ELSE tombstone_count

(* store_key and store_value: the outcomes of a string that is to be kept.  *)
Kept(isLong) == IF isLong THEN IF CopyMayFail THEN {"copied", "lost"} ELSE {"copied"} ELSE {"kept"}
Copied(outcome) == IF outcome = "copied" THEN 1 ELSE 0

(* The insertion returns true, whichever of its copies were refused.        *)
Inserted(k, v, keptKey, keptValue) ==
  last' = [op |-> "insert", key |-> k, value |-> v, answer |-> TRUE,
           lost |-> {s \in {"key"} : keptKey = "lost"} \cup {s \in {"value"} : keptValue = "lost"}]

(* The key is there and its value is replaced; or the table has no slot to  *)
(* give (index -1), nothing is inserted, and insert reports success.        *)
InsertUpdate(k, v) ==
  LET p == Probe(TableForInsert, k)
      e == TableForInsert[p.index]
  IN
    /\ valid /\ RehashPossible
    /\ p.found \/ p.index = -1
    /\ CountForInsert + p.counted <= MaxTombstones
    /\ table' = p.after
    /\ tombstone_count' = CountForInsert + p.counted
    /\ \E kept \in Kept(p.found /\ v \in LongVals) :
         /\ copies + Copied(kept) <= MaxCopies
         /\ value' = IF p.found THEN [value EXCEPT ![e] = IF kept = "lost" THEN NoValue ELSE v]
                     ELSE value
         /\ copies' = copies + Copied(kept)
         /\ overwritten' = overwritten + (IF p.found /\ value[e] \in LongVals THEN 1 ELSE 0)
         /\ Inserted(k, v, "kept", kept)
    /\ Mutated
    /\ UNCHANGED <<valid, key, state, entry_free_list, item_count>>

(* jsl__str_to_str_map_add_new_entry takes the first entry of the free list *)
(* or a new one.  After the probe the slot is a tombstone in any case.      *)
Unused == {e \in Entries : state[e] = "unused"}
Available == IF entry_free_list = <<>> THEN Unused ELSE {entry_free_list[1]}

InsertNew(k, v) ==
  /\ valid /\ RehashPossible /\ Available # {}
  /\ LET p == Probe(TableForInsert, k)
         e == Min(Available)
     IN  /\ ~p.found /\ p.index # -1
         /\ CountForInsert + p.counted <= MaxTombstones
         /\ table' = [p.after EXCEPT ![p.index] = e]
         /\ tombstone_count' = CountForInsert + p.counted - 1
         /\ \E keptKey \in Kept(k \in LongKeys), keptValue \in Kept(v \in LongVals) :
              /\ copies + Copied(keptKey) + Copied(keptValue) <= MaxCopies
              /\ key' = [key EXCEPT ![e] = k]
              /\ state' = [state EXCEPT ![e] = IF keptKey = "lost" THEN "lost" ELSE "set"]
              /\ value' = [value EXCEPT ![e] = IF keptValue = "lost" THEN NoValue ELSE v]
              /\ copies' = copies + Copied(keptKey) + Copied(keptValue)
              /\ Inserted(k, v, keptKey, keptValue)
  /\ entry_free_list' = IF entry_free_list = <<>> THEN <<>> ELSE Tail(entry_free_list)
  /\ item_count' = item_count + 1
  /\ Mutated
  /\ UNCHANGED <<valid, overwritten>>

(* No memory for a new entry: the rehash and the tombstones before it stay. *)
InsertFails(k, v) ==
  LET p == Probe(TableForInsert, k) IN
    /\ valid /\ RehashPossible /\ entry_free_list = <<>>
    /\ ~p.found /\ p.index # -1
    /\ CountForInsert + p.counted <= MaxTombstones
    /\ table' = p.after
    /\ tombstone_count' = CountForInsert + p.counted
    /\ IF NeedsRehash THEN Mutated ELSE UNCHANGED iterator
    /\ Call("insert", k, v, FALSE)
    /\ UNCHANGED <<valid, entries, item_count, heap>>

Insert(k, v) ==
  /\ table # NoTable
  /\ RehashFails(k, v) \/ InsertUpdate(k, v) \/ InsertNew(k, v) \/ InsertFails(k, v)

-----------------------------------------------------------------------------
(* entry_free_key and entry_free_value: the duplicates an entry owns.       *)
OwnsKey(e) == state[e] = "set" /\ key[e] \in LongKeys
OwnsValue(e) == state[e] \in {"set", "lost"} /\ value[e] \in LongVals
OwnedBy(S) == Cardinality({e \in S : OwnsKey(e)}) + Cardinality({e \in S : OwnsValue(e)})

(* Entries that are given back or listed as free keep nothing.              *)
Discarded(S, as) ==
  /\ key' = [e \in Entries |-> IF e \in S THEN NoKey ELSE key[e]]
  /\ value' = [e \in Entries |-> IF e \in S THEN NoValue ELSE value[e]]
  /\ state' = [e \in Entries |-> IF e \in S THEN as ELSE state[e]]
  /\ copies' = copies - OwnedBy(S)
  /\ UNCHANGED overwritten

(* Mutant: the slot of the deleted entry becomes empty.                     *)
SlotOfDeletedEmpty == EMPTY

SlotOfDeleted == TOMBSTONE

DeleteCounts == 1

DeletePresent(k) ==
  LET p == Probe(table, k)
      e == table[p.index]
  IN  /\ valid /\ p.found
      /\ tombstone_count + p.counted + DeleteCounts <= MaxTombstones
      /\ tombstone_count' = tombstone_count + p.counted + DeleteCounts
      /\ table' = [p.after EXCEPT ![p.index] = SlotOfDeleted]
      /\ Discarded({e}, "free")
      /\ entry_free_list' = <<e>> \o entry_free_list
      /\ item_count' = item_count - 1
      /\ Mutated
      /\ Call("delete", k, NoValue, TRUE)
      /\ UNCHANGED valid

DeleteAbsent(k) ==
  LET p == Probe(table, k) IN
    ~p.found /\ Lookup(k, p) /\ Call("delete", k, NoValue, FALSE)

(* The entries of the table, the last slot first: each goes to the front of *)
(* the free list.                                                           *)
TableEntries ==
  LET from[n \in 0 .. Length] ==
        IF n = 0 THEN <<>>
        ELSE IF table[n - 1] \in Entries THEN <<table[n - 1]>> \o from[n - 1] ELSE from[n - 1]
  IN  from[Length]

Clear ==
  /\ valid
  /\ Discarded(Range(TableEntries), "free")
  /\ entry_free_list' = TableEntries \o entry_free_list
  /\ table' = EmptyTable(Length)
  /\ item_count' = 0 /\ tombstone_count' = 0
  /\ IF table # NoTable THEN Mutated ELSE UNCHANGED iterator
  /\ Call("clear", NoKey, NoValue, TRUE)
  /\ UNCHANGED valid

(* free walks the table and the free list.  It leaves only the sentinel     *)
(* behind that any call looks at; the rest is as a later init2 makes it.    *)
Free ==
  /\ valid /\ table # NoTable
  /\ Discarded(Range(TableEntries) \cup Range(entry_free_list), "unused")
  /\ valid' = FALSE
  /\ table' = EmptyTable(InitLength)
  /\ entry_free_list' = <<>>
  /\ item_count' = 0 /\ tombstone_count' = 0
  /\ Mutated
  /\ Call("free", NoKey, NoValue, TRUE)

(* init2 returns true also when the allocator has no table to give.         *)
InitAgain ==
  /\ ~valid
  /\ valid' = TRUE
  /\ table' \in {EmptyTable(InitLength), NoTable}
  /\ copies' = 0 /\ overwritten' = 0
  /\ Call("init", NoKey, NoValue, TRUE)
  /\ UNCHANGED <<entries, item_count, tombstone_count, iterator>>

-----------------------------------------------------------------------------
IteratorInit ==
  /\ valid
  /\ cursor' = 0 /\ fresh' = TRUE /\ yielded' = {}
  /\ Call("iterate", NoKey, NoValue, TRUE)
  /\ UNCHANGED <<valid, table, entries, item_count, tombstone_count, heap>>

Occupied(from) == {i \in DOMAIN table : i >= from /\ table[i] \in Entries}

IteratorNext ==
  /\ valid /\ fresh /\ cursor < Length
  /\ IF Occupied(cursor) = {}
     THEN cursor' = Length /\ UNCHANGED yielded
     ELSE LET e == table[Min(Occupied(cursor))] IN
            /\ cursor' = Min(Occupied(cursor)) + 1
            /\ yielded' = yielded \cup (IF state[e] = "set" THEN {key[e]} ELSE {})
  /\ Call("iterate", NoKey, NoValue, TRUE)
  /\ UNCHANGED <<valid, table, entries, item_count, tombstone_count, heap, fresh>>

-----------------------------------------------------------------------------
Next ==
  \/ \E k \in Keys : Has(k) \/ Get(k) \/ DeletePresent(k) \/ DeleteAbsent(k)
  \/ \E k \in Keys, v \in Vals : Insert(k, v)
  \/ Clear \/ Free \/ InitAgain
  \/ IteratorInit \/ IteratorNext

Spec == Init /\ [][Next]_vars

-----------------------------------------------------------------------------
Contents ==
  [k \in Keys |->
     LET slots == {i \in DOMAIN table : Matches(table, k, i)}
     IN  IF slots = {} THEN Absent ELSE value[table[CHOOSE i \in slots : TRUE]]]

(* The map answers as str_to_str_map.h says, although its lookups move      *)
(* tombstones about and its insertions rehash: what an insertion was given  *)
(* is there, but for a string whose copy the allocator refused.             *)
Promise == INSTANCE AbstractStrMap WITH contents <- Contents
KeepsPromise == Promise!Spec

(* The counts that decide about a rehash: the entries exactly, and no       *)
(* tombstone uncounted, so that an insertion that does not rehash finds an  *)
(* empty slot.  The insertion may fill the table, until the next one.       *)
CountsSound ==
  /\ item_count = Cardinality(Occupied(0))
  /\ tombstone_count >= Cardinality({i \in DOMAIN table : table[i] = TOMBSTONE})
  /\ ~NeedsRehash => \E i \in DOMAIN table : table[i] = EMPTY

(* Every entry is in the table once or in the free list once, and the       *)
(* duplicates are those the entries own and those an update overwrote       *)
(* (store_value gives none back): nothing is freed twice or kept after      *)
(* free but for these.                                                      *)
MemoryAccounted ==
  /\ \A e \in Entries :
       LET inTable == Cardinality({i \in DOMAIN table : table[i] = e})
           inList == Cardinality({n \in DOMAIN entry_free_list : entry_free_list[n] = e})
       IN  /\ inTable + inList = IF state[e] = "unused" THEN 0 ELSE 1
           /\ inList = 1 <=> state[e] = "free"
  /\ copies = OwnedBy(Entries) + overwritten

(* str_to_str_map.h:214, 276: init and insert return "true on success" and  *)
(* false when out of memory: after true the map has its table, or the key   *)
(* with the value.                                                          *)
TrueMeansDone ==
  last.answer =>
    /\ last.op = "init" => table # NoTable
    /\ last.op = "insert" => Contents[last.key] = last.value

(* An iterator that is still valid at its end has returned every key,       *)
(* whatever lookups have made of the table in between.                      *)
IterationComplete ==
  fresh /\ cursor = Length => yielded = {k \in Keys : Contents[k] # Absent}
=============================================================================
