--------------------------- MODULE StrToStrMultimap ---------------------------
(***************************************************************************)
(* str_to_str_multimap.c: a hash map whose entries hold lists of values.   *)
(* An insertion that gets an entry for its key but no record for its value *)
(* leaves an entry without values in the table.  Such an entry is a key to *)
(* nobody: the next probe that meets it makes its slot a tombstone, a      *)
(* rehash leaves it out, and either way nothing refers to it any more.     *)
(* Duplicates of strings always succeed here; StrToStrMap treats them.     *)
(***************************************************************************)
EXTENDS Integers, Sequences, FiniteSets, FiniteSetsExt, SequencesExt

CONSTANTS
  Keys, Vals,     \* the strings used as keys and as values
  Hash,           \* rapidhash of a key with the seed of the map
  InitLength,     \* length of the table after init2, a power of two
  LoadFactor,     \* load_factor in percent
  MaxEntries,     \* bound: entries the allocator can supply
  MaxRecords,     \* bound: value records the allocator can supply
  MaxLength,      \* bound: longest table the allocator can supply
  MaxTombstones,  \* bound: tombstone_count is not pushed above it
  NoKey, NoValue

EMPTY == 0
TOMBSTONE == 1
NoEntry == 0
Entries == 2 .. MaxEntries + 1

ASSUME MultimapSizes ==
  /\ InitLength \in Nat \ {0} /\ MaxLength \in Nat /\ InitLength <= MaxLength
  /\ MaxTombstones \in Nat
  /\ MaxEntries \in Nat /\ MaxRecords \in Nat /\ LoadFactor \in 1 .. 99
ASSUME MultimapStrings == Hash \in [Keys -> Nat] /\ NoKey \notin Keys /\ NoValue \notin Vals

VARIABLES
  table,            \* entry_lookup_table
  key, values,      \* of an entry; its values_head list, the head first
  state,            \* of an entry: "unused", "used", "free", or "leaked"
  entry_free_list,
  spare,            \* length of value_free_list
  key_count, value_count, tombstone_count,
  iter,             \* the one iterator, over "all" or over one key
  yielded,          \* how often it has returned each key and value
  last              \* the last call, see AbstractMultimap

entries == <<key, values, state, entry_free_list, spare>>
counts == <<key_count, value_count>>
iterator == <<iter, yielded>>
vars == <<table, entries, counts, tombstone_count, iterator, last>>

Length == Cardinality(DOMAIN table)
Call(op, k, v, answer) == last' = [op |-> op, key |-> k, value |-> v, answer |-> answer]

NoYield == [k \in Keys |-> [v \in Vals |-> 0]]
Stale == [over |-> "none", key |-> NoKey, cursor |-> 0, entry |-> NoEntry, pos |-> 0, done |-> FALSE]

TypeOK ==
  /\ \E n \in InitLength .. MaxLength : table \in [0 .. n - 1 -> {EMPTY, TOMBSTONE} \cup Entries]
  /\ key \in [Entries -> Keys \cup {NoKey}]
  /\ values \in [Entries -> Seq(Vals)]
  /\ state \in [Entries -> {"unused", "used", "free", "leaked"}]
  /\ entry_free_list \in Seq(Entries) /\ spare \in 0 .. MaxRecords
  /\ key_count \in Nat /\ value_count \in 0 .. MaxRecords /\ tombstone_count \in Nat
  /\ iter \in [over : {"none", "all", "key"}, key : Keys \cup {NoKey}, cursor : Nat,
               entry : Entries \cup {NoEntry}, pos : Nat, done : BOOLEAN]

EmptyTable(n) == [i \in 0 .. n - 1 |-> EMPTY]

Init ==
  /\ table = EmptyTable(InitLength)
  /\ key = [e \in Entries |-> NoKey]
  /\ values = [e \in Entries |-> <<>>]
  /\ state = [e \in Entries |-> "unused"]
  /\ entry_free_list = <<>> /\ spare = 0
  /\ key_count = 0 /\ value_count = 0 /\ tombstone_count = 0
  /\ iter = Stale /\ yielded = NoYield
  /\ last = [op |-> "init", key |-> NoKey, value |-> NoValue, answer |-> 1]

(* ++generational_id: the iterator will refuse to go on.                    *)
Mutated == iter' = Stale /\ yielded' = NoYield

-----------------------------------------------------------------------------
Slots(t, k) == [n \in DOMAIN t |-> (Hash[k] + n) % Cardinality(DOMAIN t)]
HasValues(e) == values[e] # <<>>

Matches(t, k, i) == t[i] \in Entries /\ HasValues(t[i]) /\ key[t[i]] = k

(* jsl__str_to_str_multimap_probe: from the home slot to the key or an      *)
(* empty slot.  Entries without values on the way are dropped: their slots  *)
(* become tombstones.                                                       *)
Probe(t, k) ==
  LET at == Slots(t, k)
      stops == {n \in DOMAIN t : t[at[n]] = EMPTY \/ Matches(t, k, at[n])}
      stop == Min(stops \cup {Cardinality(DOMAIN t)})
      found == stop \in stops /\ Matches(t, k, at[stop])
      bare == {n \in 0 .. stop - 1 : t[at[n]] \in Entries /\ ~HasValues(t[at[n]])}
      free == {n \in 0 .. stop - 1 : t[at[n]] = TOMBSTONE} \cup bare \cup (stops \cap {stop})
      dropped == {t[at[n]] : n \in bare}
  IN  [found |-> found,
       index |-> IF found THEN at[stop] ELSE IF free = {} THEN -1 ELSE at[Min(free)],
       dropped |-> dropped,
       after |-> [i \in DOMAIN t |-> IF t[i] \in dropped THEN TOMBSTONE ELSE t[i]]]

Leak(S) == state' = [e \in Entries |-> IF e \in S THEN "leaked" ELSE state[e]]

(* What every call that only probes does to the map.                        *)
Lookup(p) ==
  /\ tombstone_count + Cardinality(p.dropped) <= MaxTombstones
  /\ tombstone_count' = tombstone_count + Cardinality(p.dropped)
  /\ table' = p.after
  /\ Leak(p.dropped)
  /\ UNCHANGED <<key, values, entry_free_list, spare, counts>>

Has(k) ==
  LET p == Probe(table, k) IN
    /\ Lookup(p)
    /\ Call("has", k, NoValue, IF p.found THEN 1 ELSE 0)
    /\ UNCHANGED iterator

CountForKey(k) ==
  LET p == Probe(table, k) IN
    /\ Lookup(p)
    /\ Call("count", k, NoValue, IF p.found THEN Len(values[table[p.index]]) ELSE 0)
    /\ UNCHANGED iterator

-----------------------------------------------------------------------------
(* jsl__str_to_str_multimap_rehash: the entries that have values, in table  *)
(* order, into a table twice as long.                                       *)
Rehashed ==
  LET firstFree(t, k) ==
        LET at == Slots(t, k) IN at[Min({n \in DOMAIN t : t[at[n]] = EMPTY})]
      migrated[n \in 0 .. Length] ==
        IF n = 0 THEN EmptyTable(2 * Length)
        ELSE LET t == migrated[n - 1]
                 e == table[n - 1]
             IN  IF e \in Entries /\ HasValues(e) THEN [t EXCEPT ![firstFree(t, key[e])] = e] ELSE t
  IN  migrated[Length]

NeedsRehash ==
  \/ (key_count + tombstone_count) * 100 >= LoadFactor * Length
  \/ tombstone_count > Length \div 4

RehashFails(k, v) ==
  /\ NeedsRehash
  /\ Call("insert", k, v, 0)
  /\ UNCHANGED <<table, entries, counts, tombstone_count, iterator>>

(* What insert finds after its rehash, if it needs one, and its probe; and  *)
(* the entries these two lose.                                              *)
RehashPossible == NeedsRehash => 2 * Length <= MaxLength
TableForInsert == IF NeedsRehash THEN Rehashed ELSE table
Bare == {e \in Entries : state[e] = "used" /\ ~HasValues(e)}
DroppedForInsert(p) == p.dropped \cup (IF NeedsRehash THEN Bare ELSE {})
CountForInsert(p) == (IF NeedsRehash THEN 0 ELSE tombstone_count) + Cardinality(p.dropped)
AfterRehash(succeeds) == IF succeeds \/ NeedsRehash THEN Mutated ELSE UNCHANGED iterator

(* An index of -1, a table full of entries, is excluded by CountsSound.     *)
(* add_value_to_key: a record of the free list, or a new one, becomes the   *)
(* head of the list of values.                                              *)
Records == value_count + spare
MayAddValue == spare > 0 \/ Records < MaxRecords
RecordTaken == spare' = IF spare > 0 THEN spare - 1 ELSE 0

InsertIntoExisting(k, v) ==
  LET p == Probe(TableForInsert, k)
      e == TableForInsert[p.index]
  IN  /\ RehashPossible /\ p.found
      /\ CountForInsert(p) <= MaxTombstones
      /\ table' = p.after
      /\ tombstone_count' = CountForInsert(p)
      /\ Leak(DroppedForInsert(p))
      /\ \/ /\ MayAddValue /\ RecordTaken
            /\ values' = [values EXCEPT ![e] = <<v>> \o @]
            /\ value_count' = value_count + 1
            /\ AfterRehash(TRUE)
            /\ Call("insert", k, v, 1)
         \/ /\ spare = 0
            /\ AfterRehash(FALSE)
            /\ Call("insert", k, v, 0)
            /\ UNCHANGED <<values, value_count, spare>>
      /\ UNCHANGED <<key, entry_free_list, key_count>>

(* add_key takes the first entry of the free list or a new one, and counts  *)
(* off the tombstone it replaces.  The value may then find no record.       *)
Unused == {e \in Entries : state[e] = "unused"}
Available == IF entry_free_list = <<>> THEN Unused ELSE {entry_free_list[1]}

(* Mutant: the entry stays at the head of the free list.                    *)
PeekFree == entry_free_list

PopFree == IF entry_free_list = <<>> THEN <<>> ELSE Tail(entry_free_list)

Reclaimed(slot) == IF slot = TOMBSTONE THEN 1 ELSE 0

InsertNewKey(k, v) ==
  LET p == Probe(TableForInsert, k)
      e == Min(Available)
  IN  /\ RehashPossible /\ ~p.found /\ p.index # -1 /\ Available # {}
      /\ CountForInsert(p) <= MaxTombstones
      /\ table' = [p.after EXCEPT ![p.index] = e]
      /\ tombstone_count' = CountForInsert(p) - Reclaimed(p.after[p.index])
      /\ state' = [x \in Entries |-> IF x = e THEN "used"
                                     ELSE IF x \in DroppedForInsert(p) THEN "leaked" ELSE state[x]]
      /\ entry_free_list' = PopFree
      /\ key' = [key EXCEPT ![e] = k]
      /\ key_count' = key_count + 1
      /\ \/ /\ MayAddValue /\ RecordTaken
            /\ values' = [values EXCEPT ![e] = <<v>>]
            /\ value_count' = value_count + 1
            /\ AfterRehash(TRUE)
            /\ Call("insert", k, v, 1)
         \/ /\ spare = 0
            /\ AfterRehash(FALSE)
            /\ Call("insert", k, v, 0)
            /\ UNCHANGED <<values, value_count, spare>>

InsertKeyFails(k, v) ==
  LET p == Probe(TableForInsert, k) IN
    /\ RehashPossible /\ ~p.found /\ p.index # -1 /\ entry_free_list = <<>>
    /\ CountForInsert(p) <= MaxTombstones
    /\ table' = p.after
    /\ tombstone_count' = CountForInsert(p)
    /\ Leak(DroppedForInsert(p))
    /\ AfterRehash(FALSE)
    /\ Call("insert", k, v, 0)
    /\ UNCHANGED <<key, values, entry_free_list, spare, counts>>

Insert(k, v) ==
  RehashFails(k, v) \/ InsertIntoExisting(k, v) \/ InsertNewKey(k, v) \/ InsertKeyFails(k, v)

-----------------------------------------------------------------------------
(* Entries go to the front of the free list, their records to the other.    *)
Recycled(S) ==
  /\ key' = [e \in Entries |-> IF e \in S THEN NoKey ELSE key[e]]
  /\ values' = [e \in Entries |-> IF e \in S THEN <<>> ELSE values[e]]

DeleteKey(k) ==
  LET p == Probe(table, k)
      e == table[p.index]
  IN  /\ p.found
      /\ tombstone_count + Cardinality(p.dropped) + 1 <= MaxTombstones
      /\ tombstone_count' = tombstone_count + Cardinality(p.dropped) + 1
      /\ table' = [p.after EXCEPT ![p.index] = TOMBSTONE]
      /\ Recycled({e})
      /\ state' = [x \in Entries |-> IF x = e THEN "free"
                                     ELSE IF x \in p.dropped THEN "leaked" ELSE state[x]]
      /\ entry_free_list' = <<e>> \o entry_free_list
      /\ spare' = spare + Len(values[e])
      /\ value_count' = value_count - Len(values[e])
      /\ key_count' = key_count - 1
      /\ Mutated
      /\ Call("delete_key", k, NoValue, 1)

(* The first record that equals the value goes, and with the last record    *)
(* the key.                                                                 *)
DeleteValue(k, v) ==
  LET p == Probe(table, k)
      e == table[p.index]
      at == Min({n \in DOMAIN values[e] : values[e][n] = v})
      rest == RemoveAt(values[e], at)
      empties == rest = <<>>
      tombstones == tombstone_count + Cardinality(p.dropped) + (IF empties THEN 1 ELSE 0)
  IN  /\ p.found /\ v \in ToSet(values[e])
      /\ tombstones <= MaxTombstones
      /\ tombstone_count' = tombstones
      /\ table' = IF empties THEN [p.after EXCEPT ![p.index] = TOMBSTONE] ELSE p.after
      /\ key' = IF empties THEN [key EXCEPT ![e] = NoKey] ELSE key
      /\ values' = [values EXCEPT ![e] = rest]
      /\ state' = [x \in Entries |-> IF x = e /\ empties THEN "free"
                                     ELSE IF x \in p.dropped THEN "leaked" ELSE state[x]]
      /\ entry_free_list' = IF empties THEN <<e>> \o entry_free_list ELSE entry_free_list
      /\ spare' = spare + 1
      /\ value_count' = value_count - 1
      /\ key_count' = IF empties THEN key_count - 1 ELSE key_count
      /\ Mutated
      /\ Call("delete_value", k, v, 1)

DeleteAbsent(op, k, v) ==
  LET p == Probe(table, k) IN
    /\ p.found => op = "delete_value" /\ v \notin ToSet(values[table[p.index]])
    /\ Lookup(p)
    /\ Call(op, k, IF op = "delete_key" THEN NoValue ELSE v, 0)
    /\ UNCHANGED iterator

(* Entries without values are recycled too, last slot first on the list.    *)
Clear ==
  LET from[n \in 0 .. Length] ==
        IF n = 0 THEN <<>>
        ELSE IF table[n - 1] \in Entries THEN <<table[n - 1]>> \o from[n - 1] ELSE from[n - 1]
      recycled == from[Length]
  IN  /\ Recycled(ToSet(recycled))
      /\ state' = [e \in Entries |-> IF e \in ToSet(recycled) THEN "free" ELSE state[e]]
      /\ entry_free_list' = recycled \o entry_free_list
      /\ spare' = spare + value_count
      /\ table' = EmptyTable(Length)
      /\ key_count' = 0 /\ value_count' = 0 /\ tombstone_count' = 0
      /\ Mutated
      /\ Call("clear", NoKey, NoValue, 1)

-----------------------------------------------------------------------------
IteratorInit ==
  /\ iter' = [Stale EXCEPT !.over = "all"]
  /\ yielded' = NoYield
  /\ Call("iterate", NoKey, NoValue, 1)
  /\ UNCHANGED <<table, entries, counts, tombstone_count>>

(* get_values_for_key_iterator_init probes, and so may drop entries.        *)
ValuesIteratorInit(k) ==
  LET p == Probe(table, k) IN
    /\ Lookup(p)
    /\ iter' = [Stale EXCEPT !.over = "key", !.key = k,
                             !.entry = IF p.found THEN table[p.index] ELSE NoEntry,
                             !.done = ~p.found]
    /\ yielded' = NoYield
    /\ Call("iterate", NoKey, NoValue, 1)

Yield(e, n) == yielded' = [yielded EXCEPT ![key[e]][values[e][n]] = @ + 1]
InEntry == iter.entry # NoEntry /\ iter.pos < Len(values[iter.entry])
Filled(from) == {i \in DOMAIN table : i >= from /\ table[i] \in Entries /\ HasValues(table[i])}

IteratorNext ==
  /\ iter.over = "all" /\ ~iter.done
  /\ \/ /\ InEntry
        /\ iter' = [iter EXCEPT !.pos = @ + 1]
        /\ Yield(iter.entry, iter.pos + 1)
     \/ /\ ~InEntry /\ Filled(iter.cursor) # {}
        /\ LET i == Min(Filled(iter.cursor)) IN
             /\ iter' = [iter EXCEPT !.entry = table[i], !.pos = 1, !.cursor = i + 1]
             /\ Yield(table[i], 1)
     \/ /\ ~InEntry /\ Filled(iter.cursor) = {}
        /\ iter' = [iter EXCEPT !.entry = NoEntry, !.pos = 0, !.cursor = Length, !.done = TRUE]
        /\ UNCHANGED yielded
  /\ Call("iterate", NoKey, NoValue, 1)
  /\ UNCHANGED <<table, entries, counts, tombstone_count>>

ValuesIteratorNext ==
  /\ iter.over = "key" /\ ~iter.done
  /\ \/ /\ InEntry
        /\ iter' = [iter EXCEPT !.pos = @ + 1]
        /\ Yield(iter.entry, iter.pos + 1)
     \/ /\ ~InEntry
        /\ iter' = [iter EXCEPT !.entry = NoEntry, !.pos = 0, !.done = TRUE]
        /\ UNCHANGED yielded
  /\ Call("iterate", NoKey, NoValue, 1)
  /\ UNCHANGED <<table, entries, counts, tombstone_count>>

-----------------------------------------------------------------------------
Next ==
  \/ \E k \in Keys : Has(k) \/ CountForKey(k) \/ DeleteKey(k) \/ ValuesIteratorInit(k)
  \/ \E k \in Keys, v \in Vals :
       \/ Insert(k, v) \/ DeleteValue(k, v)
       \/ \E op \in {"delete_key", "delete_value"} : DeleteAbsent(op, k, v)
  \/ Clear
  \/ IteratorInit \/ IteratorNext \/ ValuesIteratorNext

Spec == Init /\ [][Next]_vars

-----------------------------------------------------------------------------
Occurrences(s, v) == Cardinality({n \in DOMAIN s : s[n] = v})
Bags ==
  [k \in Keys |->
     LET slots == {i \in DOMAIN table : Matches(table, k, i)}
     IN  IF slots = {} THEN NoYield[k]
         ELSE [v \in Vals |-> Occurrences(values[table[CHOOSE i \in slots : TRUE]], v)]]

(* The multimap answers as str_to_str_multimap.h says, also after an        *)
(* insertion that failed half way has left an entry without values.         *)
Promise == INSTANCE AbstractMultimap WITH bags <- Bags
KeepsPromise == Promise!Spec

(* The counts: values exactly; keys and tombstones never below what is in   *)
(* the table, so that an insertion that does not rehash finds an empty      *)
(* slot.  A dropped entry stays counted in key_count until the map is       *)
(* cleared.                                                                 *)
CountsSound ==
  /\ value_count = Cardinality(UNION {{e} \X DOMAIN values[e] : e \in Entries})
  /\ key_count >= Cardinality({i \in DOMAIN table : table[i] \in Entries})
  /\ tombstone_count >= Cardinality({i \in DOMAIN table : table[i] = TOMBSTONE})
  /\ ~NeedsRehash => \E i \in DOMAIN table : table[i] = EMPTY

(* Every entry is in the table once or in the free list once, but for those *)
(* a failed insertion left without values: these can get lost, a value      *)
(* never does.                                                              *)
MemoryAccounted ==
  \A e \in Entries :
    LET inTable == Cardinality({i \in DOMAIN table : table[i] = e})
        inList == Cardinality({n \in DOMAIN entry_free_list : entry_free_list[n] = e})
    IN  /\ inTable = IF state[e] = "used" THEN 1 ELSE 0
        /\ inList = IF state[e] = "free" THEN 1 ELSE 0
        /\ HasValues(e) => state[e] = "used"

(* An iterator that is still valid at its end has returned every value as   *)
(* often as it is there, and nothing else.                                  *)
IterationComplete ==
  iter.done =>
    yielded = IF iter.over = "all" THEN Bags
              ELSE [NoYield EXCEPT ![iter.key] = Bags[iter.key]]
=============================================================================
