-------------------------------- MODULE MCMaps --------------------------------
(* One run of the multimap or of the map, each on an instance of its own.   *)
(* The keys of the multimap always collide, on the last slot of a table of  *)
(* 4, and so are interchangeable; those of the map part in a table of 8.    *)
EXTENDS StrToStrMultimap, TLC

CONSTANTS
  MapAsked,   \* of the map: keys, hash, vals, longKeys, longVals, copies, mayFail
  Absent

VARIABLES
  m_valid, m_table, m_key, m_value, m_state, m_entry_free_list, m_item_count,
  m_tombstone_count, m_copies, m_overwritten, m_cursor, m_fresh, m_yielded, m_last

VARIABLE running   \* which of the two is in use

Interchangeable == Permutations(Keys) \cup Permutations(Vals)
AllCollide == [k \in Keys |-> 3]

CollideAtFirst ==
  [keys |-> {"a", "b"}, hash |-> [k \in {"a", "b"} |-> IF k = "a" THEN 2 ELSE 6],
   vals |-> {"x", "y"}, longKeys |-> {"a"}, longVals |-> {"x"}, copies |-> 2, mayFail |-> TRUE]

Map == INSTANCE StrToStrMap
  WITH Keys <- MapAsked.keys, Hash <- MapAsked.hash, Vals <- MapAsked.vals,
       LongKeys <- MapAsked.longKeys, LongVals <- MapAsked.longVals,
       MaxCopies <- MapAsked.copies, CopyMayFail <- MapAsked.mayFail,
       valid <- m_valid, table <- m_table, key <- m_key, value <- m_value, state <- m_state,
       entry_free_list <- m_entry_free_list, item_count <- m_item_count,
       tombstone_count <- m_tombstone_count, copies <- m_copies, overwritten <- m_overwritten,
       cursor <- m_cursor, fresh <- m_fresh, yielded <- m_yielded, last <- m_last

mapVars ==
  <<m_valid, m_table, m_key, m_value, m_state, m_entry_free_list, m_item_count,
    m_tombstone_count, m_copies, m_overwritten, m_cursor, m_fresh, m_yielded, m_last>>

ASSUME MapArguments == Map!MapArguments

InitEither == Init /\ Map!Init /\ running \in {"map", "multimap"}

NextEither ==
  \/ running = "multimap" /\ Next /\ UNCHANGED <<running, mapVars>>
  \/ running = "map" /\ Map!Next /\ UNCHANGED <<running, vars>>

SpecEither == InitEither /\ [][NextEither]_<<running, vars, mapVars>>

TypesOK == TypeOK /\ Map!TypeOK

(* Of both: what decides about a rehash is counted, every entry and every   *)
(* duplicate has its one place, and an iterator that is valid at its end    *)
(* has returned everything.                                                 *)
EverythingAccounted ==
  /\ CountsSound /\ MemoryAccounted /\ IterationComplete
  /\ Map!CountsSound /\ Map!MemoryAccounted /\ Map!IterationComplete

(* Both answer as their abstract specifications do.                         *)
PromisesKept == KeepsPromise /\ Map!KeepsPromise

(* The specification of the run that looks at the map only.                 *)
SpecMap == InitEither /\ running = "map" /\ [][NextEither]_<<running, vars, mapVars>>

(* What str_to_str_map.h says true means of init and insert.                *)
MapTrueMeansDone == Map!TrueMeansDone
=============================================================================
