------------------------------- MODULE MCLibrary -------------------------------
(* One run of one of the parts of the library that work alone: the pool,    *)
(* where its init puts the chunks, the arena, the infinite arena, the libc  *)
(* allocator; the string set, the operations on sets, a generated map and a *)
(* generated array, the string builder; the parser of the command line and  *)
(* the conversions before it, the searches in strings and the numbers.      *)
(* Those that do not run stand still in one initial state.                  *)
EXTENDS PoolAllocator, Integers

CONSTANTS
  c1, c2, c3, c4, other, n1, n2, n3, Root, NoPoint, NoValue,
  LayoutAsked, ArenaAsked, GrowingAsked, LibcNodes, SearchAsked,   \* what is asked of each
  SetAsked, SetsAsked, FixedAsked, ArrayAsked, BuilderAsked

VARIABLES
  y_memory_start, y_memory_end, y_allocation_size, y_cursor, y_remaining, y_chunks,
  y_chunk_count, y_done,
  a_start, a_guard, a_current, a_blocks, a_saved, a_survivors,
  i_windows, i_guard, i_valid, i_current, i_committed, i_backed, i_blocks, i_saved, i_survivors,
  l_mallocd, l_prev, l_next, l_head, l_owner, l_kids, l_walk, l_touched,
  s_valid, s_table, s_value, s_state, s_free, s_items, s_tombstones, s_cursor, s_fresh,
  s_yielded, s_last,
  o_contents, o_lost, o_op, o_a, o_b, o_out, o_pc, o_smaller, o_larger, o_left, o_fresh,
  o_success, o_before,
  f_valid, f_hashes, f_keys, f_values, f_key_lifetimes, f_value_lifetimes, f_items, f_slot,
  f_fresh, f_yielded, f_shifted, f_last,
  d_valid, d_data, d_length, d_capacity, d_blocks, d_last,
  b_valid, b_data, b_capacity, b_blocks, b_last,
  p_argv, p_wide, p_index, p_stop, p_pc, p_short, p_long, p_commands, p_values, p_list,
  p_list_index, p_res, p_parses, p_starved, p_popped,
  u_pc, u_str, u_index, u_res, u_bits, u_total, u_written,
  x_call, x_build, x_string, x_substring, x_pc, x_pos, x_D, x_j, x_last, x_count, x_res,
  e_call, e_str, e_i, e_parsed, e_negative, e_result, e_x, e_shift, e_pc, e_res

VARIABLE running

FourChunks == {c1, c2, c3, c4}
OneStranger == {other}

(* Memories on, off and far from an alignment boundary, lengths around one  *)
(* chunk and several, sizes around the two changes of alignment.            *)
Layouts ==
  [starts |-> {4096, 1, 8, 40, 4064}, lengths |-> {0, 32, 33, 40, 96, 97, 200, 2080, 4200, 8300, 12500},
   sizes |-> {1, 8, 64, 65, 2047, 2048, 3000}]
Layout == INSTANCE PoolLayout
  WITH Starts <- LayoutAsked.starts, Lengths <- LayoutAsked.lengths, Sizes <- LayoutAsked.sizes,
       memory_start <- y_memory_start, memory_end <- y_memory_end,
       allocation_size <- y_allocation_size, cursor <- y_cursor, remaining <- y_remaining,
       chunks <- y_chunks, chunk_count <- y_chunk_count, done <- y_done

(* Memory aligned and not, with room for two blocks but seldom for three.   *)
TwoBlocks ==
  [starts |-> {16, 21}, length |-> 72, guards |-> {0, 8}, sizes |-> {0, 1, 20},
   alignments |-> {4, 16}, blocks |-> 2]
Bump == INSTANCE Arena
  WITH Starts <- ArenaAsked.starts, Length <- ArenaAsked.length, Guards <- ArenaAsked.guards,
       Sizes <- ArenaAsked.sizes, Alignments <- ArenaAsked.alignments, MaxBlocks <- ArenaAsked.blocks,
       start <- a_start, guard <- a_guard, current <- a_current, blocks <- a_blocks,
       saved <- a_saved, survivors <- a_survivors

(* Two granules; a block can end exactly where the committed memory does.   *)
TwoGranules ==
  [start |-> 16, length |-> 64, granule |-> 32, guards |-> {0, 8}, sizes |-> {0, 8, 32, 40},
   alignments |-> {4, 16}, refused |-> {"allocate"}, blocks |-> 2]
Growing == INSTANCE InfiniteArena
  WITH Start <- GrowingAsked.start, Length <- GrowingAsked.length, Granule <- GrowingAsked.granule,
       Guards <- GrowingAsked.guards, Sizes <- GrowingAsked.sizes,
       Alignments <- GrowingAsked.alignments, RefusedIn <- GrowingAsked.refused,
       MaxBlocks <- GrowingAsked.blocks,
       windows <- i_windows, guard <- i_guard, valid <- i_valid, current <- i_current,
       committed <- i_committed, backed <- i_backed, blocks <- i_blocks, saved <- i_saved,
       survivors <- i_survivors

ThreeNodes == {n1, n2, n3}
Libc == INSTANCE LibcAllocator
  WITH Nodes <- LibcNodes,
       mallocd <- l_mallocd, prev <- l_prev, next <- l_next, head <- l_head, owner <- l_owner,
       kids <- l_kids, walk <- l_walk, touched <- l_touched

(* a, b and c collide in a table of 4, c probes past its end, and all of    *)
(* them part in a table of 8.                                               *)
Colliding == [v \in {"a", "b", "c"} |-> CASE v = "a" -> 2 [] v = "b" -> 6 [] v = "c" -> 3]
TwoTables ==
  [values |-> DOMAIN Colliding, hash |-> Colliding, long |-> {"a"}, initial |-> 4, load |-> 99,
   entries |-> 2, length |-> 8, tombstones |-> 3]
Set == INSTANCE StrSet
  WITH Values <- SetAsked.values, Hash <- SetAsked.hash, Long <- SetAsked.long,
       InitLength <- SetAsked.initial, LoadFactor <- SetAsked.load, MaxEntries <- SetAsked.entries,
       MaxLength <- SetAsked.length, MaxTombstones <- SetAsked.tombstones,
       valid <- s_valid, table <- s_table, value <- s_value, state <- s_state,
       entry_free_list <- s_free, item_count <- s_items, tombstone_count <- s_tombstones,
       cursor <- s_cursor, fresh <- s_fresh, yielded <- s_yielded, last <- s_last

(* Three sets, of which a call may name one twice or three times.           *)
ThreeSets == [sets |-> {"x", "y", "z"}, values |-> {1, 2}, long |-> {1}]
Operations == INSTANCE SetOperations
  WITH Sets <- SetsAsked.sets, Values <- SetsAsked.values, Long <- SetsAsked.long,
       contents <- o_contents, lost <- o_lost, op <- o_op, a <- o_a, b <- o_b, out <- o_out,
       pc <- o_pc, smaller <- o_smaller, larger <- o_larger, left <- o_left, fresh <- o_fresh,
       success <- o_success, before <- o_before

(* a and b start at slot 2, the hash of a changed because 1 is reserved, c  *)
(* at the last slot and d at the first.  c and x are copied by insert, the  *)
(* other strings are not.                                                   *)
FourKeys == {"a", "b", "c", "d"}
FourSlots ==
  [keys |-> FourKeys, values |-> {"x", "y"}, length |-> 4, items |-> 2,
   lifetimes |-> [s \in FourKeys \cup {"x", "y"} |-> IF s \in {"c", "x"} THEN {"SHORTER"} ELSE {"LONGER"}],
   hash |-> [k \in FourKeys |-> CASE k = "a" -> 1 [] k = "b" -> 6 [] k = "c" -> 3 [] k = "d" -> 4],
   absent |-> "absent", none |-> ""]
Fixed == INSTANCE FixedHashMap
  WITH Keys <- FixedAsked.keys, Values <- FixedAsked.values, arrays_length <- FixedAsked.length,
       max_item_count <- FixedAsked.items, Hash <- FixedAsked.hash,
       Lifetimes <- FixedAsked.lifetimes, Absent <- FixedAsked.absent, NoKey <- FixedAsked.none,
       valid <- f_valid, hashes_array <- f_hashes, keys_array <- f_keys, values_array <- f_values,
       key_lifetime_array <- f_key_lifetimes, value_lifetime_array <- f_value_lifetimes,
       item_count <- f_items, current_slot <- f_slot, fresh <- f_fresh, yielded <- f_yielded,
       shifted <- f_shifted, last <- f_last

FourCells ==
  [values |-> {"x", "y"}, chunks |-> {<<>>, <<"x", "y">>, <<"y", "x", "x">>}, initial |-> 2, most |-> 4,
   garbage |-> "?"]
Array == INSTANCE DynamicArray
  WITH Values <- ArrayAsked.values, Chunks <- ArrayAsked.chunks, InitialCapacity <- ArrayAsked.initial,
       MaxCapacity <- ArrayAsked.most, Garbage <- ArrayAsked.garbage,
       valid <- d_valid, data <- d_data, length <- d_length, capacity <- d_capacity,
       blocks <- d_blocks, last <- d_last

FourBytes ==
  [byte |-> {"x", "y"}, strings |-> {<<>>, <<"x">>, <<"x", "y">>, <<"y", "x", "x">>}, initial |-> 1,
   most |-> 4]
Builder == INSTANCE StringBuilder
  WITH Byte <- BuilderAsked.byte, Strings <- BuilderAsked.strings,
       InitialCapacity <- BuilderAsked.initial, MaxCapacity <- BuilderAsked.most,
       valid <- b_valid, data <- b_data, capacity <- b_capacity, blocks <- b_blocks, last <- b_last

(* Every list of up to three arguments, then one of a few on the container  *)
(* as the first parse left it.                                              *)
Word == [kind |-> "word", text |-> "x"]
Flag == [kind |-> "flag", text |-> "--f", name |-> "f"]
ElevenArguments == {
  Word, Flag,
  [kind |-> "stop", text |-> "--"],
  [kind |-> "flag", text |-> "--g", name |-> "g"],
  [kind |-> "assign", text |-> "--f=x", name |-> "f", value |-> "x"],
  [kind |-> "nameless", text |-> "--=x"],
  [kind |-> "letters", text |-> "-ab", letters |-> {"a", "b"}],
  [kind |-> "bad", text |-> "-a=b"],
  [kind |-> "word", text |-> "-"],
  [kind |-> "empty", text |-> ""],
  [kind |-> "malformed", text |-> "?"]}
ListsOfParses ==
  << UNION {[1 .. n -> ElevenArguments] : n \in 0 .. 3},
     {<<>>, <<Word>>, <<Flag>>, <<Word, Flag, Word>>} >>
Parser == INSTANCE CmdLine
  WITH Arguments <- ElevenArguments, Names <- {"f", "g"}, Lists <- ListsOfParses,
       argv <- p_argv, wide <- p_wide, index <- p_index, stop_parsing <- p_stop, pc <- p_pc,
       short_flags <- p_short, long_flags <- p_long, commands <- p_commands,
       flags_with_values <- p_values, arg_list <- p_list, arg_list_index <- p_list_index,
       res <- p_res, parses <- p_parses, starved <- p_starved, popped <- p_popped

(* The bytes and units on both sides of every boundary of the encodings.    *)
Bytes == {65, 128, 143, 144, 159, 160, 191, 193, 194, 224, 237, 240, 244, 245}
Units16 == {65, 127, 128, 2047, 2048, 55295, 55296, 56319, 56320, 57343, 57344, 65535}
Units32 == {127, 128, 2047, 2048, 55295, 55296, 57343, 57344, 65535, 65536, 1114111, 1114112}
UpToFourBytes == UNION {[1 .. n -> Bytes] : n \in 0 .. 4}
UpToThreeUnits ==
  [bits : {16}, units : UNION {[1 .. n -> Units16] : n \in 0 .. 3}]
  \cup [bits : {32}, units : UNION {[1 .. n -> Units32] : n \in 0 .. 2}]
Texts == INSTANCE Unicode
  WITH ByteStrings <- UpToFourBytes, WideStrings <- UpToThreeUnits,
       pc <- u_pc, str <- u_str, index <- u_index, res <- u_res, bits <- u_bits,
       total_bytes <- u_total, written <- u_written

(* Strings shorter than, as long as and longer than a vector, substrings    *)
(* shorter and longer than a word; builds as with AVX2, with NEON and with  *)
(* neither, their vectors of 32 and 16 bytes cut to 4 and 2.                *)
Letters == {"a", "b"}
Avx2 == [block |-> 4, halves |-> FALSE, shortest |-> 4, index |-> 2, counts |-> {4, 2}, reverse |-> 2]
Neon == [block |-> 4, halves |-> TRUE, shortest |-> 2, index |-> 2, counts |-> {2}, reverse |-> 0]
Plain == [block |-> 0, halves |-> FALSE, shortest |-> 0, index |-> 0, counts |-> {}, reverse |-> 0]
ShortWords ==
  [byte |-> Letters, strings |-> UNION {[1 .. k -> Letters] : k \in {0, 1, 2, 7}},
   substrings |-> {<<>>} \cup {t \in UNION {[1 .. k -> Letters] : k \in 1 .. 5} : t[1] = "a"},
   bits |-> 4, builds |-> {Avx2, Neon, Plain}]
Search == INSTANCE StringSearch
  WITH Byte <- SearchAsked.byte, Strings <- SearchAsked.strings, Substrings <- SearchAsked.substrings,
       WordBits <- SearchAsked.bits, Builds <- SearchAsked.builds,
       call <- x_call, build <- x_build, string <- x_string, substring <- x_substring,
       pc <- x_pc, pos <- x_pos, D <- x_D, j <- x_j, last <- x_last, count <- x_count, res <- x_res

(* The types have 6 bits and the digits make up the numbers on both sides   *)
(* of each limit, with a sign and a zero before them, a character after.    *)
Characters == {43, 45, 47, 48, 49, 50, 51, 52, 54, 57, 58}
Numerals ==
  UNION {[1 .. k -> Characters] : k \in 0 .. 3} \cup {s \in [1 .. 4 -> Characters] : s[1] \in {43, 45, 48}}
Arithmetic == INSTANCE Numbers
  WITH Strings <- Numerals,
       Bits <- 6, None <- NoValue,
       call <- e_call, str <- e_str, i <- e_i, parsed_val <- e_parsed, negative <- e_negative,
       result <- e_result, x <- e_x, shift <- e_shift, pc <- e_pc, res <- e_res

ASSUME Instances ==
  /\ Layout!ArgumentsAssumption /\ Bump!ArenaArguments /\ Growing!InfiniteArenaArguments
  /\ Libc!LibcNames /\ Set!SizesAssumption /\ Set!ValuesAssumption /\ Fixed!Sizes
  /\ Array!ArrayArguments /\ Builder!BuilderArguments
  /\ Parser!ParserArguments /\ Texts!WideUnits /\ Search!SearchArguments

layoutVars ==
  <<y_memory_start, y_memory_end, y_allocation_size, y_cursor, y_remaining, y_chunks,
    y_chunk_count, y_done>>
arenaVars == <<a_start, a_guard, a_current, a_blocks, a_saved, a_survivors>>
infiniteVars ==
  <<i_windows, i_guard, i_valid, i_current, i_committed, i_backed, i_blocks, i_saved, i_survivors>>
libcVars == <<l_mallocd, l_prev, l_next, l_head, l_owner, l_kids, l_walk, l_touched>>
setVars ==
  <<s_valid, s_table, s_value, s_state, s_free, s_items, s_tombstones, s_cursor, s_fresh,
    s_yielded, s_last>>
operationVars ==
  <<o_contents, o_lost, o_op, o_a, o_b, o_out, o_pc, o_smaller, o_larger, o_left, o_fresh,
    o_success, o_before>>
fixedVars ==
  <<f_valid, f_hashes, f_keys, f_values, f_key_lifetimes, f_value_lifetimes, f_items, f_slot,
    f_fresh, f_yielded, f_shifted, f_last>>
arrayVars == <<d_valid, d_data, d_length, d_capacity, d_blocks, d_last>>
builderVars == <<b_valid, b_data, b_capacity, b_blocks, b_last>>
parserVars ==
  <<p_argv, p_wide, p_index, p_stop, p_pc, p_short, p_long, p_commands, p_values, p_list,
    p_list_index, p_res, p_parses, p_starved, p_popped>>
unicodeVars == <<u_pc, u_str, u_index, u_res, u_bits, u_total, u_written>>
searchVars ==
  <<x_call, x_build, x_string, x_substring, x_pc, x_pos, x_D, x_j, x_last, x_count, x_res>>
numberVars ==
  <<e_call, e_str, e_i, e_parsed, e_negative, e_result, e_x, e_shift, e_pc, e_res>>
allocatorVars == <<layoutVars, arenaVars, infiniteVars, libcVars>>
containerVars == <<setVars, operationVars, fixedVars, arrayVars, builderVars>>
textVars == <<parserVars, unicodeVars, searchVars, numberVars>>
allVars == <<running, vars, allocatorVars, containerVars, textVars>>

OneOf(S) == CHOOSE x \in S : TRUE

InitAny ==
  /\ running \in {"pool", "layout", "arena", "infinite", "libc", "set", "operations",
                 "fixed", "array", "builder", "parser", "unicode", "search", "numbers"}
  /\ Init
  /\ Layout!Init
  /\ running # "layout" => /\ y_memory_start = OneOf(LayoutAsked.starts)
                           /\ y_memory_end = y_memory_start + OneOf(LayoutAsked.lengths)
                           /\ y_allocation_size = OneOf(LayoutAsked.sizes)
  /\ Bump!Init
  /\ running # "arena" => a_start = OneOf(ArenaAsked.starts) /\ a_guard = OneOf(ArenaAsked.guards)
  /\ Growing!Init
  /\ running # "infinite" => i_windows /\ i_guard = OneOf(GrowingAsked.guards)
  /\ Libc!Init
  /\ Set!Init
  /\ \/ running = "operations" /\ Operations!Init
     \/ /\ running # "operations" /\ o_contents = {} /\ o_lost = {} /\ o_op = "union"
        /\ o_a = "x" /\ o_b = "x" /\ o_out = "x" /\ o_pc = "ready" /\ o_smaller = "x" /\ o_larger = "x"
        /\ o_left = {} /\ o_fresh = {} /\ o_success = TRUE /\ o_before = {}
  /\ Fixed!Init
  /\ Array!Init
  /\ running # "array" => d_capacity = 0
  /\ Builder!Init
  /\ running # "builder" => b_capacity = 0
  /\ Parser!Init
  /\ Texts!Init
  /\ Search!Init
  /\ running # "search" => x_build = OneOf(SearchAsked.builds)
  /\ Arithmetic!Init

NextAny ==
  /\ UNCHANGED running
  /\ \/ running = "pool" /\ Next /\ UNCHANGED <<allocatorVars, containerVars, textVars>>
     \/ /\ running = "layout" /\ Layout!Next
        /\ UNCHANGED <<vars, arenaVars, infiniteVars, libcVars, containerVars, textVars>>
     \/ /\ running = "arena" /\ Bump!Next
        /\ UNCHANGED <<vars, layoutVars, infiniteVars, libcVars, containerVars, textVars>>
     \/ /\ running = "infinite" /\ Growing!Next
        /\ UNCHANGED <<vars, layoutVars, arenaVars, libcVars, containerVars, textVars>>
     \/ /\ running = "libc" /\ Libc!Next
        /\ UNCHANGED <<vars, layoutVars, arenaVars, infiniteVars, containerVars, textVars>>
     \/ /\ running = "set" /\ Set!Next
        /\ UNCHANGED <<vars, allocatorVars, operationVars, fixedVars, arrayVars, builderVars, textVars>>
     \/ /\ running = "operations" /\ Operations!Next
        /\ UNCHANGED <<vars, allocatorVars, setVars, fixedVars, arrayVars, builderVars, textVars>>
     \/ /\ running = "fixed" /\ Fixed!Next
        /\ UNCHANGED <<vars, allocatorVars, setVars, operationVars, arrayVars, builderVars, textVars>>
     \/ /\ running = "array" /\ Array!Next
        /\ UNCHANGED <<vars, allocatorVars, setVars, operationVars, fixedVars, builderVars, textVars>>
     \/ /\ running = "builder" /\ Builder!Next
        /\ UNCHANGED <<vars, allocatorVars, setVars, operationVars, fixedVars, arrayVars, textVars>>
     \/ /\ running = "parser" /\ Parser!Next
        /\ UNCHANGED <<vars, allocatorVars, containerVars, unicodeVars, searchVars, numberVars>>
     \/ /\ running = "unicode" /\ Texts!Next
        /\ UNCHANGED <<vars, allocatorVars, containerVars, parserVars, searchVars, numberVars>>
     \/ /\ running = "search" /\ Search!Next
        /\ UNCHANGED <<vars, allocatorVars, containerVars, parserVars, unicodeVars, numberVars>>
     \/ /\ running = "numbers" /\ Arithmetic!Next
        /\ UNCHANGED <<vars, allocatorVars, containerVars, parserVars, unicodeVars, searchVars>>

(* The fairness of PoolAllocator, of the parser and of the searches; the    *)
(* others state only what is safe.                                          *)
SpecAny ==
  /\ InitAny /\ [][NextAny]_allVars
  /\ WF_vars(FreeAllStep \/ FreeAllEnd) /\ WF_parserVars(Parser!Iterate)
  /\ WF_searchVars(running = "search" /\ Search!Step)

(* One part, and only what is safe of it.                                   *)
SpecSearch == running = "search" /\ InitAny /\ [][NextAny]_allVars

TypesOK ==
  /\ TypeOK
  /\ running = "layout" => Layout!TypeOK
  /\ running = "arena" => Bump!TypeOK
  /\ running = "infinite" => Growing!TypeOK
  /\ running = "libc" => Libc!TypeOK
  /\ running = "set" => Set!TypeOK
  /\ running = "operations" => Operations!TypeOK
  /\ running = "fixed" => Fixed!TypeOK
  /\ running = "array" => Array!TypeOK
  /\ running = "parser" => Parser!TypeOK
  /\ running = "unicode" => Texts!TypeOK
  /\ running = "search" => Search!TypeOK
  /\ running = "numbers" => Arithmetic!TypeOK

(* No two blocks of an allocator overlap, whatever was resized, moved, freed *)
(* or rewound; what an infinite arena gave out is committed.  The list of a *)
(* libc allocator is what it has from malloc, no header is touched after    *)
(* its free, and free_all spares none.  An array and a string builder have  *)
(* one block where they have a cell, and their elements are inside it.      *)
BlocksSound ==
  /\ running = "layout" => Layout!ChunksApart
  /\ running = "arena" => Bump!BlocksApart
  /\ running = "infinite" => Growing!BlocksApart /\ Growing!BlocksCommitted
  /\ running = "libc" => Libc!ListsSound /\ Libc!NoUseAfterFree /\ Libc!FreeAllComplete
  /\ running = "array" => Array!BlockAccounted
  /\ running = "builder" => Builder!InsideTheBlock

(* The counters of a container count, every entry of a set has one place,   *)
(* and a valid iterator has returned everything at its end.  Union,         *)
(* intersection and difference add exactly their result, also where the     *)
(* three sets are not three.                                                *)
ContainersSound ==
  /\ running = "set" => Set!CountsSound /\ Set!EntriesAccounted /\ Set!IterationComplete
  /\ running = "operations" => Operations!ResultExact /\ Operations!NothingElse
  /\ running = "fixed" => Fixed!CountsSound /\ Fixed!LifetimesKept /\ Fixed!IterationComplete

(* A parse is refused exactly for a faulty argument and then leaves nothing; *)
(* else each argument is where the grammar puts it, to be taken once.       *)
ParserSound ==
  running = "parser" =>
    /\ Parser!FaultyRejected /\ Parser!FailureLeavesNothing
    /\ Parser!ParseFaithful /\ Parser!ValuesOnce

(* Whichever algorithm the build and the lengths choose, and however far it *)
(* shifts: a search returns the first occurrence, or -1 where there is none. *)
FirstFound == running = "search" => Search!FirstFound

(* Exactly the well-formed strings pass, a converted one has the same       *)
(* characters, and its two passes agree on its length.  A number is read    *)
(* whole or refused at the limits of its type, rounding is to the next      *)
(* power or multiple, and bytes are counted once in whatever vectors.       *)
ConversionsExact ==
  /\ running = "unicode" => Texts!ValidationExact /\ Texts!ConversionExact /\ Texts!PassesAgree
  /\ running = "numbers" => Arithmetic!ReadExact /\ Arithmetic!RoundingExact
  /\ running = "search" => Search!CountExact /\ Search!ReverseSound

(* The set, the map of a fixed size, the array and the string builder are   *)
(* what their abstract specifications say, asked of the one that runs.      *)
ContainersKeepPromise ==
  /\ Set!Promise!Init /\ Fixed!Promise!Init /\ Array!Promise!Init /\ Builder!Promise!Init
  /\ [][running = "set" => Set!Promise!Next \/ UNCHANGED <<Set!Contents, s_last>>]_setVars
  /\ [][running = "fixed" => Fixed!Promise!Next \/ UNCHANGED <<Fixed!Contents, Fixed!Unreachable, f_last>>]_fixedVars
  /\ [][running = "array" => Array!Promise!Next \/ UNCHANGED <<Array!Contents, d_last>>]_arrayVars
  /\ [][running = "builder" => Builder!Promise!Next \/ UNCHANGED <<b_data, b_last>>]_builderVars

(* No call goes on for ever: the list that free_all walks and relinks has   *)
(* no cycle, no argument holds a parse, every shift of a search is forwards. *)
CallsEnd == []<>(pc # "free_all" /\ p_pc # "loop" /\ x_pc \in {"idle", "done"})

(* core.h of jsl_index_of_reverse: "index of the last match, or -1 when no  *)
(* match exists".                                                           *)
LastFound == running = "search" => Search!LastFound
=============================================================================
