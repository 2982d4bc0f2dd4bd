-------------------------------- MODULE CmdLine --------------------------------
(***************************************************************************)
(* JSLCmdLineArgs of cmd_line.c: parsing, one argument or flag with its    *)
(* value at a time, and the calls that take what was parsed.  An argument  *)
(* is a record of what the parser tells apart: its kind, its text, the     *)
(* name and value of a long flag, the letters of a short one.  The map,    *)
(* the multimap and the set underneath are a set, a bag in the order of    *)
(* its iterator and a set; every allocation may fail.                      *)
(***************************************************************************)
EXTENDS Naturals, FiniteSets, Sequences

CONSTANTS
  Arguments,     \* [kind, text, name, value, letters], the last three where they apply
  Names,         \* of long flags
  Lists          \* bound: the lists the first parse of a container may get, the second, ...

Kinds == {"stop",      \* --
          "flag",      \* --name
          "assign",    \* --name=value
          "nameless",  \* --=value
          "letters",   \* -abc
          "bad",       \* -a=b, or letters beyond ASCII
          "word",      \* anything else, a single dash too
          "empty",     \* no bytes
          "malformed"} \* not UTF-8, or not UTF-16

ParserArguments ==
  /\ \A a \in Arguments : a.kind \in Kinds
  /\ Lists \in Seq(SUBSET Seq(Arguments))

VARIABLES
  argv, wide,    \* what parse was called with, less the name of the program
  index, stop_parsing, pc,
  short_flags, long_flags, commands,
  flags_with_values,   \* of a name, the youngest value first
  arg_list, arg_list_index,
  res, parses,
  starved,             \* history: memory ran out
  popped               \* history: the values a caller has taken since

input == <<argv, wide>>
parsed == <<short_flags, long_flags, commands, flags_with_values, arg_list, arg_list_index>>
vars == <<input, index, stop_parsing, pc, parsed, res, parses, starved, popped>>

Texts == {a.text : a \in Arguments} \cup {a.value : a \in {b \in Arguments : b.kind = "assign"}}
NoValues == [n \in Names |-> <<>>]

TypeOK ==
  /\ argv \in Seq(Arguments) /\ wide \in BOOLEAN /\ pc \in {"idle", "loop"}
  /\ index \in 0 .. Len(argv) + 1 /\ stop_parsing \in BOOLEAN
  /\ long_flags \subseteq Names /\ commands \subseteq Texts
  /\ flags_with_values \in [Names -> Seq(Texts)] /\ arg_list \in Seq(Texts)
  /\ Len(arg_list) <= Len(argv) /\ arg_list_index <= Len(arg_list)
  /\ res \in BOOLEAN /\ parses \in 0 .. Len(Lists) /\ starved \in BOOLEAN

Nothing ==
  /\ short_flags = {} /\ long_flags = {} /\ commands = {} /\ flags_with_values = NoValues
  /\ arg_list = <<>> /\ arg_list_index = 0

Init ==
  /\ Nothing
  /\ argv = <<>> /\ wide = FALSE /\ index = 0 /\ stop_parsing = FALSE /\ pc = "idle"
  /\ res = FALSE /\ parses = 0 /\ starved = FALSE
  /\ popped = [args |-> <<>>, values |-> NoValues]

Reset ==
  /\ short_flags' = {} /\ long_flags' = {} /\ commands' = {} /\ flags_with_values' = NoValues
  /\ arg_list' = <<>> /\ arg_list_index' = 0

-----------------------------------------------------------------------------
(* jsl_cmd_line_args_parse and _wide.                                       *)
Parse(list, w) ==
  /\ pc = "idle" /\ parses < Len(Lists)
  /\ argv' = list /\ wide' = w /\ index' = 1 /\ stop_parsing' = FALSE
  /\ pc' = "loop" /\ parses' = parses + 1 /\ starved' = FALSE
  /\ popped' = [args |-> <<>>, values |-> NoValues]
  /\ Reset /\ UNCHANGED res

Looping == pc = "loop" /\ index <= Len(argv)
Argument == argv[index]
Following == argv[index + 1]

(* An argument that can be copied as UTF-8; of a wide one with no bytes the *)
(* copy is a null pointer, which counts as a failure.                       *)
Prepared(a) == a.kind # "malformed" /\ (wide => a.kind # "empty")
FlagLike(a) == a.kind \in {"stop", "flag", "assign", "nameless", "letters", "bad"}

(* A long flag takes the argument behind it unless that looks like a flag.  *)
LooksAhead ==
  ~stop_parsing /\ Argument.kind = "flag" /\ index < Len(argv) /\ ~FlagLike(Following)

(* Mutant: the argument that was the value is parsed again.                 *)
StaysAtValue(n) == index' = index + 1

Advance(n) == index' = index + n
Kept == UNCHANGED <<input, pc, res, parses, starved, popped>>
StoreValue(name, value) == flags_with_values' = [flags_with_values EXCEPT ![name] = <<value>> \o @]

FlagWithNextValue ==
  /\ Looping /\ LooksAhead /\ Prepared(Following) /\ Following.kind # "empty"
  /\ StoreValue(Argument.name, Following.text)
  /\ Advance(2) /\ Kept
  /\ UNCHANGED <<stop_parsing, short_flags, long_flags, commands, arg_list, arg_list_index>>

FlagWithValue ==
  /\ Looping /\ ~stop_parsing /\ Argument.kind = "assign"
  /\ StoreValue(Argument.name, Argument.value)
  /\ Advance(1) /\ Kept
  /\ UNCHANGED <<stop_parsing, short_flags, long_flags, commands, arg_list, arg_list_index>>

LongFlag ==
  /\ Looping /\ ~stop_parsing /\ Argument.kind = "flag" /\ ~LooksAhead
  /\ long_flags' = long_flags \cup {Argument.name}
  /\ Advance(1) /\ Kept
  /\ UNCHANGED <<stop_parsing, short_flags, flags_with_values, commands, arg_list, arg_list_index>>

ShortFlags ==
  /\ Looping /\ ~stop_parsing /\ Argument.kind = "letters"
  /\ short_flags' = short_flags \cup Argument.letters
  /\ Advance(1) /\ Kept
  /\ UNCHANGED <<stop_parsing, long_flags, flags_with_values, commands, arg_list, arg_list_index>>

StopParsing ==
  /\ Looping /\ ~stop_parsing /\ Argument.kind = "stop"
  /\ stop_parsing' = TRUE
  /\ Advance(1) /\ Kept
  /\ UNCHANGED parsed

Command ==
  /\ Looping /\ Prepared(Argument) /\ Argument.kind # "empty"
  /\ stop_parsing \/ Argument.kind = "word"
  /\ arg_list' = Append(arg_list, Argument.text) /\ commands' = commands \cup {Argument.text}
  /\ Advance(1) /\ Kept
  /\ UNCHANGED <<stop_parsing, short_flags, long_flags, flags_with_values, arg_list_index>>

Fails(why) ==
  /\ pc' = "idle" /\ res' = FALSE /\ starved' = why
  /\ Reset
  /\ UNCHANGED <<input, index, stop_parsing, parses, popped>>

Rejects ==
  \/ ~Prepared(Argument) \/ Argument.kind = "empty"
  \/ ~stop_parsing /\ Argument.kind \in {"nameless", "bad"}
  \/ LooksAhead /\ (~Prepared(Following) \/ Following.kind = "empty")

BadArgument == Looping /\ Rejects /\ Fails(FALSE)

(* The array of arguments, a copy or an insertion gets no memory.           *)
OutOfMemory == pc = "loop" /\ (index = 1 \/ Looping) /\ Fails(TRUE)

Parsed ==
  /\ pc = "loop" /\ index > Len(argv)
  /\ pc' = "idle" /\ res' = TRUE
  /\ UNCHANGED <<input, index, stop_parsing, parsed, parses, starved, popped>>

-----------------------------------------------------------------------------
PopArgList ==
  /\ pc = "idle" /\ arg_list_index < Len(arg_list)
  /\ arg_list_index' = arg_list_index + 1
  /\ popped' = [popped EXCEPT !.args = Append(@, arg_list[arg_list_index + 1])]
  /\ UNCHANGED <<input, index, stop_parsing, pc, short_flags, long_flags, commands,
                 flags_with_values, arg_list, res, parses, starved>>

(* The value is copied; it stays in the container when that fails.          *)
PopFlagWithValue(n) ==
  /\ pc = "idle" /\ flags_with_values[n] # <<>>
  /\ flags_with_values' = [flags_with_values EXCEPT ![n] = Tail(@)]
  /\ popped' = [popped EXCEPT !.values[n] = Append(@, Head(flags_with_values[n]))]
  /\ UNCHANGED <<input, index, stop_parsing, pc, short_flags, long_flags, commands,
                 arg_list, arg_list_index, res, parses, starved>>

Iterate ==
  \/ FlagWithNextValue \/ FlagWithValue \/ LongFlag \/ ShortFlags \/ StopParsing \/ Command
  \/ BadArgument \/ Parsed

Next ==
  \/ \E l \in (IF parses < Len(Lists) THEN Lists[parses + 1] ELSE {}), w \in BOOLEAN : Parse(l, w)
  \/ Iterate \/ OutOfMemory
  \/ PopArgList \/ \E n \in Names : PopFlagWithValue(n)

Spec == Init /\ [][Next]_vars /\ WF_vars(Iterate)

-----------------------------------------------------------------------------
(* The meaning of a list, position by position and without the parser's     *)
(* state: where the flags end, which positions are the value of a flag.     *)
Positions == 1 .. Len(argv)
FlagsEnd ==
  IF \E i \in Positions : argv[i].kind = "stop"
  THEN CHOOSE i \in Positions : argv[i].kind = "stop" /\ \A j \in 1 .. i - 1 : argv[j].kind # "stop"
  ELSE Len(argv) + 1
IsValue[i \in 0 .. Len(argv)] ==
  i > 1 /\ i < FlagsEnd /\ argv[i - 1].kind = "flag" /\ ~FlagLike(argv[i]) /\ ~IsValue[i - 1]
Flags == {i \in Positions : i < FlagsEnd /\ ~IsValue[i]}
AreWords == [i \in Positions |-> i > FlagsEnd \/ (i \in Flags /\ argv[i].kind = "word")]
Words ==
  LET places == SelectSeq([i \in Positions |-> i], LAMBDA i : AreWords[i])
  IN  [k \in DOMAIN places |-> argv[places[k]].text]
HasValue(i) == i + 1 \in Positions /\ IsValue[i + 1]
ValueOf(n, i) ==
  \/ i \in Flags /\ argv[i].kind = "assign" /\ argv[i].name = n
  \/ IsValue[i] /\ argv[i - 1].name = n
ValuesBackwards(n) ==
  LET places == SelectSeq([i \in Positions |-> Len(argv) + 1 - i], LAMBDA i : ValueOf(n, i))
  IN  [k \in DOMAIN places |->
         IF IsValue[places[k]] THEN argv[places[k]].text ELSE argv[places[k]].value]
Faulty ==
  \E i \in Positions :
    \/ argv[i].kind \in {"empty", "malformed"}
    \/ i < FlagsEnd /\ argv[i].kind \in {"nameless", "bad"}

Done == pc = "idle" /\ parses > 0

(* A parse succeeds exactly if no argument is faulty, memory permitting.    *)
FaultyRejected == Done /\ ~starved => (res <=> ~Faulty)

(* After a success every argument is in exactly the place the grammar gives *)
(* it: nothing of an earlier parse, nothing twice, no value also a command. *)
(* The list comes in order, together with what the caller has taken.        *)
ParseFaithful ==
  Done /\ res =>
    /\ short_flags = UNION {argv[i].letters : i \in {j \in Flags : argv[j].kind = "letters"}}
    /\ long_flags = {argv[i].name : i \in {j \in Flags : argv[j].kind = "flag" /\ ~HasValue(j)}}
    /\ arg_list = Words /\ commands = {Words[k] : k \in DOMAIN Words}
    /\ popped.args \o SubSeq(arg_list, arg_list_index + 1, Len(arg_list)) = Words

(* Every value a flag was given can be taken exactly once, the last first.  *)
ValuesOnce ==
  Done /\ res =>
    \A n \in Names : popped.values[n] \o flags_with_values[n] = ValuesBackwards(n)

(* A failure leaves nothing of what was parsed before it.                   *)
FailureLeavesNothing == Done /\ ~res => Nothing
=============================================================================
