----------------------------- MODULE StringSearch -----------------------------
(***************************************************************************)
(* The searches of core.c: jsl_substring_search with the five algorithms   *)
(* it chooses from, jsl_index_of, jsl_count and jsl_index_of_reverse, each  *)
(* in the builds that compare a vector of bytes at a time and in those     *)
(* that do not.  Indices are those of C and start at 0.  A call for a      *)
(* single byte has a substring of length 1.                                *)
(***************************************************************************)
EXTENDS Integers, Sequences

CONSTANTS
  Byte,       \* what a string is made of
  Strings,    \* the strings searched in
  Substrings, \* the strings searched for
  WordBits,   \* bits of uint64_t, the longest substring of the bit-parallel search
  Builds      \* [block, halves, shortest, index, counts, reverse]: positions that
              \* the vector search tests at once, whether as two halves, and the
              \* shortest string it is used for; bytes in a vector of index_of, of
              \* the loops of count and of index_of_reverse; 0 is without vectors

SearchArguments ==
  /\ Strings \subseteq Seq(Byte) /\ Substrings \subseteq Seq(Byte)
  /\ WordBits \in Nat \ {0}
  /\ Builds \subseteq [block : Nat, halves : BOOLEAN, shortest : Nat, index : Nat,
                       counts : SUBSET (Nat \ {0}), reverse : Nat]
  /\ \A b \in Builds : b.halves => b.block % 2 = 0

VARIABLES
  call,       \* "substring", "index_of", "count" or "reverse"
  build,
  string, substring,
  pc,
  pos,        \* i or pos
  D,          \* the set of the bits of D that are 1
  j, last,
  count,
  res

arguments == <<call, build, string, substring>>
window == <<D, j, last>>
vars == <<arguments, pc, pos, window, count, res>>

n == Len(string)
m == Len(substring)
At(i) == string[i + 1]
Sub(i) == substring[i + 1]
Item == Sub(0)

Init ==
  /\ call = "substring" /\ build \in Builds /\ string = <<>> /\ substring = <<>>
  /\ pc = "idle" /\ pos = 0 /\ D = {} /\ j = 0 /\ last = 0 /\ count = 0 /\ res = -1

Call(c, s, t) ==
  /\ call' = c /\ string' = s /\ substring' = t
  /\ pc' = "enter" /\ pos' = 0 /\ D' = {} /\ j' = 0 /\ last' = 0 /\ count' = 0 /\ res' = -1
  /\ UNCHANGED build

Return(r) == pc' = "done" /\ res' = r /\ UNCHANGED <<arguments, pos, window, count>>
Goto(location, p) == pc' = location /\ pos' = p /\ UNCHANGED <<arguments, window, count, res>>
Advance(p) == Goto(pc, p)
Least(S) == {x \in S : \A y \in S : x <= y}   \* the least element of S, if it has one

-----------------------------------------------------------------------------
(* jsl_substring_search and jsl__substring_search: which algorithm.         *)
Searchable == 1 <= m /\ m <= n

Refuse == pc = "enter" /\ call = "substring" /\ ~Searchable /\ Return(-1)

SearchByte == pc = "enter" /\ call = "substring" /\ Searchable /\ m = 1 /\ Goto("index", 0)

CompareWhole ==
  /\ pc = "enter" /\ call = "substring" /\ Searchable /\ m > 1 /\ n = m
  /\ Return(IF string = substring THEN 0 ELSE -1)

Vectors == build.block > 0 /\ n >= build.shortest

Dispatch ==
  /\ pc = "enter" /\ call = "substring" /\ Searchable /\ m > 1 /\ n > m
  /\ Goto(CASE Vectors                    -> "blocks"
            [] ~Vectors /\ m = 2          -> "pairs"
            [] ~Vectors /\ m \in 3 .. WordBits -> "windows"
            [] ~Vectors /\ m > 2 /\ m > WordBits -> "sunday",
          0)

(* The vector searches.  Of the positions whose first and last bytes fit,   *)
(* lowest first, the bytes between are compared.                            *)
FitsAt(p) == At(p) = Sub(0) /\ At(p + m - 1) = Sub(m - 1)
MiddleAt(p) == \A k \in 1 .. m - 2 : At(p + k) = Sub(k)
Hits(from, lanes) == {p \in from .. from + lanes - 1 : FitsAt(p) /\ MiddleAt(p)}

InBlocks == pos <= n - (m - 1) - build.block

ReturnLeast(hits) == \E p \in Least(hits) : Return(p)

CompareBlock ==
  /\ pc = "blocks" /\ InBlocks /\ ~build.halves
  /\ LET hits == Hits(pos, build.block)
     IN  \/ ReturnLeast(hits)
         \/ hits = {} /\ Advance(pos + build.block)

CompareHalves ==
  /\ pc = "blocks" /\ InBlocks /\ build.halves
  /\ LET half == build.block \div 2
         lower == Hits(pos, half)
         upper == Hits(pos + half, half)
     IN  \/ ReturnLeast(lower)
         \/ lower = {} /\ ReturnLeast(upper)
         \/ lower = {} /\ upper = {} /\ Advance(pos + build.block)

CompareRest ==
  /\ pc = "blocks" /\ ~InBlocks /\ pos <= n - m
  /\ IF FitsAt(pos) /\ (m <= 2 \/ MiddleAt(pos)) THEN Return(pos) ELSE Advance(pos + 1)

BlocksEnd == pc = "blocks" /\ ~InBlocks /\ pos > n - m /\ Return(-1)

(* jsl__two_char_search.                                                    *)
ComparePair ==
  /\ pc = "pairs" /\ pos + 1 < n
  /\ IF At(pos) = Sub(0) /\ At(pos + 1) = Sub(1) THEN Return(pos) ELSE Advance(pos + 1)

PairsEnd == pc = "pairs" /\ pos + 1 >= n /\ Return(-1)

(* jsl__bndm_search.  Bit b stands for the byte m - 1 - b of the substring; *)
(* a shift to the left loses what leaves the m bits.                        *)
Full == 0 .. m - 1
Mask(byte) == {b \in Full : Sub(m - 1 - b) = byte}
ShiftLeft(bits) == {b \in Full : b - 1 \in bits}

OpenWindow ==
  /\ pc = "windows" /\ pos <= n - m
  /\ pc' = "scan" /\ D' = Full /\ j' = m /\ last' = m
  /\ UNCHANGED <<arguments, pos, count, res>>

WindowsEnd == pc = "windows" /\ pos > n - m /\ Return(-1)

Kept == D \cap Mask(At(pos + j - 1))

ScanFinds == pc = "scan" /\ D # {} /\ Kept # {} /\ j = 1 /\ Return(pos)

(* Mutant: the shift is the one before the byte was scanned.                *)
ScanByteShiftsLate ==
  /\ pc = "scan" /\ D # {} /\ (Kept # {} => j # 1)
  /\ D' = ShiftLeft(Kept)
  /\ j' = IF Kept # {} THEN j - 1 ELSE j
  /\ last' = IF m - 1 \in Kept THEN j ELSE last
  /\ UNCHANGED <<arguments, pc, pos, count, res>>

ScanByte ==
  /\ pc = "scan" /\ D # {} /\ (Kept # {} => j # 1)
  /\ D' = ShiftLeft(Kept)
  /\ j' = IF Kept # {} THEN j - 1 ELSE j
  /\ last' = IF m - 1 \in Kept THEN j - 1 ELSE last
  /\ UNCHANGED <<arguments, pc, pos, count, res>>

CloseWindow == pc = "scan" /\ D = {} /\ Goto("windows", pos + last)

(* jsl__sunday_search: the byte behind the window decides about the shift.  *)
WindowFits == \A k \in 0 .. m - 1 : At(pos + k) = Sub(k)
Places(byte) == {k \in 0 .. m - 1 : Sub(k) = byte}
Shifts(byte) ==
  IF Places(byte) = {} THEN {m + 1}
  ELSE {m - k : k \in {k \in Places(byte) : \A l \in Places(byte) : l <= k}}

WindowFound == pc = "sunday" /\ pos + m <= n /\ WindowFits /\ Return(pos)

ShiftWindow ==
  /\ pc = "sunday" /\ pos + m < n /\ ~WindowFits
  /\ \E shift \in Shifts(At(pos + m)) : Advance(pos + shift)

SundayEnd == pc = "sunday" /\ (pos + m = n => ~WindowFits) /\ pos + m >= n /\ Return(-1)

-----------------------------------------------------------------------------
(* jsl_index_of.                                                            *)
EnterIndexOf ==
  /\ pc = "enter" /\ call = "index_of"
  /\ IF n < 1 THEN Return(-1) ELSE Goto("index", 0)

InVectors == build.index > 0 /\ pos < n - build.index
IndexHits == {p \in pos .. pos + build.index - 1 : At(p) = Item}

IndexVector ==
  /\ pc = "index" /\ InVectors
  /\ \/ ReturnLeast(IndexHits)
     \/ IndexHits = {} /\ Advance(pos + build.index)

IndexRest ==
  /\ pc = "index" /\ ~InVectors /\ pos < n
  /\ IF At(pos) = Item THEN Return(pos) ELSE Advance(pos + 1)

IndexEnd == pc = "index" /\ pos >= n /\ Return(-1)

(* jsl_count: the widest vector that the rest still fills, at the end one   *)
(* byte at a time.                                                          *)
EnterCount == pc = "enter" /\ call = "count" /\ Goto("count", 0)

Filling == {w \in build.counts \cup {1} : w <= n - pos}
Widest == {w \in Filling : \A v \in Filling : v <= w}
NumberIn(from, width) ==
  LET Upto[w \in Nat] == IF w = 0 THEN 0 ELSE Upto[w - 1] + IF At(from + w - 1) = Item THEN 1 ELSE 0
  IN  Upto[width]

CountVector ==
  /\ pc = "count" /\ pos < n
  /\ \E w \in Widest : pos' = pos + w /\ count' = count + NumberIn(pos, w)
  /\ UNCHANGED <<arguments, pc, window, res>>

CountEnd == pc = "count" /\ pos >= n /\ Return(count)

(* jsl_index_of_reverse: in a block it takes the lowest bit of the mask, and *)
(* from the block that would be the first it goes on below its first byte.  *)
EnterReverse ==
  /\ pc = "enter" /\ call = "reverse"
  /\ IF n < 1 THEN Return(-1)
     ELSE IF build.reverse = 0 \/ n < build.reverse THEN Goto("reverse", n - 1)
     ELSE Goto("reverse_blocks", n - build.reverse)

ReverseHits == {p \in pos .. pos + build.reverse - 1 : At(p) = Item}

ReverseBlock ==
  /\ pc = "reverse_blocks" /\ pos >= build.reverse
  /\ \/ ReturnLeast(ReverseHits)
     \/ ReverseHits = {} /\ Advance(pos - build.reverse)

ReverseBlocksEnd == pc = "reverse_blocks" /\ pos < build.reverse /\ Goto("reverse", pos)

ReverseByte ==
  /\ pc = "reverse" /\ pos > -1
  /\ IF At(pos) = Item THEN Return(pos) ELSE Advance(pos - 1)

ReverseEnd == pc = "reverse" /\ pos <= -1 /\ Return(-1)

-----------------------------------------------------------------------------
SubstringStep ==
  \/ Refuse \/ SearchByte \/ CompareWhole \/ Dispatch
  \/ CompareBlock \/ CompareHalves \/ CompareRest \/ BlocksEnd
  \/ ComparePair \/ PairsEnd
  \/ OpenWindow \/ WindowsEnd \/ ScanFinds \/ ScanByte \/ CloseWindow
  \/ WindowFound \/ ShiftWindow \/ SundayEnd

ByteStep ==
  \/ EnterIndexOf \/ IndexVector \/ IndexRest \/ IndexEnd
  \/ EnterCount \/ CountVector \/ CountEnd
  \/ EnterReverse \/ ReverseBlock \/ ReverseBlocksEnd \/ ReverseByte \/ ReverseEnd

Step == SubstringStep \/ ByteStep

Next ==
  \/ /\ pc = "idle"
     /\ \E s \in Strings, t \in Substrings :
          \/ Call("substring", s, t)
          \/ Len(t) = 1 /\ \E c \in {"index_of", "count", "reverse"} : Call(c, s, t)
  \/ Step

Spec == Init /\ [][Next]_vars /\ WF_vars(Step)

Locations == {"idle", "enter", "blocks", "pairs", "windows", "scan", "sunday", "index", "count",
              "reverse_blocks", "reverse", "done"}

TypeOK ==
  /\ call \in {"substring", "index_of", "count", "reverse"} /\ build \in Builds
  /\ string \in Seq(Byte) /\ substring \in Seq(Byte)
  /\ pc \in Locations /\ pos \in Int /\ D \subseteq Full /\ j \in Nat /\ last \in Nat
  /\ count \in Nat /\ res \in Int

-----------------------------------------------------------------------------
OccursAt(p) == p + m <= n /\ \A k \in 0 .. m - 1 : At(p + k) = Sub(k)
IsFirst(p) ==
  \/ p = -1 /\ (m > 0 => \A q \in 0 .. n - 1 : ~OccursAt(q))
  \/ p \in 0 .. n - 1 /\ OccursAt(p) /\ \A q \in 0 .. p - 1 : ~OccursAt(q)

(* Whichever algorithm the build and the lengths choose, and however far it *)
(* shifts: a search returns the first occurrence, or -1 where there is none. *)
FirstFound == pc = "done" /\ call \in {"substring", "index_of"} => IsFirst(res)

(* Every byte is counted once, in whatever vectors it is taken.             *)
CountExact ==
  pc = "done" /\ call = "count" => res = Len(SelectSeq(string, LAMBDA byte : byte = Item))

IsLast(p) ==
  \/ p = -1 /\ \A q \in 0 .. n - 1 : At(q) # Item
  \/ p \in 0 .. n - 1 /\ At(p) = Item /\ \A q \in p + 1 .. n - 1 : At(q) # Item

(* core.h of jsl_index_of_reverse: "index of the last match, or -1 when no  *)
(* match exists".                                                           *)
LastFound == pc = "done" /\ call = "reverse" => IsLast(res)

(* What holds of it in every build: without vectors it is the last match,   *)
(* with them at least a match.                                              *)
ReverseSound ==
  pc = "done" /\ call = "reverse" =>
    IF build.reverse = 0 THEN IsLast(res) ELSE res = -1 \/ At(res) = Item
=============================================================================
