-------------------------------- MODULE Unicode --------------------------------
(***************************************************************************)
(* The two conversions a command line goes through in cmd_line.c before it *)
(* is parsed: an argument of bytes is validated as UTF-8, one character at *)
(* a time, and an argument of wchar_t is turned into UTF-8 in two passes,  *)
(* one that counts the bytes and one that writes them into an allocation   *)
(* of that size.  wchar_t has 16 or 32 bits.                               *)
(***************************************************************************)
EXTENDS Naturals, Sequences

CONSTANTS
  ByteStrings,   \* the arguments of bytes
  WideStrings    \* the arguments of wchar_t: [bits, units]

WideUnits ==
  \A w \in WideStrings : w.bits \in {16, 32} /\ w.units \in Seq(Nat \ {0})

VARIABLES
  pc, str, index, res,
  bits, total_bytes, written

vars == <<pc, str, index, res, bits, total_bytes, written>>

Init ==
  /\ pc = "idle" /\ str = <<>> /\ index = 0 /\ res = FALSE
  /\ bits = 8 /\ total_bytes = 0 /\ written = <<>>

Surrogates == 55296 .. 57343          \* D800 .. DFFF
HighSurrogates == 55296 .. 56319      \* D800 .. DBFF
LowSurrogates == 56320 .. 57343       \* DC00 .. DFFF

-----------------------------------------------------------------------------
(* jsl__cmd_line_args_validate_utf8.                                        *)
Validate(s) ==
  /\ pc = "idle"
  /\ pc' = "validate" /\ str' = s /\ index' = 1 /\ res' = FALSE
  /\ UNCHANGED <<bits, total_bytes, written>>

Validating == pc = "validate" /\ index <= Len(str)
Byte == str[index]
Behind(n) == str[index + n]
Remaining == Len(str) - index + 1
Continues(b) == b \div 64 = 2

Accepts(n) == index' = index + n /\ UNCHANGED <<pc, str, res, bits, total_bytes, written>>
Refuses == pc' = "done" /\ res' = FALSE /\ UNCHANGED <<str, index, bits, total_bytes, written>>

OneByte == Validating /\ Byte <= 127 /\ Accepts(1)

TwoBytes ==
  /\ Validating /\ Byte \div 32 = 6
  /\ IF Remaining >= 2 /\ Byte >= 194 /\ Continues(Behind(1)) THEN Accepts(2) ELSE Refuses

ThreeBytes ==
  /\ Validating /\ Byte \div 16 = 14
  /\ IF /\ Remaining >= 3 /\ Continues(Behind(1)) /\ Continues(Behind(2))
        /\ ~(Byte = 224 /\ Behind(1) < 160)
        /\ ~(Byte = 237 /\ Behind(1) >= 160)
     THEN Accepts(3) ELSE Refuses

SecondOf(lead) ==
  CASE lead = 240 -> 144 .. 191
    [] lead = 244 -> 128 .. 143
    [] OTHER      -> 128 .. 191

FourBytes ==
  /\ Validating /\ Byte \div 8 = 30
  /\ IF /\ Remaining >= 4 /\ Behind(1) \in SecondOf(Byte) /\ Continues(Behind(2)) /\ Continues(Behind(3))
        /\ Byte <= 244
     THEN Accepts(4) ELSE Refuses

NoLead == Validating /\ (Byte \div 64 = 2 \/ Byte >= 248) /\ Refuses

Validated ==
  /\ pc = "validate" /\ index > Len(str)
  /\ pc' = "done" /\ res' = TRUE
  /\ UNCHANGED <<str, index, bits, total_bytes, written>>

-----------------------------------------------------------------------------
(* jsl__cmd_line_args_utf16_to_utf8.  The string ends with a 0, which a     *)
(* high surrogate at its end is compared with.                              *)
Convert(w) ==
  /\ pc = "idle"
  /\ pc' = "count" /\ str' = w.units /\ bits' = w.bits /\ index' = 1
  /\ total_bytes' = 0 /\ written' = <<>> /\ res' = FALSE

Unit == str[index]
NextUnit == IF index < Len(str) THEN str[index + 1] ELSE 0
IsPair == bits = 16 /\ Unit \in HighSurrogates
Codepoint == IF IsPair THEN 65536 + (Unit - 55296) * 1024 + (NextUnit - 56320) ELSE Unit
Consumed == IF IsPair THEN 2 ELSE 1

Representable ==
  IF bits = 16
  THEN (IsPair => NextUnit \in LowSurrogates) /\ Unit \notin LowSurrogates
  ELSE Unit \notin Surrogates /\ Unit <= 1114111

BytesOf(c) == IF c <= 127 THEN 1 ELSE IF c <= 2047 THEN 2 ELSE IF c <= 65535 THEN 3 ELSE 4

CountUnit ==
  /\ pc = "count" /\ index <= Len(str) /\ Representable
  /\ total_bytes' = total_bytes + BytesOf(Codepoint)
  /\ index' = index + Consumed
  /\ UNCHANGED <<pc, str, bits, written, res>>

CannotConvert ==
  /\ pc = "count" /\ index <= Len(str) /\ ~Representable
  /\ Refuses

(* No memory is found, or none is asked for: no block has 0 bytes.          *)
NoAllocation == pc = "count" /\ index > Len(str) /\ Refuses

Allocated ==
  /\ pc = "count" /\ index > Len(str) /\ total_bytes > 0
  /\ pc' = "write" /\ index' = 1
  /\ UNCHANGED <<str, bits, total_bytes, written, res>>

Continuation(c, shift) == 128 + ((c \div shift) % 64)

Encoded(c) ==
  CASE c <= 127   -> <<c>>
    [] c \in 128 .. 2047   -> <<192 + c \div 64, Continuation(c, 1)>>
    [] c \in 2048 .. 65535 -> <<224 + c \div 4096, Continuation(c, 64), Continuation(c, 1)>>
    [] c > 65535  -> <<240 + c \div 262144, Continuation(c, 4096), Continuation(c, 64),
                       Continuation(c, 1)>>

WriteUnit ==
  /\ pc = "write" /\ index <= Len(str)
  /\ written' = written \o Encoded(Codepoint)
  /\ index' = index + Consumed
  /\ UNCHANGED <<pc, str, bits, total_bytes, res>>

Converted ==
  /\ pc = "write" /\ index > Len(str)
  /\ pc' = "done" /\ res' = TRUE
  /\ UNCHANGED <<str, index, bits, total_bytes, written>>

Step ==
  \/ OneByte \/ TwoBytes \/ ThreeBytes \/ FourBytes \/ NoLead \/ Validated
  \/ CountUnit \/ CannotConvert \/ NoAllocation \/ Allocated \/ WriteUnit \/ Converted

(* One string is converted per behaviour.                                  *)
Strings(S) == IF pc = "idle" THEN S ELSE {}

Next ==
  \/ \E s \in Strings(ByteStrings) : Validate(s)
  \/ \E w \in Strings(WideStrings) : Convert(w)
  \/ Step

Spec == Init /\ [][Next]_vars /\ WF_vars(Step)

TypeOK ==
  /\ pc \in {"idle", "validate", "count", "write", "done"}
  /\ bits \in {8, 16, 32} /\ str \in Seq(Nat) /\ index \in 0 .. Len(str) + 1
  /\ res \in BOOLEAN /\ total_bytes \in 0 .. 4 * Len(str) /\ written \in Seq(0 .. 255)

-----------------------------------------------------------------------------
(* The Unicode standard: a character is a scalar value, encoded in the      *)
(* shortest form, its lead byte saying how long that is.                    *)
Leads(n) == CASE n = 1 -> 0 .. 127 [] n = 2 -> 192 .. 223 [] n = 3 -> 224 .. 239 [] n = 4 -> 240 .. 247
Smallest(n) == CASE n = 1 -> 0 [] n = 2 -> 128 [] n = 3 -> 2048 [] n = 4 -> 65536
Payload(b) ==
  CASE Len(b) = 1 -> b[1]
    [] Len(b) = 2 -> (b[1] - 192) * 64 + (b[2] - 128)
    [] Len(b) = 3 -> ((b[1] - 224) * 64 + (b[2] - 128)) * 64 + (b[3] - 128)
    [] Len(b) = 4 -> (((b[1] - 240) * 64 + (b[2] - 128)) * 64 + (b[3] - 128)) * 64 + (b[4] - 128)
IsCharacter(b) ==
  /\ Head(b) \in Leads(Len(b)) /\ \A i \in 2 .. Len(b) : b[i] \in 128 .. 191
  /\ Payload(b) \in Smallest(Len(b)) .. 1114111 /\ Payload(b) \notin Surrogates

(* The characters of a string of bytes, None if it is not made of them.     *)
None == <<1114112>>
CharactersFrom(b) ==
  LET From[i \in 1 .. Len(b) + 1] ==
        LET Lengths == {n \in 1 .. 4 : i + n - 1 <= Len(b) /\ IsCharacter(SubSeq(b, i, i + n - 1))}
            n == CHOOSE k \in Lengths : TRUE
            rest == From[i + n]
        IN  IF i > Len(b) THEN <<>>
            ELSE IF Lengths = {} \/ rest = None THEN None
            ELSE <<Payload(SubSeq(b, i, i + n - 1))>> \o rest
  IN  From[1]

(* The characters of a string of units.                                     *)
UnitCharacters ==
  LET From[i \in 1 .. Len(str) + 2] ==
        IF i > Len(str) THEN <<>>
        ELSE LET pair == bits = 16 /\ str[i] \in HighSurrogates /\ i < Len(str) /\ str[i + 1] \in LowSurrogates
                 c == IF pair THEN ((str[i] % 1024) * 1024) + (str[i + 1] % 1024) + 65536 ELSE str[i]
                 rest == From[IF pair THEN i + 2 ELSE i + 1]
             IN  IF c \in Surrogates \/ c > 1114111 \/ rest = None THEN None ELSE <<c>> \o rest
  IN  From[1]

(* Exactly the well-formed strings pass: no overlong form, no surrogate,    *)
(* nothing beyond U+10FFFF, nothing cut short.                              *)
ValidationExact ==
  pc = "done" /\ bits = 8 => (res <=> CharactersFrom(str) # None)

(* A conversion succeeds only for a string of characters, and what it wrote *)
(* is those characters.                                                     *)
ConversionExact ==
  pc = "done" /\ bits # 8 /\ res => UnitCharacters # None /\ CharactersFrom(written) = UnitCharacters

(* The pass that writes stays inside the block the pass that counts asked   *)
(* for, and fills it.                                                       *)
PassesAgree ==
  /\ Len(written) <= total_bytes
  /\ pc = "done" /\ bits # 8 /\ res => Len(written) = total_bytes
=============================================================================
