-------------------------------- MODULE Numbers --------------------------------
(***************************************************************************)
(* The numbers of core.c: jsl_memory_to_u16, _i32 and _u32, which read a   *)
(* number from the front of a string, and the powers of two and multiples  *)
(* that the tables and the allocators round to.  Bytes are their codes;     *)
(* the types have Bits bits, and integers outside of the type are not       *)
(* computed with: the calls that need them are left out of what is asked.   *)
(*                                                                         *)
(* The loop over the zeros reads the byte behind a string that ends in      *)
(* them before it compares the index with the length; what that byte is     *)
(* makes no difference, so it is not modelled.                              *)
(***************************************************************************)
EXTENDS Integers, Sequences, FiniteSetsExt

CONSTANTS
  Strings,    \* the strings that are read
  Bits,       \* the width of the types
  None        \* *result before it is written

VARIABLES
  call,       \* what is called
  str, i, parsed_val, negative, result,
  x, shift,   \* the number to round, and the next shift of the loop over its bits
  pc, res

reading == <<str, i, parsed_val, negative, result>>
rounding == <<x, shift>>
vars == <<call, reading, rounding, pc, res>>

MaxUnsigned == 2 ^ Bits - 1
MaxSigned == 2 ^ (Bits - 1) - 1
Unsigned == 0 .. MaxUnsigned
Signed == -MaxSigned - 1 .. MaxSigned

UNEXPECTED_CHARACTER == -1
UNDERFLOW == -2
OVERFLOW == -3

Init ==
  /\ call = "unsigned" /\ str = <<>> /\ i = 0 /\ parsed_val = 0 /\ negative = FALSE /\ result = None
  /\ x = 0 /\ shift = 0 /\ pc = "idle" /\ res = 0

Goto(location) == pc' = location /\ UNCHANGED <<call, str, rounding, res>>
Return(r) == pc' = "done" /\ res' = r /\ UNCHANGED <<call, str, rounding>>

-----------------------------------------------------------------------------
(* A string is read as a signed or as an unsigned number.                   *)
Read(c, s) ==
  /\ call' = c /\ str' = s /\ i' = 0 /\ parsed_val' = 0 /\ negative' = FALSE /\ result' = None
  /\ pc' = "sign" /\ res' = 0 /\ UNCHANGED rounding

Char(k) == str[k + 1]
Digit(byte) == (byte - 48) % 256
IsDigit(byte) == Digit(byte) <= 9
Minus == 45
Plus == 43

EmptyRead ==
  /\ pc = "sign" /\ Len(str) < 1
  /\ Return(0) /\ UNCHANGED <<i, parsed_val, negative, result>>

ReadSign ==
  /\ pc = "sign" /\ Len(str) >= 1
  /\ LET signed == call = "signed" /\ Char(0) \in {Minus, Plus}
     IN  /\ i' = IF signed THEN 1 ELSE 0
         /\ negative' = (signed /\ Char(0) = Minus)
  /\ Goto("zeros") /\ UNCHANGED <<parsed_val, result>>

SkipZero ==
  /\ pc = "zeros" /\ i < Len(str) /\ Char(i) = 48
  /\ i' = i + 1
  /\ Goto("zeros") /\ UNCHANGED <<parsed_val, negative, result>>

ZerosEnd ==
  /\ pc = "zeros" /\ (i < Len(str) => Char(i) # 48)
  /\ Goto("digits") /\ UNCHANGED <<i, parsed_val, negative, result>>

AtDigit == i < Len(str) /\ IsDigit(Char(i))
Longer == parsed_val * 10 + Digit(Char(i))

(* Mutant: the limit of the negative numbers is that of the positive ones.  *)
LimitAnySign == IF call = "unsigned" THEN MaxUnsigned ELSE MaxSigned

Limit == IF call = "unsigned" THEN MaxUnsigned ELSE IF negative THEN MaxSigned + 1 ELSE MaxSigned

ReadDigit ==
  /\ pc = "digits" /\ AtDigit /\ Longer <= Limit
  /\ parsed_val' = Longer /\ i' = i + 1
  /\ Goto("digits") /\ UNCHANGED <<negative, result>>

TooLong ==
  /\ pc = "digits" /\ AtDigit /\ Longer > Limit
  /\ parsed_val' = Longer
  /\ Return(IF negative THEN UNDERFLOW ELSE OVERFLOW)
  /\ UNCHANGED <<i, negative, result>>

ReadEnds ==
  /\ pc = "digits" /\ ~AtDigit
  /\ result' = IF i = 0 THEN None ELSE IF negative THEN -parsed_val ELSE parsed_val
  /\ Return(IF i = 0 THEN UNEXPECTED_CHARACTER ELSE i)
  /\ UNCHANGED <<i, parsed_val, negative>>

-----------------------------------------------------------------------------
(* The powers of two, without the compiler's count of leading zeros: the    *)
(* highest bit is copied to all below it.                                   *)
BitsOf(number) == {b \in 0 .. Bits - 1 : (number \div 2 ^ b) % 2 = 1}
Number(bits) == SumSet({2 ^ b : b \in bits})
Smeared(number, by) == Number(BitsOf(number) \cup BitsOf(number \div 2 ^ by))

Round(c, number) ==
  /\ call' = c /\ x' = number /\ shift' = 1
  /\ pc' = (CASE c = "next" -> "smear" [] c = "previous" -> "smear" [] OTHER -> "leading")
  /\ res' = IF c = "next" THEN number - 1 ELSE number
  /\ UNCHANGED reading

Smear ==
  /\ pc = "smear" /\ shift < Bits
  /\ res' = Smeared(res, shift) /\ shift' = 2 * shift
  /\ UNCHANGED <<call, reading, x, pc>>

NextPower ==
  /\ pc = "smear" /\ shift >= Bits /\ call = "next"
  /\ pc' = "done" /\ res' = res + 1
  /\ UNCHANGED <<call, reading, rounding>>

PreviousPower ==
  /\ pc = "smear" /\ shift >= Bits /\ call = "previous"
  /\ pc' = "done" /\ res' = res - res \div 2
  /\ UNCHANGED <<call, reading, rounding>>

(* With it: it is not defined for 0.                                        *)
LeadingZeros(number) == Bits - 1 - Max(BitsOf(number))

NextPowerBuiltin ==
  /\ pc = "leading" /\ call = "next_builtin"
  /\ pc' = "done" /\ res' = 2 ^ (Bits - LeadingZeros(x - 1))
  /\ UNCHANGED <<call, reading, rounding>>

PreviousPowerBuiltin ==
  /\ pc = "leading" /\ call = "previous_builtin"
  /\ pc' = "done" /\ res' = 2 ^ (Bits - 1 - LeadingZeros(x))
  /\ UNCHANGED <<call, reading, rounding>>

(* jsl_round_up_i32 and _i64, with the remainder of C, whose sign is that   *)
(* of the number; shift holds the multiple.                                 *)
Magnitude(number) == IF number >= 0 THEN number ELSE -number
Remainder(number, by) ==
  LET rest == Magnitude(number) % Magnitude(by) IN IF number >= 0 THEN rest ELSE -rest

RoundUp(number, multiple_of) ==
  IF multiple_of = 0 \/ Remainder(number, multiple_of) = 0 THEN number
  ELSE LET remainder == Remainder(number, multiple_of)
           opposed == (multiple_of > 0) # (remainder > 0)
       IN  number - (IF opposed THEN remainder + multiple_of ELSE remainder) + multiple_of

RoundUpTo(number, multiple_of) ==
  /\ call' = "round_up" /\ x' = number /\ shift' = multiple_of
  /\ pc' = "done" /\ res' = RoundUp(number, multiple_of)
  /\ UNCHANGED reading

-----------------------------------------------------------------------------
Step ==
  \/ EmptyRead \/ ReadSign \/ SkipZero \/ ZerosEnd \/ ReadDigit \/ TooLong \/ ReadEnds
  \/ Smear \/ NextPower \/ PreviousPower \/ NextPowerBuiltin \/ PreviousPowerBuiltin

(* One call per behaviour, of the arguments core.h allows.                  *)
Next ==
  \/ pc = "idle" /\ \E s \in Strings, c \in {"unsigned", "signed"} : Read(c, s)
  \/ pc = "idle" /\ \E number \in 2 .. 2 ^ (Bits - 1), c \in {"next", "next_builtin"} : Round(c, number)
  \/ pc = "idle" /\ \E number \in 1 .. MaxUnsigned, c \in {"previous", "previous_builtin"} : Round(c, number)
  \/ pc = "idle" /\ \E number, multiple_of \in Signed :
       number + multiple_of \in Signed /\ RoundUpTo(number, multiple_of)
  \/ Step

Spec == Init /\ [][Next]_vars /\ WF_vars(Step)

TypeOK ==
  /\ call \in {"unsigned", "signed", "next", "next_builtin", "previous", "previous_builtin", "round_up"}
  /\ str \in Seq(0 .. 255) /\ i \in 0 .. Len(str) /\ negative \in BOOLEAN
  /\ parsed_val \in 0 .. 10 * MaxUnsigned + 9
  /\ result \in Signed \cup Unsigned \cup {None}
  /\ x \in Signed \cup Unsigned /\ shift \in Int
  /\ pc \in {"idle", "sign", "zeros", "digits", "smear", "leading", "done"}
  /\ res \in Int

-----------------------------------------------------------------------------
(* The digits after the sign, and the number they are, of any size.         *)
Signs == IF call = "signed" /\ str # <<>> /\ Char(0) \in {Minus, Plus} THEN 1 ELSE 0
Numerals == Max({k \in 0 .. Len(str) - Signs : \A d \in Signs .. Signs + k - 1 : IsDigit(Char(d))})
Numeral ==
  LET Value[k \in 0 .. Numerals] ==
        IF k = 0 THEN 0 ELSE Digit(Char(Signs + k - 1)) * 10 ^ (Numerals - k) + Value[k - 1]
  IN  Value[Numerals]
IsNegative == Signs = 1 /\ Char(0) = Minus
InType ==
  IF call = "unsigned" THEN Numeral \in Unsigned
  ELSE (IF IsNegative THEN -Numeral ELSE Numeral) \in Signed

(* The number at the front of the string is read whole and is what its      *)
(* digits say, the extremes of the type included; of a number outside of    *)
(* the type and of no number nothing is written.                            *)
ReadExact ==
  pc = "done" /\ call \in {"signed", "unsigned"} =>
    CASE str = <<>> -> res = 0 /\ result = None
      [] str # <<>> /\ Signs + Numerals = 0 -> res = UNEXPECTED_CHARACTER /\ result = None
      [] Signs + Numerals > 0 /\ ~InType ->
           result = None /\ res = IF IsNegative THEN UNDERFLOW ELSE OVERFLOW
      [] Signs + Numerals > 0 /\ InType ->
           result = (IF IsNegative THEN -Numeral ELSE Numeral) /\ res = Signs + Numerals

Powers == {2 ^ b : b \in 0 .. Bits - 1}

(* Both builds agree on the power of two, the next at most one below the    *)
(* width of the type, and rounding finds the next multiple, also below 0,   *)
(* upwards for a positive one and downwards for a negative one.             *)
RoundingExact ==
  pc = "done" =>
    /\ call \in {"next", "next_builtin"} => res = Min({p \in Powers : p >= x})
    /\ call \in {"previous", "previous_builtin"} => res = Max({p \in Powers : p <= x})
    /\ call = "round_up" =>
         IF shift = 0 THEN res = x
         ELSE /\ Remainder(res, shift) = 0
              /\ res \in IF shift > 0 THEN x .. x + shift - 1 ELSE x + shift + 1 .. x
=============================================================================
