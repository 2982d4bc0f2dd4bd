----------------------------- MODULE StringBuilder -----------------------------
(***************************************************************************)
(* string_builder.c: bytes in one block of the allocator, which is         *)
(* reallocated to a power of two when an append needs more room.  An       *)
(* output sink appends on behalf of the formatter and cannot report that   *)
(* there was no memory.                                                    *)
(***************************************************************************)
EXTENDS Integers, Sequences

CONSTANTS
  Byte,
  Strings,           \* what one append or write of the sink adds
  InitialCapacity,   \* a power of two; 32 in the code
  MaxCapacity        \* bound: capacity the allocator can supply

BuilderArguments ==
  InitialCapacity \in Nat /\ MaxCapacity \in Nat /\ InitialCapacity <= MaxCapacity /\ Strings \subseteq Seq(Byte)

VARIABLES
  valid,             \* the sentinel is in place
  data,              \* the bytes up to length
  capacity,
  blocks,            \* history: blocks of the allocator in use
  last               \* history: the last call, see AbstractSequence

vars == <<valid, data, capacity, blocks, last>>

length == Len(data)

Call(op, chunk, place, count, answer) ==
  last' = [op |-> op, chunk |-> chunk, place |-> place, count |-> count, answer |-> answer]

(* jsl_next_power_of_two_i64, see DynamicArray.                             *)
PowersOfTwo == {p \in 1 .. MaxCapacity : \A d \in 2 .. p : p % d = 0 => d % 2 = 0}
NextPowersOfTwo(n) ==
  IF n = 1 THEN PowersOfTwo
  ELSE {p \in PowersOfTwo : p >= n /\ \A q \in PowersOfTwo : q >= n => p <= q}

Init ==
  /\ valid = TRUE /\ data = <<>>
  /\ capacity \in {0, InitialCapacity} /\ blocks = (IF capacity = 0 THEN 0 ELSE 1)
  /\ last = [op |-> "init", chunk |-> <<>>, place |-> 0, count |-> 0, answer |-> capacity > 0]

InitAgain ==
  /\ ~valid /\ valid' = TRUE /\ data' = <<>>
  /\ capacity' \in {0, InitialCapacity} /\ blocks' = IF capacity' = 0 THEN blocks ELSE blocks + 1
  /\ Call("init", <<>>, 0, 0, capacity' > 0)

(* jsl_string_builder__ensure_capacity, when it returns true.               *)
EnsureCapacity(needed) ==
  IF needed <= capacity THEN UNCHANGED <<capacity, blocks>>
  ELSE \E target \in NextPowersOfTwo(needed) :
         /\ target <= MaxCapacity /\ capacity' = target
         /\ blocks' = IF capacity > 0 THEN blocks ELSE blocks + 1

AppendString(s) ==
  /\ valid /\ EnsureCapacity(length + Len(s))
  /\ data' = data \o s
  /\ Call("append", s, length, 0, TRUE)
  /\ UNCHANGED valid

AppendOutOfMemory(s) ==
  /\ valid /\ length + Len(s) > capacity
  /\ Call("append", s, length, 0, FALSE)
  /\ UNCHANGED <<valid, data, capacity, blocks>>

(* The write of the sink is an append whose result is dropped.              *)
SinkWrite(s) == AppendString(s) \/ AppendOutOfMemory(s)

Delete(index, count) ==
  /\ valid
  /\ IF count > 0 /\ index + count <= length
     THEN /\ data' = SubSeq(data, 1, index) \o SubSeq(data, index + count + 1, length)
          /\ Call("delete", <<>>, index, count, TRUE)
     ELSE UNCHANGED data /\ Call("delete", <<>>, index, count, FALSE)
  /\ UNCHANGED <<valid, capacity, blocks>>

Clear ==
  /\ valid
  /\ data' = <<>>
  /\ Call("clear", <<>>, 0, 0, TRUE)
  /\ UNCHANGED <<valid, capacity, blocks>>

Free ==
  /\ valid /\ valid' = FALSE
  /\ data' = <<>> /\ capacity' = 0
  /\ blocks' = IF capacity > 0 THEN blocks - 1 ELSE blocks
  /\ Call("free", <<>>, 0, 0, TRUE)

Next ==
  \/ \E s \in Strings : SinkWrite(s)
  \/ \E i \in 0 .. MaxCapacity, n \in 0 .. MaxCapacity : Delete(i, n)
  \/ Clear \/ Free \/ InitAgain

Spec == Init /\ [][Next]_vars

-----------------------------------------------------------------------------
(* The string is what its calls make of it.                                 *)
Promise == INSTANCE AbstractSequence WITH contents <- data, Chunks <- Strings, MaxLength <- MaxCapacity
KeepsPromise == Promise!Spec

(* No byte is written behind the block, and there is one block exactly if   *)
(* there is room for any.                                                   *)
InsideTheBlock ==
  /\ length <= capacity
  /\ blocks = IF capacity > 0 THEN 1 ELSE 0
=============================================================================
