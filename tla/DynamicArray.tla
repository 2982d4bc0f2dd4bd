----------------------------- MODULE DynamicArray ------------------------------
(***************************************************************************)
(* The array that generate_array.h writes (its dynamic_source_template):   *)
(* elements in one block of the allocator, which is reallocated to a power *)
(* of two when it is full.  Every allocation may fail.                     *)
(***************************************************************************)
EXTENDS Integers, Sequences

CONSTANTS
  Values,
  Chunks,            \* sequences of values for insert_multiple
  InitialCapacity,   \* a power of two; 32 in the code
  MaxCapacity,       \* bound: capacity the allocator can supply
  Garbage            \* what a new cell holds

ArrayArguments ==
  InitialCapacity \in Nat /\ MaxCapacity \in Nat \ {0} /\ InitialCapacity <= MaxCapacity /\ Chunks \subseteq Seq(Values)

VARIABLES
  valid,             \* the sentinel is in place
  data, length, capacity,
  blocks,            \* history: blocks of the allocator in use
  last               \* history: the last call, see AbstractSequence

vars == <<valid, data, length, capacity, blocks, last>>

Cells(n) == [0 .. n - 1 -> Values \cup {Garbage}]

TypeOK ==
  /\ valid \in BOOLEAN /\ capacity \in 0 .. MaxCapacity
  /\ length \in 0 .. capacity /\ data \in Cells(capacity)

Call(op, chunk, place, count, answer) ==
  last' = [op |-> op, chunk |-> chunk, place |-> place, count |-> count, answer |-> answer]

(* jsl_next_power_of_two_i64.  Of 1, which the code asks for only of an     *)
(* array whose init found no memory, it counts the leading zeros of 0: the  *)
(* builtin leaves that undefined, and any power of two can come back.       *)
PowersOfTwo == {p \in 1 .. MaxCapacity : \A d \in 2 .. p : p % d = 0 => d % 2 = 0}
NextPowersOfTwo(n) ==
  IF n = 1 THEN PowersOfTwo
  ELSE {p \in PowersOfTwo : p >= n /\ \A q \in PowersOfTwo : q >= n => p <= q}

(* What the block holds once it has its new capacity.                       *)
Ensured == [i \in 0 .. capacity' - 1 |-> IF i < capacity THEN data[i] ELSE Garbage]

(* {{ function_prefix }}__ensure_capacity, when it returns true.            *)
EnsureCapacity(needed) ==
  IF needed <= capacity THEN UNCHANGED <<capacity, blocks>>
  ELSE \E target \in NextPowersOfTwo(needed) :
         /\ target <= MaxCapacity /\ capacity' = target
         /\ blocks' = IF capacity > 0 THEN blocks ELSE blocks + 1

(* Init: with or without the memory for it.                                 *)
Init ==
  /\ valid = TRUE /\ length = 0
  /\ capacity \in {0, InitialCapacity} /\ blocks = (IF capacity = 0 THEN 0 ELSE 1)
  /\ data = [i \in 0 .. capacity - 1 |-> Garbage]
  /\ last = [op |-> "init", chunk |-> <<>>, place |-> 0, count |-> 0, answer |-> capacity > 0]

InitAgain ==
  /\ ~valid /\ valid' = TRUE /\ length' = 0
  /\ capacity' \in {0, InitialCapacity} /\ blocks' = IF capacity' = 0 THEN blocks ELSE blocks + 1
  /\ data' = [i \in 0 .. capacity' - 1 |-> Garbage]
  /\ Call("init", <<>>, 0, 0, capacity' > 0)

OutOfMemory(op, chunk, place) ==
  /\ valid /\ length + Len(chunk) > capacity /\ place <= length
  /\ Call(op, chunk, place, 0, FALSE)
  /\ UNCHANGED <<valid, data, length, capacity, blocks>>

Insert(v) ==
  /\ valid /\ EnsureCapacity(length + 1)
  /\ data' = [Ensured EXCEPT ![length] = v]
  /\ length' = length + 1
  /\ Call("append", <<v>>, length, 0, TRUE)
  /\ UNCHANGED valid

InsertMultiple(vs) ==
  /\ valid /\ EnsureCapacity(length + Len(vs))
  /\ data' = [i \in DOMAIN Ensured |->
                IF i \in length .. length + Len(vs) - 1 THEN vs[i - length + 1]
                ELSE Ensured[i]]
  /\ length' = length + Len(vs)
  /\ Call("append", vs, length, 0, TRUE)
  /\ UNCHANGED valid

(* JSL_MEMMOVE of count elements.                                           *)
Moved(cells, to, from, count) ==
  [i \in DOMAIN cells |-> IF i \in to .. to + count - 1 THEN cells[i - to + from] ELSE cells[i]]

InsertAt(v, index) ==
  /\ valid /\ index <= length /\ EnsureCapacity(length + 1)
  /\ data' = [Moved(Ensured, index + 1, index, length - index) EXCEPT ![index] = v]
  /\ length' = length + 1
  /\ Call("insert_at", <<v>>, index, 0, TRUE)
  /\ UNCHANGED valid

DeleteAt(index) ==
  /\ valid /\ index < length
  /\ data' = Moved(data, index, index + 1, length - index - 1)
  /\ length' = length - 1
  /\ Call("delete", <<>>, index, 1, TRUE)
  /\ UNCHANGED <<valid, capacity, blocks>>

InsertAtBadIndex(v, index) ==
  /\ valid /\ index > length
  /\ Call("insert_at", <<v>>, index, 0, FALSE)
  /\ UNCHANGED <<valid, data, length, capacity, blocks>>

DeleteAtBadIndex(index) ==
  /\ valid /\ index >= length
  /\ Call("delete", <<>>, index, 1, FALSE)
  /\ UNCHANGED <<valid, data, length, capacity, blocks>>

Clear ==
  /\ valid
  /\ length' = 0
  /\ Call("clear", <<>>, 0, 0, TRUE)
  /\ UNCHANGED <<valid, data, capacity, blocks>>

(* data keeps the address of the block given back.                          *)
Free ==
  /\ valid /\ valid' = FALSE
  /\ length' = 0 /\ capacity' = 0 /\ data' = <<>>
  /\ blocks' = IF capacity > 0 THEN blocks - 1 ELSE blocks
  /\ Call("free", <<>>, 0, 0, TRUE)

Indices == 0 .. MaxCapacity

Next ==
  \/ \E v \in Values :
       \/ Insert(v) \/ OutOfMemory("append", <<v>>, length)
       \/ \E i \in Indices : InsertAt(v, i) \/ InsertAtBadIndex(v, i) \/ OutOfMemory("insert_at", <<v>>, i)
  \/ \E vs \in Chunks : InsertMultiple(vs) \/ OutOfMemory("append", vs, length)
  \/ \E i \in Indices : DeleteAt(i) \/ DeleteAtBadIndex(i)
  \/ Clear \/ Free \/ InitAgain

Spec == Init /\ [][Next]_vars

-----------------------------------------------------------------------------
Contents == [i \in 1 .. length |-> data[i - 1]]

(* The array is the sequence its calls make, whatever was reallocated and   *)
(* moved, and no element of it is a cell that was never written.            *)
Promise == INSTANCE AbstractSequence WITH
             contents <- Contents, Chunks <- Chunks \cup {<<v>> : v \in Values}, MaxLength <- MaxCapacity
KeepsPromise == Promise!Spec

(* A valid array with a capacity owns exactly one block, an array that was  *)
(* freed none.                                                              *)
BlockAccounted == blocks = IF valid /\ capacity > 0 THEN 1 ELSE 0
=============================================================================
