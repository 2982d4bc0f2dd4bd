------------------------------ MODULE BumpLayout ------------------------------
(***************************************************************************)
(* The address arithmetic that allocator_arena.c and                       *)
(* allocator_infinite_arena.c share: where the next block of a bump        *)
(* allocator goes, and what it means that blocks lie apart.                *)
(***************************************************************************)
EXTENDS Integers

Header == 8   \* sizeof the allocation header, one int64_t

(* jsl_align_ptr_upwards, for an alignment that is a power of two.          *)
AlignUpwards(address, alignment) == ((address + alignment - 1) \div alignment) * alignment

EffectiveAlignment(alignment) == IF alignment > 8 THEN alignment ELSE 8

(* The address of a block that is allocated when the bump pointer is at     *)
(* current: its header goes right before it.                                *)
Place(current, alignment) == AlignUpwards(current + Header, EffectiveAlignment(alignment))

(* Two blocks with their headers, and a block inside a stretch of memory;   *)
(* a block ends where its header says.                                      *)
BlockEnd(b) == b.at + b.header
Apart(b, c) == BlockEnd(b) <= c.at - Header \/ BlockEnd(c) <= b.at - Header
Inside(b, from, to) == from <= b.at - Header /\ BlockEnd(b) <= to
=============================================================================
