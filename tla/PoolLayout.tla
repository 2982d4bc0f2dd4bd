------------------------------ MODULE PoolLayout ------------------------------
(***************************************************************************)
(* Where jsl_pool_init2 of allocator_pool.c puts the chunks of a pool: the *)
(* address arithmetic of its loop, for one choice of the memory and of the *)
(* allocation size.  What becomes of the chunks is module PoolAllocator.   *)
(***************************************************************************)
EXTENDS Integers, Sequences

CONSTANTS Starts, Lengths, Sizes   \* the arguments of init2

ArgumentsAssumption ==
  Starts \subseteq Nat /\ Lengths \subseteq Nat /\ Sizes \subseteq Nat \ {0}

Header == 32   \* sizeof(struct JSL__PoolAllocatorHeader)

VARIABLES
  memory_start, memory_end, allocation_size,
  cursor,       \* memory_cursor.data
  remaining,    \* memory_cursor.length
  chunks,       \* addresses of the allocations, in the order of the pushes
  chunk_count,
  done

arguments == <<memory_start, memory_end, allocation_size>>
vars == <<arguments, cursor, remaining, chunks, chunk_count, done>>

TypeOK ==
  /\ memory_start \in Nat /\ memory_end \in Nat /\ allocation_size \in Sizes
  /\ cursor \in memory_start .. memory_end
  /\ remaining \in Nat /\ cursor + remaining = memory_end
  /\ chunks \in Seq(Nat)
  /\ chunk_count \in Nat
  /\ done \in BOOLEAN

Init ==
  /\ memory_start \in Starts
  /\ \E length \in Lengths :
       /\ memory_end = memory_start + length
       /\ remaining = length
  /\ allocation_size \in Sizes
  /\ cursor = memory_start
  /\ chunks = <<>> /\ chunk_count = 0 /\ done = FALSE

Alignment ==
  IF allocation_size >= 2048 THEN 4096 ELSE IF allocation_size > 64 THEN 64 ELSE 8

(* jsl_align_ptr_upwards_uintptr, for an alignment that is a power of two.  *)
AlignUpwards(address, alignment) == ((address + alignment - 1) \div alignment) * alignment

NextChunk == AlignUpwards(cursor + Header, Alignment)

Another == remaining >= allocation_size + Header

(* The chunk is pushed on the free list before its end is compared with the *)
(* end of the memory.                                                       *)
PushChunk ==
  /\ ~done /\ Another
  /\ LET end == NextChunk + allocation_size IN
       /\ chunks' = Append(chunks, NextChunk)
       /\ IF end <= memory_end
          THEN /\ cursor' = end
               /\ remaining' = remaining - (end - cursor)
               /\ chunk_count' = chunk_count + 1
               /\ UNCHANGED done
          ELSE done' = TRUE /\ UNCHANGED <<cursor, remaining, chunk_count>>
  /\ UNCHANGED arguments

Finish ==
  /\ ~done /\ ~Another
  /\ done' = TRUE
  /\ UNCHANGED <<arguments, cursor, remaining, chunks, chunk_count>>

Next == PushChunk \/ Finish

Spec == Init /\ [][Next]_vars

-----------------------------------------------------------------------------
(* Headers and allocations do not overlap, the first header is inside the   *)
(* memory, and only the last chunk may end past it; chunk_count leaves just *)
(* that one out.                                                            *)
ChunksApart ==
  /\ \A k \in 1 .. Len(chunks) :
       chunks[k] - Header >= IF k = 1 THEN memory_start ELSE chunks[k - 1] + allocation_size
  /\ \A k \in 1 .. Len(chunks) : k <= chunk_count <=> chunks[k] + allocation_size <= memory_end
  /\ chunk_count \in {Len(chunks), Len(chunks) - 1}

(* jsl_pool_free of allocator_pool.h: it "returns true if this allocation   *)
(* is owned by the pool and was outstanding", so every chunk passes the     *)
(* bounds test of jsl_pool_free.                                            *)
EveryChunkFreeable ==
  \A k \in 1 .. Len(chunks) : chunks[k] >= memory_start /\ chunks[k] < memory_end
=============================================================================
