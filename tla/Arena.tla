--------------------------------- MODULE Arena ---------------------------------
(***************************************************************************)
(* allocator_arena.c: a bump allocator in memory the caller gives, with    *)
(* the blocks its users hold.  Users follow the manual: a block is theirs  *)
(* until they free it, move it by a reallocation, or rewind the arena to a *)
(* point saved before they got it or last resized it.  Memory is counted   *)
(* in bytes; a saved point is used by one user at a time.                  *)
(***************************************************************************)
EXTENDS BumpLayout, FiniteSets

CONSTANTS
  Starts, Length,  \* the memory given to init: its addresses and its length
  Guards,          \* JSL__ASAN_GUARD_SIZE, 0 in a build without ASAN
  Sizes,           \* numbers of bytes asked for
  Alignments,      \* powers of two
  MaxBlocks,       \* bound: blocks in use at a time
  NoPoint

ArenaArguments ==
  /\ Starts \subseteq Nat /\ Length \in Nat /\ Guards \subseteq Nat
  /\ Sizes \subseteq Int /\ Alignments \subseteq Nat \ {0}
  /\ NoPoint \notin Nat

VARIABLES
  start, guard,
  current,
  blocks,     \* blocks in use: address, bytes promised, length in the header, whose
  saved,      \* restore point, or NoPoint
  survivors   \* the blocks that were in use when it was saved, as they were

memory == <<start, guard>>
vars == <<memory, current, blocks, saved, survivors>>

end == start + Length
Block(at, len, header, owner) == [at |-> at, len |-> len, header |-> header, owner |-> owner]
Owners == {"parent", "child"}

TypeOK ==
  /\ start \in Starts /\ guard \in Guards
  /\ current \in start .. end
  /\ blocks \subseteq [at : Nat, len : Nat \ {0}, header : Nat \ {0}, owner : Owners]
  /\ saved \in Nat \cup {NoPoint}
  /\ survivors \subseteq [at : Nat, len : Nat \ {0}, header : Nat \ {0}, owner : Owners]

(* jsl_arena_init, jsl_arena_init2 and JSL_ARENA_FROM_STACK.                *)
Init ==
  /\ start \in Starts /\ guard \in Guards
  /\ current = start
  /\ blocks = {} /\ saved = NoPoint /\ survivors = {}

-----------------------------------------------------------------------------
Fits(bytes, alignment) ==
  bytes >= 1 /\ Place(current, alignment) + bytes + guard <= end

(* jsl_arena_allocate_aligned, by the parent interface or a child's, which  *)
(* share the arena.                                                         *)
Allocate(bytes, alignment, owner) ==
  /\ Fits(bytes, alignment)
  /\ LET b == Block(Place(current, alignment), bytes, bytes, owner) IN
       /\ blocks' = blocks \cup {b}
       /\ current' = b.at + bytes + guard
  /\ UNCHANGED <<memory, saved, survivors>>

AllocateFails(bytes, alignment) ==
  /\ ~Fits(bytes, alignment)
  /\ UNCHANGED <<memory, current, blocks, saved, survivors>>

(* jsl_arena_reallocate_aligned: the last block is resized where it is, any *)
(* other is copied.  An address without the alignment asked for is refused. *)
AlignedFor(b, alignment) == b.at % EffectiveAlignment(alignment) = 0

Last(b) == current \in {BlockEnd(b), BlockEnd(b) + guard}

ReallocateInPlace(b, bytes, alignment) ==
  /\ bytes >= 1 /\ AlignedFor(b, alignment) /\ Last(b)
  /\ b.at + bytes + guard <= end
  /\ LET resized == Block(b.at, bytes, bytes, b.owner) IN
       /\ blocks' = (blocks \ {b}) \cup {resized}
       /\ current' = b.at + bytes + guard
  /\ UNCHANGED <<memory, saved, survivors>>

ReallocateMoves(b, bytes, alignment) ==
  /\ AlignedFor(b, alignment) /\ Fits(bytes, alignment)
  /\ ~(Last(b) /\ b.at + bytes + guard <= end)
  /\ LET moved == Block(Place(current, alignment), bytes, bytes, b.owner) IN
       /\ blocks' = (blocks \ {b}) \cup {moved}
       /\ current' = moved.at + bytes + guard
  /\ UNCHANGED <<memory, saved, survivors>>

ReallocateFails(b, bytes, alignment) ==
  /\ \/ bytes < 1 \/ ~AlignedFor(b, alignment)
     \/ ~(Last(b) /\ b.at + bytes + guard <= end) /\ ~Fits(bytes, alignment)
  /\ UNCHANGED <<memory, current, blocks, saved, survivors>>

-----------------------------------------------------------------------------
(* jsl__alloc_interface_free and jsl__alloc_interface_child_free: the arena *)
(* does not change, the user forgets the block.                             *)
Free(b) ==
  /\ blocks' = blocks \ {b}
  /\ UNCHANGED <<memory, current, saved, survivors>>

(* free_all of a child does nothing to the arena.                           *)
ChildFreeAll ==
  /\ blocks' = {b \in blocks : b.owner = "parent"}
  /\ UNCHANGED <<memory, current, saved, survivors>>

(* jsl_arena_reset, also as free_all of the parent interface.               *)
Reset ==
  /\ current' = start
  /\ blocks' = {} /\ saved' = NoPoint /\ survivors' = {}
  /\ UNCHANGED memory

SaveRestorePoint ==
  /\ saved' = current /\ survivors' = blocks
  /\ UNCHANGED <<memory, current, blocks>>

(* A point past the bump pointer, left by a block shrunk in the meantime,   *)
(* is refused.                                                              *)
LoadRestorePoint ==
  /\ saved # NoPoint /\ saved <= current
  /\ current' = saved
  /\ blocks' = blocks \cap survivors
  /\ UNCHANGED <<memory, saved, survivors>>

-----------------------------------------------------------------------------
Next ==
  \/ \E bytes \in Sizes, alignment \in Alignments :
       \/ \E owner \in Owners : Cardinality(blocks) < MaxBlocks /\ Allocate(bytes, alignment, owner)
       \/ AllocateFails(bytes, alignment)
       \/ \E b \in blocks :
            \/ ReallocateInPlace(b, bytes, alignment)
            \/ ReallocateMoves(b, bytes, alignment)
            \/ ReallocateFails(b, bytes, alignment)
  \/ \E b \in blocks : Free(b)
  \/ ChildFreeAll \/ Reset \/ SaveRestorePoint \/ LoadRestorePoint

Spec == Init /\ [][Next]_vars

-----------------------------------------------------------------------------
(* No block in use, header included, overlaps another or leaves the memory, *)
(* and the next block will begin past all of them, whatever was moved,      *)
(* resized, freed or rewound.                                               *)
BlocksApart ==
  /\ \A b \in blocks : Inside(b, start, current) /\ current <= end
  /\ \A b, c \in blocks : b # c => Apart(b, c)
=============================================================================
