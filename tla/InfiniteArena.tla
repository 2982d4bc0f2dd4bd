----------------------------- MODULE InfiniteArena -----------------------------
(***************************************************************************)
(* allocator_infinite_arena.c: a bump allocator in reserved address space. *)
(* On Windows the memory is committed in granules as the blocks grow, and  *)
(* a commit may fail; on POSIX the pages come by themselves.  Users follow *)
(* the manual as those of Arena do, and do not allocate after a release.   *)
(***************************************************************************)
EXTENDS BumpLayout, FiniteSets

CONSTANTS
  Start, Length,   \* the reserved addresses, JSL_TERABYTES(8) of them
  Granule,         \* JSL_MEGABYTES(8), the unit of a commit
  Guards,          \* JSL__ASAN_GUARD_SIZE, 0 in a build without ASAN
  Sizes, Alignments,
  RefusedIn,       \* the calls whose commit the system may refuse
  MaxBlocks,       \* bound: blocks in use at a time
  NoPoint

InfiniteArenaArguments ==
  /\ Start \in Nat /\ Length \in Nat /\ Granule \in Nat \ {0} /\ Guards \subseteq Nat
  /\ Sizes \subseteq Int /\ Alignments \subseteq Nat \ {0}
  /\ RefusedIn \subseteq {"allocate", "reallocate"} /\ NoPoint \notin Nat

VARIABLES
  windows, guard,     \* the build
  valid,              \* the sentinel is in place
  current, committed, \* committed_bytes stays 0 on POSIX
  backed,             \* history: bytes the system has committed from Start on
  blocks,             \* blocks in use: address, bytes promised, length in the header
  saved, survivors    \* as in Arena

build == <<windows, guard>>
point == <<saved, survivors>>
commits == <<committed, backed>>
vars == <<build, valid, current, commits, blocks, point>>

end == Start + Length
CommittedEnd == Start + committed
Block(at, len, header) == [at |-> at, len |-> len, header |-> header]
SomeBlocks == [at : Nat, len : Nat \ {0}, header : Nat \ {0}]

TypeOK ==
  /\ windows \in BOOLEAN /\ guard \in Guards /\ valid \in BOOLEAN
  /\ current \in Start .. end
  /\ committed \in 0 .. Length /\ committed % Granule = 0 /\ backed \in Nat
  /\ blocks \subseteq SomeBlocks /\ survivors \subseteq SomeBlocks
  /\ saved \in Nat \cup {NoPoint}

Init ==
  /\ windows \in BOOLEAN /\ guard \in Guards
  /\ valid = TRUE
  /\ current = Start /\ committed = 0 /\ backed = 0
  /\ blocks = {} /\ saved = NoPoint /\ survivors = {}

-----------------------------------------------------------------------------
(* VirtualAlloc of what is missing up to an address, rounded up.  It fails  *)
(* for no bytes at all, which is what a block asks for that ends exactly    *)
(* where the committed memory does, and past the end of the reservation.    *)
Missing(to) == AlignUpwards(to - CommittedEnd, Granule)
NeedsCommit(to) == windows /\ to >= CommittedEnd
CommitPossible(to) == Missing(to) > 0 /\ committed + Missing(to) <= Length
MayFailToCommit(to, call) == NeedsCommit(to) /\ (~CommitPossible(to) \/ call \in RefusedIn)

CommitUpTo(to) ==
  IF NeedsCommit(to)
  THEN /\ CommitPossible(to)
       /\ committed' = committed + Missing(to)
       /\ backed' = IF committed <= backed THEN committed + Missing(to) ELSE backed
  ELSE UNCHANGED commits

-----------------------------------------------------------------------------
Fits(bytes, alignment) == bytes >= 1 /\ Place(current, alignment) + bytes + guard <= end

(* jsl_infinite_arena_allocate_aligned puts the result at the bump pointer. *)
Take(b, others) ==
  /\ CommitUpTo(BlockEnd(b))
  /\ blocks' = others \cup {b}
  /\ current' = BlockEnd(b) + guard
  /\ UNCHANGED <<build, valid, point>>

Allocate(bytes, alignment) ==
  /\ valid /\ Fits(bytes, alignment)
  /\ Take(Block(Place(current, alignment), bytes, bytes), blocks)

AllocateFails(bytes, alignment) ==
  /\ valid
  /\ ~Fits(bytes, alignment) \/ MayFailToCommit(Place(current, alignment) + bytes, "allocate")
  /\ UNCHANGED vars

(* jsl_infinite_arena_reallocate_aligned.  A smaller size changes nothing,  *)
(* not even the header, whatever the alignment.                             *)
ReallocateSmaller(b, bytes) ==
  /\ valid /\ bytes >= 1 /\ bytes < b.header
  /\ blocks' = (blocks \ {b}) \cup {[b EXCEPT !.len = bytes]}
  /\ UNCHANGED <<build, valid, current, commits, point>>

CanResizeInPlace(b, bytes, alignment) ==
  /\ current \in {BlockEnd(b), BlockEnd(b) + guard}
  /\ b.at % EffectiveAlignment(alignment) = 0
  /\ b.at + bytes + guard <= end

ReallocateInPlace(b, bytes, alignment) ==
  /\ valid /\ bytes >= b.header /\ CanResizeInPlace(b, bytes, alignment)
  /\ Take(Block(b.at, bytes, bytes), blocks \ {b})

(* The header and the bump pointer have moved before the commit fails, and  *)
(* the caller gets NULL.                                                    *)
ReallocateCannotCommit(b, bytes, alignment) ==
  /\ valid /\ bytes >= b.header /\ CanResizeInPlace(b, bytes, alignment)
  /\ MayFailToCommit(b.at + bytes, "reallocate")
  /\ blocks' = (blocks \ {b}) \cup {[b EXCEPT !.header = bytes]}
  /\ current' = b.at + bytes + guard
  /\ UNCHANGED <<build, valid, commits, point>>

ReallocateMoves(b, bytes, alignment) ==
  /\ valid /\ bytes >= b.header /\ ~CanResizeInPlace(b, bytes, alignment)
  /\ Fits(bytes, alignment)
  /\ Take(Block(Place(current, alignment), bytes, bytes), blocks \ {b})

ReallocateFails(b, bytes, alignment) ==
  /\ valid
  /\ \/ bytes < 1
     \/ /\ bytes >= b.header /\ ~CanResizeInPlace(b, bytes, alignment)
        /\ \/ ~Fits(bytes, alignment)
           \/ MayFailToCommit(Place(current, alignment) + bytes, "allocate")
  /\ UNCHANGED vars

-----------------------------------------------------------------------------
(* free, of the interface or of a child's: the arena does not change.       *)
Free(b) ==
  /\ valid
  /\ blocks' = blocks \ {b}
  /\ UNCHANGED <<build, valid, current, commits, point>>

(* jsl_infinite_arena_reset, also as free_all.  What is committed stays.    *)
Reset ==
  /\ valid
  /\ current' = Start
  /\ blocks' = {} /\ saved' = NoPoint /\ survivors' = {}
  /\ UNCHANGED <<build, valid, commits>>

SaveRestorePoint ==
  /\ valid
  /\ saved' = current /\ survivors' = blocks
  /\ UNCHANGED <<build, valid, current, commits, blocks>>

LoadRestorePoint ==
  /\ valid /\ saved # NoPoint /\ saved <= current
  /\ current' = saved
  /\ blocks' = blocks \cap survivors
  /\ UNCHANGED <<build, valid, commits, point>>

Release ==
  /\ valid
  /\ valid' = FALSE /\ backed' = 0
  /\ blocks' = {} /\ saved' = NoPoint /\ survivors' = {}
  /\ UNCHANGED <<build, current, committed>>

InitAgain ==
  /\ ~valid
  /\ valid' = TRUE /\ current' = Start /\ committed' = 0
  /\ UNCHANGED <<build, backed, blocks, point>>

Next ==
  \/ \E bytes \in Sizes, alignment \in Alignments :
       \/ Cardinality(blocks) < MaxBlocks /\ Allocate(bytes, alignment)
       \/ AllocateFails(bytes, alignment)
       \/ \E b \in blocks :
            \/ ReallocateInPlace(b, bytes, alignment)
            \/ ReallocateCannotCommit(b, bytes, alignment)
            \/ ReallocateMoves(b, bytes, alignment)
            \/ ReallocateFails(b, bytes, alignment)
  \/ \E b \in blocks, bytes \in Sizes : ReallocateSmaller(b, bytes)
  \/ \E b \in blocks : Free(b)
  \/ Reset \/ SaveRestorePoint \/ LoadRestorePoint \/ Release \/ InitAgain

Spec == Init /\ [][Next]_vars

-----------------------------------------------------------------------------
(* No block in use, header and what its header counts included, overlaps    *)
(* another or reaches past the bump pointer.                                *)
BlocksApart ==
  /\ \A b \in blocks : Inside(b, Start, current) /\ b.len <= b.header
  /\ \A b, c \in blocks : b # c => Apart(b, c)

(* JSLReallocateFP and JSLAllocateFP of allocator.h: "the returned memory   *)
(* is at least" as long as asked "of valid, writable memory", so on Windows *)
(* every byte of a block in use is committed.                               *)
BlocksCommitted == windows => \A b \in blocks : b.at + b.len <= Start + backed
=============================================================================
