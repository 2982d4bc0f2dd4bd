---------------------------- MODULE PoolAllocator ----------------------------
(***************************************************************************)
(* allocator_pool.c: a pool cuts its memory into equal chunks, each behind *)
(* a header, and keeps them on two intrusive lists.  The free list is      *)
(* singly linked; a checked-out header also has prev_next, the address of  *)
(* the pointer that points to it, so that jsl_pool_free unlinks it without *)
(* a walk.  A null prev_next marks a chunk as not outstanding.             *)
(*                                                                         *)
(* Where init2 puts the chunks is module PoolLayout.                       *)
(***************************************************************************)
CONSTANTS
  Chunks,     \* the chunks init2 may push
  InMemory,   \* those that start below memory_end
  Strangers,  \* pointers that fail the bounds, alignment or sentinel test
  Null,
  CheckedOut        \* the address &pool->checked_out, as a value of prev_next

ASSUME ChunksAssumption ==
  /\ InMemory \subseteq Chunks
  /\ Strangers \cap Chunks = {}
  /\ Null \notin Chunks \cup Strangers
  /\ CheckedOut \notin Chunks /\ CheckedOut # Null

VARIABLES
  made,        \* chunks init2 has pushed on the free list
  free_list,
  checked_out,
  next,        \* header->next
  prev_next,   \* header->prev_next: Null, CheckedOut, or the chunk d for &d->next
  pc,          \* "init" in init2, "ready" between calls, "free_all" in free_all
  current,     \* the cursor of free_all
  given,       \* result of the last jsl_pool_allocate
  asked,       \* argument of the last jsl_pool_free
  answer       \* its result

lists == <<free_list, checked_out, next, prev_next>>
results == <<given, asked, answer>>
vars == <<made, lists, pc, current, results>>

Pointers == Chunks \cup {Null}

TypeOK ==
  /\ made \subseteq Chunks
  /\ free_list \in Pointers
  /\ checked_out \in Pointers
  /\ next \in [Chunks -> Pointers]
  /\ prev_next \in [Chunks -> Pointers \cup {CheckedOut}]
  /\ pc \in {"init", "ready", "free_all"}
  /\ current \in Pointers
  /\ given \in Pointers
  /\ asked \in Pointers \cup Strangers
  /\ answer \in BOOLEAN

Init ==
  /\ made = {}
  /\ free_list = Null /\ checked_out = Null
  /\ next = [c \in Chunks |-> Null]
  /\ prev_next = [c \in Chunks |-> Null]
  /\ pc = "init" /\ current = Null
  /\ given = Null /\ asked = Null /\ answer = FALSE

-----------------------------------------------------------------------------
(* jsl_pool_init2: one iteration of its loop.  A chunk that ends past       *)
(* memory_end is pushed too, and is the last.                               *)
Init2Chunk(c) ==
  /\ pc = "init"
  /\ c \notin made
  /\ made' = made \cup {c}
  /\ prev_next' = [prev_next EXCEPT ![c] = Null]
  /\ next' = [next EXCEPT ![c] = free_list]
  /\ free_list' = c
  /\ pc' = IF c \in InMemory THEN "init" ELSE "ready"
  /\ UNCHANGED <<checked_out, current, results>>

Init2Done ==
  /\ pc = "init"
  /\ pc' = "ready"
  /\ UNCHANGED <<made, lists, current, results>>

(* Mutant: the old head keeps &pool->checked_out as its prev_next.          *)
AllocateKeepsPrevNext ==
  /\ pc = "ready" /\ free_list # Null
  /\ next' = [next EXCEPT ![free_list] = checked_out]
  /\ prev_next' = [prev_next EXCEPT ![free_list] = CheckedOut]
  /\ checked_out' = free_list
  /\ free_list' = next[free_list]
  /\ given' = free_list
  /\ UNCHANGED <<made, pc, current, asked, answer>>

Allocate ==
  /\ pc = "ready" /\ free_list # Null
  /\ next' = [next EXCEPT ![free_list] = checked_out]
  /\ prev_next' = [c \in Chunks |-> CASE c = checked_out -> free_list
                                      [] c = free_list /\ c # checked_out -> CheckedOut
                                      [] OTHER -> prev_next[c]]
  /\ checked_out' = free_list
  /\ free_list' = next[free_list]
  /\ given' = free_list
  /\ UNCHANGED <<made, pc, current, asked, answer>>

AllocateFails ==
  /\ pc = "ready" /\ free_list = Null
  /\ given' = Null
  /\ UNCHANGED <<made, lists, pc, current, asked, answer>>

Outstanding(x) == x \in InMemory \cap made /\ prev_next[x] # Null

(* Mutant: the freed header keeps its prev_next.                            *)
FreeKeepsPrevNext(x) ==
  /\ pc = "ready"
  /\ Outstanding(x)
  /\ LET p == prev_next[x] IN
       /\ checked_out' = IF p = CheckedOut THEN next[x] ELSE checked_out
       /\ next' = [c \in Chunks |-> CASE c = x -> free_list
                                      [] c = p /\ c # x -> next[x]
                                      [] OTHER -> next[c]]
       /\ prev_next' = [c \in Chunks |-> IF c = next[x] THEN p ELSE prev_next[c]]
  /\ free_list' = x
  /\ asked' = x
  /\ answer' = TRUE
  /\ UNCHANGED <<made, pc, current, given>>

(* *(header->prev_next) = header->next, and the successor is told.          *)
Free(x) ==
  /\ pc = "ready"
  /\ Outstanding(x)
  /\ LET p == prev_next[x] IN
       /\ checked_out' = IF p = CheckedOut THEN next[x] ELSE checked_out
       /\ next' = [c \in Chunks |-> CASE c = x -> free_list
                                      [] c = p /\ c # x -> next[x]
                                      [] OTHER -> next[c]]
       /\ prev_next' = [c \in Chunks |-> CASE c = x -> Null
                                           [] c = next[x] /\ c # x -> p
                                           [] OTHER -> prev_next[c]]
  /\ free_list' = x
  /\ asked' = x
  /\ answer' = TRUE
  /\ UNCHANGED <<made, pc, current, given>>

(* A pointer out of bounds, of no chunk, or of a chunk not outstanding.     *)
FreeRefused(x) ==
  /\ pc = "ready"
  /\ x \in made \cup Strangers
  /\ ~Outstanding(x)
  /\ asked' = x
  /\ answer' = FALSE
  /\ UNCHANGED <<made, lists, pc, current, given>>

-----------------------------------------------------------------------------
(* jsl_pool_free_all: the loop over checked_out.                            *)
FreeAllBegin ==
  /\ pc = "ready"
  /\ pc' = "free_all"
  /\ current' = checked_out
  /\ UNCHANGED <<made, lists, results>>

(* Mutant: the next pointer is read after it has been overwritten.          *)
FreeAllReadsNextLate ==
  /\ pc = "free_all" /\ current # Null
  /\ prev_next' = [prev_next EXCEPT ![current] = Null]
  /\ next' = [next EXCEPT ![current] = free_list]
  /\ free_list' = current
  /\ current' = next'[current]
  /\ UNCHANGED <<made, checked_out, pc, results>>

FreeAllStep ==
  /\ pc = "free_all" /\ current # Null
  /\ prev_next' = [prev_next EXCEPT ![current] = Null]
  /\ next' = [next EXCEPT ![current] = free_list]
  /\ free_list' = current
  /\ current' = next[current]
  /\ UNCHANGED <<made, checked_out, pc, results>>

FreeAllEnd ==
  /\ pc = "free_all" /\ current = Null
  /\ checked_out' = Null
  /\ pc' = "ready"
  /\ UNCHANGED <<made, free_list, next, prev_next, current, results>>

-----------------------------------------------------------------------------
Next ==
  \/ \E c \in Chunks : Init2Chunk(c)
  \/ Init2Done
  \/ Allocate \/ AllocateFails
  \/ \E x \in Chunks : Free(x)
  \/ \E x \in Chunks \cup Strangers : FreeRefused(x)
  \/ FreeAllBegin \/ FreeAllStep \/ FreeAllEnd

(* A call that has begun is carried on by its thread.                       *)
Spec == Init /\ [][Next]_vars /\ WF_vars(FreeAllStep \/ FreeAllEnd)

-----------------------------------------------------------------------------
Out == {c \in made : prev_next[c] # Null}
FreeChunks == made \ Out

(* Where the list of outstanding chunks begins: free_all leaves checked_out *)
(* alone until its end.                                                     *)
OutHead == IF pc = "free_all" THEN current ELSE checked_out

(* The chunks met by a walk from h: the least set closed under next.        *)
Closed(S, nxt) == \A c \in S : nxt[c] \in S \cup {Null}
Reach(h, nxt) ==
  {c \in Chunks : \A S \in SUBSET Chunks : h \in S \cup {Null} /\ Closed(S, nxt) => c \in S}

(* F is exactly the set of chunks of the list that begins at h: the list    *)
(* stays in F, meets all of F, and no two of its pointers are equal, so it  *)
(* has no cycle.                                                            *)
IsList(h, F, nxt) ==
  /\ h \in F \cup {Null}
  /\ Closed(F, nxt)
  /\ \A c, d \in F : nxt[c] # Null => nxt[c] # h /\ (nxt[d] = nxt[c] => d = c)
  /\ F \subseteq Reach(h, nxt)

(* prev_next is the address of the pointer that leads to the chunk.         *)
BackPointers ==
  /\ \A c \in Out : next[c] # Null => prev_next[next[c]] = c
  /\ \A c \in Out \ {OutHead} : prev_next[c] \in Out /\ next[prev_next[c]] = c
  /\ pc # "free_all" /\ checked_out # Null => prev_next[checked_out] = CheckedOut

(* The two lists partition the chunks, none lost, and every prev_next is    *)
(* the address of the pointer to its header, whatever the order of the      *)
(* allocations, frees and steps of free_all: what jsl_pool_free relies on   *)
(* when it unlinks a header without a walk.                                 *)
ListsSound ==
  /\ IsList(free_list, FreeChunks, next)
  /\ IsList(OutHead, Out, next)
  /\ BackPointers

(* A pool behaves as allocator_pool.h says: no chunk is given out twice, an *)
(* allocation fails only when all are out, a free answers whether the chunk *)
(* was outstanding.                                                         *)
Promise == INSTANCE AbstractPool WITH out <- Out, freeingAll <- (pc = "free_all")
KeepsPromise == Promise!Spec
=============================================================================
