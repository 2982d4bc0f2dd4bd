----------------------------- MODULE LibraryProofs -----------------------------
(***************************************************************************)
(* For any set of chunks: the pool's two lists stay sound, and the pool    *)
(* implements AbstractPool when every chunk starts inside the memory.      *)
(*                                                                         *)
(* "Reachable" is the least set closed under next, so no induction over    *)
(* the length of a list is needed: to show that an operation keeps a chunk *)
(* reachable, a set closed under the new pointers is turned into one       *)
(* closed under the old pointers.                                          *)
(*                                                                         *)
(* After the pool, the searches, the generated array, the string builder,  *)
(* the operations on sets, the generated map and the string set, proved    *)
(* about in the instances of MCLibrary.  At the end, what the run of       *)
(* MCLibrary checks of all these and of the allocators holds whatever is   *)
(* asked of them, with the proofs of AllocatorProofs carried over to its   *)
(* instances.                                                              *)
(***************************************************************************)
EXTENDS MCLibrary, FiniteSetTheorems, SequenceTheorems, TLAPS

(* No chunk is left over at the end of the memory, see PoolLayout.          *)
ChunksFit == InMemory = Chunks

-----------------------------------------------------------------------------
(* What the list operations do to IsList.                                   *)

LEMMA EmptyReach ==
  ASSUME NEW nxt PROVE Reach(Null, nxt) = {}
<1>1. Closed({}, nxt) /\ {} \in SUBSET Chunks /\ Null \in {} \cup {Null}
  BY DEF Closed
<1> QED BY <1>1 DEF Reach

LEMMA EmptyList ==
  ASSUME NEW nxt PROVE IsList(Null, {}, nxt)
BY DEF IsList, Closed

(* A list does not depend on pointers outside it.                           *)
LEMMA ListSame ==
  ASSUME NEW F \in SUBSET Chunks, NEW h, NEW nxt, NEW nxt1,
         IsList(h, F, nxt), \A c \in F : nxt1[c] = nxt[c]
  PROVE  IsList(h, F, nxt1)
<1>1. h \in F \cup {Null} /\ Closed(F, nxt1)
  BY DEF IsList, Closed
<1>2. \A c, d \in F : nxt1[c] # Null => nxt1[c] # h /\ (nxt1[d] = nxt1[c] => d = c)
  BY DEF IsList
<1>3. F \subseteq Reach(h, nxt1)
  <2> SUFFICES ASSUME NEW c \in F, NEW S \in SUBSET Chunks,
                      h \in S \cup {Null}, Closed(S, nxt1)
               PROVE  c \in S
    BY DEF Reach
  <2>1. h \in (S \cap F) \cup {Null} /\ Closed(S \cap F, nxt)
    BY DEF IsList, Closed
  <2>2. c \in Reach(h, nxt)
    BY DEF IsList
  <2> QED BY <2>1, <2>2 DEF Reach
<1> QED BY <1>1, <1>2, <1>3 DEF IsList

(* A new header in front.                                                   *)
LEMMA ListPush ==
  ASSUME NEW F \in SUBSET Chunks, NEW h, NEW nxt, NEW nxt1, NEW x \in Chunks \ F,
         IsList(h, F, nxt), Null \notin Chunks,
         \A c \in F : nxt1[c] = nxt[c], nxt1[x] = h
  PROVE  IsList(x, F \cup {x}, nxt1)
<1>1. Closed(F \cup {x}, nxt1)
  BY DEF IsList, Closed
<1>2. ASSUME NEW c \in F \cup {x}, NEW d \in F \cup {x}, nxt1[c] # Null
      PROVE  nxt1[c] # x /\ (nxt1[d] = nxt1[c] => d = c)
  BY <1>2 DEF IsList, Closed
<1>3. F \cup {x} \subseteq Reach(x, nxt1)
  <2> SUFFICES ASSUME NEW c \in F \cup {x}, NEW S \in SUBSET Chunks,
                      x \in S \cup {Null}, Closed(S, nxt1)
               PROVE  c \in S
    BY DEF Reach
  <2>1. x \in S
    OBVIOUS
  <2>2. h \in (S \cap F) \cup {Null} /\ Closed(S \cap F, nxt)
    BY <2>1 DEF IsList, Closed
  <2>3. c \in F => c \in Reach(h, nxt)
    BY DEF IsList
  <2> QED BY <2>1, <2>2, <2>3 DEF Reach
<1> QED BY <1>1, <1>2, <1>3 DEF IsList

(* The header in front goes away.                                           *)
LEMMA ListPop ==
  ASSUME NEW F \in SUBSET Chunks, NEW h \in F, NEW nxt, NEW nxt1,
         IsList(h, F, nxt), Null \notin Chunks,
         \A c \in F \ {h} : nxt1[c] = nxt[c]
  PROVE  IsList(nxt[h], F \ {h}, nxt1)
<1> DEFINE G == F \ {h}
<1>1. nxt[h] \in G \cup {Null} /\ Closed(G, nxt1)
  BY DEF IsList, Closed
<1>2. \A c, d \in G : nxt1[c] # Null => nxt1[c] # nxt[h] /\ (nxt1[d] = nxt1[c] => d = c)
  BY DEF IsList
<1>3. G \subseteq Reach(nxt[h], nxt1)
  <2> SUFFICES ASSUME NEW c \in G, NEW S \in SUBSET Chunks,
                      nxt[h] \in S \cup {Null}, Closed(S, nxt1)
               PROVE  c \in S
    BY DEF Reach
  <2> DEFINE T == (S \cap G) \cup {h}
  <2>1. h \in T /\ T \in SUBSET Chunks /\ Closed(T, nxt)
    BY <1>1 DEF Closed
  <2>2. c \in Reach(h, nxt)
    BY DEF IsList
  <2>3. c \in T
    BY <2>1, <2>2 DEF Reach
  <2> QED BY <2>3
<1> QED BY <1>1, <1>2, <1>3 DEF IsList

(* A header in the middle goes away: its predecessor skips it.              *)
LEMMA ListRemove ==
  ASSUME NEW F \in SUBSET Chunks, NEW h \in F, NEW nxt, NEW nxt1,
         NEW x \in F \ {h}, NEW p \in F, nxt[p] = x,
         IsList(h, F, nxt), Null \notin Chunks,
         \A c \in F \ {x, p} : nxt1[c] = nxt[c], nxt1[p] = nxt[x]
  PROVE  IsList(h, F \ {x}, nxt1)
<1> DEFINE G == F \ {x}
<1>0. p # x
  <2> SUFFICES ASSUME nxt[x] = x PROVE FALSE
    OBVIOUS
  <2>1. h \in G /\ Closed(G, nxt)
    BY DEF IsList, Closed
  <2> QED BY <2>1 DEF IsList, Reach
<1>1. h \in G \cup {Null} /\ Closed(G, nxt1)
  BY <1>0 DEF IsList, Closed
<1>2. ASSUME NEW c \in G, NEW d \in G, nxt1[c] # Null
      PROVE  nxt1[c] # h /\ (nxt1[d] = nxt1[c] => d = c)
  <2>1. x # Null
    OBVIOUS
  <2>2. CASE c = p
    <3>1. nxt[x] # Null /\ nxt1[c] = nxt[x]
      BY <1>2, <2>2
    <3>2. d # p /\ nxt1[d] = nxt1[c] => d = x
      BY <3>1 DEF IsList
    <3> QED BY <3>1, <3>2, <2>2 DEF IsList
  <2>3. CASE c # p
    <3>1. nxt1[c] = nxt[c] /\ nxt[c] # Null
      BY <1>2, <2>3
    <3>2. d = p /\ nxt1[d] = nxt1[c] => c = x
      BY <3>1 DEF IsList
    <3> QED BY <3>1, <3>2 DEF IsList
  <2> QED BY <2>2, <2>3
<1>3. G \subseteq Reach(h, nxt1)
  <2> SUFFICES ASSUME NEW c \in G, NEW S \in SUBSET Chunks,
                      h \in S \cup {Null}, Closed(S, nxt1)
               PROVE  c \in S
    BY DEF Reach
  <2> DEFINE T == (S \cap G) \cup (IF p \in S THEN {x} ELSE {})
  <2>1. h \in T /\ T \in SUBSET Chunks
    OBVIOUS
  <2>2. Closed(T, nxt)
    <3> SUFFICES ASSUME NEW d \in T PROVE nxt[d] \in T \cup {Null}
      BY DEF Closed
    <3>1. CASE d = x
      BY <3>1, <1>0, <1>1 DEF Closed
    <3>2. CASE d = p
      BY <3>2
    <3>3. CASE d \notin {x, p}
      <4>1. nxt[d] = nxt1[d] /\ nxt[d] \in S \cup {Null} /\ nxt[d] \in G \cup {Null}
        BY <3>3, <1>1 DEF Closed
      <4> QED BY <4>1
    <3> QED BY <3>1, <3>2, <3>3
  <2>3. c \in Reach(h, nxt)
    BY DEF IsList
  <2>4. c \in T
    BY <2>1, <2>2, <2>3 DEF Reach
  <2> QED BY <2>4
<1> QED BY <1>1, <1>2, <1>3 DEF IsList

-----------------------------------------------------------------------------
(* The invariant and its preservation by every action.                     *)

IInv == TypeOK /\ ListsSound

LEMMA InitIInv == Init => IInv
<1> SUFFICES ASSUME Init PROVE IInv
  OBVIOUS
<1>1. TypeOK
  BY DEF Init, TypeOK, Pointers
<1>2. Out = {} /\ FreeChunks = {} /\ OutHead = Null
  BY DEF Init, Out, FreeChunks, OutHead
<1>3. IsList(free_list, FreeChunks, next) /\ IsList(OutHead, Out, next)
  BY <1>2, EmptyList DEF Init
<1>4. BackPointers
  BY <1>2 DEF BackPointers, Init
<1> QED BY <1>1, <1>3, <1>4 DEF IInv, ListsSound

(* Facts every step starts from.                                            *)
LEMMA Sets ==
  ASSUME IInv
  PROVE  /\ Out \in SUBSET Chunks /\ FreeChunks \in SUBSET Chunks
         /\ Out \cap FreeChunks = {} /\ made = Out \cup FreeChunks
         /\ Null \notin Chunks /\ CheckedOut \notin Chunks /\ CheckedOut # Null
BY ChunksAssumption DEF IInv, TypeOK, Out, FreeChunks, ChunksAssumption

LEMMA Init2ChunkInv == ASSUME IInv, NEW c \in Chunks, Init2Chunk(c) PROVE IInv'
<1> USE DEF IInv
<1>1. TypeOK'
  BY DEF Init2Chunk, TypeOK, Pointers, results
<1>2. Out' = Out /\ FreeChunks' = FreeChunks \cup {c} /\ c \notin made
  BY DEF Init2Chunk, TypeOK, Out, FreeChunks
<1>3. OutHead' = OutHead
  BY DEF Init2Chunk, OutHead
<1>4. next' = [next EXCEPT ![c] = free_list] /\ free_list' = c /\ next \in [Chunks -> Pointers]
  BY DEF Init2Chunk, TypeOK
<1>5. IsList(free_list, FreeChunks, next) /\ IsList(OutHead, Out, next)
  BY DEF ListsSound
<1>6. IsList(free_list', FreeChunks', next')
  BY <1>2, <1>4, <1>5, Sets, ListPush
<1>7. IsList(OutHead', Out', next')
  BY <1>2, <1>3, <1>4, <1>5, Sets, ListSame
<1>8. BackPointers'
  <2>1. \A d \in Out : next'[d] = next[d] /\ prev_next'[d] = prev_next[d] /\ next[d] # c
    BY <1>2, <1>4, <1>5, Sets DEF Init2Chunk, TypeOK, IsList, Closed
  <2>2. \A d \in Out : next[d] \in Out \cup {Null}
    BY <1>5 DEF IsList, Closed
  <2>3. checked_out \in Out \cup {Null} /\ pc = "init" /\ checked_out' = checked_out
    BY <1>5 DEF Init2Chunk, IsList, OutHead
  <2> QED BY <1>2, <1>3, <2>1, <2>2, <2>3 DEF BackPointers, ListsSound
<1> QED BY <1>1, <1>6, <1>7, <1>8 DEF ListsSound

(* The pool's two lists at a step that leaves them alone.                   *)
LEMMA UnchangedInv ==
  ASSUME IInv, UNCHANGED <<made, lists>>, TypeOK', OutHead' = OutHead,
         pc' # "free_all" /\ checked_out' # Null => prev_next[checked_out] = CheckedOut
  PROVE  IInv'
<1>1. Out' = Out /\ FreeChunks' = FreeChunks
  BY DEF Out, FreeChunks, lists
<1>2. IsList(free_list', FreeChunks', next') /\ IsList(OutHead', Out', next')
  BY <1>1, Zenon DEF IInv, ListsSound, lists
<1>3. BackPointers'
  BY <1>1 DEF BackPointers, IInv, ListsSound, lists
<1> QED BY <1>2, <1>3 DEF IInv, ListsSound

LEMMA QuietInv ==
  ASSUME IInv,
         \/ Init2Done \/ AllocateFails \/ FreeAllBegin
         \/ \E x \in Chunks \cup Strangers : FreeRefused(x)
         \/ UNCHANGED vars
  PROVE  IInv'
<1>1. TypeOK'
  BY DEF IInv, TypeOK, Init2Done, AllocateFails, FreeAllBegin, FreeRefused, vars, lists,
         results, Pointers
<1>2. UNCHANGED <<made, lists>>
  BY DEF Init2Done, AllocateFails, FreeAllBegin, FreeRefused, vars
<1>3. OutHead' = OutHead
  BY DEF Init2Done, AllocateFails, FreeAllBegin, FreeRefused, vars, lists, OutHead
<1>4. pc' # "free_all" /\ checked_out' # Null => prev_next[checked_out] = CheckedOut
  BY DEF Init2Done, AllocateFails, FreeAllBegin, FreeRefused, vars, lists, IInv,
         ListsSound, BackPointers
<1> QED BY <1>1, <1>2, <1>3, <1>4, UnchangedInv

LEMMA AllocateInv == ASSUME IInv, Allocate PROVE IInv'
<1> USE DEF IInv
<1> DEFINE c == free_list
<1>1. TypeOK'
  BY DEF Allocate, TypeOK, Pointers
<1>2. IsList(c, FreeChunks, next) /\ IsList(checked_out, Out, next)
  BY DEF ListsSound, Allocate, OutHead
<1>3. c \in FreeChunks /\ c \in Chunks \ Out
  BY <1>2, Sets DEF IsList, Allocate
<1>4. checked_out \in Out \cup {Null} /\ next \in [Chunks -> Pointers]
      /\ prev_next \in [Chunks -> Pointers \cup {CheckedOut}]
  BY <1>2 DEF IsList, TypeOK
<1>5. /\ \A d \in Chunks \ {c} : next'[d] = next[d]
      /\ next'[c] = checked_out
      /\ prev_next'[c] = CheckedOut
      /\ \A d \in Chunks \ {c, checked_out} : prev_next'[d] = prev_next[d]
      /\ checked_out # Null => prev_next'[checked_out] = c
  BY <1>3, <1>4, Sets DEF Allocate
<1>6. Out' = Out \cup {c}
  <2>1. \A d \in made : prev_next'[d] # Null <=> d \in Out \cup {c}
    BY <1>3, <1>4, <1>5, Sets DEF Out
  <2> QED BY <2>1, <1>3, Sets DEF Out, Allocate
<1>7. FreeChunks' = FreeChunks \ {c} /\ OutHead' = c /\ free_list' = next[c]
  BY <1>6 DEF FreeChunks, Allocate, OutHead
<1>8. IsList(free_list', FreeChunks', next')
  BY <1>2, <1>3, <1>5, <1>7, Sets, ListPop
<1>9. IsList(OutHead', Out', next')
  BY <1>2, <1>3, <1>5, <1>6, <1>7, Sets, ListPush
<1>10. BackPointers'
  <2>1. \A d \in Out : next[d] # Null => next[d] # checked_out /\ next[d] \in Out
    BY <1>2 DEF IsList, Closed
  <2>2. \A d \in Out' : next'[d] # Null => prev_next'[next'[d]] = d
    <3> SUFFICES ASSUME NEW d \in Out', next'[d] # Null PROVE prev_next'[next'[d]] = d
      OBVIOUS
    <3>1. CASE d = c
      BY <3>1, <1>5
    <3>2. CASE d # c
      <4>1. d \in Out /\ next'[d] = next[d] /\ next[d] \in Out /\ next[d] # checked_out
        BY <3>2, <2>1, <1>5, <1>6, Sets
      <4>2. next[d] # c /\ prev_next'[next[d]] = prev_next[next[d]]
        BY <4>1, <1>3, <1>5, Sets
      <4> QED BY <4>1, <4>2, Sets DEF BackPointers, ListsSound
    <3> QED BY <3>1, <3>2
  <2>3. ASSUME NEW d \in Out' \ {OutHead'} PROVE prev_next'[d] \in Out' /\ next'[prev_next'[d]] = d
    <3>1. CASE d = checked_out
      BY <3>1, <1>3, <1>4, <1>5, <1>6, Sets
    <3>2. CASE d # checked_out
      <4>1. d \in Out \ {OutHead} /\ prev_next'[d] = prev_next[d]
        BY <3>2, <1>5, <1>6, <1>7, Sets DEF OutHead, Allocate
      <4> QED BY <4>1, <1>3, <1>5, <1>6, Sets DEF BackPointers, ListsSound
    <3> QED BY <3>1, <3>2
  <2>4. checked_out' = c
    BY DEF Allocate
  <2> QED BY <2>2, <2>3, <2>4, <1>5 DEF BackPointers
<1> QED BY <1>1, <1>8, <1>9, <1>10 DEF ListsSound

LEMMA FreeInv == ASSUME IInv, NEW x \in Chunks, Free(x) PROVE IInv'
<1> USE DEF IInv
<1> DEFINE p == prev_next[x]
<1>1. x \in Out /\ x \in Chunks \ FreeChunks
  BY Sets DEF Free, Outstanding, Out
<1>2. IsList(free_list, FreeChunks, next) /\ IsList(checked_out, Out, next) /\ OutHead = checked_out
  BY DEF ListsSound, Free, OutHead
<1>3. /\ next \in [Chunks -> Pointers] /\ prev_next \in [Chunks -> Pointers \cup {CheckedOut}]
      /\ checked_out \in Out
  <2>1. Out # {}
    BY <1>1
  <2>2. checked_out # Null
    BY <1>1, <1>2, EmptyReach DEF IsList
  <2> QED BY <1>2, <2>2 DEF IsList, TypeOK
<1>4. /\ \A c, d \in Out : next[c] # Null => next[c] # checked_out /\ (next[d] = next[c] => d = c)
      /\ next[x] \in Out \cup {Null}
      /\ next[x] # Null => prev_next[next[x]] = x
  BY <1>1, <1>2 DEF IsList, Closed, BackPointers, ListsSound
<1>5. p = CheckedOut <=> x = checked_out
  BY <1>1, <1>2, <1>3, Sets DEF BackPointers, ListsSound, Free
<1>6. p # CheckedOut => p \in Out /\ next[p] = x
  BY <1>1, <1>2, <1>5 DEF BackPointers, ListsSound
<1>7. next[x] # x /\ p # x
  <2>1. p # CheckedOut => p # x
    <3> SUFFICES ASSUME p = x, p # CheckedOut PROVE FALSE
      OBVIOUS
    <3>1. next[x] = x
      BY <1>6
    <3>2. checked_out \in (Out \ {x}) \cup {Null} /\ Closed(Out \ {x}, next) /\ Out \ {x} \in SUBSET Chunks
      BY <3>1, <1>1, <1>2, <1>3, <1>4, <1>5, Sets DEF IsList, Closed
    <3>3. x \in Reach(checked_out, next)
      BY <1>1, <1>2 DEF IsList
    <3> QED BY <3>2, <3>3 DEF Reach
  <2>2. next[x] = x => p = x
    BY <1>4, Sets
  <2> QED BY <2>1, <2>2, <1>1, Sets
<1>8. /\ next'[x] = free_list
      /\ \A d \in Chunks \ {x, p} : next'[d] = next[d]
      /\ p # CheckedOut => next'[p] = next[x]
      /\ prev_next'[x] = Null
      /\ \A d \in Chunks \ {x, next[x]} : prev_next'[d] = prev_next[d]
      /\ next[x] # Null => prev_next'[next[x]] = p
      /\ free_list' = x /\ made' = made /\ pc' = pc /\ pc = "ready"
      /\ checked_out' = IF p = CheckedOut THEN next[x] ELSE checked_out
  BY <1>1, <1>3, <1>4, <1>6, <1>7, Sets DEF Free
<1>9. TypeOK'
  BY <1>1, <1>3, <1>4, Sets DEF Free, TypeOK, Pointers
<1>10. Out' = Out \ {x}
  <2>1. \A d \in made : prev_next'[d] # Null <=> d \in Out \ {x}
    BY <1>1, <1>4, <1>6, <1>8, Sets DEF Out
  <2> QED BY <2>1, <1>8, Sets DEF Out
<1>11. FreeChunks' = FreeChunks \cup {x} /\ OutHead' = checked_out'
  BY <1>1, <1>8, <1>10, Sets DEF FreeChunks, OutHead
<1>12. IsList(free_list', FreeChunks', next')
  <2>1. \A d \in FreeChunks : next'[d] = next[d]
    BY <1>1, <1>6, <1>8, Sets
  <2> QED BY <2>1, <1>1, <1>2, <1>8, <1>11, Sets, ListPush
<1>13. IsList(OutHead', Out', next')
  <2>1. CASE p = CheckedOut
    <3>1. \A d \in Out \ {x} : next'[d] = next[d]
      BY <2>1, <1>8, Sets
    <3> QED BY <3>1, <2>1, <1>1, <1>2, <1>5, <1>8, <1>10, <1>11, Sets, ListPop
  <2>2. CASE p # CheckedOut
    <3>1. \A d \in Out \ {x, p} : next'[d] = next[d]
      BY <1>8, Sets
    <3>2. x \in Out \ {checked_out} /\ OutHead' = checked_out
      BY <2>2, <1>1, <1>5, <1>8, <1>11
    <3> QED BY <3>1, <3>2, <2>2, <1>2, <1>3, <1>6, <1>8, <1>10, Sets, ListRemove
  <2> QED BY <2>1, <2>2
<1>14. BackPointers'
  <2>1. ASSUME NEW d \in Out \ {x}, next'[d] # Null PROVE prev_next'[next'[d]] = d
    <3>1. CASE d = p
      BY <3>1, <2>1, <1>1, <1>6, <1>8, Sets
    <3>2. CASE d # p
      <4>1. next'[d] = next[d] /\ next[d] # x /\ next[d] # next[x] /\ next[d] \in Out
        BY <3>2, <2>1, <1>1, <1>2, <1>4, <1>5, <1>6, <1>8, Sets DEF IsList, Closed
      <4> QED BY <4>1, <1>8, Sets DEF BackPointers, ListsSound
    <3> QED BY <3>1, <3>2
  <2>2. ASSUME NEW d \in Out \ {x}, d # checked_out'
        PROVE  prev_next'[d] \in Out \ {x} /\ next'[prev_next'[d]] = d
    <3>1. CASE d = next[x]
      <4>1. p # CheckedOut /\ prev_next'[d] = p
        BY <3>1, <2>2, <1>1, <1>8, Sets
      <4> QED BY <4>1, <3>1, <1>6, <1>7, <1>8
    <3>2. CASE d # next[x]
      <4>1. d # checked_out
        BY <2>2, <1>5, <1>8
      <4>2. prev_next'[d] = prev_next[d] /\ prev_next[d] \in Out /\ next[prev_next[d]] = d
        BY <3>2, <4>1, <1>2, <1>8, Sets DEF BackPointers, ListsSound
      <4>3. prev_next[d] # x
        BY <3>2, <4>2
      <4>4. prev_next[d] # p
        BY <4>2, <4>3, <1>6, <1>7, Sets
      <4> QED BY <4>2, <4>3, <4>4, <1>8, Sets
    <3> QED BY <3>1, <3>2
  <2>3. checked_out' # Null => prev_next'[checked_out'] = CheckedOut
    <3>1. CASE p = CheckedOut
      BY <3>1, <1>8
    <3>2. CASE p # CheckedOut
      <4>1. checked_out # next[x] /\ checked_out # x
        BY <3>2, <1>1, <1>3, <1>4, <1>5, Sets
      <4> QED BY <4>1, <3>2, <1>3, <1>8, Sets DEF BackPointers, ListsSound
    <3> QED BY <3>1, <3>2
  <2> QED BY <2>1, <2>2, <2>3, <1>10, <1>11 DEF BackPointers
<1> QED BY <1>9, <1>12, <1>13, <1>14 DEF ListsSound

LEMMA FreeAllStepInv == ASSUME IInv, FreeAllStep PROVE IInv'
<1> USE DEF IInv
<1> DEFINE c == current
<1>1. OutHead = c /\ OutHead' = next[c] /\ free_list' = c /\ c # Null
  BY DEF FreeAllStep, OutHead
<1>2. IsList(free_list, FreeChunks, next) /\ IsList(c, Out, next) /\ c \in Out
  BY <1>1 DEF ListsSound, IsList
<1>3. /\ \A d \in Chunks \ {c} : next'[d] = next[d] /\ prev_next'[d] = prev_next[d]
      /\ next'[c] = free_list /\ prev_next'[c] = Null
  BY <1>2, Sets DEF FreeAllStep, TypeOK
<1>4. TypeOK'
  BY <1>2, Sets DEF FreeAllStep, TypeOK, Pointers, results
<1>5. Out' = Out \ {c} /\ FreeChunks' = FreeChunks \cup {c}
  <2>1. \A d \in made : prev_next'[d] # Null <=> d \in Out \ {c}
    BY <1>2, <1>3, Sets DEF Out
  <2>2. Out' = Out \ {c}
    BY <2>1, Sets DEF Out, FreeAllStep
  <2> QED BY <2>2, <1>2, Sets DEF FreeChunks, FreeAllStep
<1>6. IsList(free_list', FreeChunks', next')
  BY <1>1, <1>2, <1>3, <1>5, Sets, ListPush
<1>7. IsList(OutHead', Out', next')
  BY <1>1, <1>2, <1>3, <1>5, Sets, ListPop
<1>8. BackPointers'
  <2>1. ASSUME NEW d \in Out', next'[d] # Null PROVE prev_next'[next'[d]] = d
    <3>1. d \in Out /\ next'[d] = next[d] /\ next[d] # c /\ next[d] \in Out
      BY <2>1, <1>2, <1>3, <1>5, Sets DEF IsList, Closed
    <3> QED BY <3>1, <2>1, <1>3, Sets DEF BackPointers, ListsSound
  <2>2. ASSUME NEW d \in Out' \ {OutHead'} PROVE prev_next'[d] \in Out' /\ next'[prev_next'[d]] = d
    <3>1. prev_next'[d] = prev_next[d] /\ prev_next[d] \in Out /\ next[prev_next[d]] = d
      BY <1>1, <1>3, <1>5, Sets DEF BackPointers, ListsSound
    <3> QED BY <3>1, <1>1, <1>3, <1>5, Sets
  <2>3. pc' = "free_all"
    BY DEF FreeAllStep
  <2> QED BY <2>1, <2>2, <2>3 DEF BackPointers
<1> QED BY <1>4, <1>6, <1>7, <1>8 DEF ListsSound

(* When the cursor is null nothing is outstanding.                          *)
LEMMA NoneOut == ASSUME IInv, FreeAllEnd PROVE Out = {}
<1>1. Out \subseteq Reach(Null, next)
  BY DEF IInv, ListsSound, IsList, FreeAllEnd, OutHead
<1> QED BY <1>1, EmptyReach

LEMMA FreeAllEndInv == ASSUME IInv, FreeAllEnd PROVE IInv'
<1>1. TypeOK'
  BY DEF IInv, TypeOK, FreeAllEnd, Pointers, results
<1>2. Out' = {} /\ FreeChunks' = FreeChunks /\ OutHead' = Null
  BY NoneOut DEF FreeAllEnd, Out, FreeChunks, OutHead
<1>3. IsList(free_list', FreeChunks', next')
  BY <1>2 DEF FreeAllEnd, IInv, ListsSound
<1>4. IsList(OutHead', Out', next')
  BY <1>2, EmptyList
<1>5. BackPointers'
  BY <1>2 DEF BackPointers, FreeAllEnd
<1> QED BY <1>1, <1>3, <1>4, <1>5 DEF IInv, ListsSound

LEMMA NextIInv == IInv /\ [Next]_vars => IInv'
<1> SUFFICES ASSUME IInv, [Next]_vars PROVE IInv'
  OBVIOUS
<1>1. ASSUME NEW c \in Chunks, Init2Chunk(c) PROVE IInv'
  BY <1>1, Init2ChunkInv
<1>2. CASE Allocate
  BY <1>2, AllocateInv
<1>3. ASSUME NEW x \in Chunks, Free(x) PROVE IInv'
  BY <1>3, FreeInv
<1>4. CASE FreeAllStep
  BY <1>4, FreeAllStepInv
<1>5. CASE FreeAllEnd
  BY <1>5, FreeAllEndInv
<1>6. CASE \/ Init2Done \/ AllocateFails \/ FreeAllBegin
           \/ \E x \in Chunks \cup Strangers : FreeRefused(x)
           \/ UNCHANGED vars
  BY <1>6, QuietInv
<1> QED BY <1>1, <1>2, <1>3, <1>4, <1>5, <1>6 DEF Next

(* Every variable of the pool keeps its type, for any set of chunks.        *)
THEOREM PoolTypeCorrect == Spec => []TypeOK
<1>1. IInv => TypeOK
  BY DEF IInv
<1> QED BY <1>1, InitIInv, NextIInv, PTL DEF Spec

(* jsl_pool_allocate, jsl_pool_free and every iteration of                  *)
(* jsl_pool_free_all keep the two lists a partition of the chunks and every *)
(* prev_next exact, for any number of chunks.                               *)
THEOREM PoolListsSound == Spec => []ListsSound
<1>1. IInv => ListsSound
  BY DEF IInv
<1> QED BY <1>1, InitIInv, NextIInv, PTL DEF Spec

-----------------------------------------------------------------------------
(* The refinement.                                                          *)

LEMMA InitPromise == Init => Promise!Init
BY DEF Init, Promise!Init, Out

LEMMA StepPromise ==
  ASSUME ChunksFit, IInv, IInv', [Next]_vars
  PROVE  [Promise!Next]_(Promise!vars)
<1> USE DEF IInv
<1>1. ASSUME NEW c \in Chunks, Init2Chunk(c) PROVE Promise!Make(c)
  <2>1. Out' = Out
    BY <1>1 DEF Init2Chunk, Out, TypeOK
  <2> QED BY <2>1, <1>1 DEF Init2Chunk, Promise!Make, results
<1>2. ASSUME Allocate PROVE Promise!Allocate
  <2>1. free_list \in made \ Out /\ free_list \in Chunks
    BY <1>2, Sets DEF Allocate, ListsSound, IsList, FreeChunks
  <2>2. checked_out \in Out \cup {Null}
    BY <1>2 DEF Allocate, ListsSound, IsList, OutHead
  <2>3. Out' = Out \cup {free_list}
    <3>1. \A d \in made : prev_next'[d] # Null <=> d \in Out \cup {free_list}
      BY <1>2, <2>1, <2>2, Sets DEF Allocate, Out
    <3> QED BY <1>2, <3>1, <2>1, Sets DEF Out, Allocate
  <2> QED BY <1>2, <2>1, <2>3 DEF Allocate, Promise!Allocate
<1>3. ASSUME AllocateFails PROVE Promise!Allocate
  <2>1. FreeChunks = {}
    BY <1>3, EmptyReach DEF AllocateFails, ListsSound, IsList
  <2>2. Out' = Out
    BY <1>3 DEF AllocateFails, Out, lists
  <2> QED BY <1>3, <2>1, <2>2 DEF AllocateFails, Promise!Allocate, FreeChunks
<1>4. ASSUME NEW x \in Chunks, Free(x) PROVE Promise!Free(x)
  <2>1. x \in Out
    BY <1>4, Sets DEF Free, Outstanding, Out
  <2>2. next[x] \in Out \cup {Null}
    BY <2>1 DEF ListsSound, IsList, Closed
  <2>3. prev_next[x] # Null
    BY <2>1 DEF Out
  <2>4. \A d \in made : prev_next'[d] # Null <=> d \in Out \ {x}
    <3> SUFFICES ASSUME NEW d \in made PROVE prev_next'[d] # Null <=> d \in Out \ {x}
      OBVIOUS
    <3>1. d \in Chunks
      BY Sets
    <3>2. prev_next'[d] = CASE d = x -> Null
                            [] d = next[x] /\ d # x -> prev_next[x]
                            [] OTHER -> prev_next[d]
      BY <1>4, <3>1 DEF Free
    <3>3. CASE d = x
      BY <3>2, <3>3
    <3>4. CASE d = next[x] /\ d # x
      BY <3>1, <3>2, <3>4, <2>2, <2>3, Sets
    <3>5. CASE d # x /\ d # next[x]
      BY <3>2, <3>5 DEF Out
    <3> QED BY <3>3, <3>4, <3>5
  <2>5. Out' = Out \ {x}
    BY <1>4, <2>4, Sets DEF Out, Free
  <2>6. asked' = x /\ answer' = TRUE /\ UNCHANGED <<made, given>> /\ pc = "ready" /\ pc' = pc
    BY <1>4 DEF Free
  <2> QED BY <2>1, <2>5, <2>6 DEF Promise!Free
<1>5. ASSUME NEW x \in Chunks \cup Strangers, FreeRefused(x) PROVE Promise!Free(x)
  <2>1. x \notin Out
    BY <1>5, Sets DEF FreeRefused, Outstanding, Out, ChunksFit
  <2>3. asked' = x /\ answer' = FALSE /\ UNCHANGED <<made, given>> /\ pc = "ready" /\ pc' = pc
    BY <1>5 DEF FreeRefused
  <2>2. Out' = Out
    BY <1>5 DEF FreeRefused, Out, lists
  <2>4. Out' = Out \ {x}
    BY <2>1, <2>2
  <2>5. answer' = (x \in Out)
    <3>1. (x \in Out) = FALSE
      BY <2>1
    <3> QED BY <3>1, <2>3
  <2>6. ~(pc = "free_all") /\ UNCHANGED <<made, given, pc = "free_all">>
    BY <2>3
  <2> QED BY <2>3, <2>4, <2>5, <2>6 DEF Promise!Free
<1>6. ASSUME FreeAllBegin PROVE Promise!FreeAllBegin
  BY <1>6 DEF FreeAllBegin, Promise!FreeAllBegin, Out, lists, results
<1>7. ASSUME FreeAllStep PROVE Promise!FreeAllOne
  <2>1. current \in Out
    BY <1>7 DEF FreeAllStep, ListsSound, IsList, OutHead
  <2>2. Out' = Out \ {current}
    BY <1>7, <2>1, Sets DEF FreeAllStep, Out, TypeOK
  <2> QED BY <1>7, <2>1, <2>2 DEF FreeAllStep, Promise!FreeAllOne, results
<1>8. ASSUME FreeAllEnd PROVE Promise!FreeAllEnd
  <2>1. Out' = {} /\ Out = {}
    BY <1>8, NoneOut DEF FreeAllEnd, Out
  <2> QED BY <1>8, <2>1 DEF FreeAllEnd, Promise!FreeAllEnd, results
<1>9. ASSUME Init2Done \/ UNCHANGED vars PROVE UNCHANGED Promise!vars
  BY <1>9 DEF Init2Done, vars, lists, results, Promise!vars, Out
<1> QED BY <1>1, <1>2, <1>3, <1>4, <1>5, <1>6, <1>7, <1>8, <1>9 DEF Next, Promise!Next

(* A pool whose chunks all start inside its memory implements the promise   *)
(* of allocator_pool.h, for any number of chunks: no chunk has two users,   *)
(* none is lost, and jsl_pool_free tells outstanding from not.              *)
THEOREM PoolKeepsPromise == ASSUME ChunksFit PROVE Spec => KeepsPromise
<1>1. IInv /\ IInv' /\ [Next]_vars => [Promise!Next]_(Promise!vars)
  BY StepPromise
<1> QED BY <1>1, InitPromise, InitIInv, NextIInv, PTL DEF Spec, KeepsPromise, Promise!Spec

-----------------------------------------------------------------------------
(* The searches: at every step no occurrence lies behind it.                 *)
Searching == {"blocks", "pairs", "windows", "scan", "sunday"}

NothingBefore(p) == \A q \in 0 .. p - 1 : ~Search!OccursAt(q)

(* The bits of D after the bytes from j on of the window were scanned: the  *)
(* places of the substring where these bytes occur.                         *)
Alive == {b \in Search!m - x_j .. Search!m - 1 : \A r \in 0 .. Search!m - x_j - 1 : Search!Sub(Search!m - b + r) = Search!At(x_pos + x_j + r)}

(* last is the least shift that the scanned bytes allow; with no bit left,  *)
(* no shorter shift is possible at all.                                     *)
ScanInv ==
  /\ x_pos <= Search!n - Search!m /\ x_j \in 1 .. Search!m /\ x_last \in x_j .. Search!m
  /\ \A d \in x_j .. x_last - 1 : ~Search!OccursAt(x_pos + d)
  /\ \/ x_D = Alive
     \/ x_D = {} /\ \A d \in 0 .. x_j - 1 : ~Search!OccursAt(x_pos + d)

Shape ==
  /\ x_build \in SearchAsked.builds /\ x_string \in Seq(SearchAsked.byte) /\ x_substring \in Seq(SearchAsked.byte)
  /\ x_pc \in Search!Locations /\ x_pos \in Int /\ x_j \in Nat /\ x_last \in Nat
  /\ x_call \in {"substring", "index_of", "count", "reverse"}
  /\ x_call # "substring" => Search!m = 1
  /\ x_pc = "blocks" => x_build.block > 0
  /\ x_pc = "pairs" => Search!m = 2
  /\ x_pc = "index" => Search!m = 1 /\ x_pos \in Nat
  /\ x_pc \in Searching => x_call = "substring" /\ 1 < Search!m /\ Search!m < Search!n /\ x_pos \in Nat
  /\ x_pc = "count" => x_call = "count"
  /\ x_pc \in {"reverse", "reverse_blocks"} => x_call = "reverse"

SearchInv ==
  /\ Shape
  /\ x_pc \in Searching \cup {"index"} => NothingBefore(x_pos)
  /\ x_pc = "scan" => ScanInv
  /\ Search!FirstFound

-----------------------------------------------------------------------------
LEMMA Lengths == ASSUME Shape PROVE Search!n \in Nat /\ Search!m \in Nat
BY DEF Shape, Search!n, Search!m

(* A step that keeps the two strings keeps what occurs where.               *)
LEMMA SameStrings ==
  ASSUME UNCHANGED Search!arguments
  PROVE  /\ Search!n' = Search!n /\ Search!m' = Search!m /\ x_call' = x_call /\ x_build' = x_build
         /\ x_string' = x_string /\ x_substring' = x_substring
         /\ \A q : Search!OccursAt(q)' <=> Search!OccursAt(q)
BY DEF Search!arguments, Search!n, Search!m, Search!OccursAt, Search!At, Search!Sub

(* A search that returns an occurrence before which there is none, or -1    *)
(* where all places have been looked at; the other calls return what they   *)
(* like.                                                                    *)
LEMMA ReturnsFirst ==
  ASSUME SearchInv, NEW r \in Int, Search!Return(r),
         x_call \in {"substring", "index_of"} => Search!IsFirst(r)
  PROVE  SearchInv'
<1>1. UNCHANGED <<Search!arguments, x_pos, x_j, x_last>> /\ x_pc' = "done" /\ x_res' = r
  BY DEF Search!Return, Search!window
<1>2. Shape'
  BY <1>1, SameStrings DEF SearchInv, Shape, Searching, Search!Locations
<1>3. Search!FirstFound'
  BY <1>1, SameStrings DEF Search!FirstFound, Search!IsFirst
<1>4. x_pc' \notin Searching \cup {"index", "scan"}
  BY <1>1 DEF Searching
<1> QED BY <1>2, <1>3, <1>4 DEF SearchInv

(* A search that goes on behind places none of which is an occurrence.      *)
LEMMA AdvancesSafely ==
  ASSUME SearchInv, NEW p \in Nat, Search!Advance(p), x_pc \in (Searching \ {"scan"}) \cup {"index"},
         NothingBefore(p)
  PROVE  SearchInv'
<1>1. UNCHANGED <<Search!arguments, x_j, x_last>> /\ x_pc' = x_pc /\ x_pos' = p
  BY DEF Search!Advance, Search!Goto, Search!window
<1>2. Shape'
  BY <1>1, SameStrings DEF SearchInv, Shape
<1>3. NothingBefore(x_pos)'
  BY <1>1, SameStrings DEF NothingBefore
<1>4. x_pc' # "done" /\ x_pc' # "scan"
  BY <1>1 DEF Searching
<1> QED BY <1>2, <1>3, <1>4 DEF SearchInv, Search!FirstFound

(* A search that is entered at the first byte.                              *)
LEMMA EntersSafely ==
  ASSUME SearchInv, NEW location \in {"blocks", "pairs", "windows", "sunday", "index"},
         Search!Goto(location, 0),
         location = "index" => Search!m = 1,
         location # "index" => x_call = "substring" /\ 1 < Search!m /\ Search!m < Search!n,
         location = "blocks" => x_build.block > 0,
         location = "pairs" => Search!m = 2
  PROVE  SearchInv'
<1>1. UNCHANGED <<Search!arguments, x_j, x_last>> /\ x_pc' = location /\ x_pos' = 0
  BY DEF Search!Goto, Search!window
<1>2. Shape'
  BY <1>1, SameStrings DEF SearchInv, Shape, Searching, Search!Locations
<1>3. NothingBefore(x_pos)'
  BY <1>1 DEF NothingBefore
<1>4. x_pc' # "done" /\ x_pc' # "scan"
  BY <1>1
<1> QED BY <1>2, <1>3, <1>4 DEF SearchInv, Search!FirstFound

-----------------------------------------------------------------------------
(* The vector searches: a position that fits is an occurrence, and only     *)
(* such a position is.                                                      *)
LEMMA HitsAreOccurrences ==
  ASSUME Shape, 1 < Search!m, NEW from \in Nat, NEW lanes \in Nat, from + lanes <= Search!n - (Search!m - 1)
  PROVE  /\ \A p \in from .. from + lanes - 1 : p \in Search!Hits(from, lanes) <=> Search!OccursAt(p)
         /\ Search!Hits(from, lanes) \subseteq from .. from + lanes - 1
<1>1. Search!n \in Nat /\ Search!m \in Nat BY Lengths
<1>2. Search!Hits(from, lanes) \subseteq from .. from + lanes - 1 BY DEF Search!Hits
<1>3. ASSUME NEW p \in from .. from + lanes - 1
      PROVE  p \in Search!Hits(from, lanes) <=> Search!OccursAt(p)
  <2>1. p \in Nat /\ p + Search!m <= Search!n BY <1>1
  <2>2. Search!OccursAt(p) => Search!FitsAt(p) /\ Search!MiddleAt(p)
    <3>1. 0 \in 0 .. Search!m - 1 /\ Search!m - 1 \in 0 .. Search!m - 1 /\ 1 .. Search!m - 2 \subseteq 0 .. Search!m - 1 BY <1>1
    <3>2. p + 0 = p /\ p + (Search!m - 1) = p + Search!m - 1 BY <1>1, <2>1
    <3> QED BY <3>1, <3>2 DEF Search!OccursAt, Search!FitsAt, Search!MiddleAt
  <2>3. ASSUME Search!FitsAt(p), Search!MiddleAt(p) PROVE Search!OccursAt(p)
    <3>1. ASSUME NEW k \in 0 .. Search!m - 1 PROVE Search!At(p + k) = Search!Sub(k)
      <4>1. k = 0 \/ k = Search!m - 1 \/ k \in 1 .. Search!m - 2 BY <1>1
      <4>2. p + 0 = p /\ p + (Search!m - 1) = p + Search!m - 1 BY <1>1, <2>1
      <4> QED BY <4>1, <4>2, <2>3 DEF Search!FitsAt, Search!MiddleAt
    <3> QED BY <3>1, <2>1 DEF Search!OccursAt
  <2> QED BY <2>2, <2>3 DEF Search!Hits
<1> QED BY <1>2, <1>3

LEMMA LeastHit ==
  ASSUME SearchInv, x_pc = "blocks", NEW from \in Nat, NEW lanes \in Nat, from + lanes <= Search!n - (Search!m - 1),
         NothingBefore(from), NEW p \in Search!Least(Search!Hits(from, lanes))
  PROVE  p \in Int /\ Search!IsFirst(p)
<1>1. Search!n \in Nat /\ Search!m \in Nat /\ Shape /\ 1 < Search!m BY Lengths DEF SearchInv, Shape, Searching
<1>2. p \in Search!Hits(from, lanes) /\ p \in from .. from + lanes - 1 /\ Search!OccursAt(p)
  BY <1>1, HitsAreOccurrences DEF Search!Least
<1>3. ASSUME NEW q \in 0 .. p - 1 PROVE ~Search!OccursAt(q)
  <2>1. CASE q < from BY <2>1, <1>2 DEF NothingBefore
  <2>2. CASE q >= from
    <3>1. q \in from .. from + lanes - 1 /\ ~(p <= q) BY <1>2, <2>2
    <3> QED BY <3>1, <1>1, HitsAreOccurrences DEF Search!Least
  <2> QED BY <2>1, <2>2, <1>2
<1> QED BY <1>1, <1>2, <1>3 DEF Search!IsFirst

LEMMA NoHits ==
  ASSUME SearchInv, x_pc = "blocks", NEW from \in Nat, NEW lanes \in Nat, from + lanes <= Search!n - (Search!m - 1),
         NothingBefore(from), Search!Hits(from, lanes) = {}
  PROVE  NothingBefore(from + lanes)
<1>1. Search!n \in Nat /\ Search!m \in Nat /\ Shape /\ 1 < Search!m BY Lengths DEF SearchInv, Shape, Searching
<1>2. \A p \in from .. from + lanes - 1 : ~Search!OccursAt(p) BY <1>1, HitsAreOccurrences
<1> QED BY <1>2 DEF NothingBefore

LEMMA BlockStep ==
  ASSUME Search!SearchArguments, SearchInv, Search!CompareBlock \/ Search!CompareHalves \/ Search!CompareRest \/ Search!BlocksEnd
  PROVE  SearchInv'
<1> USE DEF SearchInv
<1>1. /\ Search!n \in Nat /\ Search!m \in Nat /\ Shape /\ 1 < Search!m /\ Search!m < Search!n /\ x_pos \in Nat /\ x_pc = "blocks"
      /\ NothingBefore(x_pos) /\ x_build \in SearchAsked.builds /\ x_build.block \in Nat
  BY Lengths DEF Shape, Searching, Search!CompareBlock, Search!CompareHalves, Search!CompareRest, Search!BlocksEnd, Search!SearchArguments
<1>2. CASE Search!CompareBlock
  <2>1. x_pos + x_build.block <= Search!n - (Search!m - 1) BY <1>1, <1>2 DEF Search!CompareBlock, Search!InBlocks
  <2>2. CASE Search!ReturnLeast(Search!Hits(x_pos, x_build.block))
    BY <1>1, <2>1, <2>2, LeastHit, ReturnsFirst DEF Search!ReturnLeast
  <2>3. CASE Search!Hits(x_pos, x_build.block) = {} /\ Search!Advance(x_pos + x_build.block)
    <3>1. NothingBefore(x_pos + x_build.block) BY <1>1, <2>1, <2>3, NoHits
    <3> QED BY <1>1, <2>3, <3>1, AdvancesSafely DEF Searching
  <2> QED BY <1>2, <2>2, <2>3 DEF Search!CompareBlock
<1>3. CASE Search!CompareHalves
  <2> DEFINE half == x_build.block \div 2
  <2>1. half \in Nat /\ x_pos + half + half <= Search!n - (Search!m - 1) /\ x_pos + half <= Search!n - (Search!m - 1)
        /\ x_pos + half \in Nat /\ x_pos + half + half = x_pos + x_build.block
    <3>1. x_build.block % 2 = 0 /\ x_pos <= Search!n - (Search!m - 1) - x_build.block
      BY <1>1, <1>3 DEF Search!CompareHalves, Search!SearchArguments, Search!InBlocks
    <3> QED BY <1>1, <3>1
  <2>2. CASE Search!ReturnLeast(Search!Hits(x_pos, half))
    BY <1>1, <2>1, <2>2, LeastHit, ReturnsFirst DEF Search!ReturnLeast
  <2>3. CASE Search!Hits(x_pos, half) = {} /\ Search!ReturnLeast(Search!Hits(x_pos + half, half))
    <3>1. NothingBefore(x_pos + half) BY <1>1, <2>1, <2>3, NoHits
    <3> HIDE DEF half
    <3> QED BY <1>1, <2>1, <2>3, <3>1, LeastHit, ReturnsFirst DEF Search!ReturnLeast
  <2>4. CASE Search!Hits(x_pos, half) = {} /\ Search!Hits(x_pos + half, half) = {} /\ Search!Advance(x_pos + x_build.block)
    <3>1. NothingBefore(x_pos + half) BY <1>1, <2>1, <2>4, NoHits
    <3>2. NothingBefore(x_pos + x_build.block) BY <1>1, <2>1, <2>4, <3>1, NoHits
    <3> QED BY <1>1, <2>4, <3>2, AdvancesSafely DEF Searching
  <2> QED BY <1>3, <2>2, <2>3, <2>4 DEF Search!CompareHalves
<1>4. CASE Search!CompareRest
  <2>1. x_pos <= Search!n - Search!m BY <1>4 DEF Search!CompareRest
  <2>2. x_pos \in Search!Hits(x_pos, 1) <=> Search!OccursAt(x_pos) BY <1>1, <2>1, HitsAreOccurrences
  <2>3. Search!MiddleAt(x_pos) \/ Search!m > 2 BY <1>1 DEF Search!MiddleAt
  <2>4. Search!FitsAt(x_pos) /\ (Search!m <= 2 \/ Search!MiddleAt(x_pos)) <=> Search!OccursAt(x_pos)
    BY <1>1, <2>2, <2>3 DEF Search!Hits
  <2>5. CASE Search!OccursAt(x_pos)
    <3>1. Search!IsFirst(x_pos) BY <1>1, <2>1, <2>5 DEF Search!IsFirst, NothingBefore
    <3>2. Search!Return(x_pos) BY <1>4, <2>4, <2>5 DEF Search!CompareRest
    <3> QED BY <1>1, <3>1, <3>2, ReturnsFirst
  <2>6. CASE ~Search!OccursAt(x_pos)
    <3>1. NothingBefore(x_pos + 1) BY <1>1, <2>6 DEF NothingBefore
    <3>2. Search!Advance(x_pos + 1) BY <1>4, <2>4, <2>6 DEF Search!CompareRest
    <3> QED BY <1>1, <3>1, <3>2, AdvancesSafely DEF Searching
  <2> QED BY <2>5, <2>6
<1>5. CASE Search!BlocksEnd
  <2>1. x_pos > Search!n - Search!m /\ Search!Return(-1) BY <1>5 DEF Search!BlocksEnd
  <2>2. Search!IsFirst(-1) BY <1>1, <2>1 DEF Search!IsFirst, NothingBefore, Search!OccursAt
  <2> QED BY <2>1, <2>2, ReturnsFirst
<1> QED BY <1>2, <1>3, <1>4, <1>5

(* The search for two bytes.                                                *)
LEMMA PairStep ==
  ASSUME SearchInv, Search!ComparePair \/ Search!PairsEnd
  PROVE  SearchInv'
<1> USE DEF SearchInv
<1>1. Search!n \in Nat /\ Search!m = 2 /\ x_pos \in Nat /\ x_pc = "pairs" /\ NothingBefore(x_pos)
  BY Lengths DEF Shape, Searching, Search!ComparePair, Search!PairsEnd
<1>2. CASE Search!ComparePair
  <2>1. x_pos + 1 < Search!n BY <1>2 DEF Search!ComparePair
  <2>2. Search!At(x_pos) = Search!Sub(0) /\ Search!At(x_pos + 1) = Search!Sub(1) <=> Search!OccursAt(x_pos)
    <3>1. 0 .. Search!m - 1 = {0, 1} /\ x_pos + 0 = x_pos BY <1>1
    <3>2. x_pos + Search!m <= Search!n BY <1>1, <2>1
    <3> QED BY <3>1, <3>2 DEF Search!OccursAt
  <2>3. CASE Search!OccursAt(x_pos)
    <3>1. Search!IsFirst(x_pos) BY <1>1, <2>1, <2>3 DEF Search!IsFirst, NothingBefore
    <3> QED BY <1>1, <1>2, <2>2, <2>3, <3>1, ReturnsFirst DEF Search!ComparePair
  <2>4. CASE ~Search!OccursAt(x_pos)
    <3>1. NothingBefore(x_pos + 1) BY <1>1, <2>4 DEF NothingBefore
    <3> QED BY <1>1, <1>2, <2>2, <2>4, <3>1, AdvancesSafely DEF Search!ComparePair, Searching
  <2> QED BY <2>3, <2>4
<1>3. CASE Search!PairsEnd
  <2>1. x_pos + 1 >= Search!n /\ Search!Return(-1) BY <1>3 DEF Search!PairsEnd
  <2>2. Search!IsFirst(-1) BY <1>1, <2>1 DEF Search!IsFirst, NothingBefore, Search!OccursAt
  <2> QED BY <2>1, <2>2, ReturnsFirst
<1> QED BY <1>2, <1>3

(* Sunday's search: an occurrence that begins inside the window puts one of *)
(* its bytes where the byte behind the window is.                           *)
LEMMA SundayStep ==
  ASSUME SearchInv, Search!WindowFound \/ Search!ShiftWindow \/ Search!SundayEnd
  PROVE  SearchInv'
<1> USE DEF SearchInv
<1>1. Search!n \in Nat /\ Search!m \in Nat /\ 1 < Search!m /\ Search!m < Search!n /\ x_pos \in Nat /\ x_pc = "sunday" /\ NothingBefore(x_pos)
  BY Lengths DEF Shape, Searching, Search!WindowFound, Search!ShiftWindow, Search!SundayEnd
<1>2. x_pos + Search!m <= Search!n => (Search!WindowFits <=> Search!OccursAt(x_pos)) BY <1>1 DEF Search!WindowFits, Search!OccursAt
<1>3. CASE Search!WindowFound
  <2>1. Search!IsFirst(x_pos) /\ Search!Return(x_pos)
    BY <1>1, <1>2, <1>3 DEF Search!WindowFound, Search!IsFirst, NothingBefore
  <2> QED BY <1>1, <2>1, ReturnsFirst
<1>4. CASE Search!ShiftWindow
  <2> DEFINE places == Search!Places(Search!At(x_pos + Search!m))
  <2>1. x_pos + Search!m < Search!n /\ ~Search!OccursAt(x_pos) BY <1>1, <1>2, <1>4 DEF Search!ShiftWindow
  <2>2. PICK shift \in Search!Shifts(Search!At(x_pos + Search!m)) : Search!Advance(x_pos + shift) BY <1>4 DEF Search!ShiftWindow
  <2>3. shift \in 1 .. Search!m + 1 BY <1>1, <2>2 DEF Search!Shifts, Search!Places
  <2>4. ASSUME NEW d \in 1 .. shift - 1, Search!OccursAt(x_pos + d) PROVE FALSE
    <3>1. Search!m - d \in 0 .. Search!m - 1 /\ (x_pos + d) + (Search!m - d) = x_pos + Search!m BY <1>1, <2>3
    <3>2. Search!At((x_pos + d) + (Search!m - d)) = Search!Sub(Search!m - d) BY <2>4, <3>1 DEF Search!OccursAt
    <3>3. Search!m - d \in places BY <3>1, <3>2 DEF Search!Places
    <3>4. shift <= d
      <4>1. PICK k \in places : shift = Search!m - k /\ \A l \in places : l <= k
        BY <2>2, <3>3, Zenon DEF Search!Shifts
      <4>2. Search!m - d <= k /\ k \in 0 .. Search!m - 1 BY <3>3, <4>1 DEF Search!Places
      <4> QED BY <1>1, <2>3, <4>1, <4>2
    <3> QED BY <1>1, <2>3, <3>4
  <2>5. NothingBefore(x_pos + shift)
    <3>1. ASSUME NEW q \in 0 .. x_pos + shift - 1 PROVE ~Search!OccursAt(q)
      <4>1. CASE q < x_pos BY <1>1, <4>1 DEF NothingBefore
      <4>2. CASE q = x_pos BY <2>1, <4>2
      <4>3. CASE q > x_pos
        <5>1. q - x_pos \in 1 .. shift - 1 /\ x_pos + (q - x_pos) = q BY <1>1, <2>3, <4>3
        <5> QED BY <2>4, <5>1
      <4> QED BY <1>1, <2>3, <4>1, <4>2, <4>3
    <3> QED BY <1>1, <2>3, <3>1 DEF NothingBefore
  <2>6. x_pos + shift \in Nat BY <1>1, <2>3
  <2>7. x_pc \in (Searching \ {"scan"}) \cup {"index"} BY <1>1 DEF Searching
  <2> QED BY <2>2, <2>5, <2>6, <2>7, AdvancesSafely
<1>5. CASE Search!SundayEnd
  <2>1. Search!Return(-1) /\ x_pos + Search!m >= Search!n /\ (x_pos + Search!m = Search!n => ~Search!OccursAt(x_pos))
    BY <1>1, <1>2, <1>5 DEF Search!SundayEnd
  <2>2. Search!IsFirst(-1)
    <3>1. ASSUME NEW q \in 0 .. Search!n - 1, Search!OccursAt(q) PROVE FALSE
      <4>1. q + Search!m <= Search!n BY <3>1 DEF Search!OccursAt
      <4>2. q < x_pos \/ (q = x_pos /\ x_pos + Search!m = Search!n) BY <1>1, <2>1, <4>1
      <4> QED BY <1>1, <2>1, <3>1, <4>2 DEF NothingBefore
    <3> QED BY <3>1 DEF Search!IsFirst
  <2> QED BY <2>1, <2>2, ReturnsFirst
<1> QED BY <1>3, <1>4, <1>5

-----------------------------------------------------------------------------
(* The bit-parallel search.  Where an occurrence could begin in the window, *)
(* its bit is alive.                                                        *)
LEMMA OccurrenceIsAlive ==
  ASSUME Search!n \in Nat, Search!m \in Nat, x_pos \in Nat, x_j \in 1 .. Search!m, NEW d \in 0 .. x_j - 1, Search!OccursAt(x_pos + d)
  PROVE  /\ Search!m - x_j + d \in Alive
         /\ Search!m - x_j + d \in Search!Mask(Search!At(x_pos + x_j - 1))
<1>1. Search!m - x_j + d \in Search!m - x_j .. Search!m - 1 /\ Search!m - x_j + d \in 0 .. Search!m - 1 OBVIOUS
<1>2. ASSUME NEW r \in 0 .. Search!m - x_j - 1 PROVE Search!Sub(Search!m - (Search!m - x_j + d) + r) = Search!At(x_pos + x_j + r)
  <2>1. x_j - d + r \in 0 .. Search!m - 1 /\ Search!m - (Search!m - x_j + d) + r = x_j - d + r
        /\ (x_pos + d) + (x_j - d + r) = x_pos + x_j + r
    OBVIOUS
  <2> QED BY <2>1 DEF Search!OccursAt
<1>3. Search!Sub(Search!m - 1 - (Search!m - x_j + d)) = Search!At(x_pos + x_j - 1)
  <2>1. x_j - 1 - d \in 0 .. Search!m - 1 /\ Search!m - 1 - (Search!m - x_j + d) = x_j - 1 - d
        /\ (x_pos + d) + (x_j - 1 - d) = x_pos + x_j - 1
    OBVIOUS
  <2> QED BY <2>1 DEF Search!OccursAt
<1> QED BY <1>1, <1>2, <1>3 DEF Alive, Search!Mask, Search!Full

(* The bits that survive a byte, shifted, are those alive one byte on.      *)
LEMMA ShiftedStayAlive ==
  ASSUME Search!n \in Nat, Search!m \in Nat, x_pos \in Nat, x_j \in 2 .. Search!m
  PROVE  Search!ShiftLeft(Alive \cap Search!Mask(Search!At(x_pos + x_j - 1)))
           = {b \in Search!m - (x_j - 1) .. Search!m - 1 :
                \A r \in 0 .. Search!m - (x_j - 1) - 1 : Search!Sub(Search!m - b + r) = Search!At(x_pos + (x_j - 1) + r)}
<1> DEFINE kept == Alive \cap Search!Mask(Search!At(x_pos + x_j - 1))
           moved == {b \in Search!m - (x_j - 1) .. Search!m - 1 :
                      \A r \in 0 .. Search!m - (x_j - 1) - 1 : Search!Sub(Search!m - b + r) = Search!At(x_pos + (x_j - 1) + r)}
<1>1. ASSUME NEW b \in Search!ShiftLeft(kept) PROVE b \in moved
  <2>1. b \in 0 .. Search!m - 1 /\ b - 1 \in Alive /\ b - 1 \in Search!Mask(Search!At(x_pos + x_j - 1))
    BY <1>1 DEF Search!ShiftLeft, Search!Full
  <2>2. b \in Search!m - (x_j - 1) .. Search!m - 1 BY <2>1 DEF Alive
  <2>3. ASSUME NEW r \in 0 .. Search!m - (x_j - 1) - 1 PROVE Search!Sub(Search!m - b + r) = Search!At(x_pos + (x_j - 1) + r)
    <3>1. CASE r = 0
      <4>1. Search!m - 1 - (b - 1) = Search!m - b + r /\ x_pos + x_j - 1 = x_pos + (x_j - 1) + r BY <2>1, <3>1
      <4> QED BY <2>1, <4>1 DEF Search!Mask
    <3>2. CASE r # 0
      <4>1. r - 1 \in 0 .. Search!m - x_j - 1 BY <3>2
      <4>2. Search!m - (b - 1) + (r - 1) = Search!m - b + r /\ x_pos + x_j + (r - 1) = x_pos + (x_j - 1) + r BY <2>1
      <4> QED BY <2>1, <4>1, <4>2 DEF Alive
    <3> QED BY <3>1, <3>2
  <2> QED BY <2>2, <2>3
<1>2. ASSUME NEW b \in moved PROVE b \in Search!ShiftLeft(kept)
  <2>1. b - 1 \in Search!m - x_j .. Search!m - 1 /\ b \in 0 .. Search!m - 1 /\ b - 1 \in 0 .. Search!m - 1 OBVIOUS
  <2>2. ASSUME NEW r \in 0 .. Search!m - x_j - 1 PROVE Search!Sub(Search!m - (b - 1) + r) = Search!At(x_pos + x_j + r)
    <3>1. r + 1 \in 0 .. Search!m - (x_j - 1) - 1 OBVIOUS
    <3>2. Search!m - b + (r + 1) = Search!m - (b - 1) + r /\ x_pos + (x_j - 1) + (r + 1) = x_pos + x_j + r OBVIOUS
    <3> QED BY <3>1, <3>2
  <2>3. Search!Sub(Search!m - 1 - (b - 1)) = Search!At(x_pos + x_j - 1)
    <3>1. 0 \in 0 .. Search!m - (x_j - 1) - 1 OBVIOUS
    <3>2. Search!m - 1 - (b - 1) = Search!m - b + 0 /\ x_pos + x_j - 1 = x_pos + (x_j - 1) + 0 OBVIOUS
    <3> QED BY <3>1, <3>2
  <2> QED BY <2>1, <2>2, <2>3 DEF Search!ShiftLeft, Alive, Search!Mask, Search!Full
<1> QED BY <1>1, <1>2

LEMMA WindowStep ==
  ASSUME SearchInv, Search!OpenWindow \/ Search!WindowsEnd \/ Search!ScanFinds \/ Search!ScanByte \/ Search!CloseWindow
  PROVE  SearchInv'
<1> USE DEF SearchInv
<1>1. /\ Shape /\ Search!n \in Nat /\ Search!m \in Nat /\ 1 < Search!m /\ Search!m < Search!n /\ x_pos \in Nat /\ x_pc \in {"windows", "scan"}
      /\ NothingBefore(x_pos) /\ (x_pc = "scan" => ScanInv)
  BY Lengths DEF Shape, Searching, Search!OpenWindow, Search!WindowsEnd, Search!ScanFinds, Search!ScanByte, Search!CloseWindow
<1>2. CASE Search!OpenWindow
  <2>1. /\ UNCHANGED <<Search!arguments, x_pos>> /\ x_pc' = "scan" /\ x_D' = Search!Full /\ x_j' = Search!m /\ x_last' = Search!m
        /\ x_pos <= Search!n - Search!m
    BY <1>2 DEF Search!OpenWindow
  <2>2. Shape' BY <1>1, <2>1, SameStrings DEF Shape, Searching, Search!Locations
  <2>3. NothingBefore(x_pos)' BY <1>1, <2>1, SameStrings DEF NothingBefore
  <2>4. x_D' = Alive'
    <3>1. Search!m' = Search!m /\ x_j' = Search!m /\ Search!m - Search!m = 0 BY <1>1, <2>1, SameStrings
    <3> QED BY <1>1, <2>1, <3>1 DEF Alive, Search!Full
  <2>5. ScanInv' BY <1>1, <2>1, <2>4, SameStrings DEF ScanInv
  <2> QED BY <2>1, <2>2, <2>3, <2>5 DEF Search!FirstFound
<1>3. CASE Search!WindowsEnd
  <2>1. x_pos > Search!n - Search!m /\ Search!Return(-1) BY <1>3 DEF Search!WindowsEnd
  <2>2. Search!IsFirst(-1) BY <1>1, <2>1 DEF Search!IsFirst, NothingBefore, Search!OccursAt
  <2> QED BY <2>1, <2>2, ReturnsFirst
<1>4. CASE Search!ScanFinds
  <2>1. ScanInv /\ x_D # {} /\ Search!Kept # {} /\ x_j = 1 /\ Search!Return(x_pos) BY <1>1, <1>4 DEF Search!ScanFinds
  <2>2. PICK b \in Alive : b \in Search!Mask(Search!At(x_pos + x_j - 1)) BY <2>1 DEF ScanInv, Search!Kept
  <2>3. b = Search!m - 1 BY <1>1, <2>1, <2>2 DEF Alive
  <2>4. ASSUME NEW k \in 0 .. Search!m - 1 PROVE Search!At(x_pos + k) = Search!Sub(k)
    <3>1. CASE k = 0
      <4>1. Search!m - 1 - b = k /\ x_pos + x_j - 1 = x_pos + k BY <1>1, <2>1, <2>3, <3>1
      <4> QED BY <2>2, <4>1 DEF Search!Mask
    <3>2. CASE k # 0
      <4>1. k - 1 \in 0 .. Search!m - x_j - 1 /\ Search!m - b + (k - 1) = k /\ x_pos + x_j + (k - 1) = x_pos + k
        BY <1>1, <2>1, <2>3, <3>2
      <4> QED BY <2>2, <4>1 DEF Alive
    <3> QED BY <3>1, <3>2
  <2>5. Search!OccursAt(x_pos) BY <1>1, <2>1, <2>4 DEF Search!OccursAt, ScanInv
  <2>6. Search!IsFirst(x_pos) BY <1>1, <2>1, <2>5 DEF Search!IsFirst, NothingBefore, ScanInv
  <2> QED BY <1>1, <2>1, <2>6, ReturnsFirst
<1>5. CASE Search!ScanByte
  <2>1. /\ ScanInv /\ x_D # {} /\ (Search!Kept # {} => x_j # 1) /\ x_D' = Search!ShiftLeft(Search!Kept)
        /\ x_j' = (IF Search!Kept # {} THEN x_j - 1 ELSE x_j)
        /\ x_last' = (IF Search!m - 1 \in Search!Kept THEN x_j - 1 ELSE x_last)
        /\ UNCHANGED <<Search!arguments, x_pc, x_pos>> /\ x_pc = "scan"
    BY <1>1, <1>5 DEF Search!ScanByte
  <2>2. x_D = Alive /\ Search!Kept = Alive \cap Search!Mask(Search!At(x_pos + x_j - 1)) BY <2>1 DEF ScanInv, Search!Kept
  <2>3. x_j \in 1 .. Search!m /\ x_last \in x_j .. Search!m /\ x_pos <= Search!n - Search!m BY <2>1 DEF ScanInv
  <2>4. Shape' BY <1>1, <2>1, <2>3, SameStrings DEF Shape, Searching
  <2>5. NothingBefore(x_pos)' BY <1>1, <2>1, SameStrings DEF NothingBefore
  <2>6. ScanInv'
    <3>1. CASE Search!Kept = {}
      <4>1. x_D' = {} /\ x_j' = x_j /\ x_last' = x_last BY <2>1, <3>1 DEF Search!ShiftLeft
      <4>2. \A d \in 0 .. x_j - 1 : ~Search!OccursAt(x_pos + d)
        BY <1>1, <2>2, <2>3, <3>1, OccurrenceIsAlive
      <4> QED BY <2>1, <2>3, <4>1, <4>2, SameStrings DEF ScanInv
    <3>2. CASE Search!Kept # {}
      <4>1. x_j \in 2 .. Search!m /\ x_j' = x_j - 1 BY <1>1, <2>1, <2>3, <3>2
      <4>2. x_D' = Alive'
        BY <1>1, <2>1, <2>2, <4>1, ShiftedStayAlive, SameStrings DEF Alive, Search!At, Search!Sub, Search!arguments
      <4>3. x_last' \in x_j' .. Search!m BY <1>1, <2>1, <2>3, <4>1
      <4>4. ASSUME NEW d \in x_j - 1 .. x_last' - 1 PROVE ~Search!OccursAt(x_pos + d)
        <5>1. Search!m - 1 \notin Search!Kept /\ x_last' = x_last BY <1>1, <2>1, <4>1, <4>4
        <5>2. CASE d = x_j - 1
          <6>1. Search!m - x_j + d = Search!m - 1 /\ d \in 0 .. x_j - 1 BY <1>1, <4>1, <5>2
          <6> QED BY <1>1, <2>2, <2>3, <5>1, <6>1, OccurrenceIsAlive
        <5>3. CASE d # x_j - 1
          <6>1. d \in x_j - 1 .. x_last - 1 /\ d # x_j - 1 BY <4>4, <5>1, <5>3
          <6>2. d \in x_j .. x_last - 1 BY <1>1, <2>3, <6>1
          <6> QED BY <2>1, <6>2 DEF ScanInv
        <5> QED BY <5>2, <5>3
      <4>5. Search!m' = Search!m /\ Search!n' = Search!n /\ x_pos' = x_pos /\ x_j' = x_j - 1
        BY <2>1, <4>1, SameStrings
      <4>6. x_pos' <= Search!n' - Search!m' /\ x_j' \in 1 .. Search!m' /\ x_last' \in x_j' .. Search!m'
        BY <1>1, <2>3, <4>1, <4>3, <4>5
      <4>7. (\A d \in x_j .. x_last - 1 : ~Search!OccursAt(x_pos + d))'
        BY <2>1, <4>4, <4>5, SameStrings
      <4> QED BY <4>2, <4>6, <4>7 DEF ScanInv
    <3> QED BY <3>1, <3>2
  <2> QED BY <2>1, <2>4, <2>5, <2>6 DEF Search!FirstFound
<1>6. CASE Search!CloseWindow
  <2>1. ScanInv /\ x_D = {} /\ Search!Goto("windows", x_pos + x_last) BY <1>1, <1>6 DEF Search!CloseWindow
  <2>2. x_j \in 1 .. Search!m /\ x_last \in x_j .. Search!m BY <2>1 DEF ScanInv
  <2>3. ASSUME NEW d \in 0 .. x_last - 1, Search!OccursAt(x_pos + d) PROVE FALSE
    <3>1. d \in 0 .. x_j - 1 BY <2>1, <2>2, <2>3 DEF ScanInv
    <3>2. Search!m - x_j + d \in Alive BY <1>1, <2>2, <2>3, <3>1, OccurrenceIsAlive
    <3> QED BY <2>1, <2>3, <3>1, <3>2 DEF ScanInv
  <2>4. NothingBefore(x_pos + x_last)
    <3>1. ASSUME NEW q \in 0 .. x_pos + x_last - 1 PROVE ~Search!OccursAt(q)
      <4>1. CASE q < x_pos BY <1>1, <4>1 DEF NothingBefore
      <4>2. CASE q >= x_pos
        <5>1. q - x_pos \in 0 .. x_last - 1 /\ x_pos + (q - x_pos) = q BY <1>1, <2>2, <4>2
        <5> QED BY <2>3, <5>1
      <4> QED BY <1>1, <2>2, <4>1, <4>2
    <3> QED BY <1>1, <2>2, <3>1 DEF NothingBefore
  <2>5. UNCHANGED <<Search!arguments, x_j, x_last>> /\ x_pc' = "windows" /\ x_pos' = x_pos + x_last
    BY <2>1 DEF Search!Goto, Search!window
  <2>6. Shape' BY <1>1, <2>2, <2>5, SameStrings, <1>6 DEF Search!CloseWindow, Shape, Searching, Search!Locations
  <2>7. NothingBefore(x_pos)' BY <2>4, <2>5, SameStrings DEF NothingBefore
  <2> QED BY <2>5, <2>6, <2>7 DEF Search!FirstFound
<1> QED BY <1>2, <1>3, <1>4, <1>5, <1>6

-----------------------------------------------------------------------------
(* A search for one byte.                                                   *)
LEMMA IndexStep ==
  ASSUME Search!SearchArguments, SearchInv, Search!IndexVector \/ Search!IndexRest \/ Search!IndexEnd
  PROVE  SearchInv'
<1> USE DEF SearchInv
<1>1. /\ Search!n \in Nat /\ Search!m = 1 /\ x_pos \in Nat /\ x_pc = "index" /\ NothingBefore(x_pos) /\ x_build.index \in Nat
  BY Lengths DEF Shape, Search!IndexVector, Search!IndexRest, Search!IndexEnd, Search!SearchArguments
<1>2. \A q \in 0 .. Search!n - 1 : Search!OccursAt(q) <=> Search!At(q) = Search!Item
  <2>1. ASSUME NEW q \in 0 .. Search!n - 1 PROVE Search!OccursAt(q) <=> Search!At(q) = Search!Item
    <3>1. 0 .. Search!m - 1 = {0} /\ q + 0 = q /\ q + Search!m <= Search!n BY <1>1
    <3> QED BY <3>1 DEF Search!OccursAt, Search!Item
  <2> QED BY <2>1
<1>3. CASE Search!IndexVector
  <2>1. x_pos + x_build.index < Search!n /\ x_build.index > 0 BY <1>1, <1>3 DEF Search!IndexVector, Search!InVectors
  <2>2. \A p \in x_pos .. x_pos + x_build.index - 1 : p \in Search!IndexHits <=> Search!OccursAt(p)
    BY <1>1, <1>2, <2>1 DEF Search!IndexHits
  <2>3. ASSUME NEW p \in Search!Least(Search!IndexHits), Search!Return(p) PROVE SearchInv'
    <3>1. p \in x_pos .. x_pos + x_build.index - 1 /\ Search!OccursAt(p) /\ \A q \in Search!IndexHits : p <= q
      BY <2>2, <2>3 DEF Search!Least, Search!IndexHits
    <3>2. ASSUME NEW q \in 0 .. p - 1 PROVE ~Search!OccursAt(q)
      <4>1. CASE q < x_pos BY <1>1, <4>1 DEF NothingBefore
      <4>2. CASE q >= x_pos
        <5>1. q \in x_pos .. x_pos + x_build.index - 1 /\ ~(p <= q) BY <1>1, <2>1, <3>1, <4>2
        <5> QED BY <2>2, <3>1, <5>1
      <4> QED BY <1>1, <3>1, <4>1, <4>2
    <3>3. p \in Int /\ Search!IsFirst(p) BY <1>1, <2>1, <3>1, <3>2 DEF Search!IsFirst
    <3> QED BY <2>3, <3>3, ReturnsFirst
  <2>4. CASE Search!IndexHits = {} /\ Search!Advance(x_pos + x_build.index)
    <3>1. NothingBefore(x_pos + x_build.index)
      BY <1>1, <2>1, <2>2, <2>4 DEF NothingBefore
    <3> QED BY <1>1, <2>4, <3>1, AdvancesSafely
  <2> QED BY <1>3, <2>3, <2>4 DEF Search!IndexVector, Search!ReturnLeast
<1>4. CASE Search!IndexRest
  <2>1. x_pos < Search!n BY <1>4 DEF Search!IndexRest
  <2>2. CASE Search!OccursAt(x_pos)
    <3>1. Search!IsFirst(x_pos) BY <1>1, <2>1, <2>2 DEF Search!IsFirst, NothingBefore
    <3> QED BY <1>1, <1>2, <1>4, <2>1, <2>2, <3>1, ReturnsFirst DEF Search!IndexRest
  <2>3. CASE ~Search!OccursAt(x_pos)
    <3>1. NothingBefore(x_pos + 1) BY <1>1, <2>3 DEF NothingBefore
    <3>2. Search!Advance(x_pos + 1) BY <1>1, <1>2, <1>4, <2>1, <2>3 DEF Search!IndexRest
    <3> QED BY <1>1, <3>1, <3>2, AdvancesSafely
  <2> QED BY <2>2, <2>3
<1>5. CASE Search!IndexEnd
  <2>1. x_pos >= Search!n /\ Search!Return(-1) BY <1>5 DEF Search!IndexEnd
  <2>2. Search!IsFirst(-1) BY <1>1, <2>1 DEF Search!IsFirst, NothingBefore
  <2> QED BY <2>1, <2>2, ReturnsFirst
<1> QED BY <1>3, <1>4, <1>5

(* What jsl_substring_search decides before it searches.                    *)
LEMMA EnterStep ==
  ASSUME Search!SearchArguments, SearchInv,
         Search!Refuse \/ Search!SearchByte \/ Search!CompareWhole \/ Search!Dispatch \/ Search!EnterIndexOf
  PROVE  SearchInv'
<1> USE DEF SearchInv
<1>1. Shape /\ Search!n \in Nat /\ Search!m \in Nat /\ x_build \in SearchAsked.builds /\ x_build.block \in Nat
      /\ x_substring \in Seq(SearchAsked.byte) /\ x_string \in Seq(SearchAsked.byte) /\ x_pc = "enter" /\ SearchAsked.bits \in Nat
  BY Lengths DEF Shape, Search!SearchArguments, Search!Refuse, Search!SearchByte, Search!CompareWhole, Search!Dispatch, Search!EnterIndexOf
<1>2. CASE Search!Refuse
  <2>1. Search!IsFirst(-1) BY <1>1, <1>2 DEF Search!Refuse, Search!Searchable, Search!IsFirst, Search!OccursAt
  <2> QED BY <1>2, <2>1, ReturnsFirst DEF Search!Refuse
<1>3. CASE Search!SearchByte
  BY <1>1, <1>3, EntersSafely DEF Search!SearchByte
<1>4. CASE Search!CompareWhole
  <2>1. Search!n = Search!m /\ 1 < Search!m BY <1>1, <1>4 DEF Search!CompareWhole
  <2>2. x_string = x_substring <=> Search!OccursAt(0)
    <3>1. x_string = x_substring => Search!OccursAt(0)
      BY <1>1, <2>1 DEF Search!OccursAt, Search!At, Search!Sub
    <3>2. ASSUME Search!OccursAt(0) PROVE x_string = x_substring
      <4>1. ASSUME NEW k \in 1 .. Search!n PROVE x_string[k] = x_substring[k]
        <5>1. k - 1 \in 0 .. Search!m - 1 /\ 0 + (k - 1) + 1 = k /\ (k - 1) + 1 = k BY <1>1, <2>1
        <5> QED BY <3>2, <5>1 DEF Search!OccursAt, Search!At, Search!Sub
      <4> QED BY <1>1, <2>1, <4>1 DEF Search!n, Search!m
    <3> QED BY <3>1, <3>2
  <2>3. CASE x_string = x_substring
    <3>1. Search!IsFirst(0) BY <1>1, <2>1, <2>2, <2>3 DEF Search!IsFirst
    <3> QED BY <1>4, <2>3, <3>1, ReturnsFirst DEF Search!CompareWhole
  <2>4. CASE x_string # x_substring
    <3>1. \A q \in 0 .. Search!n - 1 : ~Search!OccursAt(q)
      <4>1. ASSUME NEW q \in 0 .. Search!n - 1, Search!OccursAt(q) PROVE FALSE
        <5>1. q = 0 BY <1>1, <2>1, <4>1 DEF Search!OccursAt
        <5> QED BY <2>2, <2>4, <4>1, <5>1
      <4> QED BY <4>1
    <3>2. Search!IsFirst(-1) BY <3>1 DEF Search!IsFirst
    <3> QED BY <1>4, <2>4, <3>2, ReturnsFirst DEF Search!CompareWhole
  <2> QED BY <2>3, <2>4
<1>5. CASE Search!Dispatch
  <2>1. x_call = "substring" /\ Search!m > 1 /\ Search!n > Search!m BY <1>5 DEF Search!Dispatch
  <2>2. CASE Search!Vectors
    <3>1. Search!Goto("blocks", 0) BY <1>5, <2>2 DEF Search!Dispatch
    <3>2. x_build.block > 0 BY <2>2 DEF Search!Vectors
    <3> QED BY <1>1, <2>1, <3>1, <3>2, EntersSafely
  <2>3. CASE ~Search!Vectors /\ Search!m = 2
    <3>1. Search!Goto("pairs", 0) BY <1>5, <2>3 DEF Search!Dispatch
    <3> QED BY <1>1, <2>1, <2>3, <3>1, EntersSafely
  <2>4. CASE ~Search!Vectors /\ Search!m # 2 /\ Search!m <= SearchAsked.bits
    <3>1. Search!m \in 3 .. SearchAsked.bits BY <1>1, <2>1, <2>4
    <3>2. Search!Goto("windows", 0) BY <1>1, <1>5, <2>4, <3>1 DEF Search!Dispatch
    <3> QED BY <1>1, <2>1, <3>2, EntersSafely
  <2>5. CASE ~Search!Vectors /\ Search!m # 2 /\ Search!m > SearchAsked.bits
    <3>1. Search!m > 2 /\ Search!m \notin 3 .. SearchAsked.bits BY <1>1, <2>1, <2>5
    <3>2. Search!Goto("sunday", 0) BY <1>5, <2>5, <3>1 DEF Search!Dispatch
    <3> QED BY <1>1, <2>1, <3>2, EntersSafely
  <2> QED BY <1>1, <2>2, <2>3, <2>4, <2>5
<1>6. CASE Search!EnterIndexOf
  <2>1. Search!m = 1 /\ x_call = "index_of" BY <1>1, <1>6 DEF Search!EnterIndexOf, Shape
  <2>2. CASE Search!n < 1
    <3>1. Search!IsFirst(-1) BY <1>1, <2>2 DEF Search!IsFirst
    <3> QED BY <1>6, <2>2, <3>1, ReturnsFirst DEF Search!EnterIndexOf
  <2>3. CASE ~(Search!n < 1)
    <3>1. Search!Goto("index", 0) BY <1>6, <2>3 DEF Search!EnterIndexOf
    <3> QED BY <1>1, <2>1, <3>1, EntersSafely
  <2> QED BY <2>2, <2>3
<1> QED BY <1>2, <1>3, <1>4, <1>5, <1>6

-----------------------------------------------------------------------------
(* The other two calls decide nothing of a search.                          *)
LEMMA OtherStep ==
  ASSUME Search!SearchArguments, SearchInv,
         \/ Search!EnterCount \/ Search!CountVector \/ Search!CountEnd
         \/ Search!EnterReverse \/ Search!ReverseBlock \/ Search!ReverseBlocksEnd \/ Search!ReverseByte \/ Search!ReverseEnd
  PROVE  SearchInv'
<1>1. /\ UNCHANGED <<Search!arguments, x_j, x_last>> /\ x_pos' \in Int
      /\ x_pc' \in {"count", "reverse", "reverse_blocks", "done"} /\ x_call \in {"count", "reverse"}
      /\ x_pc' = "count" => x_call = "count"
      /\ x_pc' \in {"reverse", "reverse_blocks"} => x_call = "reverse"
  <2> USE Search!SearchArguments DEF SearchInv, Shape, Search!Return, Search!Goto, Search!Advance, Search!window
  <2>1. CASE Search!EnterCount \/ Search!CountEnd BY <2>1 DEF Search!EnterCount, Search!CountEnd
  <2>2. CASE Search!CountVector
    <3>1. x_build.counts \subseteq Nat BY DEF Search!SearchArguments
    <3> QED BY <2>2, <3>1 DEF Search!CountVector, Search!Widest, Search!Filling
  <2>3. CASE Search!EnterReverse
    <3>1. x_build.reverse \in Nat /\ Search!n \in Nat BY Lengths DEF Search!SearchArguments
    <3> QED BY <2>3, <3>1 DEF Search!EnterReverse
  <2>4. CASE Search!ReverseBlock
    <3>1. x_build.reverse \in Nat BY DEF Search!SearchArguments
    <3> QED BY <2>4, <3>1 DEF Search!ReverseBlock, Search!ReturnLeast
  <2>5. CASE Search!ReverseBlocksEnd \/ Search!ReverseByte \/ Search!ReverseEnd
    BY <2>5 DEF Search!ReverseBlocksEnd, Search!ReverseByte, Search!ReverseEnd
  <2> QED BY <2>1, <2>2, <2>3, <2>4, <2>5
<1>2. Shape' BY <1>1, SameStrings DEF SearchInv, Shape, Searching, Search!Locations
<1> QED BY <1>1, <1>2, SameStrings DEF SearchInv, Searching, Search!FirstFound

(* A call begins; of a call for one byte the substring is that byte.        *)
LEMMA CallStep ==
  ASSUME Search!SearchArguments, SearchInv, NEW s \in SearchAsked.strings, NEW t \in SearchAsked.substrings,
         NEW c \in {"substring", "index_of", "count", "reverse"}, Search!Call(c, s, t),
         c # "substring" => Len(t) = 1
  PROVE  SearchInv'
BY DEF SearchInv, Search!Call, Shape, Searching, Search!Locations, Search!FirstFound, Search!SearchArguments, Search!n, Search!m, Search!window

LEMMA SearchStarts == ASSUME Search!SearchArguments, Search!Init PROVE SearchInv
BY DEF Search!Init, SearchInv, Shape, Searching, Search!Locations, Search!FirstFound, Search!m

LEMMA SearchKept == ASSUME Search!SearchArguments, SearchInv, [Search!Next]_(Search!vars) PROVE SearchInv'
<1>1. CASE \E s \in SearchAsked.strings, t \in SearchAsked.substrings : Search!Call("substring", s, t)
  BY <1>1, CallStep
<1>2. CASE \E s \in SearchAsked.strings, t \in SearchAsked.substrings :
             Len(t) = 1 /\ \E c \in {"index_of", "count", "reverse"} : Search!Call(c, s, t)
  BY <1>2, CallStep
<1>3. CASE Search!SubstringStep
  BY <1>3, EnterStep, BlockStep, PairStep, WindowStep, SundayStep DEF Search!SubstringStep
<1>4. CASE Search!ByteStep
  BY <1>4, EnterStep, IndexStep, OtherStep DEF Search!ByteStep
<1>5. CASE UNCHANGED Search!vars
  <2>1. UNCHANGED <<Search!arguments, x_pc, x_pos, x_D, x_j, x_last, x_res>> BY <1>5 DEF Search!vars, Search!window
  <2>2. Shape' BY <2>1, SameStrings DEF SearchInv, Shape
  <2>3. NothingBefore(x_pos)' <=> NothingBefore(x_pos) BY <2>1, SameStrings DEF NothingBefore
  <2>4. Alive' = Alive BY <2>1 DEF Alive, Search!arguments, Search!m, Search!At, Search!Sub
  <2>5. ScanInv' <=> ScanInv BY <2>1, <2>4, SameStrings DEF ScanInv
  <2>6. Search!FirstFound' <=> Search!FirstFound BY <2>1, SameStrings DEF Search!FirstFound, Search!IsFirst
  <2> QED BY <2>1, <2>2, <2>3, <2>5, <2>6 DEF SearchInv
<1> QED BY <1>1, <1>2, <1>3, <1>4, <1>5 DEF Search!Next, Search!Step

-----------------------------------------------------------------------------
(* The generated array: its functions, read as operations on a sequence.     *)
LEMMA OneValue ==
  ASSUME NEW V, NEW v \in V
  PROVE  <<v>> \in Seq(V) /\ Len(<<v>>) = 1 /\ <<v>>[1] = v
OBVIOUS

(* A chunk put into a sequence, and a part taken out of one.                *)
Spliced(s, p, ch) == SubSeq(s, 1, p) \o ch \o SubSeq(s, p + 1, Len(s))
Without(s, p, k) == SubSeq(s, 1, p) \o SubSeq(s, p + k + 1, Len(s))

IsPut(V, s, ch, n, m, p, t) ==
  /\ s \in Seq(V) /\ ch \in Seq(V) /\ n \in Nat /\ m \in Nat /\ n = Len(s) /\ m = Len(ch) /\ p \in 0 .. n
  /\ t \in Seq(V) /\ Len(t) = n + m
  /\ \A i \in 1 .. n + m :
       t[i] = IF i <= p THEN s[i] ELSE IF i <= p + m THEN ch[i - p] ELSE s[i - m]

LEMMA PutInto ==
  ASSUME NEW V, NEW s, NEW ch, NEW n, NEW m, NEW p, NEW t, IsPut(V, s, ch, n, m, p, t)
  PROVE  t = Spliced(s, p, ch)
<1> USE DEF IsPut
<1> DEFINE left == SubSeq(s, 1, p)
           right == SubSeq(s, p + 1, n)
           lc == left \o ch
           all == lc \o right
<1>1. left \in Seq(V) /\ Len(left) = p /\ \A i \in 1 .. p : left[i] = s[i]
  OBVIOUS
<1>2. right \in Seq(V) /\ Len(right) = n - p /\ \A i \in 1 .. n - p : right[i] = s[p + i]
  BY SMTT(30)
<1> HIDE DEF left, right
<1>4. /\ lc \in Seq(V) /\ Len(lc) = p + m
      /\ \A i \in 1 .. p + m : lc[i] = IF i <= p THEN left[i] ELSE ch[i - p]
  BY <1>1, ConcatProperties
<1> HIDE DEF lc
<1>5. /\ all \in Seq(V) /\ Len(all) = (p + m) + (n - p)
      /\ \A i \in 1 .. (p + m) + (n - p) : all[i] = IF i <= p + m THEN lc[i] ELSE right[i - (p + m)]
  <2>0. lc \in Seq(V) /\ right \in Seq(V)
    BY <1>2, <1>4
  <2>1. /\ all \in Seq(V) /\ Len(all) = Len(lc) + Len(right)
        /\ \A i \in 1 .. Len(lc) + Len(right) : all[i] = IF i <= Len(lc) THEN lc[i] ELSE right[i - Len(lc)]
    BY ONLY <2>0, ConcatProperties DEF all
  <2>2. Len(lc) + Len(right) = (p + m) + (n - p)
    BY <1>2, <1>4
  <2> QED
    BY <1>4, <2>1, <2>2, Zenon
<1> HIDE DEF all
<1>6. ASSUME NEW i \in 1 .. n + m PROVE all[i] = t[i]
  <2>0. /\ i \in 1 .. (p + m) + (n - p) /\ all[i] = IF i <= p + m THEN lc[i] ELSE right[i - (p + m)]
        /\ t[i] = IF i <= p THEN s[i] ELSE IF i <= p + m THEN ch[i - p] ELSE s[i - m]
        /\ i <= p + m => lc[i] = IF i <= p THEN left[i] ELSE ch[i - p]
    BY <1>4, <1>5
  <2>1. CASE i <= p
    BY <1>1, <2>0, <2>1
  <2>2. CASE p < i /\ i <= p + m
    BY <2>0, <2>2
  <2>3. CASE i > p + m
    <3>1. all[i] = right[i - (p + m)] /\ i - (p + m) \in 1 .. n - p
      BY <2>0, <2>3
    <3>2. PICK k \in 1 .. n - p : k = i - (p + m)
      BY <3>1
    <3>3. right[k] = s[p + k]
      BY <1>2
    <3>4. p + k = i - m
      BY <3>2
    <3> QED
      BY <2>0, <2>3, <3>1, <3>2, <3>3, <3>4
  <2> QED
    BY <2>1, <2>2, <2>3
<1>7. Len(all) = n + m
  BY <1>5
<1>8. all = t
  BY <1>5, <1>6, <1>7, SeqEqual
<1> QED
  BY <1>8 DEF all, lc, left, right, Spliced

IsTaken(V, s, n, p, k, t) ==
  /\ s \in Seq(V) /\ n \in Nat /\ n = Len(s) /\ p \in Nat /\ k \in Nat /\ p + k <= n
  /\ t \in Seq(V) /\ Len(t) = n - k
  /\ \A i \in 1 .. n - k : t[i] = IF i <= p THEN s[i] ELSE s[i + k]

LEMMA TakenOut ==
  ASSUME NEW V, NEW s, NEW n, NEW p, NEW k, NEW t, IsTaken(V, s, n, p, k, t)
  PROVE  t = Without(s, p, k)
<1> USE DEF IsTaken
<1> DEFINE left == SubSeq(s, 1, p)
           right == SubSeq(s, p + k + 1, n)
           all == left \o right
<1>1. left \in Seq(V) /\ Len(left) = p /\ \A i \in 1 .. p : left[i] = s[i]
  OBVIOUS
<1>2. /\ right \in Seq(V) /\ Len(right) = n - p - k
      /\ \A i \in 1 .. n - p - k : right[i] = s[p + k + i]
  OBVIOUS
<1> HIDE DEF left, right
<1>3. /\ all \in Seq(V) /\ Len(all) = p + (n - p - k)
      /\ \A i \in 1 .. p + (n - p - k) : all[i] = IF i <= p THEN left[i] ELSE right[i - p]
  BY <1>1, <1>2, ConcatProperties
<1> HIDE DEF all
<1>4. ASSUME NEW i \in 1 .. n - k PROVE all[i] = t[i]
  <2>1. CASE i <= p
    BY <1>1, <1>3, <2>1
  <2>2. CASE i > p
    <3>1. all[i] = right[i - p] /\ i - p \in 1 .. n - p - k
      BY <1>3, <2>2
    <3>2. right[i - p] = s[p + k + (i - p)] /\ p + k + (i - p) = i + k
      BY <1>2, <3>1
    <3> QED
      BY <2>2, <3>1, <3>2
  <2> QED
    BY <2>1, <2>2
<1>5. Len(all) = n - k /\ n - k \in Nat
  BY <1>3
<1>6. all = t
  BY <1>3, <1>4, <1>5, SeqEqual
<1> QED
  BY <1>6 DEF all, left, right, Without

-----------------------------------------------------------------------------
(* The array.  Its block has its capacity, every element was written, and   *)
(* it has exactly one block as long as it can hold anything.                *)
Written(n, f) == n \in Nat /\ \A i \in 0 .. n - 1 : f[i] \in ArrayAsked.values
ArrayShape(v, c, n, f, b) ==
  /\ v \in BOOLEAN /\ c \in Nat /\ c <= ArrayAsked.most /\ n \in Nat /\ n <= c
  /\ f \in Array!Cells(c) /\ Written(n, f)
  /\ ~v => c = 0
  /\ b = IF v /\ c > 0 THEN 1 ELSE 0
ArrayInv == ArrayShape(d_valid, d_capacity, d_length, d_data, d_blocks)

(* What a call leaves, in terms that are not primed.                        *)
ArrayBecomes(v, c, n, f, b) ==
  /\ d_valid' = v /\ d_capacity' = c /\ d_length' = n /\ d_data' = f /\ d_blocks' = b
  /\ ArrayShape(v, c, n, f, b)

(* The elements, as the sequence that is promised.                          *)
Elements(n, f) == [i \in 1 .. n |-> f[i - 1]]

LEMMA ElementsAre ==
  ASSUME NEW n, NEW f, Written(n, f)
  PROVE  Elements(n, f) \in Seq(ArrayAsked.values) /\ Len(Elements(n, f)) = n
<1>1. n \in Nat /\ \A i \in 1 .. n : f[i - 1] \in ArrayAsked.values
  <2>1. \A i \in 1 .. n : i - 1 \in 0 .. n - 1
    BY DEF Written
  <2> QED
    BY <2>1 DEF Written
<1>2. Elements(n, f) \in [1 .. n -> ArrayAsked.values]
  BY <1>1 DEF Elements
<1> QED
  BY <1>1, <1>2

LEMMA ArrayStarts ==
  ASSUME Array!Init, Array!ArrayArguments
  PROVE  ArrayInv
<1>1. d_data \in Array!Cells(d_capacity)
  BY DEF Array!Init, Array!Cells
<1> QED
  BY <1>1 DEF Array!Init, Array!ArrayArguments, ArrayInv, ArrayShape, Written

(* The block has become large enough, if it was not.                        *)
LEMMA ArrayGrows ==
  ASSUME ArrayInv, d_valid, NEW needed \in Nat, Array!EnsureCapacity(needed)
  PROVE  \E c, b \in Nat :
           /\ needed <= c /\ c <= ArrayAsked.most /\ d_capacity' = c
           /\ d_blocks' = b /\ b = (IF c > 0 THEN 1 ELSE 0)
           /\ ArrayShape(TRUE, c, d_length, Array!Ensured, b)
           /\ \A i \in 0 .. d_length - 1 : Array!Ensured[i] = d_data[i]
<1>1. PICK c \in Nat :
         /\ needed <= c /\ d_capacity <= c /\ c <= ArrayAsked.most /\ d_capacity' = c
         /\ d_blocks' = IF c > 0 THEN 1 ELSE 0
  <2>1. CASE needed <= d_capacity
    BY <2>1 DEF ArrayInv, ArrayShape, Written, Array!EnsureCapacity
  <2>2. CASE needed > d_capacity
    <3>1. PICK target \in Array!NextPowersOfTwo(needed) :
             /\ target <= ArrayAsked.most /\ d_capacity' = target
             /\ d_blocks' = IF d_capacity > 0 THEN d_blocks ELSE d_blocks + 1
      BY <2>2 DEF ArrayInv, ArrayShape, Written, Array!EnsureCapacity
    <3>2. target \in Nat /\ needed <= target
      BY DEF Array!NextPowersOfTwo, Array!PowersOfTwo
    <3> QED
      BY <2>2, <3>1, <3>2 DEF ArrayInv, ArrayShape, Written
  <2> QED
    BY <2>1, <2>2 DEF ArrayInv, ArrayShape, Written
<1>2. Array!Ensured = [i \in 0 .. c - 1 |-> IF i < d_capacity THEN d_data[i] ELSE ArrayAsked.garbage]
  BY <1>1, Zenon DEF Array!Ensured
<1>3. Array!Ensured \in Array!Cells(c)
  BY <1>1, <1>2 DEF ArrayInv, ArrayShape, Written, Array!Cells
<1>4. \A i \in 0 .. d_length - 1 : Array!Ensured[i] = d_data[i]
  BY <1>1, <1>2 DEF ArrayInv, ArrayShape, Written
<1>5. ArrayShape(TRUE, c, d_length, Array!Ensured, IF c > 0 THEN 1 ELSE 0)
  BY <1>1, <1>3, <1>4 DEF ArrayInv, ArrayShape, Written
<1> QED
  BY <1>1, <1>4, <1>5

(* From the shape that a call found, with the room for it, f has a chunk    *)
(* behind its elements, one value at a place, nothing of what was at one.   *)
Room(c, b, n, e, more) ==
  /\ c \in Nat /\ n \in Nat /\ n = d_length /\ n + more <= c
  /\ ArrayShape(TRUE, c, n, e, b)
  /\ \A i \in 0 .. n - 1 : e[i] = d_data[i]
HasBehind(c, b, n, e, f, m, vs) ==
  /\ m \in Nat /\ m = Len(vs) /\ vs \in Seq(ArrayAsked.values) /\ Room(c, b, n, e, m)
  /\ f = [i \in DOMAIN e |-> IF i \in n .. n + m - 1 THEN vs[i - n + 1] ELSE e[i]]
HasWithin(c, b, n, e, f, p, v, vs) ==
  /\ v \in ArrayAsked.values /\ vs = <<v>> /\ p \in 0 .. n /\ Room(c, b, n, e, 1)
  /\ f = [i \in 0 .. c - 1 |-> IF i = p THEN v ELSE IF p < i /\ i <= n THEN e[i - 1] ELSE e[i]]
HasWithout(v, c, b, n, e, f, p) ==
  /\ n \in Nat /\ p \in 0 .. n - 1 /\ ArrayShape(v, c, n, e, b)
  /\ f = [i \in DOMAIN e |-> IF i \in p .. p + (n - p - 1) - 1 THEN e[i - p + (p + 1)] ELSE e[i]]

(* What a call leaves: the shape, and its elements from those it found.     *)
Added(c, b, n, more, f, p, vs) ==
  ArrayShape(TRUE, c, n + more, f, b) /\ Elements(n + more, f) = Spliced(Elements(n, d_data), p, vs)
Taken(v, c, b, n, e, f, p) ==
  ArrayShape(v, c, n - 1, f, b) /\ Elements(n - 1, f) = Without(Elements(n, e), p, 1)

(* What a call appends goes behind what is there.                           *)
LEMMA ArrayAppends ==
  ASSUME ArrayInv, NEW c, NEW b, NEW n, NEW e, NEW f, NEW m, NEW vs, HasBehind(c, b, n, e, f, m, vs)
  PROVE  Added(c, b, n, m, f, n, vs)
<1> USE DEF HasBehind, Room
<1>1. \A i \in 1 .. m : vs[i] \in ArrayAsked.values
  BY ElementOfSeq
<1>2. ASSUME NEW i \in 0 .. c - 1
      PROVE  /\ f[i] \in ArrayAsked.values \cup {ArrayAsked.garbage}
             /\ i < n => f[i] = d_data[i] /\ d_data[i] \in ArrayAsked.values
             /\ n <= i /\ i < n + m => f[i] = vs[i - n + 1] /\ vs[i - n + 1] \in ArrayAsked.values
  <2>1. /\ DOMAIN e = 0 .. c - 1 /\ e[i] \in ArrayAsked.values \cup {ArrayAsked.garbage} /\ n <= c
        /\ i < n => e[i] = d_data[i] /\ d_data[i] \in ArrayAsked.values
    BY SMTT(30) DEF ArrayShape, Written, Array!Cells, ArrayInv
  <2>2. f[i] = IF i \in n .. n + m - 1 THEN vs[i - n + 1] ELSE e[i]
    BY <2>1
  <2>3. CASE n <= i /\ i < n + m
    <3>1. PICK k \in 1 .. m : k = i - n + 1
      BY <2>3
    <3> QED
      BY <1>1, <2>2, <2>3, <3>1
  <2>4. CASE i < n \/ i >= n + m
    BY <2>1, <2>2, <2>4
  <2> QED
    BY <2>3, <2>4
<1>3. f \in Array!Cells(c)
  BY <1>2 DEF ArrayShape, Written, Array!Cells
<1>4. ArrayShape(TRUE, c, n + m, f, b)
  <2>1. ASSUME NEW i \in 0 .. n + m - 1 PROVE f[i] \in ArrayAsked.values
    <3>1. i \in 0 .. c - 1
      OBVIOUS
    <3>2. CASE i < n
      BY <1>2, <3>1, <3>2
    <3>3. CASE n <= i
      BY <1>2, <3>1, <3>3
    <3> QED
      BY <3>2, <3>3
  <2>2. c <= ArrayAsked.most /\ b = (IF c > 0 THEN 1 ELSE 0) /\ n + m \in Nat
    BY DEF ArrayShape, Written
  <2> QED
    BY <1>3, <2>1, <2>2 DEF ArrayShape, Written
<1> DEFINE s == Elements(n, d_data)
           t == Elements(n + m, f)
<1>5. s \in Seq(ArrayAsked.values) /\ n = Len(s)
  BY ElementsAre DEF ArrayInv, ArrayShape
<1>6. ASSUME NEW i \in 1 .. n + m
      PROVE  f[i - 1] = IF i <= n THEN s[i] ELSE IF i <= n + m THEN vs[i - n] ELSE s[i - m]
  <2>1. PICK k \in 0 .. c - 1 : k = i - 1
    OBVIOUS
  <2>2. CASE i <= n
    <3>1. s[i] = d_data[k]
      BY <2>1, <2>2 DEF Elements
    <3> QED
      BY <1>2, <2>1, <2>2, <3>1
  <2>3. CASE i > n
    <3>1. f[k] = vs[k - n + 1] /\ k - n + 1 = i - n
      BY <1>2, <2>1, <2>3
    <3> QED
      BY <2>1, <2>3, <3>1
  <2> QED
    BY <2>2, <2>3
<1>7. /\ t \in Seq(ArrayAsked.values) /\ Len(t) = n + m
      /\ \A i \in 1 .. n + m : t[i] = IF i <= n THEN s[i] ELSE IF i <= n + m THEN vs[i - n] ELSE s[i - m]
  <2>1. t \in Seq(ArrayAsked.values) /\ Len(t) = n + m
    BY <1>4, ElementsAre DEF ArrayShape
  <2>2. \A i \in 1 .. n + m : t[i] = f[i - 1]
    BY DEF Elements
  <2> HIDE DEF s, t
  <2> QED
    BY <1>6, <2>1, <2>2, Zenon
<1>8. t = Spliced(s, n, vs)
  <2> HIDE DEF s, t
  <2>1. IsPut(ArrayAsked.values, s, vs, n, m, n, t)
    BY <1>5, <1>7 DEF IsPut
  <2> QED
    BY <2>1, PutInto
<1> QED
  BY <1>4, <1>8, Zenon DEF Added

(* One value goes to its place, those behind it move up.                    *)
LEMMA ArrayPuts ==
  ASSUME ArrayInv, NEW c, NEW b, NEW n, NEW e, NEW f, NEW p, NEW v, NEW vs,
         HasWithin(c, b, n, e, f, p, v, vs)
  PROVE  Added(c, b, n, 1, f, p, vs)
<1> USE DEF HasWithin, Room
<1>1. vs \in Seq(ArrayAsked.values) /\ Len(vs) = 1 /\ vs[1] = v
  BY OneValue, Zenon
<1>2. ASSUME NEW i \in 0 .. c - 1
      PROVE  /\ f[i] \in ArrayAsked.values \cup {ArrayAsked.garbage}
             /\ i < p => f[i] = d_data[i] /\ d_data[i] \in ArrayAsked.values
             /\ i = p => f[i] = v
             /\ p < i /\ i <= n => f[i] = d_data[i - 1] /\ d_data[i - 1] \in ArrayAsked.values
  <2>1. /\ e[i] \in ArrayAsked.values \cup {ArrayAsked.garbage}
        /\ i < n => e[i] = d_data[i] /\ d_data[i] \in ArrayAsked.values
    BY SMTT(30) DEF ArrayShape, Written, Array!Cells, ArrayInv
  <2>2. CASE p < i /\ i <= n
    <3>1. PICK k \in 0 .. n - 1 : k = i - 1
      BY <2>2
    <3>2. e[k] = d_data[k] /\ d_data[k] \in ArrayAsked.values
      BY DEF ArrayShape, Written, ArrayInv
    <3> QED
      BY <2>2, <3>1, <3>2
  <2>3. CASE i <= p \/ i > n
    BY <2>1, <2>3
  <2> QED
    BY <2>2, <2>3
<1>3. f \in Array!Cells(c)
  BY <1>2 DEF Array!Cells
<1>4. ArrayShape(TRUE, c, n + 1, f, b)
  <2>1. ASSUME NEW i \in 0 .. n PROVE f[i] \in ArrayAsked.values
    <3>1. i \in 0 .. c - 1
      OBVIOUS
    <3> QED
      BY <1>2, <3>1, SMTT(30)
  <2>2. c <= ArrayAsked.most /\ b = (IF c > 0 THEN 1 ELSE 0) /\ n + 1 \in Nat
    BY DEF ArrayShape, Written
  <2> QED
    BY <1>3, <2>1, <2>2 DEF ArrayShape, Written
<1> DEFINE s == Elements(n, d_data)
           t == Elements(n + 1, f)
<1>5. s \in Seq(ArrayAsked.values) /\ n = Len(s)
  BY ElementsAre DEF ArrayInv, ArrayShape
<1>6. ASSUME NEW i \in 1 .. n + 1
      PROVE  f[i - 1] = IF i <= p THEN s[i] ELSE IF i <= p + 1 THEN vs[i - p] ELSE s[i - 1]
  <2>1. PICK k \in 0 .. c - 1 : k = i - 1
    OBVIOUS
  <2>2. CASE i <= p
    <3>1. s[i] = d_data[k]
      BY <2>1, <2>2 DEF Elements
    <3> QED
      BY <1>2, <2>1, <2>2, <3>1
  <2>3. CASE i = p + 1
    <3>1. k = p /\ i - p = 1
      BY <2>1, <2>3
    <3> QED
      BY <1>1, <1>2, <2>1, <2>3, <3>1
  <2>4. CASE i > p + 1
    <3>1. s[k] = d_data[k - 1]
      BY <2>1, <2>4 DEF Elements
    <3> QED
      BY <1>2, <2>1, <2>4, <3>1
  <2> QED
    BY <2>2, <2>3, <2>4
<1>7. /\ t \in Seq(ArrayAsked.values) /\ Len(t) = n + 1
      /\ \A i \in 1 .. n + 1 : t[i] = IF i <= p THEN s[i] ELSE IF i <= p + 1 THEN vs[i - p] ELSE s[i - 1]
  <2>1. t \in Seq(ArrayAsked.values) /\ Len(t) = n + 1
    BY <1>4, ElementsAre DEF ArrayShape
  <2>2. \A i \in 1 .. n + 1 : t[i] = f[i - 1]
    BY DEF Elements
  <2> HIDE DEF s, t
  <2> QED
    BY <1>6, <2>1, <2>2, Zenon
<1>8. t = Spliced(s, p, vs)
  <2>1. PICK m \in Nat : m = 1
    OBVIOUS
  <2>2. /\ t \in Seq(ArrayAsked.values) /\ Len(t) = n + m
        /\ \A i \in 1 .. n + m : t[i] = IF i <= p THEN s[i] ELSE IF i <= p + m THEN vs[i - p] ELSE s[i - m]
    <3> HIDE DEF s, t
    <3> QED
      BY <1>7, <2>1, Zenon
  <2>3. m = Len(vs) /\ vs \in Seq(ArrayAsked.values)
    BY <1>1, <2>1
  <2> HIDE DEF s, t
  <2>4. IsPut(ArrayAsked.values, s, vs, n, m, p, t)
    BY <1>5, <2>2, <2>3 DEF IsPut
  <2> QED
    BY <2>4, PutInto
<1> QED
  BY <1>4, <1>8, Zenon DEF Added

(* The value at a place goes, those behind it move down.                    *)
LEMMA ArrayTakes ==
  ASSUME NEW v, NEW c, NEW b, NEW n, NEW e, NEW f, NEW p, HasWithout(v, c, b, n, e, f, p)
  PROVE  Taken(v, c, b, n, e, f, p)
<1> USE DEF HasWithout
<1>1. ASSUME NEW i \in 0 .. c - 1
      PROVE  /\ f[i] \in ArrayAsked.values \cup {ArrayAsked.garbage}
             /\ i < p => f[i] = e[i] /\ e[i] \in ArrayAsked.values
             /\ p <= i /\ i <= n - 2 => f[i] = e[i + 1] /\ e[i + 1] \in ArrayAsked.values
  <2>1. /\ DOMAIN e = 0 .. c - 1 /\ e[i] \in ArrayAsked.values \cup {ArrayAsked.garbage} /\ n <= c /\ c \in Nat
        /\ i < n => e[i] \in ArrayAsked.values
    BY DEF ArrayShape, Written, Array!Cells
  <2>2. CASE p <= i /\ i <= n - 2
    <3>1. PICK k \in 0 .. n - 1 : k = i + 1 /\ k = i - p + (p + 1)
      BY <2>2
    <3>2. e[k] \in ArrayAsked.values
      BY DEF ArrayShape, Written
    <3> QED
      BY <2>1, <2>2, <3>1, <3>2
  <2>3. CASE i < p \/ i > n - 2
    BY <2>1, <2>3
  <2> QED
    BY <2>2, <2>3
<1>2. f \in Array!Cells(c)
  BY <1>1 DEF Array!Cells, ArrayShape, Written
<1>3. ArrayShape(v, c, n - 1, f, b)
  <2>1. ASSUME NEW i \in 0 .. n - 1 - 1 PROVE f[i] \in ArrayAsked.values
    <3>1. i \in 0 .. c - 1
      BY DEF ArrayShape, Written
    <3>2. i < p \/ (p <= i /\ i <= n - 2)
      OBVIOUS
    <3> QED
      BY <1>1, <3>1, <3>2
  <2>2. n - 1 \in Nat /\ n - 1 <= c
    BY DEF ArrayShape, Written
  <2> QED
    BY <1>2, <2>1, <2>2 DEF ArrayShape, Written
<1> DEFINE s == Elements(n, e)
           t == Elements(n - 1, f)
<1>4. s \in Seq(ArrayAsked.values) /\ n = Len(s)
  BY ElementsAre DEF ArrayShape
<1>5. ASSUME NEW i \in 1 .. n - 1
      PROVE  f[i - 1] = IF i <= p THEN s[i] ELSE s[i + 1]
  <2>1. PICK k \in 0 .. c - 1 : k = i - 1
    BY DEF ArrayShape, Written
  <2>2. CASE i <= p
    <3>1. s[i] = e[k]
      BY <2>1, <2>2 DEF Elements
    <3> QED
      BY <1>1, <2>1, <2>2, <3>1
  <2>3. CASE i > p
    <3>1. s[i + 1] = e[k + 1]
      BY <2>1, <2>3 DEF Elements
    <3> QED
      BY <1>1, <2>1, <2>3, <3>1
  <2> QED
    BY <2>2, <2>3
<1>6. /\ t \in Seq(ArrayAsked.values) /\ Len(t) = n - 1
      /\ \A i \in 1 .. n - 1 : t[i] = IF i <= p THEN s[i] ELSE s[i + 1]
  <2>1. t \in Seq(ArrayAsked.values) /\ Len(t) = n - 1
    BY <1>3, ElementsAre DEF ArrayShape
  <2>2. \A i \in 1 .. n - 1 : t[i] = f[i - 1]
    BY DEF Elements
  <2> HIDE DEF s, t
  <2> QED
    BY <1>5, <2>1, <2>2, Zenon
<1>7. t = Without(s, p, 1)
  <2> HIDE DEF s, t
  <2>1. PICK k \in Nat : k = 1
    OBVIOUS
  <2>2. /\ t \in Seq(ArrayAsked.values) /\ Len(t) = n - k
        /\ \A i \in 1 .. n - k : t[i] = IF i <= p THEN s[i] ELSE s[i + k]
    BY <1>6, <2>1, Zenon
  <2>3. p \in Nat /\ k \in Nat /\ n \in Nat /\ p + k <= n
    BY <2>1
  <2>4. t = Without(s, p, k)
    <3> HIDE DEF s, t
    <3>1. IsTaken(ArrayAsked.values, s, n, p, k, t)
      BY <1>4, <2>2, <2>3 DEF IsTaken
    <3> QED
      BY <3>1, TakenOut
  <2> QED
    BY <2>1, <2>4, Zenon
<1> QED
  BY <1>3, <1>7, Zenon DEF Taken

LEMMA ArrayKeeps ==
  ASSUME NEW v, NEW c, NEW n, NEW f, NEW b, ArrayBecomes(v, c, n, f, b)
  PROVE  ArrayInv' /\ Array!Contents' = Elements(n, f)
<1>1. ArrayInv'
  BY Zenon DEF ArrayBecomes, ArrayInv
<1>2. Array!Contents' = Elements(n, f)
  BY Zenon DEF ArrayBecomes, Array!Contents, Elements
<1> QED
  BY <1>1, <1>2

ArrayPromised == Array!Promise!Next \/ UNCHANGED <<Array!Contents, d_last>>

LEMMA ArrayPromiseAdds ==
  ASSUME NEW op \in {"append", "insert_at"}, NEW chunk, NEW place, NEW outcome \in BOOLEAN,
         chunk \in ArrayAsked.chunks \cup {<<v>> : v \in ArrayAsked.values},
         Array!Call(op, chunk, place, 0, outcome),
         place \in 0 .. ArrayAsked.most, op = "append" => place = Len(Array!Contents),
         outcome => /\ place <= Len(Array!Contents)
                   /\ Array!Contents' = Spliced(Array!Contents, place, chunk),
         ~outcome => UNCHANGED Array!Contents
  PROVE  ArrayPromised
<1>1. Array!Promise!Called(op, chunk, place, 0) /\ d_last'.answer = outcome
  BY DEF Array!Promise!Called, Array!Call
<1>2. Array!Promise!Add(op, chunk, place)
  <2>1. CASE outcome
    BY <1>1, <2>1 DEF Array!Promise!Add, Array!Promise!Answers, Spliced
  <2>2. CASE ~outcome
    <3>1. d_last'.answer = FALSE
      BY <1>1, <2>2
    <3> QED
      BY <1>1, <2>2, <3>1 DEF Array!Promise!Add, Array!Promise!Answers
  <2> QED
    BY <2>1, <2>2
<1> QED
  BY <1>2 DEF ArrayPromised, Array!Promise!Next

LEMMA ArrayNow ==
  ASSUME ArrayInv
  PROVE  /\ Array!Contents = Elements(d_length, d_data) /\ Len(Array!Contents) = d_length
         /\ d_length \in Nat /\ d_capacity \in Nat /\ d_length <= d_capacity
         /\ d_capacity <= ArrayAsked.most /\ d_valid \in BOOLEAN
<1>1. Array!Contents = Elements(d_length, d_data)
  BY Zenon DEF Array!Contents, Elements
<1>2. Written(d_length, d_data)
  BY DEF ArrayInv, ArrayShape
<1>3. Len(Elements(d_length, d_data)) = d_length
  BY <1>2, ElementsAre
<1> QED
  BY <1>1, <1>3 DEF ArrayInv, ArrayShape

(* A call that leaves the array as it is.                                   *)
LEMMA ArraySame ==
  ASSUME ArrayInv, UNCHANGED <<d_valid, d_data, d_length, d_capacity, d_blocks>>
  PROVE  ArrayInv' /\ UNCHANGED Array!Contents
<1>1. ArrayBecomes(d_valid, d_capacity, d_length, d_data, d_blocks)
  BY DEF ArrayBecomes, ArrayInv
<1> QED
  BY <1>1, ArrayKeeps, ArrayNow

LEMMA ArrayRefuses ==
  ASSUME ArrayInv, Array!ArrayArguments,
         NEW op \in {"append", "insert_at"}, NEW chunk, NEW place,
         chunk \in ArrayAsked.chunks \cup {<<v>> : v \in ArrayAsked.values},
         Array!Call(op, chunk, place, 0, FALSE),
         place \in 0 .. ArrayAsked.most, op = "append" => place = d_length,
         UNCHANGED <<d_valid, d_data, d_length, d_capacity, d_blocks>>
  PROVE  ArrayInv' /\ ArrayPromised
<1>1. ArrayInv' /\ UNCHANGED Array!Contents
  BY ArraySame
<1>2. op = "append" => place = Len(Array!Contents)
  BY ArrayNow
<1>3. PICK no \in BOOLEAN : no = FALSE
  OBVIOUS
<1>4. ArrayPromised
  BY <1>1, <1>2, <1>3, ArrayPromiseAdds
<1> QED
  BY <1>1, <1>4

LEMMA ArrayStep ==
  ASSUME ArrayInv, Array!Next, Array!ArrayArguments
  PROVE  ArrayInv' /\ ArrayPromised
<1>0. ArrayAsked.most \in Nat \ {0} /\ ArrayAsked.initial \in Nat /\ ArrayAsked.initial <= ArrayAsked.most
      /\ \A vs \in ArrayAsked.chunks : vs \in Seq(ArrayAsked.values)
  BY DEF Array!ArrayArguments
<1>n. PICK n \in Nat : n = d_length
  BY ArrayNow
<1>c. /\ Array!Contents = Elements(n, d_data) /\ Len(Array!Contents) = n /\ n \in 0 .. ArrayAsked.most
      /\ n <= d_capacity /\ d_capacity \in Nat /\ d_capacity <= ArrayAsked.most /\ n = d_length
  BY <1>0, <1>n, ArrayNow
<1>1. ASSUME NEW v \in ArrayAsked.values, NEW i \in 0 .. n, NEW op \in {"append", "insert_at"},
             d_valid, d_valid' = d_valid, Array!EnsureCapacity(d_length + 1), d_length' = d_length + 1,
             op = "append" => i = n, Array!Call(op, <<v>>, i, 0, TRUE),
             \A j \in DOMAIN Array!Ensured : d_data'[j] = IF j = i THEN v ELSE IF i < j /\ j <= n THEN Array!Ensured[j - 1] ELSE Array!Ensured[j],
             d_data' = [j \in DOMAIN Array!Ensured |-> d_data'[j]]
      PROVE  ArrayInv' /\ ArrayPromised
  <2>0. n + 1 \in Nat /\ Array!EnsureCapacity(n + 1)
    BY <1>1, <1>c
  <2>1. PICK c, b \in Nat :
         /\ n + 1 <= c /\ c <= ArrayAsked.most /\ d_capacity' = c
         /\ d_blocks' = b /\ b = (IF c > 0 THEN 1 ELSE 0)
         /\ ArrayShape(TRUE, c, d_length, Array!Ensured, b)
         /\ \A j \in 0 .. d_length - 1 : Array!Ensured[j] = d_data[j]
    BY <1>1, <2>0, ArrayGrows
  <2>2. PICK e : e = Array!Ensured
    OBVIOUS
  <2> DEFINE f == [j \in 0 .. c - 1 |-> IF j = i THEN v ELSE IF i < j /\ j <= n THEN e[j - 1] ELSE e[j]]
  <2>3. d_data' = f
    <3>1. DOMAIN e = 0 .. c - 1
      BY <2>1, <2>2 DEF ArrayShape, Array!Cells
    <3>2. \A j \in 0 .. c - 1 : d_data'[j] = IF j = i THEN v ELSE IF i < j /\ j <= n THEN e[j - 1] ELSE e[j]
      BY <1>1, <2>2, <3>1
    <3>3. d_data' = [j \in 0 .. c - 1 |-> d_data'[j]]
      BY <1>1, <2>2, <3>1
    <3> QED
      BY <3>2, <3>3, Zenon
  <2>4. PICK vs : vs = <<v>>
    OBVIOUS
  <2>5. /\ ArrayShape(TRUE, c, n, e, b) /\ \A j \in 0 .. n - 1 : e[j] = d_data[j]
    BY <1>c, <2>1, <2>2
  <2>6. PICK g : g = f
    OBVIOUS
  <2>7. /\ ArrayShape(TRUE, c, n + 1, g, b)
        /\ Elements(n + 1, g) = Spliced(Elements(n, d_data), i, vs)
    <3>1. HasWithin(c, b, n, e, g, i, v, vs)
      BY <1>c, <2>1, <2>4, <2>5, <2>6 DEF HasWithin, Room
    <3> HIDE DEF f
    <3>2. Added(c, b, n, 1, g, i, vs)
      BY <3>1, ArrayPuts
    <3> QED
      BY <3>2, Zenon DEF Added
  <2>8. ArrayBecomes(TRUE, c, n + 1, g, b)
    BY <1>1, <1>c, <2>1, <2>3, <2>6, <2>7 DEF ArrayBecomes
  <2>9. ArrayInv' /\ Array!Contents' = Elements(n + 1, g)
    BY <2>8, ArrayKeeps
  <2>10. PICK yes \in BOOLEAN : yes = TRUE
    OBVIOUS
  <2>11. ArrayPromised
    <3>1. vs \in ArrayAsked.chunks \cup {<<w>> : w \in ArrayAsked.values}
      BY <2>4
    <3>2. i \in 0 .. ArrayAsked.most /\ i <= Len(Array!Contents)
      BY <1>0, <1>c
    <3>3. Array!Contents' = Spliced(Array!Contents, i, vs)
      BY <1>c, <2>7, <2>9
    <3>4. Array!Call(op, vs, i, 0, yes) /\ (op = "append" => i = Len(Array!Contents))
      BY <1>1, <1>c, <2>4, <2>10
    <3> QED
      BY <2>10, <3>1, <3>2, <3>3, <3>4, ArrayPromiseAdds
  <2> QED
    BY <2>9, <2>11
<1>2. ASSUME NEW v \in ArrayAsked.values, Array!Insert(v)
      PROVE  ArrayInv' /\ ArrayPromised
  <2>1. PICK e : e = Array!Ensured
    OBVIOUS
  <2>2. DOMAIN e = DOMAIN Array!Ensured /\ n \in 0 .. n
    BY <1>c, <2>1
  <2>3. d_data' = [e EXCEPT ![n] = v]
    BY <1>2, <1>c, <2>1 DEF Array!Insert
  <2>4. e = [j \in DOMAIN e |-> e[j]] /\ \A j \in DOMAIN e : j \in Int
    BY <2>1 DEF Array!Ensured
  <2>5. /\ \A j \in DOMAIN e : d_data'[j] = IF j = n THEN v ELSE IF n < j /\ j <= n THEN e[j - 1] ELSE e[j]
        /\ d_data' = [j \in DOMAIN e |-> d_data'[j]]
    <3>1. PICK g : g = d_data'
      OBVIOUS
    <3>2. g = [e EXCEPT ![n] = v]
      BY <2>3, <3>1, Zenon
    <3>3. /\ \A j \in DOMAIN e : g[j] = IF j = n THEN v ELSE IF n < j /\ j <= n THEN e[j - 1] ELSE e[j]
          /\ g = [j \in DOMAIN e |-> g[j]]
      <4>1. \A j \in DOMAIN e : j \in Int
        BY <2>4
      <4>0. n \in Nat
        OBVIOUS
      <4>2. \A j \in DOMAIN e : ~(n < j /\ j <= n)
        BY ONLY <4>0, <4>1
      <4>3. DOMAIN g = DOMAIN e /\ g = [j \in DOMAIN g |-> g[j]]
        BY ONLY <3>2
      <4>4. \A j \in DOMAIN e : g[j] = IF j = n THEN v ELSE e[j]
        BY ONLY <3>2
      <4> QED
        BY <4>2, <4>3, <4>4, Zenon
    <3> QED
      BY <3>1, <3>3, Zenon
  <2> QED
    BY <1>1, <1>2, <1>c, <2>1, <2>2, <2>5 DEF Array!Insert
<1>3. ASSUME NEW v \in ArrayAsked.values, NEW i \in Array!Indices, Array!InsertAt(v, i)
      PROVE  ArrayInv' /\ ArrayPromised
  <2>1. PICK e : e = Array!Ensured
    OBVIOUS
  <2>2. DOMAIN e = DOMAIN Array!Ensured /\ i \in 0 .. n
    BY <1>c, <1>3, <2>1 DEF Array!InsertAt, Array!Indices
  <2>3. d_data' = [Array!Moved(e, i + 1, i, n - i) EXCEPT ![i] = v]
    BY <1>3, <1>c, <2>1 DEF Array!InsertAt
  <2>4. \A j \in DOMAIN e : j \in Int
    BY <2>1 DEF Array!Ensured
  <2>5. /\ \A j \in DOMAIN e : d_data'[j] = IF j = i THEN v ELSE IF i < j /\ j <= n THEN e[j - 1] ELSE e[j]
        /\ d_data' = [j \in DOMAIN e |-> d_data'[j]]
    <3>1. PICK g : g = d_data'
      OBVIOUS
    <3>2. g = [Array!Moved(e, i + 1, i, n - i) EXCEPT ![i] = v]
      BY <2>3, <3>1, Zenon
    <3>3. /\ \A j \in DOMAIN e : g[j] = IF j = i THEN v ELSE IF i < j /\ j <= n THEN e[j - 1] ELSE e[j]
          /\ g = [j \in DOMAIN e |-> g[j]]
      <4>1. \A j \in DOMAIN e : j \in Int
        BY <2>4
      <4>2. i \in Nat /\ n \in Nat
        BY <2>2
      <4>3. PICK h : h = Array!Moved(e, i + 1, i, n - i)
        OBVIOUS
      <4>4. DOMAIN h = DOMAIN e /\ \A j \in DOMAIN e : h[j] = IF i < j /\ j <= n THEN e[j - 1] ELSE e[j]
        <5>1. h = [j \in DOMAIN e |-> IF j \in i + 1 .. i + 1 + (n - i) - 1 THEN e[j - (i + 1) + i] ELSE e[j]]
          BY <4>3, Zenon DEF Array!Moved
        <5>2. DOMAIN h = DOMAIN e /\ \A j \in DOMAIN e : h[j] = IF j \in i + 1 .. i + 1 + (n - i) - 1 THEN e[j - (i + 1) + i] ELSE e[j]
          BY <5>1, Zenon
        <5>3. ASSUME NEW j \in DOMAIN e PROVE h[j] = IF i < j /\ j <= n THEN e[j - 1] ELSE e[j]
          <6>1. PICK k \in Int : k = j
            BY <4>1
          <6>2. k - (i + 1) + i = k - 1 /\ (k \in i + 1 .. i + 1 + (n - i) - 1 <=> i < k /\ k <= n)
            BY <4>2
          <6> QED
            BY <5>2, <6>1, <6>2, Zenon
        <5> QED
          BY <5>2, <5>3, Zenon
      <4>5. g = [h EXCEPT ![i] = v]
        BY <3>2, <4>3, Zenon
      <4>6. DOMAIN g = DOMAIN h /\ g = [j \in DOMAIN g |-> g[j]]
        BY ONLY <4>5
      <4>7. \A j \in DOMAIN h : g[j] = IF j = i THEN v ELSE h[j]
        BY ONLY <4>5
      <4> QED
        BY <4>4, <4>6, <4>7, Zenon
    <3> QED
      BY <3>1, <3>3, Zenon
  <2> QED
    BY <1>1, <1>3, <1>c, <2>1, <2>2, <2>5 DEF Array!InsertAt
<1>4. ASSUME NEW vs \in ArrayAsked.chunks, Array!InsertMultiple(vs)
      PROVE  ArrayInv' /\ ArrayPromised
  <2>1. PICK m \in Nat : m = Len(vs) /\ vs \in Seq(ArrayAsked.values)
    BY <1>0
  <2>2. n + m \in Nat /\ d_valid /\ Array!EnsureCapacity(n + m)
    BY <1>4, <1>c, <2>1 DEF Array!InsertMultiple
  <2>3. PICK c, b \in Nat :
         /\ n + m <= c /\ c <= ArrayAsked.most /\ d_capacity' = c
         /\ d_blocks' = b /\ b = (IF c > 0 THEN 1 ELSE 0)
         /\ ArrayShape(TRUE, c, d_length, Array!Ensured, b)
         /\ \A j \in 0 .. d_length - 1 : Array!Ensured[j] = d_data[j]
    BY <2>2, ArrayGrows
  <2>4. PICK e : e = Array!Ensured
    OBVIOUS
  <2>5. PICK g : g = d_data'
    OBVIOUS
  <2>6. g = [j \in DOMAIN e |-> IF j \in n .. n + m - 1 THEN vs[j - n + 1] ELSE e[j]]
    BY <1>4, <1>c, <2>1, <2>4, <2>5 DEF Array!InsertMultiple
  <2>7. ArrayShape(TRUE, c, n, e, b) /\ \A j \in 0 .. n - 1 : e[j] = d_data[j]
    BY <1>c, <2>3, <2>4
  <2>8. Added(c, b, n, m, g, n, vs)
    <3>1. HasBehind(c, b, n, e, g, m, vs)
      BY <1>c, <2>1, <2>3, <2>6, <2>7 DEF HasBehind, Room
    <3> QED
      BY <3>1, ArrayAppends
  <2>9. ArrayBecomes(TRUE, c, n + m, g, b)
    <3>1. d_valid' = TRUE /\ d_length' = n + m
      BY <1>4, <1>c, <2>1 DEF Array!InsertMultiple
    <3> QED
      BY <2>3, <2>5, <2>8, <3>1, Zenon DEF ArrayBecomes, Added
  <2>10. ArrayInv' /\ Array!Contents' = Elements(n + m, g)
    BY <2>9, ArrayKeeps
  <2>11. PICK yes \in BOOLEAN : yes = TRUE
    OBVIOUS
  <2>12. ArrayPromised
    <3>1. n \in 0 .. ArrayAsked.most /\ n <= Len(Array!Contents) /\ n = Len(Array!Contents)
      BY <1>c
    <3>2. Array!Contents' = Spliced(Array!Contents, n, vs)
      BY <1>c, <2>8, <2>10, Zenon DEF Added
    <3>3. Array!Call("append", vs, n, 0, yes)
      BY <1>4, <1>c, <2>11 DEF Array!InsertMultiple
    <3> QED
      BY <2>11, <3>1, <3>2, <3>3, ArrayPromiseAdds
  <2> QED
    BY <2>10, <2>12
<1>5. ASSUME NEW i \in Array!Indices, Array!DeleteAt(i)
      PROVE  ArrayInv' /\ ArrayPromised
  <2>1. i \in 0 .. n - 1 /\ d_valid = TRUE
    BY <1>5, <1>c, ArrayNow DEF Array!DeleteAt, Array!Indices
  <2>2. PICK g : g = d_data'
    OBVIOUS
  <2>3. g = [j \in DOMAIN d_data |->
               IF j \in i .. i + (n - i - 1) - 1 THEN d_data[j - i + (i + 1)] ELSE d_data[j]]
    BY <1>5, <1>c, <2>2 DEF Array!DeleteAt, Array!Moved
  <2>4. HasWithout(TRUE, d_capacity, d_blocks, n, d_data, g, i)
    <3>1. ArrayShape(TRUE, d_capacity, n, d_data, d_blocks)
      BY <1>c, <2>1 DEF ArrayInv
    <3> QED
      BY <2>1, <2>3, <3>1 DEF HasWithout
  <2>5. Taken(TRUE, d_capacity, d_blocks, n, d_data, g, i)
    BY <2>4, ArrayTakes
  <2>6. ArrayBecomes(TRUE, d_capacity, n - 1, g, d_blocks)
    <3>1. d_valid' = TRUE /\ d_length' = n - 1 /\ d_capacity' = d_capacity /\ d_blocks' = d_blocks
      BY <1>5, <1>c, <2>1 DEF Array!DeleteAt
    <3> QED
      BY <2>2, <2>5, <3>1, Zenon DEF ArrayBecomes, Taken
  <2>7. ArrayInv' /\ Array!Contents' = Elements(n - 1, g)
    BY <2>6, ArrayKeeps
  <2>8. ArrayPromised
    <3>1. Array!Promise!Called("delete", <<>>, i, 1) /\ Array!Promise!Answers(TRUE)
      BY <1>5 DEF Array!DeleteAt, Array!Call, Array!Promise!Called, Array!Promise!Answers
    <3>2. Array!Contents' = Without(Array!Contents, i, 1)
      BY <1>c, <2>5, <2>7, Zenon DEF Taken
    <3>3. i + 1 <= Len(Array!Contents) /\ i \in 0 .. ArrayAsked.most /\ 1 \in 0 .. ArrayAsked.most
      BY <1>0, <1>c, <2>1
    <3>4. 1 > 0 /\ i + 1 <= Len(Array!Contents)
      BY <3>3
    <3>5. Array!Promise!Remove(i, 1)
      BY <3>1, <3>2, <3>4, Zenon DEF Array!Promise!Remove, Without
    <3> QED
      BY <3>3, <3>5 DEF ArrayPromised, Array!Promise!Next
  <2> QED
    BY <2>7, <2>8
<1>6. ASSUME NEW i \in Array!Indices, Array!DeleteAtBadIndex(i)
      PROVE  ArrayInv' /\ ArrayPromised
  <2>1. ArrayInv' /\ UNCHANGED Array!Contents
    BY <1>6, ArraySame DEF Array!DeleteAtBadIndex
  <2>2. ~(i + 1 <= Len(Array!Contents)) /\ i \in 0 .. ArrayAsked.most /\ 1 \in 0 .. ArrayAsked.most
    BY <1>0, <1>6, <1>c DEF Array!DeleteAtBadIndex, Array!Indices
  <2>3. Array!Promise!Called("delete", <<>>, i, 1) /\ Array!Promise!Answers(FALSE)
    BY <1>6 DEF Array!DeleteAtBadIndex, Array!Call, Array!Promise!Called, Array!Promise!Answers
  <2>4. Array!Promise!Remove(i, 1)
    BY <2>1, <2>2, <2>3 DEF Array!Promise!Remove
  <2> QED
    BY <2>1, <2>2, <2>4 DEF ArrayPromised, Array!Promise!Next
<1>7. ASSUME NEW op \in {"clear", "free", "init"}, NEW v \in BOOLEAN, NEW c \in Nat, NEW f, NEW b, NEW outcome,
             ArrayBecomes(v, c, 0, f, b), Array!Call(op, <<>>, 0, 0, outcome)
      PROVE  ArrayInv' /\ ArrayPromised
  <2>1. ArrayInv' /\ Array!Contents' = Elements(0, f)
    BY <1>7, ArrayKeeps
  <2>2. Elements(0, f) = <<>>
    BY DEF Elements
  <2>3. Array!Promise!Empty(op)
    BY <1>7, <2>1, <2>2 DEF Array!Promise!Empty, Array!Promise!Called, Array!Call
  <2> QED
    BY <2>1, <2>3 DEF ArrayPromised, Array!Promise!Next
<1>8. CASE Array!Clear
  <2>1. ArrayBecomes(TRUE, d_capacity, 0, d_data, d_blocks)
    BY <1>8, <1>c, ArrayNow DEF Array!Clear, ArrayBecomes, ArrayInv, ArrayShape, Written
  <2> QED
    BY <1>7, <1>8, <1>c, <2>1 DEF Array!Clear
<1>9. CASE Array!Free
  <2>1. ArrayBecomes(FALSE, 0, 0, <<>>, 0)
    <3>1. d_blocks' = 0
      BY <1>9, <1>c DEF Array!Free, ArrayInv, ArrayShape
    <3>2. ArrayShape(FALSE, 0, 0, <<>>, 0)
      <4>1. <<>> \in Array!Cells(0)
        BY DEF Array!Cells
      <4> QED
        BY <1>0, <4>1 DEF ArrayShape, Written
    <3> QED
      BY <1>9, <3>1, <3>2, Zenon DEF Array!Free, ArrayBecomes
  <2> QED
    BY <1>7, <1>9, <2>1 DEF Array!Free
<1>10. CASE Array!InitAgain
  <2>1. PICK c \in {0, ArrayAsked.initial} : c = d_capacity'
    BY <1>10 DEF Array!InitAgain
  <2>2. d_blocks = 0
    BY <1>10 DEF Array!InitAgain, ArrayInv, ArrayShape
  <2>3. PICK b : b = d_blocks'
    OBVIOUS
  <2>4. b = IF c > 0 THEN 1 ELSE 0
    BY <1>0, <1>10, <2>1, <2>2, <2>3 DEF Array!InitAgain
  <2>5. PICK f : f = d_data'
    OBVIOUS
  <2>6. f = [i \in 0 .. c - 1 |-> ArrayAsked.garbage]
    BY <1>10, <2>1, <2>5, Zenon DEF Array!InitAgain
  <2>7. ArrayShape(TRUE, c, 0, f, b)
    BY <1>0, <2>1, <2>4, <2>6 DEF ArrayShape, Written, Array!Cells
  <2>8. ArrayBecomes(TRUE, c, 0, f, b) /\ c \in Nat
    <3>1. c \in Nat
      BY <1>0, <2>1
    <3> QED
      BY <1>10, <2>1, <2>3, <2>5, <2>7, <3>1, Zenon DEF ArrayBecomes, Array!InitAgain
  <2>9. PICK outcome : outcome = (d_capacity' > 0)
    OBVIOUS
  <2>10. Array!Call("init", <<>>, 0, 0, outcome)
    BY <1>10, <2>9, Zenon DEF Array!InitAgain
  <2> QED
    BY <1>7, <2>8, <2>10
<1>11. ASSUME NEW op \in {"append", "insert_at"}, NEW vs \in ArrayAsked.chunks \cup {<<v>> : v \in ArrayAsked.values},
              NEW i \in Array!Indices, op = "append" => i = d_length,
              Array!OutOfMemory(op, vs, i) \/ (\E v \in ArrayAsked.values : vs = <<v>> /\ op = "insert_at" /\ Array!InsertAtBadIndex(v, i))
       PROVE  ArrayInv' /\ ArrayPromised
  BY <1>11, ArrayRefuses DEF Array!OutOfMemory, Array!InsertAtBadIndex, Array!Indices
<1>12. d_length \in Array!Indices
  BY <1>c DEF Array!Indices
<1>13. ASSUME NEW v \in ArrayAsked.values,
              \/ Array!OutOfMemory("append", <<v>>, d_length)
              \/ \E i \in Array!Indices : Array!InsertAtBadIndex(v, i) \/ Array!OutOfMemory("insert_at", <<v>>, i)
       PROVE  ArrayInv' /\ ArrayPromised
  BY <1>11, <1>12, <1>13
<1>14. ASSUME NEW vs \in ArrayAsked.chunks, Array!OutOfMemory("append", vs, d_length)
       PROVE  ArrayInv' /\ ArrayPromised
  BY <1>11, <1>12, <1>14
<1> QED
  BY <1>2, <1>3, <1>4, <1>5, <1>6, <1>8, <1>9, <1>10, <1>13, <1>14, Zenon DEF Array!Next

-----------------------------------------------------------------------------
(* The string builder.                                                      *)
LEMMA WithoutIs ==
  ASSUME NEW V, NEW s \in Seq(V), NEW p \in Nat, NEW k \in Nat, p + k <= Len(s)
  PROVE  Without(s, p, k) \in Seq(V) /\ Len(Without(s, p, k)) <= Len(s)
<1>1. PICK n \in Nat : n = Len(s)
  OBVIOUS
<1> DEFINE left == SubSeq(s, 1, p)
           right == SubSeq(s, p + k + 1, n)
<1>2. left \in Seq(V) /\ Len(left) = p
  BY <1>1
<1>3. right \in Seq(V) /\ Len(right) = n - (p + k)
  BY <1>1
<1>4. Without(s, p, k) = left \o right
  BY <1>1, Zenon DEF Without
<1> HIDE DEF left, right
<1> QED
  BY <1>1, <1>2, <1>3, <1>4

(* The string builder.  Its bytes are a sequence inside its block.          *)
BuilderInv ==
  /\ b_valid \in BOOLEAN /\ b_data \in Seq(BuilderAsked.byte) /\ b_capacity \in 0 .. BuilderAsked.most
  /\ ~b_valid => b_capacity = 0
  /\ Builder!InsideTheBlock
BuilderPromised == Builder!Promise!Next \/ UNCHANGED <<b_data, b_last>>

LEMMA BuilderStarts ==
  ASSUME Builder!Init, Builder!BuilderArguments
  PROVE  BuilderInv
BY DEF Builder!Init, Builder!BuilderArguments, BuilderInv, Builder!InsideTheBlock, Builder!length

LEMMA BuilderStep ==
  ASSUME BuilderInv, Builder!Next, Builder!BuilderArguments
  PROVE  BuilderInv' /\ BuilderPromised
<1> USE DEF Builder!length
<1>0. /\ BuilderAsked.most \in Nat /\ BuilderAsked.initial \in 0 .. BuilderAsked.most
      /\ \A s \in BuilderAsked.strings : s \in Seq(BuilderAsked.byte)
      /\ b_valid \in BOOLEAN /\ b_data \in Seq(BuilderAsked.byte) /\ b_capacity \in 0 .. BuilderAsked.most
      /\ Len(b_data) <= b_capacity /\ b_blocks = IF b_capacity > 0 THEN 1 ELSE 0
  BY DEF Builder!BuilderArguments, BuilderInv, Builder!InsideTheBlock
<1>1. ASSUME NEW s \in BuilderAsked.strings, Builder!AppendString(s)
      PROVE  BuilderInv' /\ BuilderPromised
  <2>1. PICK n \in Nat, m \in Nat : n = Len(b_data) /\ m = Len(s) /\ s \in Seq(BuilderAsked.byte)
    BY <1>0
  <2>2. PICK t : t = b_data'
    OBVIOUS
  <2>3. t = b_data \o s
    BY <1>1, <2>2, Zenon DEF Builder!AppendString
  <2>4. t \in Seq(BuilderAsked.byte) /\ Len(t) = n + m
    BY <1>0, <2>1, <2>3
  <2>5. PICK c : c = b_capacity'
    OBVIOUS
  <2>6. PICK b : b = b_blocks'
    OBVIOUS
  <2>7. n + m <= c /\ c \in 0 .. BuilderAsked.most /\ b = IF c > 0 THEN 1 ELSE 0
    <3>0. Builder!EnsureCapacity(n + m)
      BY <1>1, <2>1 DEF Builder!AppendString
    <3>1. CASE n + m <= b_capacity
      <4>1. c = b_capacity /\ b = b_blocks
        BY <2>5, <2>6, <3>0, <3>1, Zenon DEF Builder!EnsureCapacity
      <4> QED
        BY <1>0, <3>1, <4>1
    <3>2. CASE ~(n + m <= b_capacity)
      <4>1. PICK target \in Builder!NextPowersOfTwo(n + m) :
               target <= BuilderAsked.most /\ c = target /\ b = IF b_capacity > 0 THEN b_blocks ELSE b_blocks + 1
        BY <2>5, <2>6, <3>0, <3>2, Zenon DEF Builder!EnsureCapacity
      <4>2. target \in 1 .. BuilderAsked.most /\ n + m <= target
        BY DEF Builder!NextPowersOfTwo, Builder!PowersOfTwo
      <4> QED
        BY <1>0, <4>1, <4>2
    <3> QED
      BY <3>1, <3>2
  <2>8. BuilderInv'
    <3>1. b_valid' = TRUE
      BY <1>1, <1>0 DEF Builder!AppendString
    <3>2. t \in Seq(BuilderAsked.byte) /\ c \in 0 .. BuilderAsked.most /\ Len(t) <= c /\ b = IF c > 0 THEN 1 ELSE 0
      BY <2>4, <2>7
    <3> QED
      BY <2>2, <2>5, <2>6, <3>1, <3>2, Zenon DEF BuilderInv, Builder!InsideTheBlock
  <2>9. t = Spliced(b_data, n, s)
    <3>1. IsPut(BuilderAsked.byte, b_data, s, n, m, n, t)
      <4>1. \A i \in 1 .. n + m : t[i] = IF i <= n THEN b_data[i] ELSE s[i - n]
        BY <1>0, <2>1, <2>3, ConcatProperties
      <4>2. \A i \in 1 .. n + m : t[i] = IF i <= n THEN b_data[i] ELSE IF i <= n + m THEN s[i - n] ELSE b_data[i - m]
        BY <4>1
      <4> QED
        BY <1>0, <2>1, <2>4, <4>2 DEF IsPut
    <3> QED
      BY <3>1, PutInto
  <2>10. Builder!Promise!Add("append", s, Len(b_data))
    <3>1. /\ Builder!Promise!Called("append", s, Len(b_data), 0)
          /\ Builder!Promise!Answers(TRUE)
      BY <1>1 DEF Builder!AppendString, Builder!Call, Builder!Promise!Called, Builder!Promise!Answers
    <3>2. Len(b_data) <= Len(b_data)
      BY <1>0
    <3>3. b_data' = Spliced(b_data, Len(b_data), s)
      BY <2>1, <2>2, <2>9, Zenon
    <3> QED
      BY <3>1, <3>2, <3>3, Zenon DEF Builder!Promise!Add, Spliced
  <2> QED
    BY <2>8, <2>10 DEF BuilderPromised, Builder!Promise!Next
<1>2. ASSUME NEW s \in BuilderAsked.strings, Builder!AppendOutOfMemory(s)
      PROVE  BuilderInv' /\ BuilderPromised
  <2>1. BuilderInv'
    BY <1>2, Zenon DEF Builder!AppendOutOfMemory, BuilderInv, Builder!InsideTheBlock
  <2>2. /\ Builder!Promise!Called("append", s, Len(b_data), 0)
        /\ Builder!Promise!Answers(FALSE) /\ b_data' = b_data
    BY <1>2 DEF Builder!AppendOutOfMemory, Builder!Call, Builder!Promise!Called, Builder!Promise!Answers
  <2>3. Builder!Promise!Add("append", s, Len(b_data))
    BY <2>2, Zenon DEF Builder!Promise!Add
  <2> QED
    BY <2>1, <2>3 DEF BuilderPromised, Builder!Promise!Next
<1>3. ASSUME NEW i \in 0 .. BuilderAsked.most, NEW k \in 0 .. BuilderAsked.most, Builder!Delete(i, k)
      PROVE  BuilderInv' /\ BuilderPromised
  <2>1. PICK t : t = b_data'
    OBVIOUS
  <2>2. t \in Seq(BuilderAsked.byte) /\ Len(t) <= Len(b_data)
    <3>1. CASE k > 0 /\ i + k <= Len(b_data)
      <4>1. t = SubSeq(b_data, 1, i) \o SubSeq(b_data, i + k + 1, Len(b_data))
        BY <1>3, <2>1, <3>1, Zenon DEF Builder!Delete
      <4>2. t = Without(b_data, i, k)
        BY <4>1, Zenon DEF Without
      <4>3. PICK V : V = BuilderAsked.byte
        OBVIOUS
      <4>4. b_data \in Seq(V) /\ i \in Nat /\ k \in Nat /\ i + k <= Len(b_data)
        BY <1>0, <3>1, <4>3
      <4>5. t \in Seq(V) /\ Len(t) <= Len(b_data)
        BY <4>2, <4>4, WithoutIs, Zenon
      <4> QED
        BY <4>3, <4>5
    <3>2. CASE ~(k > 0 /\ i + k <= Len(b_data))
      <4>1. t = b_data
        BY <1>3, <2>1, <3>2, Zenon DEF Builder!Delete
      <4> QED
        BY <1>0, <4>1
    <3> QED
      BY <3>1, <3>2
  <2>3. BuilderInv'
    <3>1. b_valid' = TRUE /\ b_capacity' = b_capacity /\ b_blocks' = b_blocks /\ b_valid = TRUE
      BY <1>0, <1>3 DEF Builder!Delete
    <3>2. Len(t) <= b_capacity
      BY <1>0, <2>2
    <3> QED
      BY <1>0, <2>1, <2>2, <3>1, <3>2, Zenon DEF BuilderInv, Builder!InsideTheBlock
  <2>4. Builder!Promise!Remove(i, k)
    <3>2. CASE k > 0 /\ i + k <= Len(b_data)
      <4>1. /\ Builder!Call("delete", <<>>, i, k, TRUE)
            /\ b_data' = SubSeq(b_data, 1, i) \o SubSeq(b_data, i + k + 1, Len(b_data))
        BY <1>3, <3>2, Zenon DEF Builder!Delete, Builder!length
      <4>2. Builder!Promise!Called("delete", <<>>, i, k) /\ Builder!Promise!Answers(TRUE)
        BY <4>1 DEF Builder!Call, Builder!Promise!Called, Builder!Promise!Answers
      <4> QED
        BY <3>2, <4>1, <4>2, Zenon DEF Builder!Promise!Remove
    <3>3. CASE ~(k > 0 /\ i + k <= Len(b_data))
      <4>1. Builder!Call("delete", <<>>, i, k, FALSE) /\ b_data' = b_data
        BY <1>3, <3>3, Zenon DEF Builder!Delete, Builder!length
      <4>2. Builder!Promise!Called("delete", <<>>, i, k) /\ Builder!Promise!Answers(FALSE)
        BY <4>1 DEF Builder!Call, Builder!Promise!Called, Builder!Promise!Answers
      <4> QED
        BY <3>3, <4>1, <4>2, Zenon DEF Builder!Promise!Remove
    <3> QED
      BY <3>2, <3>3
  <2> QED
    BY <2>3, <2>4 DEF BuilderPromised, Builder!Promise!Next
<1>4. ASSUME NEW op \in {"clear", "free", "init"}, NEW outcome, Builder!Call(op, <<>>, 0, 0, outcome), b_data' = <<>>
      PROVE  BuilderPromised
  <2>1. Builder!Promise!Empty(op)
    BY <1>4 DEF Builder!Promise!Empty, Builder!Promise!Called, Builder!Call
  <2> QED
    BY <2>1 DEF BuilderPromised, Builder!Promise!Next
<1>5. <<>> \in Seq(BuilderAsked.byte) /\ Len(<<>>) = 0
  OBVIOUS
<1>6. CASE Builder!Clear
  <2>1. b_valid' = TRUE /\ b_capacity' = b_capacity /\ b_blocks' = b_blocks /\ b_data' = <<>> /\ b_valid = TRUE
    BY <1>0, <1>6 DEF Builder!Clear
  <2>2. Len(<<>>) <= b_capacity
    BY <1>0
  <2>3. BuilderInv'
    BY <1>0, <1>5, <2>1, <2>2, Zenon DEF BuilderInv, Builder!InsideTheBlock
  <2> QED
    BY <1>4, <1>6, <2>1, <2>3 DEF Builder!Clear
<1>7. CASE Builder!Free
  <2>1. b_valid' = FALSE /\ b_capacity' = 0 /\ b_data' = <<>>
    BY <1>7 DEF Builder!Free
  <2>2. b_blocks' = 0
    BY <1>0, <1>7 DEF Builder!Free
  <2>3. Len(<<>>) <= 0 /\ 0 \in 0 .. BuilderAsked.most /\ 0 = IF 0 > 0 THEN 1 ELSE 0
    BY <1>0
  <2>4. BuilderInv'
    <3>1. Len(b_data') <= b_capacity' /\ b_blocks' = IF b_capacity' > 0 THEN 1 ELSE 0
      BY <2>1, <2>2, <2>3, Zenon
    <3>2. b_valid' \in BOOLEAN /\ b_data' \in Seq(BuilderAsked.byte) /\ b_capacity' \in 0 .. BuilderAsked.most
      BY <1>5, <2>1, <2>3
    <3> QED
      BY <2>1, <3>1, <3>2, Zenon DEF BuilderInv, Builder!InsideTheBlock
  <2> QED
    BY <1>4, <1>7, <2>1, <2>4 DEF Builder!Free
<1>8. CASE Builder!InitAgain
  <2>1. PICK c \in {0, BuilderAsked.initial} : c = b_capacity'
    BY <1>8 DEF Builder!InitAgain
  <2>2. PICK b : b = b_blocks'
    OBVIOUS
  <2>3. b_blocks = 0
    BY <1>0, <1>8 DEF Builder!InitAgain, BuilderInv
  <2>4. b = IF c > 0 THEN 1 ELSE 0
    BY <1>0, <1>8, <2>1, <2>2, <2>3 DEF Builder!InitAgain
  <2>5. c \in 0 .. BuilderAsked.most /\ Len(<<>>) <= c
    BY <1>0
  <2>6. b_valid' = TRUE /\ b_data' = <<>>
    BY <1>8 DEF Builder!InitAgain
  <2>7. BuilderInv'
    BY <1>5, <2>1, <2>2, <2>4, <2>5, <2>6, Zenon DEF BuilderInv, Builder!InsideTheBlock
  <2>8. PICK outcome : outcome = (b_capacity' > 0)
    OBVIOUS
  <2>9. Builder!Call("init", <<>>, 0, 0, outcome)
    BY <1>8, <2>8, Zenon DEF Builder!InitAgain
  <2> QED
    BY <1>4, <2>6, <2>7, <2>9
<1> QED
  BY <1>1, <1>2, <1>3, <1>6, <1>7, <1>8 DEF Builder!Next, Builder!SinkWrite

-----------------------------------------------------------------------------
(* The operations on sets.  Of what a loop takes, every value is in out or  *)
(* has still to be returned; an iteration that an insertion ended was one   *)
(* over out itself.                                                         *)
Wanted == IF o_op = "union" THEN o_before[o_a] ELSE Operations!Result

OperationShape ==
  /\ o_op \in Operations!Operations /\ {o_a, o_b, o_out} \subseteq SetsAsked.sets
  /\ o_pc \in {"ready", "first", "second", "done"}
  /\ o_success \in BOOLEAN /\ o_left = [l \in Operations!Loops |-> o_left[l]]
  /\ o_fresh \in [Operations!Loops -> BOOLEAN]
  /\ o_contents \in [SetsAsked.sets -> SUBSET SetsAsked.values]
  /\ o_before \in [SetsAsked.sets -> SUBSET SetsAsked.values]
  /\ o_lost \in [SetsAsked.sets -> Nat]

OutGrows ==
  /\ \A s \in SetsAsked.sets : o_before[s] \subseteq o_contents[s]
  /\ Operations!NothingElse

LoopsOver ==
  /\ \/ <<o_smaller, o_larger>> = <<o_a, o_b>>
     \/ o_op = "intersection" /\ <<o_smaller, o_larger>> = <<o_b, o_a>>
  /\ o_left["first"] \subseteq o_before[Operations!Source("first")]
  /\ o_left["second"] \subseteq o_before[o_b]
  /\ \A l \in Operations!Loops : ~o_fresh[l] => Operations!Source(l) = o_out
  /\ o_op # "union" => o_pc # "second"

Collected ==
  o_success /\ o_lost[o_out] = 0 =>
    /\ Wanted \subseteq o_contents[o_out] \cup (IF o_pc = "first" THEN o_left["first"] ELSE {})
    /\ o_op = "union" =>
         o_before[o_b] \subseteq o_contents[o_out] \cup (IF o_pc # "done" THEN o_left["second"] ELSE {})

OperationInv ==
  /\ OperationShape /\ OutGrows
  /\ o_pc = "ready" => o_contents = o_before
  /\ o_pc # "ready" => LoopsOver /\ Collected

LEMMA OperationStarts ==
  ASSUME Operations!Init
  PROVE  OperationInv
BY DEF Operations!Init, OperationInv, OperationShape, OutGrows, Operations!NothingElse, Operations!Loops

(* Where a value comes from that a loop takes or skips.                     *)
LEMMA TakenIsWanted ==
  ASSUME OperationInv, NEW l \in Operations!Loops, Operations!More(l), NEW v \in o_left[l]
  PROVE  /\ Operations!Takes(v) => v \in o_before[o_out] \cup Operations!Result
         /\ ~Operations!Takes(v) => v \in o_contents[o_out] \/ v \notin Wanted
         /\ ~Operations!Takes(v) => o_op # "union"
<1>1. OperationShape /\ OutGrows /\ LoopsOver /\ o_pc = l
  BY DEF OperationInv, Operations!More, Operations!Loops
<1>2. l = "first" \/ o_op = "union"
  BY <1>1 DEF LoopsOver, Operations!Loops
<1>3. v \in o_before[Operations!Source(l)]
  BY <1>1 DEF LoopsOver, Operations!Source, Operations!Loops
<1>4. \A s \in SetsAsked.sets : s # o_out => o_contents[s] = o_before[s]
  BY <1>1 DEF OutGrows, Operations!NothingElse
<1>5. o_contents[o_out] \subseteq o_before[o_out] \cup Operations!Result /\ \A s \in SetsAsked.sets : o_before[s] \subseteq o_contents[s]
  BY <1>1 DEF OutGrows, Operations!NothingElse
<1>6. CASE o_op = "intersection"
  BY <1>1, <1>2, <1>3, <1>4, <1>5, <1>6 DEF Operations!Takes, Operations!Result, Operations!Source, LoopsOver, OperationShape, Wanted
<1>7. CASE o_op = "union"
  BY <1>1, <1>2, <1>3, <1>7 DEF Operations!Takes, Operations!Result, Operations!Source, Operations!Loops
<1>8. CASE o_op = "difference"
  BY <1>1, <1>2, <1>3, <1>4, <1>5, <1>8 DEF Operations!Takes, Operations!Result, Operations!Source, OperationShape, Wanted
<1> QED
  BY <1>1, <1>6, <1>7, <1>8 DEF OperationShape, Operations!Operations

(* What a step that handles the value v of the loop l does.                 *)
Handles(l, v, more, lost) ==
  /\ o_contents' = [o_contents EXCEPT ![o_out] = @ \cup more]
  /\ o_lost' = [o_lost EXCEPT ![o_out] = @ + lost]
  /\ o_left' = [o_left EXCEPT ![l] = @ \ {v}]
  /\ o_fresh' = o_fresh \/ o_fresh' = [k \in Operations!Loops |-> o_fresh[k] /\ Operations!Source(k) # o_out]
  /\ UNCHANGED <<o_op, o_a, o_b, o_out, o_pc, o_smaller, o_larger, o_before>>

LEMMA HandlesKeeps ==
  ASSUME OperationInv, NEW l \in Operations!Loops, Operations!More(l), NEW v \in o_left[l], v \in SetsAsked.values,
         NEW more \in {{}, {v}}, NEW lost \in {0, 1}, Handles(l, v, more, lost),
         more = {v} => Operations!Takes(v), o_success' \in BOOLEAN,
         o_success' => /\ o_success
                       /\ more = {} /\ lost = 0 => ~Operations!Takes(v)
  PROVE  OperationInv'
<1>1. OperationShape /\ OutGrows /\ LoopsOver /\ Collected /\ o_pc = l /\ o_pc # "ready"
  BY DEF OperationInv, Operations!More, Operations!Loops
<1>2. UNCHANGED <<o_op, o_a, o_b, o_out, o_pc, o_smaller, o_larger, o_before>>
  BY DEF Handles
<1>3. /\ Operations!Result' = Operations!Result /\ Wanted' = Wanted
      /\ \A k : Operations!Source(k)' = Operations!Source(k)
  BY <1>2 DEF Operations!Result, Wanted, Operations!Source
<1>4. /\ o_contents'[o_out] = o_contents[o_out] \cup more /\ o_lost'[o_out] = o_lost[o_out] + lost
      /\ \A s \in SetsAsked.sets \ {o_out} : o_contents'[s] = o_contents[s] /\ o_lost'[s] = o_lost[s]
      /\ o_left'[l] = o_left[l] \ {v}
      /\ \A k \in Operations!Loops \ {l} : o_left'[k] = o_left[k]
  BY <1>1 DEF Handles, OperationShape
<1>5. OperationShape'
  <2>1. o_contents' \in [SetsAsked.sets -> SUBSET SetsAsked.values] /\ o_lost' \in [SetsAsked.sets -> Nat]
    BY <1>1 DEF OperationShape, Handles
  <2>2. o_left' = [k \in Operations!Loops |-> o_left'[k]] /\ o_fresh' \in [Operations!Loops -> BOOLEAN]
    BY <1>1 DEF OperationShape, Handles
  <2> QED
    BY <1>1, <1>2, <2>1, <2>2 DEF OperationShape
<1>6. OutGrows'
  <2>1. \A s \in SetsAsked.sets : o_before'[s] \subseteq o_contents'[s]
    BY <1>1, <1>2, <1>4 DEF OutGrows
  <2>2. more \subseteq o_before[o_out] \cup Operations!Result
    BY TakenIsWanted
  <2> QED
    BY <1>1, <1>2, <1>3, <1>4, <2>1, <2>2 DEF OutGrows, Operations!NothingElse
<1>7. LoopsOver'
  <2>1. \A k \in Operations!Loops : o_left'[k] \subseteq o_left[k]
    BY <1>4
  <2>2. \A k \in Operations!Loops : ~o_fresh'[k] => Operations!Source(k) = o_out
    BY <1>1 DEF LoopsOver, Handles, OperationShape
  <2> QED
    BY <1>1, <1>2, <1>3, <2>1, <2>2 DEF LoopsOver, Operations!Loops
<1>8. Collected'
  <2> SUFFICES ASSUME o_success', o_lost'[o_out] = 0
               PROVE  /\ Wanted \subseteq o_contents'[o_out] \cup (IF o_pc = "first" THEN o_left'["first"] ELSE {})
                      /\ o_op = "union" =>
                           o_before[o_b] \subseteq o_contents'[o_out] \cup (IF o_pc # "done" THEN o_left'["second"] ELSE {})
    BY <1>2, <1>3 DEF Collected
  <2>1. lost = 0 /\ o_lost[o_out] = 0 /\ o_success
    BY <1>1, <1>4 DEF OperationShape
  <2>2. v \in o_contents'[o_out] \/ (v \notin Wanted /\ o_op # "union")
    <3>1. CASE more = {v}
      <4>1. v \in more
        BY <3>1
      <4> QED
        BY <1>4, <4>1, Zenon
    <3>2. CASE more = {}
      <4>1. ~Operations!Takes(v)
        BY <2>1, <3>2
      <4> QED
        BY <1>4, <4>1, TakenIsWanted, Zenon
    <3> QED
      BY <3>1, <3>2
  <2> QED
    BY <1>1, <1>4, <2>1, <2>2 DEF Collected, Operations!Loops
<1> QED
  BY <1>1, <1>2, <1>5, <1>6, <1>7, <1>8 DEF OperationInv

LEMMA OperationStep ==
  ASSUME OperationInv, Operations!Next
  PROVE  OperationInv'
<1>1. CASE Operations!Begin
  <2>1. OperationShape /\ OutGrows /\ o_contents = o_before /\ o_pc = "ready" /\ o_pc' = "first"
    BY <1>1 DEF OperationInv, Operations!Begin
  <2>2. UNCHANGED <<o_contents, o_lost, o_op, o_a, o_b, o_out, o_success, o_before>>
    BY <1>1 DEF Operations!Begin, Operations!call
  <2>3. \/ <<o_smaller', o_larger'>> = <<o_a, o_b>>
        \/ o_op = "intersection" /\ <<o_smaller', o_larger'>> = <<o_b, o_a>>
    <3>1. CASE o_smaller' = o_b /\ o_larger' = o_a /\ o_op = "intersection"
      BY ONLY <3>1
    <3>2. CASE o_smaller' = o_a /\ o_larger' = o_b
      BY ONLY <3>2
    <3> QED
      BY <1>1, <3>1, <3>2, Zenon DEF Operations!Begin
  <2>4. /\ o_left' = [l \in Operations!Loops |-> o_contents[IF l = "first" THEN o_smaller' ELSE o_b]]
        /\ o_fresh' = [l \in Operations!Loops |-> TRUE]
    BY <1>1 DEF Operations!Begin, Operations!IteratorsOf
  <2>5. OperationShape'
    BY <2>1, <2>2, <2>4 DEF OperationShape
  <2>6. OutGrows'
    BY <2>1, <2>2 DEF OutGrows, Operations!NothingElse, Operations!Result
  <2>7. o_left'["first"] = o_before[o_smaller'] /\ o_left'["second"] = o_before[o_b]
    BY <2>1, <2>4 DEF Operations!Loops
  <2>8. LoopsOver'
    BY <2>1, <2>2, <2>3, <2>4, <2>7 DEF LoopsOver, Operations!Source, Operations!Loops
  <2>9. Wanted' \subseteq o_before[o_smaller']
    BY <2>1, <2>2, <2>3 DEF Wanted, Operations!Result, OperationShape, Operations!Operations
  <2>10. Collected'
    BY <2>1, <2>2, <2>7, <2>9 DEF Collected
  <2> QED
    BY <2>1, <2>5, <2>6, <2>8, <2>10 DEF OperationInv
<1>2. ASSUME NEW l \in Operations!Loops, NEW v \in SetsAsked.values, Operations!Skip(l, v)
      PROVE  OperationInv'
  <2>1. Handles(l, v, {}, 0)
    BY <1>2 DEF Operations!Skip, Operations!Yielded, Operations!call, Handles, OperationInv, OperationShape
  <2> QED
    BY <1>2, <2>1, HandlesKeeps DEF Operations!Skip, OperationInv, OperationShape
<1>3. ASSUME NEW l \in Operations!Loops, NEW v \in SetsAsked.values, Operations!InsertValue(l, v)
      PROVE  OperationInv'
  <2>1. Handles(l, v, {v}, 0)
    BY <1>3 DEF Operations!InsertValue, Operations!Yielded, Operations!Stale, Operations!call, Handles, OperationInv, OperationShape
  <2> QED
    BY <1>3, <2>1, HandlesKeeps DEF Operations!InsertValue, OperationInv, OperationShape
<1>4. ASSUME NEW l \in Operations!Loops, NEW v \in SetsAsked.values, Operations!InsertLosesValue(l, v)
      PROVE  OperationInv'
  <2>1. Handles(l, v, {}, 1)
    BY <1>4 DEF Operations!InsertLosesValue, Operations!Yielded, Operations!Stale, Operations!call, Handles, OperationInv, OperationShape
  <2>2. Operations!More(l) /\ v \in o_left[l] /\ o_success' = o_success /\ o_success \in BOOLEAN
    BY <1>4 DEF Operations!InsertLosesValue, OperationInv, OperationShape
  <2>3. {} # {v} /\ 1 # 0
    OBVIOUS
  <2>4. \A more \in {{}, {v}}, lost \in {0, 1} :
          Handles(l, v, more, lost) /\ (more = {v} => Operations!Takes(v)) /\ (more = {} /\ lost = 0 => ~Operations!Takes(v))
          => OperationInv'
    BY <2>2, HandlesKeeps
  <2> QED
    BY <2>1, <2>3, <2>4
<1>5. ASSUME NEW l \in Operations!Loops, NEW v \in SetsAsked.values, Operations!InsertFails(l, v)
      PROVE  OperationInv'
  <2>1. Handles(l, v, {}, 0)
    BY <1>5 DEF Operations!InsertFails, Operations!Yielded, Operations!call, Handles, OperationInv, OperationShape
  <2> QED
    BY <1>5, <2>1, HandlesKeeps DEF Operations!InsertFails, OperationInv, OperationShape
<1>6. ASSUME NEW l \in Operations!Loops, Operations!LoopEnds(l)
      PROVE  OperationInv'
  <2>1. OperationShape /\ OutGrows /\ LoopsOver /\ Collected /\ o_pc = l /\ o_pc # "ready" /\ ~Operations!More(l)
    BY <1>6 DEF OperationInv, Operations!LoopEnds, Operations!Loops
  <2>2. /\ UNCHANGED <<o_contents, o_lost, o_op, o_a, o_b, o_out, o_success, o_before, o_smaller, o_larger, o_left, o_fresh>>
        /\ o_pc' = IF l = "first" /\ o_op = "union" THEN "second" ELSE "done"
    BY <1>6 DEF Operations!LoopEnds, Operations!call, Operations!loops
  <2>3. OperationShape' /\ OutGrows' /\ LoopsOver'
    BY <2>1, <2>2 DEF OperationShape, OutGrows, Operations!NothingElse, Operations!Result, LoopsOver, Operations!Source
  <2>4. o_success => o_left[l] \subseteq o_contents[o_out] \/ o_left[l] = {}
    BY <2>1 DEF Operations!More, LoopsOver, OutGrows, OperationShape, Operations!Source, Operations!Loops
  <2>5. o_success => o_left[l] \subseteq o_contents[o_out]
    BY <2>4
  <2>6. l \in {"first", "second"} /\ (l = "second" => o_op = "union")
    BY <2>1 DEF LoopsOver, Operations!Loops
  <2>7. Collected'
    BY <2>1, <2>2, <2>5, <2>6 DEF Collected, Wanted, Operations!Result
  <2> QED
    BY <2>1, <2>2, <2>3, <2>7 DEF OperationInv
<1> QED
  BY <1>1, <1>2, <1>3, <1>4, <1>5, <1>6 DEF Operations!Next

LEMMA OperationsExact ==
  ASSUME OperationInv
  PROVE  Operations!ResultExact /\ Operations!NothingElse
<1>1. Operations!NothingElse
  BY DEF OperationInv, OutGrows
<1>2. ASSUME o_pc = "done", o_success, o_lost[o_out] = 0
      PROVE  o_before[o_out] \cup Operations!Result \subseteq o_contents[o_out]
  <2>1. OperationShape /\ OutGrows /\ Collected
    BY <1>2 DEF OperationInv
  <2> QED
    BY <1>2, <2>1 DEF OperationShape, OutGrows, Collected, Wanted, Operations!Result, Operations!Operations
<1> QED
  BY <1>1, <1>2 DEF Operations!NothingElse, Operations!ResultExact

-----------------------------------------------------------------------------
(* Places of a table of length n, and steps from one to the next.           *)
Along(n, i, k) == IF i + k < n THEN i + k ELSE i + k - n
Ahead(n, i, j) == IF i <= j THEN j - i ELSE j - i + n

Divided(x, n, q, r) == n \in Nat \ {0} /\ q \in Int /\ r \in 0 .. n - 1 /\ x \in Int /\ x = n * q + r

LEMMA Remainder ==
  ASSUME NEW x, NEW n, NEW q, NEW r, Divided(x, n, q, r)
  PROVE  x % n = r
<1> USE DEF Divided
<1>1. x = n * (x \div n) + (x % n) /\ x % n \in 0 .. n - 1 /\ x \div n \in Int
  OBVIOUS
<1>2. PICK p \in Int : p = x \div n
  BY <1>1
<1>3. PICK s \in 0 .. n - 1 : s = x % n
  BY <1>1
<1>4. n * p + s = n * q + r
  BY <1>1, <1>2, <1>3
<1>5. CASE p < q
  <2>1. n * (q - p) >= n
    BY <1>5
  <2> QED
    BY <1>4, <2>1
<1>6. CASE p > q
  <2>1. n * (p - q) >= n
    BY <1>6
  <2> QED
    BY <1>4, <2>1
<1>7. CASE p = q
  BY <1>3, <1>4, <1>7
<1> QED
  BY <1>5, <1>6, <1>7

LEMMA AlongTable ==
  ASSUME NEW n \in Nat \ {0}, NEW x \in Nat, NEW k \in 0 .. n
  PROVE  x % n \in 0 .. n - 1 /\ (x + k) % n = Along(n, x % n, k)
<1>1. x = n * (x \div n) + (x % n) /\ x % n \in 0 .. n - 1 /\ x \div n \in Int
  OBVIOUS
<1>2. PICK p \in Int : p = x \div n
  BY <1>1
<1>3. PICK s \in 0 .. n - 1 : s = x % n
  BY <1>1
<1>4. x + k = n * p + (s + k) /\ x + k \in Int
  BY <1>1, <1>2, <1>3
<1>5. CASE s + k < n
  <2>1. s + k \in 0 .. n - 1
    BY <1>5
  <2>2. Divided(x + k, n, p, s + k)
    BY <1>4, <2>1 DEF Divided
  <2>3. (x + k) % n = s + k
    BY <2>2, Remainder
  <2> QED
    BY <1>3, <1>5, <2>2, <2>3 DEF Along
<1>6. CASE s + k >= n
  <2>1. s + k - n \in 0 .. n - 1 /\ x + k = n * (p + 1) + (s + k - n) /\ p + 1 \in Int
    BY <1>4, <1>6
  <2>2. Divided(x + k, n, p + 1, s + k - n)
    BY <1>4, <2>1 DEF Divided
  <2>3. (x + k) % n = s + k - n
    BY <2>2, Remainder
  <2> QED
    BY <1>3, <1>6, <2>2, <2>3 DEF Along
<1> QED
  BY <1>5, <1>6

-----------------------------------------------------------------------------
(* Induction up to a bound: what holds of 0 and passes on holds of all.     *)
LEMMA UpTo ==
  ASSUME NEW n \in Nat, NEW T, 0 \in T, \A i \in 0 .. n - 1 : i \in T => i + 1 \in T
  PROVE  0 .. n \subseteq T
<1> DEFINE Wrong == {i \in 0 .. n : i \notin T}
           Before == {0 .. i : i \in Wrong}
<1> SUFFICES ASSUME Wrong # {} PROVE FALSE
  OBVIOUS
<1>1. Before # {} /\ Before \subseteq FiniteSubsetsOf(Nat)
  <2>1. ASSUME NEW i \in Wrong PROVE 0 .. i \in FiniteSubsetsOf(Nat)
    BY FS_Interval DEF FiniteSubsetsOf
  <2> QED
    BY <2>1
<1>2. IsWellFoundedOn(StrictSubsetOrdering(Nat), FiniteSubsetsOf(Nat))
  BY FS_StrictSubsetOrderingWellFounded
<1>3. PICK X \in Before : \A Y \in Before : ~(<<Y, X>> \in StrictSubsetOrdering(Nat))
  BY <1>1, <1>2, WFMin
<1>4. PICK i \in Wrong : X = 0 .. i
  OBVIOUS
<1>5. i # 0 /\ i - 1 \in 0 .. n - 1 /\ i - 1 \in Wrong
  OBVIOUS
<1>6. 0 .. i - 1 \in Before /\ 0 .. i - 1 \subseteq X /\ 0 .. i - 1 # X /\ X \subseteq Nat
  BY <1>4, <1>5
<1> QED
  BY <1>3, <1>6 DEF StrictSubsetOrdering

(* What a recursive function computes step by step exists.                  *)
StepOn(n, S, e, G) == n \in Nat /\ e \in S /\ G \in [S \X (1 .. n) -> S]
Computed(n, S, e, G, f) == f \in [0 .. n -> S] /\ f[0] = e /\ \A i \in 1 .. n : f[i] = G[<<f[i - 1], i>>]

LEMMA Recursive ==
  ASSUME NEW n, NEW S, NEW e, NEW G, StepOn(n, S, e, G)
  PROVE  \E f : Computed(n, S, e, G, f)
<1> USE DEF StepOn, Computed
<1> DEFINE Computes(m, f) == f \in [0 .. m -> S] /\ f[0] = e /\ \A i \in 1 .. m : f[i] = G[<<f[i - 1], i>>]
           T == {m \in 0 .. n : \E f : Computes(m, f)}
<1>1. 0 \in T
  <2>1. Computes(0, [i \in 0 .. 0 |-> e])
    OBVIOUS
  <2>2. 0 \in 0 .. n
    OBVIOUS
  <2> HIDE DEF Computes
  <2> QED
    BY <2>1, <2>2
<1>2. ASSUME NEW m \in 0 .. n - 1, m \in T PROVE m + 1 \in T
  <2>1. PICK f : Computes(m, f)
    BY <1>2
  <2> DEFINE g == [i \in 0 .. m + 1 |-> IF i = m + 1 THEN G[<<f[m], m + 1>>] ELSE f[i]]
  <2>2. f[m] \in S /\ m + 1 \in 1 .. n /\ G[<<f[m], m + 1>>] \in S
    BY <2>1
  <2>3. g \in [0 .. m + 1 -> S]
    BY <2>1, <2>2
  <2>4. g[0] = e /\ g[m + 1] = G[<<f[m], m + 1>>] /\ \A i \in 0 .. m : g[i] = f[i]
    BY <2>1
  <2> HIDE DEF g
  <2>5. ASSUME NEW i \in 1 .. m + 1 PROVE g[i] = G[<<g[i - 1], i>>]
    <3>1. CASE i = m + 1
      BY <2>4, <3>1
    <3>2. CASE i \in 1 .. m
      <4>1. f[i] = G[<<f[i - 1], i>>] /\ i - 1 \in 0 .. m /\ i \in 0 .. m
        BY <2>1, <3>2
      <4> QED
        BY <2>4, <4>1
    <3> QED
      BY <3>1, <3>2
  <2>6. Computes(m + 1, g)
    BY <2>3, <2>4, <2>5
  <2> QED
    BY <2>6
<1>3. n \in T
  <2> HIDE DEF T
  <2>1. 0 .. n \subseteq T
    BY <1>1, <1>2, UpTo
  <2> QED
    BY <2>1
<1> QED
  BY <1>3

LEMMA LeastNumber ==
  ASSUME NEW S, S \subseteq Nat, S # {}
  PROVE  \E m \in S : \A k \in S : m <= k
<1>1. PICK s \in S : s \in Nat
  OBVIOUS
<1> DEFINE T == {i \in Nat : \A k \in S : i <= k}
<1> SUFFICES ASSUME ~ \E m \in S : \A k \in S : m <= k PROVE FALSE
  OBVIOUS
<1>2. 0 \in T
  OBVIOUS
<1>3. ASSUME NEW i \in Nat, i \in T PROVE i + 1 \in T
  <2>1. i \notin S
    BY <1>3
  <2>2. \A k \in S : i <= k /\ k # i /\ k \in Nat
    BY <1>3, <2>1
  <2>3. \A k \in S : i + 1 <= k
    BY <2>2
  <2> QED
    BY <2>3
<1>4. s + 1 \in T
  <2>1. s + 1 \in Nat /\ \A i \in 0 .. (s + 1) - 1 : i \in T => i + 1 \in T
    BY <1>1, <1>3
  <2> HIDE DEF T
  <2>2. 0 .. s + 1 \subseteq T
    BY <1>2, <2>1, UpTo
  <2> QED
    BY <1>1, <2>2
<1> QED
  BY <1>1, <1>4

-----------------------------------------------------------------------------
(* The generated map.  A probe goes from the home of a hash to the slot of  *)
(* an entry only over slots in use.                                         *)
OnPath(n, h, i, j) == Ahead(n, h[i] % n, j) < Ahead(n, h[i] % n, i)
Chained(n, h, i) == \A j \in 0 .. n - 1 : OnPath(n, h, i, j) => h[j] # 0

(* The arrays of a map, without the lifetimes.                              *)
IsTable(n, h, k, v) ==
  /\ n \in Nat \ {0} /\ h \in [0 .. n - 1 -> Nat \ {1}]
  /\ k \in [0 .. n - 1 -> Fixed!Stored(FixedAsked.keys \cup {FixedAsked.none})]
  /\ v \in [0 .. n - 1 -> Fixed!Stored(FixedAsked.values \cup {NoValue})]
InUse(n, h) == {i \in 0 .. n - 1 : h[i] # 0}
Entry(h, k, v, i) == <<h[i], k[i], v[i]>>

(* The entries in some of the slots, no key twice; an entry whose key was   *)
(* lost has none.                                                           *)
Holds(h, k, v, slots, entries) ==
  /\ \A i \in slots : Entry(h, k, v, i) \in entries
  /\ \A e \in entries : \E i \in slots : Entry(h, k, v, i) = e
  /\ \A i, j \in slots : k[i].data \in FixedAsked.keys /\ k[i].data = k[j].data => i = j

(* The backshift after current slots: the hole is a slot that counts as     *)
(* free, though what was in it last is still there.                         *)
States(n) ==
  [hole : 0 .. n - 1, done : BOOLEAN, hashes : [0 .. n - 1 -> Nat \ {1}],
   keys : [0 .. n - 1 -> Fixed!Stored(FixedAsked.keys \cup {FixedAsked.none})],
   values : [0 .. n - 1 -> Fixed!Stored(FixedAsked.values \cup {NoValue})]]

Shifting(n, start, i, used, entries, s) ==
  LET here == Along(n, start, i) IN
    /\ s \in States(n) /\ ~s.done
    /\ InUse(n, s.hashes) = used /\ s.hole \in used
    /\ Ahead(n, start, s.hole) <= i
    /\ \A j \in 0 .. n - 1 : Ahead(n, start, j) <= i => j \in used
    /\ \A j \in used \ {s.hole} : Chained(n, s.hashes, j)
    /\ \A j \in 0 .. n - 1 : 0 < Ahead(n, s.hole, j) /\ Ahead(n, s.hole, j) <= Ahead(n, s.hole, here)
                             => ~OnPath(n, s.hashes, j, s.hole)
    /\ Holds(s.hashes, s.keys, s.values, used \ {s.hole}, entries)

Shifted(n, used, entries, s) ==
  /\ s \in States(n) /\ s.done
  /\ s.hole \in used /\ InUse(n, s.hashes) = used \ {s.hole}
  /\ \A j \in used \ {s.hole} : Chained(n, s.hashes, j)
  /\ Holds(s.hashes, s.keys, s.values, used \ {s.hole}, entries)

(* One iteration, on the slot here.                                         *)
Shift(n, s, here) ==
  LET h == s.hashes[here] IN
    IF s.done THEN s
    ELSE IF h = 0
    THEN [s EXCEPT !.hashes[s.hole] = 0, !.keys[s.hole] = Fixed!Nothing(FixedAsked.none),
                   !.values[s.hole] = Fixed!Nothing(NoValue), !.done = TRUE]
    ELSE IF Fixed!ShouldMove(h % n, s.hole, here)
    THEN [s EXCEPT !.hashes[s.hole] = h, !.keys[s.hole] = s.keys[here],
                   !.values[s.hole] = s.values[here], !.hole = here]
    ELSE s

LEMMA Around ==
  ASSUME NEW n \in Nat \ {0}, NEW a \in 0 .. n - 1, NEW b \in 0 .. n - 1
  PROVE  /\ Ahead(n, a, b) \in 0 .. n - 1 /\ (Ahead(n, a, b) = 0 <=> a = b)
         /\ Along(n, a, Ahead(n, a, b)) = b
         /\ \A k \in 0 .. n - 1 : Along(n, a, k) \in 0 .. n - 1 /\ Ahead(n, a, Along(n, a, k)) = k
BY DEF Along, Ahead

LEMMA AheadIs ==
  ASSUME NEW n \in Nat \ {0}
  PROVE  \A a, b \in 0 .. n - 1 : Ahead(n, a, b) \in 0 .. n - 1 /\ (Ahead(n, a, b) = 0 <=> a = b)
BY Around

LEMMA HomeIn ==
  ASSUME NEW n \in Nat \ {0}, NEW x \in Nat
  PROVE  x % n \in 0 .. n - 1
OBVIOUS

(* An entry is moved when the hole is on the path of its probe.             *)
LEMMA MovesOnPath ==
  ASSUME NEW n \in Nat \ {0}, NEW a \in 0 .. n - 1, NEW hole \in 0 .. n - 1, NEW c \in 0 .. n - 1, c # hole
  PROVE  Fixed!ShouldMove(a, hole, c) <=> Ahead(n, a, hole) < Ahead(n, a, c)
BY DEF Fixed!ShouldMove, Ahead

(* The next slot is behind the hole by one more, as long as the walk does   *)
(* not come round.                                                          *)
LEMMA NextSlot ==
  ASSUME NEW n \in Nat \ {0}, NEW start \in 0 .. n - 1, NEW i \in Nat, i + 1 < n,
         NEW hole \in 0 .. n - 1, Ahead(n, start, hole) <= i
  PROVE  LET c == Along(n, start, i)
             d == Along(n, start, i + 1)
         IN  /\ c \in 0 .. n - 1 /\ d \in 0 .. n - 1 /\ d # hole
             /\ Ahead(n, start, d) = i + 1 /\ Ahead(n, hole, d) = Ahead(n, hole, c) + 1
             /\ \A j \in 0 .. n - 1 : Ahead(n, start, j) = i + 1 => j = d
             /\ \A j \in 0 .. n - 1 : Ahead(n, hole, j) = Ahead(n, hole, c) + 1 => j = d
BY DEF Along, Ahead

(* Three slots: b is behind a and before c, or it is not.                   *)
LEMMA Between ==
  ASSUME NEW n \in Nat \ {0}, NEW home \in 0 .. n - 1, NEW hole \in 0 .. n - 1, NEW c \in 0 .. n - 1, NEW j \in 0 .. n - 1,
         Ahead(n, home, hole) < Ahead(n, home, j), Ahead(n, hole, c) < Ahead(n, hole, j)
  PROVE  Ahead(n, home, c) < Ahead(n, home, j)
BY DEF Ahead

(* What the three outcomes of an iteration are, field by field.             *)
IsClosed(s, t) ==
  /\ t.done /\ t.hole = s.hole
  /\ t.hashes = [s.hashes EXCEPT ![s.hole] = 0]
  /\ t.keys = [s.keys EXCEPT ![s.hole] = Fixed!Nothing(FixedAsked.none)]
  /\ t.values = [s.values EXCEPT ![s.hole] = Fixed!Nothing(NoValue)]
IsMoved(s, t, c) ==
  /\ t.done = s.done /\ t.hole = c
  /\ t.hashes = [s.hashes EXCEPT ![s.hole] = s.hashes[c]]
  /\ t.keys = [s.keys EXCEPT ![s.hole] = s.keys[c]]
  /\ t.values = [s.values EXCEPT ![s.hole] = s.values[c]]

LEMMA Outcomes ==
  ASSUME NEW n \in Nat \ {0}, NEW s \in States(n), NEW c \in 0 .. n - 1
  PROVE  /\ s.done => Shift(n, s, c) = s
         /\ ~s.done /\ s.hashes[c] = 0 => IsClosed(s, Shift(n, s, c))
         /\ ~s.done /\ s.hashes[c] # 0 =>
              IF Fixed!ShouldMove(s.hashes[c] % n, s.hole, c) THEN IsMoved(s, Shift(n, s, c), c) ELSE Shift(n, s, c) = s
         /\ Shift(n, s, c) \in States(n)
<1>1. CASE s.done
  BY <1>1 DEF Shift
<1>2. CASE ~s.done /\ s.hashes[c] = 0
  <2> DEFINE t == [s EXCEPT !.hashes[s.hole] = 0, !.keys[s.hole] = Fixed!Nothing(FixedAsked.none),
                            !.values[s.hole] = Fixed!Nothing(NoValue), !.done = TRUE]
  <2>1. Shift(n, s, c) = t
    BY <1>2 DEF Shift
  <2>2. IsClosed(s, t)
    BY DEF IsClosed, States
  <2>3. t \in States(n)
    <3>1. /\ Fixed!Nothing(FixedAsked.none) \in Fixed!Stored(FixedAsked.keys \cup {FixedAsked.none})
          /\ Fixed!Nothing(NoValue) \in Fixed!Stored(FixedAsked.values \cup {NoValue})
      BY DEF Fixed!Nothing, Fixed!Stored
    <3>2. t = [hole |-> t.hole, done |-> t.done, hashes |-> t.hashes, keys |-> t.keys, values |-> t.values]
      <4>1. s = [hole |-> s.hole, done |-> s.done, hashes |-> s.hashes, keys |-> s.keys, values |-> s.values]
        BY DEF States
      <4>2. DOMAIN t = DOMAIN s /\ t = [x \in DOMAIN s |-> t[x]]
        OBVIOUS
      <4>3. DOMAIN s = {"hole", "done", "hashes", "keys", "values"}
        BY <4>1
      <4> HIDE DEF t
      <4> QED
        BY <4>2, <4>3
    <3>3. t.hole \in 0 .. n - 1 /\ t.done \in BOOLEAN
      BY <2>2 DEF States, IsClosed
    <3>4. t.hashes \in [0 .. n - 1 -> Nat \ {1}]
      BY <2>2 DEF States, IsClosed
    <3>5. t.keys \in [0 .. n - 1 -> Fixed!Stored(FixedAsked.keys \cup {FixedAsked.none})]
      BY <2>2, <3>1 DEF States, IsClosed
    <3>6. t.values \in [0 .. n - 1 -> Fixed!Stored(FixedAsked.values \cup {NoValue})]
      BY <2>2, <3>1 DEF States, IsClosed
    <3> HIDE DEF t
    <3> QED
      BY <3>2, <3>3, <3>4, <3>5, <3>6 DEF States
  <2> QED
    BY <1>2, <2>1, <2>2, <2>3
<1>3. CASE ~s.done /\ s.hashes[c] # 0 /\ Fixed!ShouldMove(s.hashes[c] % n, s.hole, c)
  <2> DEFINE t == [s EXCEPT !.hashes[s.hole] = s.hashes[c], !.keys[s.hole] = s.keys[c],
                            !.values[s.hole] = s.values[c], !.hole = c]
  <2>1. Shift(n, s, c) = t
    BY <1>3 DEF Shift
  <2>2. IsMoved(s, t, c)
    BY DEF IsMoved, States
  <2>3. t \in States(n)
    BY DEF States
  <2> QED
    BY <1>3, <2>1, <2>2, <2>3
<1>4. CASE ~s.done /\ s.hashes[c] # 0 /\ ~Fixed!ShouldMove(s.hashes[c] % n, s.hole, c)
  BY <1>4 DEF Shift
<1> QED
  BY <1>1, <1>2, <1>3, <1>4

(* The walk closes the hole at the first free slot.                         *)
LEMMA ShiftCloses ==
  ASSUME NEW n \in Nat \ {0}, NEW start \in 0 .. n - 1, NEW i \in Nat, i + 1 < n, NEW used, NEW entries,
         NEW s, NEW t \in States(n), NEW c, c = Along(n, start, i + 1),
         Shifting(n, start, i, used, entries, s), c \notin used, IsClosed(s, t)
  PROVE  Shifted(n, used, entries, t)
<1> DEFINE b == Along(n, start, i)
<1>h. PICK hole \in 0 .. n - 1 : hole = s.hole
  BY DEF Shifting, States
<1>1. /\ s \in States(n) /\ InUse(n, s.hashes) = used /\ hole \in used /\ hole \in 0 .. n - 1
      /\ Ahead(n, start, hole) <= i /\ used \subseteq 0 .. n - 1
      /\ Holds(s.hashes, s.keys, s.values, used \ {hole}, entries)
  BY <1>h DEF Shifting, States, InUse
<1>2. /\ c \in 0 .. n - 1 /\ c # hole /\ Ahead(n, hole, c) = Ahead(n, hole, b) + 1 /\ b \in 0 .. n - 1
      /\ \A j \in 0 .. n - 1 : Ahead(n, hole, j) = Ahead(n, hole, b) + 1 => j = c
  BY <1>1, NextSlot
<1>3. /\ \A j \in 0 .. n - 1 : t.hashes[j] = IF j = hole THEN 0 ELSE s.hashes[j]
      /\ \A j \in (0 .. n - 1) \ {hole} : t.keys[j] = s.keys[j] /\ t.values[j] = s.values[j]
      /\ t.done /\ t.hole = hole
  <2>1. \A j \in 0 .. n - 1 : t.hashes[j] = IF j = hole THEN 0 ELSE s.hashes[j]
    <3>1. s.hashes \in [0 .. n - 1 -> Nat \ {1}] /\ t.hashes = [s.hashes EXCEPT ![hole] = 0]
      BY <1>1, <1>h DEF IsClosed, States
    <3> QED
      BY ONLY <3>1
  <2>2. \A j \in (0 .. n - 1) \ {hole} : t.keys[j] = s.keys[j]
    BY <1>1, <1>h DEF IsClosed, States
  <2>3. \A j \in (0 .. n - 1) \ {hole} : t.values[j] = s.values[j]
    BY <1>1, <1>h DEF IsClosed, States
  <2> QED
    BY <1>h, <2>1, <2>2, <2>3 DEF IsClosed
<1>4. InUse(n, t.hashes) = used \ {hole}
  BY <1>1, <1>3 DEF InUse
<1>5. ASSUME NEW j \in used \ {hole} PROVE Chained(n, t.hashes, j)
  <2>1. Chained(n, s.hashes, j) /\ t.hashes[j] = s.hashes[j] /\ j \in 0 .. n - 1
    BY <1>1, <1>3, <1>5, <1>h DEF Shifting
  <2>2. ~OnPath(n, s.hashes, j, hole)
    <3>1. CASE Ahead(n, hole, j) <= Ahead(n, hole, b)
      <4>1. 0 < Ahead(n, hole, j)
        <5>1. Ahead(n, hole, j) \in 0 .. n - 1 /\ (Ahead(n, hole, j) = 0 <=> hole = j)
          BY <1>1, <2>1, AheadIs
        <5> QED
          BY <5>1, <1>5
      <4> QED
        BY <3>1, <4>1, <2>1, <1>h DEF Shifting
    <3>2. CASE Ahead(n, hole, j) > Ahead(n, hole, b)
      <4>0. PICK home \in 0 .. n - 1 : home = s.hashes[j] % n
        <5>1. s.hashes[j] \in Nat
          BY <1>1, <2>1 DEF States
        <5> QED
          BY <5>1, HomeIn
      <4>1. Ahead(n, hole, b) \in Int /\ Ahead(n, hole, j) \in Int /\ j # c
        <5>1. j # c
          BY <1>2, <1>5, <1>h DEF Shifting
        <5> QED
          BY <1>1, <1>2, <2>1, <5>1, AheadIs
      <4>2. Ahead(n, hole, c) < Ahead(n, hole, j)
        BY <1>2, <3>2, <4>1, <2>1
      <4>3. Ahead(n, home, hole) < Ahead(n, home, j) => s.hashes[c] # 0
        BY <1>1, <1>2, <2>1, <4>0, <4>2, Between DEF Chained, OnPath
      <4>4. s.hashes[c] = 0
        BY <1>1, <1>2 DEF InUse
      <4> QED
        BY <4>0, <4>3, <4>4 DEF OnPath
    <3>3. Ahead(n, hole, j) \in Int /\ Ahead(n, hole, b) \in Int
      BY <1>1, <1>2, <2>1, AheadIs
    <3> QED
      BY <3>1, <3>2, <3>3
  <2> QED
    BY <1>3, <2>1, <2>2 DEF Chained, OnPath
<1>6. Holds(t.hashes, t.keys, t.values, used \ {hole}, entries)
  <2>1. \A j \in used \ {hole} : t.hashes[j] = s.hashes[j] /\ t.keys[j] = s.keys[j] /\ t.values[j] = s.values[j]
    BY <1>1, <1>3
  <2> QED
    BY <1>1, <2>1 DEF Holds, Entry
<1> QED
  BY <1>1, <1>3, <1>4, <1>5, <1>6, <1>h DEF Shifted

(* An entry that moves leaves the hole behind it.                           *)
LEMMA ShiftMoves ==
  ASSUME NEW n \in Nat \ {0}, NEW start \in 0 .. n - 1, NEW i \in Nat, i + 1 < n, NEW used, NEW entries,
         NEW s, NEW t \in States(n), NEW c, c = Along(n, start, i + 1),
         Shifting(n, start, i, used, entries, s), c \in used, IsMoved(s, t, c),
         OnPath(n, s.hashes, c, s.hole)
  PROVE  Shifting(n, start, i + 1, used, entries, t)
<1> DEFINE b == Along(n, start, i)
<1>h. PICK hole \in 0 .. n - 1 : hole = s.hole
  BY DEF Shifting, States
<1>1. /\ s \in States(n) /\ InUse(n, s.hashes) = used /\ hole \in used /\ hole \in 0 .. n - 1
      /\ Ahead(n, start, hole) <= i /\ used \subseteq 0 .. n - 1 /\ ~s.done
      /\ Holds(s.hashes, s.keys, s.values, used \ {hole}, entries)
      /\ \A j \in used \ {hole} : Chained(n, s.hashes, j)
      /\ \A j \in 0 .. n - 1 : Ahead(n, start, j) <= i => j \in used
  BY <1>h DEF Shifting, States, InUse
<1>2. /\ c \in 0 .. n - 1 /\ c # hole /\ Ahead(n, start, c) = i + 1
      /\ \A j \in 0 .. n - 1 : Ahead(n, start, j) = i + 1 => j = c
  BY <1>1, NextSlot
<1>3. /\ \A j \in 0 .. n - 1 : Entry(t.hashes, t.keys, t.values, j) = Entry(s.hashes, s.keys, s.values, IF j = hole THEN c ELSE j)
      /\ \A j \in 0 .. n - 1 : t.hashes[j] = s.hashes[IF j = hole THEN c ELSE j] /\ t.keys[j] = s.keys[IF j = hole THEN c ELSE j]
      /\ ~t.done /\ t.hole = c
  BY <1>1, <1>2, <1>h DEF IsMoved, States, Entry
<1>4. InUse(n, t.hashes) = used
  BY <1>1, <1>2, <1>3 DEF InUse
<1>5. \A j \in 0 .. n - 1 : t.hashes[j] # 0 <=> s.hashes[j] # 0
  BY <1>1, <1>4 DEF InUse
<1>6. ASSUME NEW j \in used \ {c} PROVE Chained(n, t.hashes, j)
  <2>1. CASE j = hole
    <3>1. t.hashes[j] = s.hashes[c] /\ Chained(n, s.hashes, c)
      BY <1>1, <1>2, <1>3, <2>1
    <3>2. PICK home \in 0 .. n - 1 : home = s.hashes[c] % n
      <4>1. s.hashes[c] \in Nat
        BY <1>1, <1>2 DEF States
      <4> QED
        BY <4>1, HomeIn
    <3>3. \A k \in 0 .. n - 1 : Ahead(n, home, k) < Ahead(n, home, hole) => Ahead(n, home, k) < Ahead(n, home, c)
      <4>1. \A k \in 0 .. n - 1 : Ahead(n, home, k) \in Int
        BY Around
      <4>2. Ahead(n, home, hole) < Ahead(n, home, c)
        BY <3>2, <1>h DEF OnPath
      <4> QED
        BY <1>1, <1>2, <4>1, <4>2
    <3> QED
      BY <1>5, <2>1, <3>1, <3>2, <3>3 DEF Chained, OnPath
  <2>2. CASE j # hole
    <3>1. t.hashes[j] = s.hashes[j] /\ Chained(n, s.hashes, j)
      BY <1>1, <1>3, <1>6, <2>2
    <3> QED
      BY <1>5, <3>1 DEF Chained, OnPath
  <2> QED
    BY <2>1, <2>2
<1>7. \A j \in 0 .. n - 1 : Ahead(n, start, j) <= i + 1 => j \in used
  <2>1. \A j \in 0 .. n - 1 : Ahead(n, start, j) \in Int
    BY Around
  <2> QED
    BY <1>1, <1>2, <2>1
<1>8. \A j \in 0 .. n - 1 : 0 < Ahead(n, c, j) => ~(Ahead(n, c, j) <= Ahead(n, c, c))
  BY <1>2 DEF Ahead
<1>9. Holds(t.hashes, t.keys, t.values, used \ {c}, entries)
  <2> DEFINE From(j) == IF j = hole THEN c ELSE j
  <2>1. \A j \in used \ {c} : From(j) \in used \ {hole}
    BY <1>1, <1>2
  <2>2. \A k \in used \ {hole} : \E j \in used \ {c} : From(j) = k
    BY <1>1, <1>2
  <2>3. \A j, k \in used \ {c} : From(j) = From(k) => j = k
    OBVIOUS
  <2>4. \A j \in used \ {c} : /\ Entry(t.hashes, t.keys, t.values, j) = Entry(s.hashes, s.keys, s.values, From(j))
                              /\ t.keys[j] = s.keys[From(j)]
    BY <1>1, <1>3
  <2> HIDE DEF From
  <2>5. \A j \in used \ {c} : Entry(t.hashes, t.keys, t.values, j) \in entries
    BY <1>1, <2>1, <2>4 DEF Holds
  <2>6. \A e \in entries : \E j \in used \ {c} : Entry(t.hashes, t.keys, t.values, j) = e
    <3> SUFFICES ASSUME NEW e \in entries PROVE \E j \in used \ {c} : Entry(t.hashes, t.keys, t.values, j) = e
      OBVIOUS
    <3>1. PICK k \in used \ {hole} : Entry(s.hashes, s.keys, s.values, k) = e
      BY <1>1 DEF Holds
    <3>2. PICK j \in used \ {c} : From(j) = k
      BY <2>2
    <3> QED
      BY <2>4, <3>1, <3>2
  <2>7. ASSUME NEW j \in used \ {c}, NEW k \in used \ {c}, t.keys[j].data \in FixedAsked.keys,
               t.keys[j].data = t.keys[k].data
        PROVE  j = k
    <3>0. /\ s.keys[From(j)].data \in FixedAsked.keys /\ s.keys[From(j)].data = s.keys[From(k)].data
          /\ From(j) \in used \ {hole} /\ From(k) \in used \ {hole}
      BY <2>1, <2>4, <2>7
    <3>1. From(j) = From(k)
      BY <1>1, <3>0, Zenon DEF Holds
    <3> QED
      BY <2>3, <3>1
  <2> QED
    BY <2>5, <2>6, <2>7 DEF Holds
<1> QED
  BY <1>1, <1>2, <1>3, <1>4, <1>6, <1>7, <1>8, <1>9, <1>h DEF Shifting

(* An entry that stays does not need the hole.                              *)
LEMMA ShiftStays ==
  ASSUME NEW n \in Nat \ {0}, NEW start \in 0 .. n - 1, NEW i \in Nat, i + 1 < n, NEW used, NEW entries,
         NEW s, NEW c, c = Along(n, start, i + 1),
         Shifting(n, start, i, used, entries, s), c \in used, ~OnPath(n, s.hashes, c, s.hole)
  PROVE  Shifting(n, start, i + 1, used, entries, s)
<1> DEFINE b == Along(n, start, i)
<1>h. PICK hole \in 0 .. n - 1 : hole = s.hole
  BY DEF Shifting, States
<1>1. /\ s \in States(n) /\ hole \in 0 .. n - 1 /\ Ahead(n, start, hole) <= i
      /\ \A j \in 0 .. n - 1 : Ahead(n, start, j) <= i => j \in used
      /\ \A j \in 0 .. n - 1 : 0 < Ahead(n, hole, j) /\ Ahead(n, hole, j) <= Ahead(n, hole, b) => ~OnPath(n, s.hashes, j, hole)
  BY <1>h DEF Shifting, States, InUse
<1>2. /\ c \in 0 .. n - 1 /\ c # hole /\ Ahead(n, hole, c) = Ahead(n, hole, b) + 1 /\ b \in 0 .. n - 1
      /\ \A j \in 0 .. n - 1 : Ahead(n, hole, j) = Ahead(n, hole, b) + 1 => j = c
      /\ \A j \in 0 .. n - 1 : Ahead(n, start, j) = i + 1 => j = c
  BY <1>1, NextSlot
<1>3. \A j \in 0 .. n - 1 : Ahead(n, start, j) \in 0 .. n - 1 /\ Ahead(n, hole, j) \in 0 .. n - 1
  BY AheadIs, Zenon
<1>4. \A j \in 0 .. n - 1 : Ahead(n, start, j) <= i + 1 => j \in used
  BY <1>1, <1>2, <1>3
<1>5. \A j \in 0 .. n - 1 : 0 < Ahead(n, hole, j) /\ Ahead(n, hole, j) <= Ahead(n, hole, c) => ~OnPath(n, s.hashes, j, hole)
  <2> SUFFICES ASSUME NEW j \in 0 .. n - 1, 0 < Ahead(n, hole, j), Ahead(n, hole, j) <= Ahead(n, hole, c)
               PROVE  ~OnPath(n, s.hashes, j, hole)
    OBVIOUS
  <2>1. Ahead(n, hole, j) <= Ahead(n, hole, b) \/ j = c
    BY <1>2, <1>3
  <2> QED
    BY <1>1, <1>h, <2>1
<1>6. Ahead(n, start, hole) <= i + 1
  BY <1>1, <1>3
<1> QED
  BY <1>1, <1>2, <1>4, <1>5, <1>6, <1>h DEF Shifting

LEMMA ShiftStep ==
  ASSUME NEW n \in Nat \ {0}, NEW start \in 0 .. n - 1, NEW i \in Nat, i + 1 < n, NEW used, NEW entries,
         NEW s, NEW c, c = Along(n, start, i + 1),
         Shifting(n, start, i, used, entries, s) \/ Shifted(n, used, entries, s)
  PROVE  \/ Shifting(n, start, i + 1, used, entries, Shift(n, s, c))
         \/ Shifted(n, used, entries, Shift(n, s, c))
<1>0. c \in 0 .. n - 1
  <2>1. i + 1 \in 0 .. n - 1
    OBVIOUS
  <2> QED
    BY <2>1, Around
<1>1. CASE Shifted(n, used, entries, s)
  <2>1. s \in States(n) /\ s.done
    BY <1>1 DEF Shifted
  <2>2. Shift(n, s, c) = s
    BY <1>0, <2>1, Outcomes
  <2> QED
    BY <1>1, <2>2
<1>2. CASE Shifting(n, start, i, used, entries, s)
  <2>1. s \in States(n) /\ ~s.done /\ InUse(n, s.hashes) = used /\ s.hole \in 0 .. n - 1 /\ Ahead(n, start, s.hole) <= i
    BY <1>2 DEF Shifting, States
  <2>2. PICK t : t = Shift(n, s, c)
    OBVIOUS
  <2>3. t \in States(n)
    BY <1>0, <2>1, <2>2, Outcomes
  <2>4. CASE s.hashes[c] = 0
    <3>1. IsClosed(s, t) /\ c \notin used
      BY <1>0, <2>1, <2>2, <2>4, Outcomes DEF InUse
    <3>2. Shifted(n, used, entries, t)
      BY <1>2, <2>3, <3>1, ShiftCloses
    <3> QED
      BY <2>2, <3>2
  <2>5. CASE s.hashes[c] # 0
    <3>1. c \in used
      BY <1>0, <2>1, <2>5 DEF InUse
    <3>2. Fixed!ShouldMove(s.hashes[c] % n, s.hole, c) <=> OnPath(n, s.hashes, c, s.hole)
      <4>1. PICK hole \in 0 .. n - 1 : hole = s.hole
        BY <2>1
      <4>2. c # hole
        BY <2>1, <4>1, NextSlot
      <4>3. s.hashes[c] \in Nat
        BY <1>0, <2>1 DEF States
      <4>4. s.hashes[c] % n \in 0 .. n - 1
        BY <4>3, HomeIn
      <4>5. Fixed!ShouldMove(s.hashes[c] % n, hole, c) <=> Ahead(n, s.hashes[c] % n, hole) < Ahead(n, s.hashes[c] % n, c)
        BY <1>0, <4>2, <4>4, MovesOnPath, Zenon
      <4> QED
        BY <4>1, <4>5, Zenon DEF OnPath
    <3>3. CASE OnPath(n, s.hashes, c, s.hole)
      <4>1. IsMoved(s, t, c)
        BY <1>0, <2>1, <2>2, <2>5, <3>2, <3>3, Outcomes
      <4>2. Shifting(n, start, i + 1, used, entries, t)
        BY <1>2, <2>3, <3>1, <3>3, <4>1, ShiftMoves
      <4> QED
        BY <2>2, <4>2
    <3>4. CASE ~OnPath(n, s.hashes, c, s.hole)
      <4>1. t = s
        BY <1>0, <2>1, <2>2, <2>5, <3>2, <3>4, Outcomes
      <4>2. Shifting(n, start, i + 1, used, entries, s)
        BY <1>2, <3>1, <3>4, ShiftStays
      <4> QED
        BY <2>2, <4>1, <4>2
    <3> QED
      BY <3>3, <3>4
  <2> QED
    BY <2>4, <2>5
<1> QED
  BY <1>1, <1>2

(* A deletion: the slots in use stay reachable, and the other entries stay. *)
LEMMA Backshift ==
  ASSUME NEW n, n = FixedAsked.length, IsTable(n, f_hashes, f_keys, f_values),
         NEW start \in InUse(n, f_hashes), InUse(n, f_hashes) # 0 .. n - 1,
         \A j \in InUse(n, f_hashes) : Chained(n, f_hashes, j),
         NEW entries, Holds(f_hashes, f_keys, f_values, InUse(n, f_hashes) \ {start}, entries)
  PROVE  Shifted(n, InUse(n, f_hashes), entries, Fixed!Backshifted(start))
<1> DEFINE used == InUse(n, f_hashes)
           first == [hole |-> start, done |-> FALSE, hashes |-> f_hashes, keys |-> f_keys, values |-> f_values]
           Walks(f) == f = [i \in 0 .. FixedAsked.length |->
                              IF i = 0 THEN first ELSE Shift(FixedAsked.length, f[i - 1], (start + i) % FixedAsked.length)]
           G == [p \in States(n) \X (1 .. n) |-> Shift(n, p[1], (start + p[2]) % n)]
           a == CHOOSE f : Walks(f)
<1>0. n \in Nat \ {0} /\ start \in 0 .. n - 1
  BY DEF IsTable, InUse
<1>1. \A i \in 0 .. n : (start + i) % n = Along(n, start, i) /\ (start + i) % n \in 0 .. n - 1
  <2>1. Divided(start, n, 0, start)
    BY <1>0 DEF Divided
  <2>2. start % n = start
    BY <2>1, Remainder
  <2>3. \A i \in 0 .. n : (start + i) % n = Along(n, start, i)
    BY <1>0, <2>2, AlongTable
  <2> QED
    BY <1>0, <2>3 DEF Along
<1>2. first \in States(n)
  BY <1>0 DEF States, IsTable
<1>3. G \in [States(n) \X (1 .. n) -> States(n)]
  <2>1. ASSUME NEW p \in States(n) \X (1 .. n) PROVE Shift(n, p[1], (start + p[2]) % n) \in States(n)
    <3>1. p[1] \in States(n) /\ p[2] \in 0 .. n
      BY <1>0
    <3> QED
      BY <1>0, <1>1, <3>1, Outcomes
  <2> QED
    BY <2>1
<1> HIDE DEF first
<1>4. Walks(a)
  <2>1. PICK g \in [0 .. n -> States(n)] : g[0] = first /\ \A i \in 1 .. n : g[i] = G[<<g[i - 1], i>>]
    <3>1. StepOn(n, States(n), first, G)
      BY <1>0, <1>2, <1>3 DEF StepOn
    <3> HIDE DEF G
    <3> QED
      BY <3>1, Recursive DEF Computed
  <2>2. \A i \in 1 .. n : g[i] = Shift(n, g[i - 1], (start + i) % n)
    <3> SUFFICES ASSUME NEW i \in 1 .. n PROVE g[i] = Shift(n, g[i - 1], (start + i) % n)
      OBVIOUS
    <3>1. <<g[i - 1], i>> \in States(n) \X (1 .. n)
      BY <1>0
    <3> QED
      BY <2>1, <3>1
  <2>3. Walks(g)
    BY <1>0, <2>1, <2>2
  <2> QED
    BY <2>3, Zenon
<1>5. Fixed!Backshifted(start) = a[n]
  BY Zenon DEF Fixed!Backshifted, Fixed!EMPTY, Shift, first
<1>6. a[0] = first /\ \A i \in 1 .. n : a[i] = Shift(n, a[i - 1], Along(n, start, i))
  <2>1. \A i \in 1 .. n : (start + i) % n = Along(n, start, i)
    BY <1>0, <1>1
  <2> HIDE DEF a
  <2> QED
    BY <1>0, <1>4, <2>1
<1> HIDE DEF a
<1> DEFINE Sound(i) == Shifting(n, start, i, used, entries, a[i]) \/ Shifted(n, used, entries, a[i])
           T == {i \in 0 .. n - 1 : Sound(i)}
<1>7. Shifting(n, start, 0, used, entries, first)
  <2>1. Ahead(n, start, start) = 0 /\ Along(n, start, 0) = start
    BY <1>0 DEF Ahead, Along
  <2>2. \A j \in 0 .. n - 1 : Ahead(n, start, j) <= 0 => j = start
    BY <1>0 DEF Ahead
  <2>3. first.hole = start /\ ~first.done /\ first.hashes = f_hashes /\ first.keys = f_keys /\ first.values = f_values
    BY DEF first
  <2>4. \A j \in 0 .. n - 1 : ~(0 < Ahead(n, start, j) /\ Ahead(n, start, j) <= 0)
    BY <1>0 DEF Ahead
  <2> QED
    BY <1>0, <1>2, <2>1, <2>2, <2>3, <2>4 DEF Shifting
<1>8. 0 \in T
  BY <1>0, <1>6, <1>7
<1>9. ASSUME NEW i \in 0 .. (n - 1) - 1, i \in T PROVE i + 1 \in T
  <2>1. i \in Nat /\ i + 1 < n /\ i + 1 \in 1 .. n /\ i + 1 \in 0 .. n - 1
    BY <1>0
  <2>2. a[i + 1] = Shift(n, a[i], Along(n, start, i + 1))
    <3>1. a[i + 1] = Shift(n, a[(i + 1) - 1], Along(n, start, i + 1))
      BY <1>6, <2>1
    <3>2. (i + 1) - 1 = i
      BY <2>1
    <3> QED
      BY <3>1, <3>2
  <2>3. Sound(i)
    BY <1>9
  <2>4. Sound(i + 1)
    BY <1>0, <2>1, <2>2, <2>3, ShiftStep
  <2> QED
    BY <2>1, <2>4
<1>10. Sound(n - 1)
  <2>1. n - 1 \in Nat /\ n - 1 \in 0 .. n - 1
    BY <1>0
  <2> HIDE DEF T
  <2>2. 0 .. n - 1 \subseteq T
    BY <1>8, <1>9, <2>1, UpTo
  <2> USE DEF T
  <2> QED
    BY <2>1, <2>2
<1>11. Shifted(n, used, entries, a[n - 1])
  <2> SUFFICES ASSUME Shifting(n, start, n - 1, used, entries, a[n - 1]) PROVE FALSE
    BY <1>10
  <2>1. \A j \in 0 .. n - 1 : Ahead(n, start, j) <= n - 1
    BY <1>0 DEF Ahead
  <2>2. 0 .. n - 1 \subseteq used
    BY <2>1 DEF Shifting
  <2> QED
    BY <2>2 DEF InUse
<1>12. a[n] = a[n - 1]
  <2>1. a[n] = Shift(n, a[n - 1], Along(n, start, n)) /\ Along(n, start, n) \in 0 .. n - 1
    BY <1>0, <1>1, <1>6
  <2>2. a[n - 1] \in States(n) /\ a[n - 1].done
    BY <1>11 DEF Shifted
  <2> QED
    BY <1>0, <2>1, <2>2, Outcomes
<1> QED
  BY <1>5, <1>11, <1>12

-----------------------------------------------------------------------------
LEMMA FixedSame ==
  /\ \A S : Fixed!Cardinality(S) = Cardinality(S) /\ Fixed!Promise!Cardinality(S) = Cardinality(S)
  /\ \A S : S \subseteq Nat /\ S # {} => Fixed!Min(S) \in S /\ \A x \in S : Fixed!Min(S) <= x
<1>1. \A S : Fixed!Cardinality(S) = Cardinality(S) /\ Fixed!Promise!Cardinality(S) = Cardinality(S)
  BY DEF Fixed!Cardinality, Fixed!Promise!Cardinality, Cardinality
<1>2. ASSUME NEW S, S \subseteq Nat, S # {} PROVE Fixed!Min(S) \in S /\ \A x \in S : Fixed!Min(S) <= x
  <2>1. \E m \in S : \A k \in S : m <= k
    BY <1>2, LeastNumber
  <2> QED
    BY <2>1, Zenon DEF Fixed!Min
<1> QED
  BY <1>1, <1>2, Zenon

FixedTable(n, h, k, v) ==
  /\ n = FixedAsked.length /\ IsTable(n, h, k, v)
  /\ \A i \in InUse(n, h) :
       /\ Chained(n, h, i) /\ k[i].data \in FixedAsked.keys \cup {FixedAsked.none}
       /\ v[i].data \in FixedAsked.values \cup {NoValue}
       /\ k[i].data \in FixedAsked.keys => h[i] = Fixed!HashOf(k[i].data)
  /\ \A i, j \in InUse(n, h) : k[i].data \in FixedAsked.keys /\ k[i].data = k[j].data => i = j

Pairs(k, v, slots) == {<<k[i].data, v[i].data>> : i \in slots}

FixedInv ==
  /\ FixedTable(FixedAsked.length, f_hashes, f_keys, f_values)
  /\ f_items = Cardinality(InUse(FixedAsked.length, f_hashes)) /\ f_items <= FixedAsked.items
  /\ f_fresh => /\ f_slot \in 0 .. FixedAsked.length
                /\ f_yielded = Pairs(f_keys, f_values, {i \in InUse(FixedAsked.length, f_hashes) : i < f_slot})

FixedPromised == Fixed!Promise!Next \/ UNCHANGED <<Fixed!Contents, Fixed!Unreachable, f_last>>

(* A map has a free slot.                                                   *)
LEMMA SlotsCounted ==
  ASSUME Fixed!Sizes, FixedInv, NEW n, n = FixedAsked.length
  PROVE  /\ n \in Nat \ {0} /\ IsFiniteSet(InUse(n, f_hashes)) /\ InUse(n, f_hashes) # 0 .. n - 1
         /\ f_items \in Nat /\ FixedAsked.items \in Nat /\ Fixed!Slots = 0 .. n - 1
<1>1. n \in Nat \ {0} /\ FixedAsked.items \in Nat /\ 4 * FixedAsked.items <= 3 * n
  BY DEF Fixed!Sizes
<1>2. IsFiniteSet(0 .. n - 1) /\ Cardinality(0 .. n - 1) = n
  <2>1. 0 \in Int /\ n - 1 \in Int
    BY <1>1
  <2>2. IsFiniteSet(0 .. n - 1) /\ Cardinality(0 .. n - 1) = IF 0 > n - 1 THEN 0 ELSE (n - 1) - 0 + 1
    BY <2>1, FS_Interval
  <2> QED
    BY <1>1, <2>2
<1>3. InUse(n, f_hashes) \in SUBSET (0 .. n - 1)
  BY DEF InUse
<1>4. IsFiniteSet(InUse(n, f_hashes)) /\ Cardinality(InUse(n, f_hashes)) \in Nat
  BY <1>2, <1>3, FS_Subset, FS_CardinalityType
<1>5. f_items = Cardinality(InUse(n, f_hashes)) /\ f_items <= FixedAsked.items
  BY DEF FixedInv
<1>6. InUse(n, f_hashes) # 0 .. n - 1
  <2> SUFFICES ASSUME InUse(n, f_hashes) = 0 .. n - 1 PROVE FALSE
    OBVIOUS
  <2>1. f_items = n
    BY <1>2, <1>5
  <2> QED
    BY <1>1, <1>5, <2>1
<1> QED
  BY <1>1, <1>4, <1>5, <1>6 DEF Fixed!Slots

(* The probe: every slot before the one it returns is in use, and it finds  *)
(* the key if the key is anywhere.                                          *)
IsProbe(n, h, k, key, slot) ==
  LET home == Fixed!HashOf(key) % n IN
    /\ slot \in 0 .. n - 1
    /\ \A j \in 0 .. n - 1 : Ahead(n, home, j) < Ahead(n, home, slot) => h[j] # 0
    /\ h[slot] = 0 \/ (h[slot] = Fixed!HashOf(key) /\ k[slot].data = key)
    /\ \A i \in InUse(n, h) : k[i].data = key => i = slot

LEMMA Hashes ==
  ASSUME Fixed!Sizes, NEW key \in FixedAsked.keys
  PROVE  Fixed!HashOf(key) \in Nat \ {0, 1}
BY DEF Fixed!Sizes, Fixed!HashOf, Fixed!VALUE_OK

LEMMA Probing ==
  ASSUME Fixed!Sizes, FixedInv, NEW n, n = FixedAsked.length, NEW key \in FixedAsked.keys
  PROVE  IsProbe(n, f_hashes, f_keys, key, Fixed!Slot(key))
<1>1. /\ n \in Nat \ {0} /\ InUse(n, f_hashes) # 0 .. n - 1 /\ Fixed!Slots = 0 .. n - 1
  BY SlotsCounted
<1>2. FixedTable(n, f_hashes, f_keys, f_values) /\ f_hashes \in [0 .. n - 1 -> Nat \ {1}]
  BY DEF FixedInv, FixedTable, IsTable
<1>3. Fixed!HashOf(key) \in Nat /\ Fixed!HashOf(key) # 0
  BY Hashes
<1>4. PICK home \in 0 .. n - 1 : home = Fixed!HashOf(key) % n
  BY <1>1, <1>3, HomeIn
<1>5. \A m \in 0 .. n - 1 : Fixed!At(key, m) = Along(n, home, m) /\ Along(n, home, m) \in 0 .. n - 1
  <2>1. \A m \in 0 .. n - 1 : (Fixed!HashOf(key) + m) % n = Along(n, home, m)
    BY <1>1, <1>3, <1>4, AlongTable
  <2>2. \A m \in 0 .. n - 1 : Along(n, home, m) \in 0 .. n - 1
    BY <1>1, Around
  <2> QED
    BY <2>1, <2>2 DEF Fixed!At
<1> DEFINE stops == {m \in Fixed!Slots : f_hashes[Fixed!At(key, m)] = 0 \/ Fixed!Matches(key, Fixed!At(key, m))}
<1>6. PICK free \in 0 .. n - 1 : f_hashes[free] = 0
  BY <1>1 DEF InUse
<1>7. \A j \in 0 .. n - 1 : /\ Ahead(n, home, j) \in 0 .. n - 1 /\ Along(n, home, Ahead(n, home, j)) = j
                            /\ Fixed!At(key, Ahead(n, home, j)) = j
  <2>1. \A j \in 0 .. n - 1 : Ahead(n, home, j) \in 0 .. n - 1 /\ Along(n, home, Ahead(n, home, j)) = j
    BY <1>1, Around
  <2> QED
    BY <1>5, <2>1
<1>8. Ahead(n, home, free) \in stops
  BY <1>1, <1>6, <1>7
<1>9. PICK m \in stops : m = Fixed!Min(stops) /\ \A x \in stops : m <= x
  <2>1. stops \subseteq Nat /\ stops # {}
    BY <1>1, <1>8
  <2> HIDE DEF stops
  <2> QED
    BY <2>1, FixedSame
<1>10. PICK mm \in 0 .. n - 1 : mm = m
  BY <1>1
<1>11. PICK slot \in 0 .. n - 1 : slot = Fixed!At(key, mm) /\ slot = Along(n, home, mm)
  BY <1>5
<1>12. Fixed!Slot(key) = slot
  BY <1>9, <1>10, <1>11 DEF Fixed!Slot, Fixed!EMPTY
<1>13. Ahead(n, home, slot) = mm
  BY <1>1, <1>11, Around
<1>14. f_hashes[slot] = 0 \/ (f_hashes[slot] = Fixed!HashOf(key) /\ f_keys[slot].data = key)
  BY <1>9, <1>10, <1>11 DEF Fixed!Matches
<1>15. ASSUME NEW j \in 0 .. n - 1, Ahead(n, home, j) < Ahead(n, home, slot) PROVE f_hashes[j] # 0
  <2>1. Ahead(n, home, j) \notin stops
    BY <1>7, <1>9, <1>10, <1>13, <1>15
  <2> QED
    BY <1>1, <1>7, <2>1
<1>16. ASSUME NEW i \in InUse(n, f_hashes), f_keys[i].data = key PROVE i = slot
  <2>1. i \in 0 .. n - 1 /\ f_hashes[i] = Fixed!HashOf(key) /\ Chained(n, f_hashes, i)
    BY <1>2, <1>16 DEF FixedTable, InUse
  <2>2. Ahead(n, home, i) \in stops
    BY <1>1, <1>7, <1>16, <2>1 DEF Fixed!Matches
  <2>3. mm <= Ahead(n, home, i)
    BY <1>9, <1>10, <2>2
  <2>4. CASE mm < Ahead(n, home, i)
    <3>1. f_hashes[slot] # 0
      BY <1>4, <1>13, <2>1, <2>4 DEF Chained, OnPath
    <3>2. slot \in InUse(n, f_hashes) /\ f_keys[slot].data = key
      BY <1>14, <3>1 DEF InUse
    <3> QED
      BY <1>2, <1>16, <3>2 DEF FixedTable
  <2>5. CASE mm = Ahead(n, home, i)
    BY <1>7, <1>11, <2>1, <2>5
  <2>6. Ahead(n, home, i) \in 0 .. n - 1
    BY <1>7, <2>1
  <2> QED
    BY <2>3, <2>4, <2>5, <2>6
<1> QED
  BY <1>4, <1>12, <1>14, <1>15, <1>16 DEF IsProbe

-----------------------------------------------------------------------------
(* What a map contains, read off its table.                                 *)
TableContents(n, h, k, v) ==
  [key \in FixedAsked.keys |->
     IF \E i \in 0 .. n - 1 : h[i] = Fixed!HashOf(key) /\ k[i].data = key
     THEN v[CHOOSE i \in 0 .. n - 1 : h[i] = Fixed!HashOf(key) /\ k[i].data = key].data ELSE FixedAsked.absent]

IsContents(n, h, k, v, c) ==
  /\ c \in [FixedAsked.keys -> FixedAsked.values \cup {NoValue, FixedAsked.absent}]
  /\ \A i \in InUse(n, h) : k[i].data \in FixedAsked.keys => c[k[i].data] = v[i].data
  /\ \A key \in FixedAsked.keys : (\A i \in InUse(n, h) : k[i].data # key) => c[key] = FixedAsked.absent

LEMMA ContentsRead ==
  /\ Fixed!Contents = TableContents(FixedAsked.length, f_hashes, f_keys, f_values)
  /\ Fixed!Contents' = TableContents(FixedAsked.length, f_hashes', f_keys', f_values')
<1>1. Fixed!Contents = TableContents(FixedAsked.length, f_hashes, f_keys, f_values)
  BY Zenon DEF Fixed!Contents, TableContents, Fixed!Slots, Fixed!Matches
<1>2. Fixed!Contents' = TableContents(FixedAsked.length, f_hashes', f_keys', f_values')
  BY Zenon DEF Fixed!Contents, TableContents, Fixed!Slots, Fixed!Matches
<1> QED
  BY <1>1, <1>2

LEMMA ContentsAre ==
  ASSUME Fixed!Sizes, NEW n, NEW h, NEW k, NEW v, FixedTable(n, h, k, v)
  PROVE  IsContents(n, h, k, v, TableContents(n, h, k, v))
<1> DEFINE c == TableContents(n, h, k, v)
           At(key, i) == h[i] = Fixed!HashOf(key) /\ k[i].data = key
<1>1. ASSUME NEW i \in InUse(n, h), k[i].data \in FixedAsked.keys
      PROVE  c[k[i].data] = v[i].data /\ v[i].data \in FixedAsked.values \cup {NoValue}
  <2>1. i \in 0 .. n - 1 /\ k[i].data \in FixedAsked.keys /\ At(k[i].data, i) /\ v[i].data \in FixedAsked.values \cup {NoValue}
    BY <1>1 DEF FixedTable, InUse
  <2>2. \A j \in 0 .. n - 1 : At(k[i].data, j) => j = i
    <3> SUFFICES ASSUME NEW j \in 0 .. n - 1, At(k[i].data, j) PROVE j = i
      OBVIOUS
    <3>1. h[j] # 0
      BY <2>1, Hashes
    <3>2. j \in InUse(n, h)
      BY <3>1 DEF InUse
    <3> QED
      BY <3>2, <1>1 DEF FixedTable
  <2>3. (CHOOSE j \in 0 .. n - 1 : At(k[i].data, j)) = i
    BY <2>1, <2>2
  <2>4. c[k[i].data] = IF \E j \in 0 .. n - 1 : At(k[i].data, j)
                       THEN v[CHOOSE j \in 0 .. n - 1 : At(k[i].data, j)].data ELSE FixedAsked.absent
    BY <2>1, Zenon DEF TableContents
  <2> QED
    BY <2>1, <2>3, <2>4
<1>2. ASSUME NEW key \in FixedAsked.keys, \A i \in InUse(n, h) : k[i].data # key
      PROVE  c[key] = FixedAsked.absent
  <2>1. ~ \E i \in 0 .. n - 1 : At(key, i)
    BY <1>2, Hashes DEF InUse
  <2> QED
    BY <2>1, Zenon DEF TableContents
<1>3. c \in [FixedAsked.keys -> FixedAsked.values \cup {NoValue, FixedAsked.absent}]
  <2>1. ASSUME NEW key \in FixedAsked.keys PROVE c[key] \in FixedAsked.values \cup {NoValue, FixedAsked.absent}
    <3>1. CASE \E i \in InUse(n, h) : k[i].data = key
      BY <3>1, <1>1
    <3>2. CASE \A i \in InUse(n, h) : k[i].data # key
      BY <3>2, <1>2
    <3> QED
      BY <3>1, <3>2
  <2>2. c = [key \in FixedAsked.keys |-> c[key]]
    BY Zenon DEF TableContents
  <2> HIDE DEF c
  <2> QED
    BY <2>1, <2>2
<1> QED
  BY <1>1, <1>2, <1>3 DEF IsContents

LEMMA ContentsOnce ==
  ASSUME NEW n, NEW h, NEW k, NEW v, NEW c, NEW d, FixedTable(n, h, k, v), IsContents(n, h, k, v, c), IsContents(n, h, k, v, d)
  PROVE  c = d
<1>1. ASSUME NEW key \in FixedAsked.keys PROVE c[key] = d[key]
  <2>1. CASE \E i \in InUse(n, h) : k[i].data = key
    BY <2>1 DEF IsContents
  <2>2. CASE \A i \in InUse(n, h) : k[i].data # key
    BY <2>2 DEF IsContents
  <2> QED
    BY <2>1, <2>2
<1> QED
  BY <1>1 DEF IsContents

(* As many keys as slots in use that have kept theirs.                      *)
Known(c) == {key \in FixedAsked.keys : c[key] # FixedAsked.absent}

LEMMA KnownFinite ==
  ASSUME Fixed!Sizes, NEW n, NEW h, NEW k, NEW v, NEW c, FixedTable(n, h, k, v), IsContents(n, h, k, v, c),
         IsFiniteSet(InUse(n, h))
  PROVE  IsFiniteSet(Known(c)) /\ Cardinality(Known(c)) \in Nat
<1> DEFINE S == {i \in InUse(n, h) : k[i].data \in FixedAsked.keys}
           f == [i \in S |-> k[i].data]
<1>1. \A i \in S : k[i].data \in Known(c)
  <2> SUFFICES ASSUME NEW i \in S PROVE k[i].data \in Known(c)
    OBVIOUS
  <2>1. c[k[i].data] = v[i].data /\ v[i].data \in FixedAsked.values \cup {NoValue} /\ k[i].data \in FixedAsked.keys
    BY DEF IsContents, FixedTable
  <2> QED
    BY <2>1 DEF Known, Fixed!Sizes
<1>2. \A key \in Known(c) : \E i \in S : k[i].data = key
  BY DEF IsContents, Known
<1>3. \A i, j \in S : k[i].data = k[j].data => i = j
  BY DEF FixedTable
<1>4. f \in Bijection(S, Known(c))
  <2> HIDE DEF S
  <2> QED
    BY <1>1, <1>2, <1>3 DEF Bijection, Injection, Surjection, IsInjective
<1>5. ExistsBijection(S, Known(c))
  BY <1>4 DEF ExistsBijection
<1>6. IsFiniteSet(S)
  <2>1. S \in SUBSET InUse(n, h)
    OBVIOUS
  <2> HIDE DEF S
  <2> QED
    BY <2>1, FS_Subset
<1>7. IsFiniteSet(Known(c))
  BY <1>5, <1>6, FS_Bijection
<1> QED
  BY <1>7, FS_CardinalityType

Changed(c, key, x, d) == d = [c EXCEPT ![key] = x]

LEMMA KnownChanges ==
  ASSUME Fixed!Sizes, NEW c, c \in [FixedAsked.keys -> FixedAsked.values \cup {NoValue, FixedAsked.absent}],
         IsFiniteSet(Known(c)), NEW key \in FixedAsked.keys, NEW x, NEW d, Changed(c, key, x, d)
  PROVE  Cardinality(Known(d)) =
           IF x = FixedAsked.absent
           THEN IF c[key] = FixedAsked.absent THEN Cardinality(Known(c)) ELSE Cardinality(Known(c)) - 1
           ELSE IF c[key] = FixedAsked.absent THEN Cardinality(Known(c)) + 1 ELSE Cardinality(Known(c))
<1>1. d[key] = x /\ \A e \in FixedAsked.keys \ {key} : d[e] = c[e]
  BY DEF Changed
<1>2. Known(d) = IF x = FixedAsked.absent THEN Known(c) \ {key} ELSE Known(c) \cup {key}
  BY <1>1 DEF Known
<1>3. key \in Known(c) <=> c[key] # FixedAsked.absent
  BY DEF Known
<1>4. /\ Cardinality(Known(c) \ {key}) = IF key \in Known(c) THEN Cardinality(Known(c)) - 1 ELSE Cardinality(Known(c))
      /\ Cardinality(Known(c) \cup {key}) = IF key \in Known(c) THEN Cardinality(Known(c)) ELSE Cardinality(Known(c)) + 1
  BY FS_AddElement, FS_RemoveElement
<1> QED
  BY <1>2, <1>3, <1>4

LEMMA UnreachableRead ==
  /\ Fixed!Unreachable = f_items - Cardinality(Known(Fixed!Contents))
  /\ Fixed!Unreachable' = f_items' - Cardinality(Known(Fixed!Contents'))
<1>1. Fixed!Unreachable = f_items - Cardinality(Known(Fixed!Contents))
  BY FixedSame, Zenon DEF Fixed!Unreachable, Known
<1>2. Fixed!Unreachable' = f_items' - Cardinality(Known(Fixed!Contents'))
  BY FixedSame, Zenon DEF Fixed!Unreachable, Known
<1> QED
  BY <1>1, <1>2

-----------------------------------------------------------------------------
(* What insertion, update and deletion make of the table.                   *)
Inserted(n, h, k, v, slot, key, x, y, h1, k1, v1) ==
  /\ IsProbe(n, h, k, key, slot) /\ key \in FixedAsked.keys
  /\ x \in Fixed!Stored(FixedAsked.keys \cup {FixedAsked.none})
  /\ x.data = key \/ (x.data = FixedAsked.none /\ slot \notin InUse(n, h))
  /\ y \in Fixed!Stored(FixedAsked.values \cup {NoValue}) /\ y.data \in FixedAsked.values \cup {NoValue}
  /\ h1 = [h EXCEPT ![slot] = Fixed!HashOf(key)]
  /\ k1 = [k EXCEPT ![slot] = x] /\ v1 = [v EXCEPT ![slot] = y]

LEMMA InsertedTable ==
  ASSUME Fixed!Sizes, NEW n, NEW h, NEW k, NEW v, FixedTable(n, h, k, v),
         NEW slot, NEW key, NEW x, NEW y, NEW h1, NEW k1, NEW v1, Inserted(n, h, k, v, slot, key, x, y, h1, k1, v1)
  PROVE  /\ FixedTable(n, h1, k1, v1) /\ InUse(n, h1) = InUse(n, h) \cup {slot} /\ slot \in 0 .. n - 1
         /\ \A c : IsContents(n, h, k, v, c) =>
                   IsContents(n, h1, k1, v1, IF x.data = key THEN [c EXCEPT ![key] = y.data] ELSE c)
<1>1. /\ n \in Nat \ {0} /\ h \in [0 .. n - 1 -> Nat \ {1}] /\ slot \in 0 .. n - 1 /\ key \in FixedAsked.keys
      /\ k \in [0 .. n - 1 -> Fixed!Stored(FixedAsked.keys \cup {FixedAsked.none})]
      /\ v \in [0 .. n - 1 -> Fixed!Stored(FixedAsked.values \cup {NoValue})] /\ n = FixedAsked.length
  BY DEF FixedTable, IsTable, Inserted, IsProbe
<1>2. Fixed!HashOf(key) \in Nat \ {0, 1}
  BY <1>1, Hashes
<1>3. IsTable(n, h1, k1, v1)
  BY <1>1, <1>2 DEF IsTable, Inserted
<1>4. /\ h1[slot] = Fixed!HashOf(key) /\ k1[slot] = x /\ v1[slot] = y
      /\ \A i \in (0 .. n - 1) \ {slot} : h1[i] = h[i] /\ k1[i] = k[i] /\ v1[i] = v[i]
  <2>1. h1[slot] = Fixed!HashOf(key) /\ \A i \in (0 .. n - 1) \ {slot} : h1[i] = h[i]
    BY <1>1 DEF Inserted
  <2>2. k1[slot] = x /\ \A i \in (0 .. n - 1) \ {slot} : k1[i] = k[i]
    BY <1>1 DEF Inserted
  <2>3. v1[slot] = y /\ \A i \in (0 .. n - 1) \ {slot} : v1[i] = v[i]
    BY <1>1 DEF Inserted
  <2> QED
    BY <2>1, <2>2, <2>3
<1>5. InUse(n, h1) = InUse(n, h) \cup {slot}
  BY <1>1, <1>2, <1>4 DEF InUse
<1>6. \A i \in 0 .. n - 1 : h[i] # 0 => h1[i] # 0
  BY <1>2, <1>4
<1>7. ASSUME NEW i \in InUse(n, h1)
      PROVE  /\ Chained(n, h1, i) /\ k1[i].data \in FixedAsked.keys \cup {FixedAsked.none}
             /\ v1[i].data \in FixedAsked.values \cup {NoValue}
             /\ k1[i].data \in FixedAsked.keys => h1[i] = Fixed!HashOf(k1[i].data)
  <2>1. CASE i = slot
    <3>1. Chained(n, h1, i)
      BY <1>4, <1>6, <2>1 DEF Inserted, IsProbe, Chained, OnPath
    <3> QED
      BY <1>4, <2>1, <3>1 DEF Inserted, Fixed!Sizes
  <2>2. CASE i # slot
    <3>1. i \in InUse(n, h) /\ i \in 0 .. n - 1
      BY <1>5, <1>7, <2>2 DEF InUse
    <3>2. h1[i] = h[i] /\ k1[i] = k[i] /\ v1[i] = v[i]
      BY <1>4, <2>2, <3>1
    <3>3. Chained(n, h1, i)
      BY <1>6, <3>1, <3>2 DEF FixedTable, Chained, OnPath
    <3> QED
      BY <3>1, <3>2, <3>3 DEF FixedTable
  <2> QED
    BY <2>1, <2>2
<1>8. \A i \in InUse(n, h) : k[i].data = key => i = slot
  BY DEF Inserted, IsProbe
<1>9. \A i \in InUse(n, h1) \ {slot} : i \in InUse(n, h) /\ k1[i] = k[i] /\ v1[i] = v[i]
  BY <1>4, <1>5 DEF InUse
<1>10. ASSUME NEW i \in InUse(n, h1), NEW j \in InUse(n, h1), k1[i].data \in FixedAsked.keys, k1[i].data = k1[j].data
       PROVE  i = j
  <2>1. x.data \in FixedAsked.keys => x.data = key
    BY DEF Inserted, Fixed!Sizes
  <2>2. CASE i # slot /\ j # slot
    BY <1>9, <1>10, <2>2 DEF FixedTable
  <2>3. CASE i = slot \/ j = slot
    BY <1>4, <1>8, <1>9, <1>10, <2>1, <2>3
  <2> QED
    BY <2>2, <2>3
<1>11. FixedTable(n, h1, k1, v1)
  BY <1>1, <1>3, <1>7, <1>10 DEF FixedTable
<1>12. ASSUME NEW c, IsContents(n, h, k, v, c), x.data = key PROVE IsContents(n, h1, k1, v1, [c EXCEPT ![key] = y.data])
  <2>1. /\ c \in [FixedAsked.keys -> FixedAsked.values \cup {NoValue, FixedAsked.absent}] /\ x.data = key
        /\ y.data \in FixedAsked.values \cup {NoValue}
    BY <1>12 DEF IsContents, Inserted
  <2>2. PICK d : d = [c EXCEPT ![key] = y.data]
    OBVIOUS
  <2>3. /\ d \in [FixedAsked.keys -> FixedAsked.values \cup {NoValue, FixedAsked.absent}] /\ d[key] = y.data
        /\ \A e \in FixedAsked.keys \ {key} : d[e] = c[e]
    BY <1>1, <2>1, <2>2
  <2>4. ASSUME NEW i \in InUse(n, h1), k1[i].data \in FixedAsked.keys PROVE d[k1[i].data] = v1[i].data
    <3>1. CASE i = slot
      BY <1>4, <2>1, <2>3, <3>1
    <3>2. CASE i # slot
      <4>1. i \in InUse(n, h) /\ k1[i] = k[i] /\ v1[i] = v[i]
        BY <1>9, <2>4, <3>2
      <4>2. k[i].data # key /\ k[i].data \in FixedAsked.keys
        BY <1>8, <2>4, <3>2, <4>1
      <4> QED
        BY <1>12, <2>3, <4>1, <4>2 DEF IsContents
    <3> QED
      BY <3>1, <3>2
  <2>5. ASSUME NEW e \in FixedAsked.keys, \A i \in InUse(n, h1) : k1[i].data # e PROVE d[e] = FixedAsked.absent
    <3>1. slot \in InUse(n, h1) /\ e # key
      BY <1>4, <1>5, <2>1, <2>5
    <3>2. ASSUME NEW i \in InUse(n, h) PROVE k[i].data # e
      <4>1. CASE i = slot
        BY <1>1, <1>2, <3>1, <3>2, <4>1 DEF Inserted, IsProbe, InUse
      <4>2. CASE i # slot
        <5>1. i \in InUse(n, h1) /\ k1[i] = k[i]
          BY <1>5, <1>9, <3>2, <4>2
        <5> QED
          BY <2>5, <5>1
      <4> QED
        BY <4>1, <4>2
    <3> QED
      BY <1>12, <2>3, <3>1, <3>2 DEF IsContents
  <2>6. IsContents(n, h1, k1, v1, d)
    BY <2>3, <2>4, <2>5 DEF IsContents
  <2> QED
    BY <2>2, <2>6
<1>13. ASSUME NEW c, IsContents(n, h, k, v, c), x.data # key PROVE IsContents(n, h1, k1, v1, c)
  <2>1. x.data = FixedAsked.none /\ slot \notin InUse(n, h) /\ x.data \notin FixedAsked.keys
    BY <1>13 DEF Inserted, Fixed!Sizes
  <2>2. \A i \in InUse(n, h1) : k1[i].data \in FixedAsked.keys => c[k1[i].data] = v1[i].data
    BY <1>4, <1>9, <1>13, <2>1 DEF IsContents
  <2>3. \A i \in InUse(n, h) : i \in InUse(n, h1) /\ k1[i] = k[i]
    BY <1>5, <1>9, <2>1
  <2> QED
    BY <1>13, <2>2, <2>3 DEF IsContents
<1> QED
  BY <1>1, <1>5, <1>11, <1>12, <1>13

Removed(n, h, k, v, slot, s) ==
  /\ slot \in InUse(n, h)
  /\ Shifted(n, InUse(n, h), {Entry(h, k, v, i) : i \in InUse(n, h) \ {slot}}, s)

LEMMA RemovedTable ==
  ASSUME Fixed!Sizes, NEW n, NEW h, NEW k, NEW v, FixedTable(n, h, k, v),
         NEW slot, NEW s, Removed(n, h, k, v, slot, s), k[slot].data \in FixedAsked.keys
  PROVE  /\ FixedTable(n, s.hashes, s.keys, s.values)
         /\ s.hole \in InUse(n, h) /\ InUse(n, s.hashes) = InUse(n, h) \ {s.hole}
         /\ \A c : IsContents(n, h, k, v, c) =>
                   IsContents(n, s.hashes, s.keys, s.values, [c EXCEPT ![k[slot].data] = FixedAsked.absent])
<1> DEFINE rest == InUse(n, h) \ {slot}
           left == InUse(n, h) \ {s.hole}
<1>1. /\ n \in Nat \ {0} /\ slot \in InUse(n, h) /\ n = FixedAsked.length
      /\ s \in States(n) /\ s.hole \in InUse(n, h) /\ InUse(n, s.hashes) = left
      /\ \A j \in left : Chained(n, s.hashes, j)
      /\ Holds(s.hashes, s.keys, s.values, left, {Entry(h, k, v, i) : i \in rest})
  BY DEF Removed, Shifted, FixedTable, IsTable
<1>2. \A i \in left : \E j \in rest : s.hashes[i] = h[j] /\ s.keys[i] = k[j] /\ s.values[i] = v[j]
  BY <1>1 DEF Holds, Entry
<1>3. \A j \in rest : \E i \in left : s.hashes[i] = h[j] /\ s.keys[i] = k[j] /\ s.values[i] = v[j]
  <2> SUFFICES ASSUME NEW j \in rest PROVE \E i \in left : s.hashes[i] = h[j] /\ s.keys[i] = k[j] /\ s.values[i] = v[j]
    OBVIOUS
  <2>1. Entry(h, k, v, j) \in {Entry(h, k, v, i) : i \in rest}
    OBVIOUS
  <2>2. \E i \in left : Entry(s.hashes, s.keys, s.values, i) = Entry(h, k, v, j)
    BY <1>1, <2>1 DEF Holds
  <2> QED
    BY <2>2 DEF Entry
<1>4. IsTable(n, s.hashes, s.keys, s.values)
  BY <1>1 DEF IsTable, States
<1>5. FixedTable(n, s.hashes, s.keys, s.values)
  <2>1. ASSUME NEW i \in left
        PROVE  /\ s.keys[i].data \in FixedAsked.keys \cup {FixedAsked.none}
               /\ s.values[i].data \in FixedAsked.values \cup {NoValue}
               /\ s.keys[i].data \in FixedAsked.keys => s.hashes[i] = Fixed!HashOf(s.keys[i].data)
    BY <1>2 DEF FixedTable
  <2>2. \A i, j \in left : s.keys[i].data \in FixedAsked.keys /\ s.keys[i].data = s.keys[j].data => i = j
    BY <1>1 DEF Holds
  <2> QED
    BY <1>1, <1>4, <2>1, <2>2 DEF FixedTable
<1>6. ASSUME NEW c, IsContents(n, h, k, v, c)
      PROVE  IsContents(n, s.hashes, s.keys, s.values, [c EXCEPT ![k[slot].data] = FixedAsked.absent])
  <2>1. PICK key \in FixedAsked.keys : key = k[slot].data
    OBVIOUS
  <2>2. \A j \in rest : k[j].data # key
    BY <1>1, <2>1 DEF FixedTable
  <2>3. PICK d : d = [c EXCEPT ![key] = FixedAsked.absent]
    OBVIOUS
  <2>4. /\ d \in [FixedAsked.keys -> FixedAsked.values \cup {NoValue, FixedAsked.absent}] /\ d[key] = FixedAsked.absent
        /\ \A e \in FixedAsked.keys \ {key} : d[e] = c[e]
    BY <1>6, <2>3 DEF IsContents
  <2>5. \A i \in left : s.keys[i].data \in FixedAsked.keys => d[s.keys[i].data] = s.values[i].data
    BY <1>2, <1>6, <2>2, <2>4 DEF IsContents
  <2>6. ASSUME NEW e \in FixedAsked.keys, \A i \in left : s.keys[i].data # e PROVE d[e] = FixedAsked.absent
    <3>1. CASE e = key
      BY <2>4, <3>1
    <3>2. CASE e # key
      <4>1. \A j \in InUse(n, h) : k[j].data # e
        BY <1>3, <2>1, <2>6, <3>2
      <4> QED
        BY <1>6, <2>4, <3>2, <4>1 DEF IsContents
    <3> QED
      BY <3>1, <3>2
  <2>7. IsContents(n, s.hashes, s.keys, s.values, d)
    BY <1>1, <2>4, <2>5, <2>6 DEF IsContents
  <2> QED
    BY <2>1, <2>3, <2>7
<1> QED
  BY <1>1, <1>5, <1>6

(* What the state of a sound map says of its contents and of a key.         *)
LEMMA ContentsNow ==
  ASSUME Fixed!Sizes, FixedInv, NEW n, n = FixedAsked.length
  PROVE  /\ IsContents(n, f_hashes, f_keys, f_values, Fixed!Contents)
         /\ IsFiniteSet(Known(Fixed!Contents)) /\ Cardinality(Known(Fixed!Contents)) \in Nat
         /\ Fixed!Promise!Full <=> Fixed!Full
<1>1. FixedTable(n, f_hashes, f_keys, f_values) /\ f_items = Cardinality(InUse(n, f_hashes))
  BY DEF FixedInv
<1>2. IsFiniteSet(InUse(n, f_hashes)) /\ f_items \in Nat
  BY SlotsCounted
<1>3. IsContents(n, f_hashes, f_keys, f_values, Fixed!Contents)
  BY <1>1, ContentsRead, ContentsAre
<1>4. IsFiniteSet(Known(Fixed!Contents)) /\ Cardinality(Known(Fixed!Contents)) \in Nat
  BY <1>1, <1>2, <1>3, KnownFinite
<1>5. Fixed!Promise!Full <=> Cardinality(Known(Fixed!Contents)) + Fixed!Unreachable >= FixedAsked.items
  BY FixedSame, Zenon DEF Fixed!Promise!Full, Known
<1>6. Cardinality(Known(Fixed!Contents)) + Fixed!Unreachable = f_items
  BY <1>2, <1>4, UnreachableRead
<1>7. Fixed!Promise!Full <=> Fixed!Full
  BY <1>5, <1>6, Zenon DEF Fixed!Full
<1> QED
  BY <1>3, <1>4, <1>7

LEMMA ContentsNext ==
  ASSUME Fixed!Sizes, NEW n, n = FixedAsked.length, FixedTable(n, f_hashes', f_keys', f_values'),
         NEW d, IsContents(n, f_hashes', f_keys', f_values', d)
  PROVE  Fixed!Contents' = d
<1>1. IsContents(n, f_hashes', f_keys', f_values', Fixed!Contents')
  BY ContentsRead, ContentsAre
<1> QED
  BY <1>1, ContentsOnce

LEMMA KeyFound ==
  ASSUME Fixed!Sizes, FixedInv, NEW n, n = FixedAsked.length, NEW key \in FixedAsked.keys,
         NEW slot, slot = Fixed!Slot(key)
  PROVE  /\ IsProbe(n, f_hashes, f_keys, key, slot)
         /\ Fixed!Found(key) => /\ slot \in InUse(n, f_hashes) /\ f_keys[slot].data = key
                                /\ Fixed!Contents[key] = f_values[slot].data /\ Fixed!Contents[key] # FixedAsked.absent
         /\ ~Fixed!Found(key) => slot \notin InUse(n, f_hashes) /\ Fixed!Contents[key] = FixedAsked.absent
<1>1. IsProbe(n, f_hashes, f_keys, key, slot)
  BY Probing
<1>2. Fixed!HashOf(key) # 0
  BY Hashes
<1>3. Fixed!Found(key) <=> f_hashes[slot] = Fixed!HashOf(key) /\ f_keys[slot].data = key
  BY DEF Fixed!Found, Fixed!Matches
<1>4. IsContents(n, f_hashes, f_keys, f_values, Fixed!Contents) /\ FixedTable(n, f_hashes, f_keys, f_values)
  BY ContentsNow DEF FixedInv
<1>5. ASSUME Fixed!Found(key)
      PROVE  /\ slot \in InUse(n, f_hashes) /\ f_keys[slot].data = key
             /\ Fixed!Contents[key] = f_values[slot].data /\ Fixed!Contents[key] # FixedAsked.absent
  <2>1. slot \in InUse(n, f_hashes) /\ f_keys[slot].data = key
    BY <1>1, <1>2, <1>3, <1>5 DEF IsProbe, InUse
  <2>2. Fixed!Contents[key] = f_values[slot].data
    BY <1>4, <2>1 DEF IsContents
  <2>3. f_values[slot].data \in FixedAsked.values \cup {NoValue} /\ FixedAsked.absent \notin FixedAsked.values \cup {NoValue}
    BY <1>4, <2>1 DEF FixedTable, Fixed!Sizes
  <2> QED
    BY <2>1, <2>2, <2>3
<1>6. ASSUME ~Fixed!Found(key) PROVE slot \notin InUse(n, f_hashes) /\ Fixed!Contents[key] = FixedAsked.absent
  <2>1. slot \notin InUse(n, f_hashes)
    BY <1>1, <1>3, <1>6 DEF IsProbe, InUse
  <2>2. \A i \in InUse(n, f_hashes) : f_keys[i].data # key
    BY <1>1, <2>1 DEF IsProbe
  <2> QED
    BY <1>4, <2>1, <2>2 DEF IsContents
<1> QED
  BY <1>1, <1>5, <1>6

(* A string that the caller keeps, that is copied, or whose copy is NULL.   *)
LEMMA KeptString ==
  ASSUME NEW lifetime, NEW data, NEW none, NEW m \in Fixed!Memories(lifetime)
  PROVE  /\ Fixed!Kept(data, none, m) \in Fixed!Stored({data, none})
         /\ Fixed!Kept(data, none, m).data = IF m = "null" THEN none ELSE data
         /\ m = "caller" <=> lifetime = "LONGER"
<1>1. m \in {"copy", "caller", "null"} /\ (m = "caller" <=> lifetime = "LONGER")
  BY DEF Fixed!Memories
<1> QED
  BY <1>1 DEF Fixed!Kept, Fixed!Stored

LEMMA GivenLifetimes ==
  ASSUME Fixed!Sizes, NEW s \in FixedAsked.keys \cup FixedAsked.values, NEW l \in FixedAsked.lifetimes[s]
  PROVE  l \in {"SHORTER", "LONGER"} /\ \A m \in Fixed!Memories(l) : m = "null" => "SHORTER" \in FixedAsked.lifetimes[s]
<1>1. l \in {"SHORTER", "LONGER"}
  BY DEF Fixed!Sizes
<1> QED
  BY <1>1 DEF Fixed!Memories

(* The three ways a call leaves the map: as it was, with a pair more, with  *)
(* another value of a key, or with a pair less.                             *)
LEMMA FixedStays ==
  ASSUME Fixed!Sizes, FixedInv, UNCHANGED <<f_hashes, f_keys, f_values, f_items, f_slot, f_fresh, f_yielded>>
  PROVE  FixedInv' /\ Fixed!Contents' = Fixed!Contents /\ Fixed!Unreachable' = Fixed!Unreachable
<1>1. Fixed!Contents' = Fixed!Contents
  BY ContentsRead
<1>2. Fixed!Unreachable' = Fixed!Unreachable
  BY <1>1, UnreachableRead
<1> QED
  BY <1>1, <1>2 DEF FixedInv

LEMMA FixedStarts ==
  ASSUME Fixed!Sizes, Fixed!Init
  PROVE  FixedInv /\ Fixed!Promise!Init
<1> DEFINE n == FixedAsked.length
<1>1. n \in Nat \ {0} /\ FixedAsked.items \in Nat /\ Fixed!Slots = 0 .. n - 1
  BY DEF Fixed!Sizes, Fixed!Slots
<1>2. /\ f_hashes = [i \in 0 .. n - 1 |-> 0] /\ f_keys = [i \in 0 .. n - 1 |-> Fixed!Nothing(FixedAsked.none)]
      /\ f_values = [i \in 0 .. n - 1 |-> Fixed!Nothing(NoValue)] /\ f_items = 0 /\ f_fresh = FALSE
  BY <1>1 DEF Fixed!Init, Fixed!Zeroed, Fixed!EMPTY
<1>3. InUse(n, f_hashes) = {}
  BY <1>2 DEF InUse
<1>4. IsTable(n, f_hashes, f_keys, f_values)
  <2>1. /\ Fixed!Nothing(FixedAsked.none) \in Fixed!Stored(FixedAsked.keys \cup {FixedAsked.none})
        /\ Fixed!Nothing(NoValue) \in Fixed!Stored(FixedAsked.values \cup {NoValue})
    BY DEF Fixed!Nothing, Fixed!Stored
  <2> QED
    BY <1>1, <1>2, <2>1 DEF IsTable
<1>5. FixedTable(n, f_hashes, f_keys, f_values)
  BY <1>3, <1>4 DEF FixedTable
<1>6. FixedInv
  <2>1. Cardinality(InUse(n, f_hashes)) = 0
    BY <1>3, FS_EmptySet
  <2>2. f_items <= FixedAsked.items
    BY <1>1, <1>2
  <2> QED
    BY <1>2, <1>5, <2>1, <2>2 DEF FixedInv
<1>7. IsContents(n, f_hashes, f_keys, f_values, Fixed!Contents)
  BY <1>6, ContentsNow
<1>8. Fixed!Contents = [k \in FixedAsked.keys |-> FixedAsked.absent]
  BY <1>3, <1>7 DEF IsContents
<1>9. Fixed!Unreachable = 0
  <2>1. Known(Fixed!Contents) = {}
    BY <1>8 DEF Known
  <2>2. Cardinality(Known(Fixed!Contents)) = 0
    BY <2>1, FS_EmptySet
  <2> QED
    BY <1>2, <2>2, UnreachableRead
<1>10. f_last = [op |-> "init", key |-> FixedAsked.none, value |-> NoValue, answer |-> TRUE, lost |-> {}]
  BY DEF Fixed!Init
<1> QED
  BY <1>6, <1>8, <1>9, <1>10 DEF Fixed!Promise!Init, Fixed!Promise!Call

LEMMA FixedAsks ==
  ASSUME Fixed!Sizes, FixedInv, NEW key \in FixedAsked.keys,
         \/ \E v \in FixedAsked.values : Fixed!InsertFull(key, v)
         \/ Fixed!Get(key) \/ Fixed!DeleteAbsent(key)
  PROVE  FixedInv' /\ FixedPromised
<1>1. UNCHANGED <<f_hashes, f_keys, f_values, f_items, f_slot, f_fresh, f_yielded>>
  BY DEF Fixed!InsertFull, Fixed!Get, Fixed!DeleteAbsent, Fixed!arrays, Fixed!iterator
<1>2. FixedInv' /\ Fixed!Contents' = Fixed!Contents /\ Fixed!Unreachable' = Fixed!Unreachable
  BY <1>1, FixedStays
<1>3. /\ Fixed!Promise!Full <=> Fixed!Full
      /\ IsContents(FixedAsked.length, f_hashes, f_keys, f_values, Fixed!Contents)
  BY ContentsNow
<1> USE DEF FixedPromised, Fixed!Promise!Next, Fixed!Promise!Returns, Fixed!Promise!Call, Fixed!Call, Fixed!Promise!state
<1>4. ASSUME NEW v \in FixedAsked.values, Fixed!InsertFull(key, v) PROVE FixedPromised
  <2>1. CASE Fixed!Contents[key] = FixedAsked.absent
    <3>1. Fixed!Promise!InsertRefused(key, v)
      BY <1>2, <1>3, <1>4, <2>1 DEF Fixed!InsertFull, Fixed!Promise!InsertRefused
    <3> QED
      BY <3>1
  <2>2. CASE Fixed!Contents[key] # FixedAsked.absent
    <3>1. Fixed!Promise!UpdateRefused(key, v)
      BY <1>2, <1>3, <1>4, <2>2 DEF Fixed!InsertFull, Fixed!Promise!UpdateRefused
    <3> QED
      BY <3>1
  <2> QED
    BY <2>1, <2>2
<1>5. ASSUME Fixed!Get(key) PROVE FixedPromised
  <2>1. (IF Fixed!Found(key) THEN f_values[Fixed!Slot(key)].data ELSE NoValue)
          = IF Fixed!Contents[key] = FixedAsked.absent THEN NoValue ELSE Fixed!Contents[key]
    BY KeyFound
  <2>2. f_last' = [op |-> "get", key |-> key,
                   value |-> IF Fixed!Contents[key] = FixedAsked.absent THEN NoValue ELSE Fixed!Contents[key],
                   answer |-> TRUE, lost |-> {}]
    BY <1>5, <2>1, Zenon DEF Fixed!Get
  <2>3. Fixed!Promise!Get(key)
    BY <1>2, <2>2 DEF Fixed!Promise!Get
  <2> QED
    BY <2>3
<1>6. ASSUME Fixed!DeleteAbsent(key) PROVE FixedPromised
  <2>1. Fixed!Contents[key] = FixedAsked.absent
    BY <1>6, KeyFound DEF Fixed!DeleteAbsent
  <2>2. Fixed!Contents = [Fixed!Contents EXCEPT ![key] = FixedAsked.absent]
    BY <1>3, <2>1 DEF IsContents
  <2>3. Fixed!Promise!Delete(key)
    BY <1>2, <1>6, <2>1, <2>2 DEF Fixed!DeleteAbsent, Fixed!Promise!Delete
  <2> QED
    BY <2>3
<1> QED
  BY <1>2, <1>4, <1>5, <1>6

(* An insertion that is done: with both strings, or without those whose     *)
(* copies were refused.                                                     *)
LEMMA InsertAnswers ==
  ASSUME Fixed!Sizes, FixedInv, NEW key \in FixedAsked.keys, NEW v \in FixedAsked.values, NEW km, NEW vm,
         ~Fixed!Full, Fixed!Inserted(key, v, km, vm),
         km = "null" => Fixed!Contents[key] = FixedAsked.absent /\ "SHORTER" \in FixedAsked.lifetimes[key],
         vm = "null" => "SHORTER" \in FixedAsked.lifetimes[v],
         Fixed!Contents' = IF km = "null" THEN Fixed!Contents
                           ELSE [Fixed!Contents EXCEPT ![key] = IF vm = "null" THEN NoValue ELSE v],
         f_items' = IF Fixed!Contents[key] = FixedAsked.absent THEN f_items + 1 ELSE f_items
  PROVE  FixedPromised
<1> DEFINE lost == {s \in {"key"} : km = "null"} \cup {s \in {"value"} : vm = "null"}
<1>1. f_last' = [op |-> "insert", key |-> key, value |-> v, answer |-> TRUE, lost |-> lost]
  BY DEF Fixed!Inserted
<1>2. /\ ~Fixed!Promise!Full /\ IsFiniteSet(Known(Fixed!Contents)) /\ f_items \in Nat
      /\ Fixed!Contents \in [FixedAsked.keys -> FixedAsked.values \cup {NoValue, FixedAsked.absent}]
      /\ Cardinality(Known(Fixed!Contents)) \in Nat
  BY ContentsNow, SlotsCounted DEF IsContents
<1>5. f_last'.op = "insert" /\ f_last'.key = key
  <2> HIDE DEF lost
  <2> QED
    BY <1>1
<1>3. CASE km = "null"
  <2>1. Fixed!Contents' = Fixed!Contents /\ f_items' = f_items + 1
    BY <1>3
  <2>2. Fixed!Unreachable' = Fixed!Unreachable + 1
    BY <1>2, <2>1, UnreachableRead
  <2>3. /\ lost \in {{"key"}, {"value"}, {"key", "value"}}
        /\ "key" \in lost /\ ("value" \in lost => "SHORTER" \in FixedAsked.lifetimes[v])
    BY <1>3
  <2> HIDE DEF lost
  <2>4. Fixed!Promise!InsertWithLoss(key, v)
    BY <1>1, <1>2, <1>3, <1>5, <2>1, <2>2, <2>3, Zenon DEF Fixed!Promise!InsertWithLoss
  <2> QED
    BY <2>4 DEF FixedPromised, Fixed!Promise!Next
<1>4. CASE km # "null"
  <2> DEFINE x == IF vm = "null" THEN NoValue ELSE v
  <2>1. Fixed!Contents' = [Fixed!Contents EXCEPT ![key] = x] /\ x # FixedAsked.absent
    BY <1>4 DEF Fixed!Sizes
  <2>2. Cardinality(Known(Fixed!Contents')) =
          IF Fixed!Contents[key] = FixedAsked.absent
          THEN Cardinality(Known(Fixed!Contents)) + 1 ELSE Cardinality(Known(Fixed!Contents))
    <3>1. Changed(Fixed!Contents, key, x, Fixed!Contents')
      BY <2>1 DEF Changed
    <3> HIDE DEF x
    <3> QED
      BY <1>2, <2>1, <3>1, KnownChanges
  <2>3. Fixed!Unreachable' = Fixed!Unreachable
    BY <1>2, <2>2, UnreachableRead
  <2>4. CASE vm = "null"
    <3>1. lost = {"value"} /\ x = NoValue
      BY <1>4, <2>4
    <3>2. lost \in {{"key"}, {"value"}, {"key", "value"}} /\ "key" \notin lost
      BY <3>1
    <3>3. Fixed!Contents' = [Fixed!Contents EXCEPT ![key] = NoValue]
      BY <2>1, <3>1
    <3> HIDE DEF lost, x
    <3>4. Fixed!Promise!InsertWithLoss(key, v)
      BY <1>1, <1>2, <1>5, <2>3, <2>4, <3>2, <3>3, Zenon DEF Fixed!Promise!InsertWithLoss
    <3> QED
      BY <3>4 DEF FixedPromised, Fixed!Promise!Next
  <2>5. CASE vm # "null"
    <3>1. lost = {} /\ x = v
      BY <1>4, <2>5
    <3> HIDE DEF lost, x
    <3>2. Fixed!Promise!Insert(key, v)
      BY <1>1, <1>2, <2>1, <2>3, <3>1 DEF Fixed!Promise!Insert, Fixed!Promise!Returns, Fixed!Promise!Call
    <3> QED
      BY <3>2 DEF FixedPromised, Fixed!Promise!Next
  <2> QED
    BY <2>4, <2>5
<1> QED
  BY <1>3, <1>4

LEMMA FixedInserts ==
  ASSUME Fixed!Sizes, FixedInv, NEW key \in FixedAsked.keys, NEW v \in FixedAsked.values,
         NEW kl \in FixedAsked.lifetimes[key], NEW vl \in FixedAsked.lifetimes[v], Fixed!InsertNew(key, kl, v, vl)
  PROVE  FixedInv' /\ FixedPromised
<1> DEFINE n == FixedAsked.length
<1>1. PICK slot : slot = Fixed!Slot(key)
  OBVIOUS
<1>2. /\ ~Fixed!Full /\ ~Fixed!Found(key)
      /\ f_hashes' = [f_hashes EXCEPT ![slot] = Fixed!HashOf(key)]
      /\ f_items' = f_items + 1 /\ f_fresh' = FALSE
  BY <1>1 DEF Fixed!InsertNew, Fixed!Mutated
<1>3. PICK km \in Fixed!Memories(kl), vm \in Fixed!Memories(vl) :
        /\ f_keys' = [f_keys EXCEPT ![slot] = Fixed!Kept(key, FixedAsked.none, km)]
        /\ f_values' = [f_values EXCEPT ![slot] = Fixed!Kept(v, NoValue, vm)]
        /\ Fixed!Inserted(key, v, km, vm)
  BY <1>1 DEF Fixed!InsertNew
<1>4. PICK x, y : x = Fixed!Kept(key, FixedAsked.none, km) /\ y = Fixed!Kept(v, NoValue, vm)
  OBVIOUS
<1>5. /\ x \in Fixed!Stored(FixedAsked.keys \cup {FixedAsked.none}) /\ x.data = IF km = "null" THEN FixedAsked.none ELSE key
      /\ y \in Fixed!Stored(FixedAsked.values \cup {NoValue}) /\ y.data = IF vm = "null" THEN NoValue ELSE v
  <2>1. /\ x \in Fixed!Stored({key, FixedAsked.none}) /\ x.data = IF km = "null" THEN FixedAsked.none ELSE key
        /\ y \in Fixed!Stored({v, NoValue}) /\ y.data = IF vm = "null" THEN NoValue ELSE v
    <3>1. km \in {"copy", "caller", "null"} /\ vm \in {"copy", "caller", "null"}
      BY <1>3 DEF Fixed!Memories
    <3>2. /\ x \in Fixed!Stored({key, FixedAsked.none})
          /\ x.data = IF km = "null" THEN FixedAsked.none ELSE key
      BY <1>4, <3>1 DEF Fixed!Kept, Fixed!Stored
    <3>3. /\ y \in Fixed!Stored({v, NoValue})
          /\ y.data = IF vm = "null" THEN NoValue ELSE v
      BY <1>4, <3>1 DEF Fixed!Kept, Fixed!Stored
    <3> QED
      BY <3>2, <3>3
  <2> QED
    BY <2>1 DEF Fixed!Stored
<1>6. IsProbe(n, f_hashes, f_keys, key, slot) /\ slot \notin InUse(n, f_hashes) /\ Fixed!Contents[key] = FixedAsked.absent
  BY <1>1, <1>2, KeyFound
<1>7. FixedTable(n, f_hashes, f_keys, f_values) /\ IsContents(n, f_hashes, f_keys, f_values, Fixed!Contents)
  BY ContentsNow DEF FixedInv
<1>8. Inserted(n, f_hashes, f_keys, f_values, slot, key, x, y, f_hashes', f_keys', f_values')
  BY <1>2, <1>3, <1>4, <1>5, <1>6 DEF Inserted
<1>9. /\ FixedTable(n, f_hashes', f_keys', f_values') /\ InUse(n, f_hashes') = InUse(n, f_hashes) \cup {slot}
      /\ IsContents(n, f_hashes', f_keys', f_values',
                    IF x.data = key THEN [Fixed!Contents EXCEPT ![key] = y.data] ELSE Fixed!Contents)
  BY <1>7, <1>8, InsertedTable
<1>10. Fixed!Contents' = IF km = "null" THEN Fixed!Contents
                         ELSE [Fixed!Contents EXCEPT ![key] = IF vm = "null" THEN NoValue ELSE v]
  <2>1. x.data = key <=> km # "null"
    BY <1>5 DEF Fixed!Sizes
  <2> QED
    BY <1>5, <1>9, <2>1, ContentsNext
<1>11. f_items' = Cardinality(InUse(n, f_hashes')) /\ f_items' <= FixedAsked.items
  <2>1. /\ IsFiniteSet(InUse(n, f_hashes)) /\ f_items \in Nat /\ FixedAsked.items \in Nat
        /\ f_items = Cardinality(InUse(n, f_hashes))
    BY SlotsCounted DEF FixedInv
  <2>2. Cardinality(InUse(n, f_hashes) \cup {slot}) = Cardinality(InUse(n, f_hashes)) + 1
    BY <1>6, <2>1, FS_AddElement
  <2>3. PICK count \in Nat, most \in Nat : count = f_items /\ most = FixedAsked.items
    BY <2>1
  <2>4. count < most
    BY <1>2, <2>3 DEF Fixed!Full
  <2>5. f_items' = count + 1 /\ Cardinality(InUse(n, f_hashes')) = count + 1
    BY <1>2, <1>9, <2>1, <2>2, <2>3
  <2> QED
    BY <2>3, <2>4, <2>5
<1>12. FixedInv'
  BY <1>2, <1>9, <1>11 DEF FixedInv
<1>13. /\ km = "null" => "SHORTER" \in FixedAsked.lifetimes[key]
       /\ vm = "null" => "SHORTER" \in FixedAsked.lifetimes[v]
  BY <1>3, GivenLifetimes
<1>14. FixedPromised
  BY <1>2, <1>3, <1>6, <1>10, <1>13, InsertAnswers
<1> QED
  BY <1>12, <1>14

LEMMA FixedUpdates ==
  ASSUME Fixed!Sizes, FixedInv, NEW key \in FixedAsked.keys, NEW v \in FixedAsked.values,
         NEW vl \in FixedAsked.lifetimes[v], Fixed!InsertUpdate(key, v, vl)
  PROVE  FixedInv' /\ FixedPromised
<1> DEFINE n == FixedAsked.length
<1>1. PICK slot : slot = Fixed!Slot(key)
  OBVIOUS
<1>2. /\ ~Fixed!Full /\ Fixed!Found(key) /\ f_hashes' = f_hashes /\ f_keys' = f_keys
      /\ f_items' = f_items /\ f_fresh' = FALSE
  BY DEF Fixed!InsertUpdate, Fixed!Mutated
<1>3. PICK vm \in Fixed!Memories(vl) :
        f_values' = [f_values EXCEPT ![slot] = Fixed!Kept(v, NoValue, vm)] /\ Fixed!Inserted(key, v, "kept", vm)
  BY <1>1 DEF Fixed!InsertUpdate
<1>4. PICK y : y = Fixed!Kept(v, NoValue, vm)
  OBVIOUS
<1>5. y \in Fixed!Stored(FixedAsked.values \cup {NoValue}) /\ y.data = IF vm = "null" THEN NoValue ELSE v
  <2>1. y \in Fixed!Stored({v, NoValue}) /\ y.data = IF vm = "null" THEN NoValue ELSE v
    BY <1>3, <1>4, KeptString
  <2> QED
    BY <2>1 DEF Fixed!Stored
<1>6. /\ IsProbe(n, f_hashes, f_keys, key, slot) /\ slot \in InUse(n, f_hashes) /\ f_keys[slot].data = key
      /\ Fixed!Contents[key] # FixedAsked.absent
  BY <1>1, <1>2, KeyFound
<1>7. FixedTable(n, f_hashes, f_keys, f_values) /\ IsContents(n, f_hashes, f_keys, f_values, Fixed!Contents)
  BY ContentsNow DEF FixedInv
<1>8. Inserted(n, f_hashes, f_keys, f_values, slot, key, f_keys[slot], y, f_hashes', f_keys', f_values')
  <2>1. f_hashes[slot] = Fixed!HashOf(key)
    BY <1>6, <1>7 DEF FixedTable
  <2>2. /\ f_hashes \in [0 .. n - 1 -> Nat \ {1}] /\ slot \in 0 .. n - 1
        /\ f_keys \in [0 .. n - 1 -> Fixed!Stored(FixedAsked.keys \cup {FixedAsked.none})]
    BY <1>6, <1>7 DEF FixedTable, IsTable, InUse
  <2>3. f_hashes' = [f_hashes EXCEPT ![slot] = Fixed!HashOf(key)] /\ f_keys' = [f_keys EXCEPT ![slot] = f_keys[slot]]
    BY <1>2, <2>1, <2>2
  <2>4. f_keys[slot] \in Fixed!Stored(FixedAsked.keys \cup {FixedAsked.none})
    BY <2>2
  <2> QED
    BY <1>3, <1>4, <1>5, <1>6, <2>3, <2>4 DEF Inserted
<1>9. /\ FixedTable(n, f_hashes', f_keys', f_values') /\ InUse(n, f_hashes') = InUse(n, f_hashes)
      /\ IsContents(n, f_hashes', f_keys', f_values', [Fixed!Contents EXCEPT ![key] = y.data])
  BY <1>2, <1>6, <1>7, <1>8, InsertedTable
<1>10. Fixed!Contents' = [Fixed!Contents EXCEPT ![key] = IF vm = "null" THEN NoValue ELSE v]
  BY <1>5, <1>9, ContentsNext
<1>11. FixedInv'
  BY <1>2, <1>9 DEF FixedInv
<1>12. vm = "null" => "SHORTER" \in FixedAsked.lifetimes[v]
  BY <1>3, GivenLifetimes
<1>13. FixedPromised
  BY <1>2, <1>3, <1>6, <1>10, <1>12, InsertAnswers
<1> QED
  BY <1>11, <1>13

LEMMA FixedDeletes ==
  ASSUME Fixed!Sizes, FixedInv, NEW key \in FixedAsked.keys, Fixed!DeletePresent(key)
  PROVE  FixedInv' /\ FixedPromised
<1> DEFINE n == FixedAsked.length
           used == InUse(n, f_hashes)
<1>1. PICK slot : slot = Fixed!Slot(key)
  OBVIOUS
<1>2. PICK s : s = Fixed!Backshifted(slot)
  OBVIOUS
<1>3. /\ Fixed!Found(key) /\ f_hashes' = s.hashes /\ f_keys' = s.keys /\ f_values' = s.values
      /\ f_items' = f_items - 1 /\ f_fresh' = FALSE
      /\ f_last' = [op |-> "delete", key |-> key, value |-> NoValue, answer |-> TRUE, lost |-> {}]
  BY <1>1, <1>2 DEF Fixed!DeletePresent, Fixed!Mutated, Fixed!Call
<1>4. slot \in used /\ f_keys[slot].data = key /\ Fixed!Contents[key] # FixedAsked.absent
  BY <1>1, <1>3, KeyFound
<1>5. FixedTable(n, f_hashes, f_keys, f_values) /\ IsContents(n, f_hashes, f_keys, f_values, Fixed!Contents)
  BY ContentsNow DEF FixedInv
<1>6. IsFiniteSet(used) /\ used # 0 .. n - 1 /\ f_items \in Nat /\ f_items = Cardinality(used)
  BY SlotsCounted DEF FixedInv
<1> DEFINE entries == {Entry(f_hashes, f_keys, f_values, i) : i \in used \ {slot}}
<1>7. Holds(f_hashes, f_keys, f_values, used \ {slot}, entries)
  <2>1. \A i, j \in used \ {slot} : f_keys[i].data \in FixedAsked.keys /\ f_keys[i].data = f_keys[j].data => i = j
    BY <1>5 DEF FixedTable
  <2> QED
    BY <2>1 DEF Holds
<1>8. Removed(n, f_hashes, f_keys, f_values, slot, s)
  <2>1. IsTable(n, f_hashes, f_keys, f_values) /\ \A j \in used : Chained(n, f_hashes, j)
    BY <1>5 DEF FixedTable
  <2>2. Shifted(n, used, entries, Fixed!Backshifted(slot))
    BY <1>4, <1>6, <1>7, <2>1, Backshift
  <2> QED
    BY <1>2, <1>4, <2>2 DEF Removed
<1>9. /\ FixedTable(n, f_hashes', f_keys', f_values')
      /\ s.hole \in used /\ InUse(n, f_hashes') = used \ {s.hole}
      /\ IsContents(n, f_hashes', f_keys', f_values', [Fixed!Contents EXCEPT ![key] = FixedAsked.absent])
  BY <1>3, <1>4, <1>5, <1>8, RemovedTable
<1>10. Fixed!Contents' = [Fixed!Contents EXCEPT ![key] = FixedAsked.absent]
  BY <1>9, ContentsNext
<1>11. f_items' = Cardinality(InUse(n, f_hashes')) /\ f_items' <= FixedAsked.items
  <2>1. Cardinality(used \ {s.hole}) = Cardinality(used) - 1
    BY <1>6, <1>9, FS_RemoveElement
  <2>2. f_items <= FixedAsked.items /\ FixedAsked.items \in Nat
    BY SlotsCounted DEF FixedInv
  <2> QED
    BY <1>3, <1>6, <1>9, <2>1, <2>2
<1>12. FixedInv'
  BY <1>3, <1>9, <1>11 DEF FixedInv
<1>13. Fixed!Unreachable' = Fixed!Unreachable
  <2>1. /\ IsFiniteSet(Known(Fixed!Contents)) /\ Cardinality(Known(Fixed!Contents)) \in Nat
        /\ Fixed!Contents \in [FixedAsked.keys -> FixedAsked.values \cup {NoValue, FixedAsked.absent}]
    BY ContentsNow DEF IsContents
  <2>2. Cardinality(Known(Fixed!Contents')) = Cardinality(Known(Fixed!Contents)) - 1
    <3>1. Changed(Fixed!Contents, key, FixedAsked.absent, Fixed!Contents')
      BY <1>10 DEF Changed
    <3> QED
      BY <1>4, <2>1, <3>1, KnownChanges
  <2> QED
    BY <1>3, <1>6, <2>1, <2>2, UnreachableRead
<1>14. Fixed!Promise!Delete(key)
  BY <1>3, <1>4, <1>10, <1>13 DEF Fixed!Promise!Delete, Fixed!Promise!Returns, Fixed!Promise!Call
<1> QED
  BY <1>12, <1>14 DEF FixedPromised, Fixed!Promise!Next

LEMMA FixedIterates ==
  ASSUME Fixed!Sizes, FixedInv, Fixed!IteratorStart \/ Fixed!IteratorNext
  PROVE  FixedInv' /\ FixedPromised
<1> DEFINE n == FixedAsked.length
           used == InUse(n, f_hashes)
<1>1. UNCHANGED <<f_hashes, f_keys, f_values, f_items>>
  BY DEF Fixed!IteratorStart, Fixed!IteratorNext, Fixed!arrays
<1>2. FixedPromised
  <2>1. Fixed!Contents' = Fixed!Contents
    BY <1>1, ContentsRead
  <2>2. Fixed!Unreachable' = Fixed!Unreachable
    BY <1>1, <2>1, UnreachableRead
  <2>3. f_last' = [op |-> "iterate", key |-> FixedAsked.none, value |-> NoValue, answer |-> TRUE, lost |-> {}]
    BY DEF Fixed!IteratorStart, Fixed!IteratorNext, Fixed!Call
  <2>4. Fixed!Promise!Iterate
    BY <2>1, <2>2, <2>3 DEF Fixed!Promise!Iterate, Fixed!Promise!Returns, Fixed!Promise!Call, Fixed!Promise!state
  <2> QED
    BY <2>4 DEF FixedPromised, Fixed!Promise!Next
<1>3. n \in Nat \ {0} /\ Fixed!Slots = 0 .. n - 1
  BY SlotsCounted
<1>4. \A from : Fixed!Occupied(from) = {i \in used : i >= from} /\ used \subseteq 0 .. n - 1
  BY <1>3 DEF Fixed!Occupied, Fixed!EMPTY, InUse
<1>5. f_fresh' => /\ f_slot' \in 0 .. n
                  /\ f_yielded' = Pairs(f_keys, f_values, {i \in used : i < f_slot'})
  <2>1. CASE Fixed!IteratorStart
    <3>1. f_slot' = 0 /\ f_yielded' = {}
      BY <2>1 DEF Fixed!IteratorStart
    <3>2. {i \in used : i < 0} = {}
      BY <1>4
    <3> QED
      BY <1>3, <3>1, <3>2 DEF Pairs
  <2>2. CASE Fixed!IteratorNext
    <3>1. PICK at \in 0 .. n : at = f_slot
      BY <2>2 DEF Fixed!IteratorNext, FixedInv
    <3>2. f_yielded = Pairs(f_keys, f_values, {i \in used : i < at})
      BY <2>2, <3>1 DEF Fixed!IteratorNext, FixedInv
    <3>3. CASE Fixed!Occupied(f_slot) = {}
      <4>1. f_slot' = n /\ f_yielded' = f_yielded
        BY <2>2, <3>3 DEF Fixed!IteratorNext
      <4>2. {i \in used : i >= at} = {} /\ used \subseteq 0 .. n - 1
        BY <1>4, <3>1, <3>3
      <4>3. \A i \in used : i < at /\ i < n
        BY <1>3, <3>1, <4>2
      <4>4. {i \in used : i < at} = used /\ {i \in used : i < n} = used
        BY <4>3
      <4>5. f_slot' \in 0 .. n
        BY <1>3, <4>1
      <4> HIDE DEF used, n
      <4> QED
        BY <3>2, <4>1, <4>4, <4>5
    <3>4. CASE Fixed!Occupied(f_slot) # {}
      <4> DEFINE i == Fixed!Min(Fixed!Occupied(f_slot))
      <4>1. i \in Fixed!Occupied(f_slot) /\ \A x \in Fixed!Occupied(f_slot) : i <= x
        <5>1. Fixed!Occupied(f_slot) \subseteq Nat
          BY <1>4
        <5> QED
          BY <3>4, <5>1, FixedSame
      <4>2. PICK m \in used : m = i /\ m >= at /\ m \in 0 .. n - 1 /\ \A x \in used : x >= at => m <= x
        BY <1>4, <3>1, <4>1
      <4>3. f_slot' = m + 1 /\ f_yielded' = f_yielded \cup {<<f_keys[m].data, f_values[m].data>>}
        BY <2>2, <3>4, <4>2 DEF Fixed!IteratorNext
      <4>4. {x \in used : x < m + 1} = {x \in used : x < at} \cup {m}
        BY <1>4, <3>1, <4>2
      <4>5. m + 1 \in 0 .. n
        BY <1>3, <4>2
      <4> HIDE DEF i
      <4>6. f_yielded' = Pairs(f_keys, f_values, {x \in used : x < m + 1})
        BY <3>2, <4>3, <4>4 DEF Pairs
      <4> QED
        BY <4>3, <4>5, <4>6
    <3> QED
      BY <3>3, <3>4
  <2> QED
    BY <2>1, <2>2
<1>6. FixedInv'
  BY <1>1, <1>5 DEF FixedInv
<1> QED
  BY <1>2, <1>6

LEMMA FixedStep ==
  ASSUME Fixed!Sizes, FixedInv, Fixed!Next
  PROVE  FixedInv' /\ FixedPromised
<1>1. CASE Fixed!IteratorStart \/ Fixed!IteratorNext
  BY <1>1, FixedIterates
<1>2. CASE Fixed!Free
  <2>1. UNCHANGED <<f_hashes, f_keys, f_values, f_items, f_slot, f_fresh, f_yielded>>
    BY <1>2 DEF Fixed!Free, Fixed!arrays, Fixed!iterator
  <2>2. FixedInv' /\ Fixed!Contents' = Fixed!Contents /\ Fixed!Unreachable' = Fixed!Unreachable
    BY <2>1, FixedStays
  <2>3. Fixed!Promise!Free
    BY <1>2, <2>2
    DEF Fixed!Free, Fixed!Call, Fixed!Promise!Free, Fixed!Promise!Returns, Fixed!Promise!Call, Fixed!Promise!state
  <2> QED
    BY <2>2, <2>3 DEF FixedPromised, Fixed!Promise!Next
<1>3. ASSUME NEW key \in FixedAsked.keys, Fixed!Get(key) \/ Fixed!DeletePresent(key) \/ Fixed!DeleteAbsent(key)
      PROVE  FixedInv' /\ FixedPromised
  BY <1>3, FixedAsks, FixedDeletes
<1>4. ASSUME NEW key \in FixedAsked.keys, NEW v \in FixedAsked.values, Fixed!InsertFull(key, v)
      PROVE  FixedInv' /\ FixedPromised
  BY <1>4, FixedAsks
<1>5. ASSUME NEW key \in FixedAsked.keys, NEW v \in FixedAsked.values, NEW l \in FixedAsked.lifetimes[v],
             Fixed!InsertUpdate(key, v, l) \/ \E kl \in FixedAsked.lifetimes[key] : Fixed!InsertNew(key, kl, v, l)
      PROVE  FixedInv' /\ FixedPromised
  BY <1>5, FixedInserts, FixedUpdates
<1> QED
  BY <1>1, <1>2, <1>3, <1>4, <1>5 DEF Fixed!Next

(* The lifetimes tell which strings are copies, as long as no entry has     *)
(* moved without its own.                                                   *)
Told(strings, lifetimes, slots) == \A i \in slots : strings[i].memory = "caller" <=> lifetimes[i] = "LONGER"

FixedLifetimes ==
  /\ f_key_lifetimes \in [0 .. FixedAsked.length - 1 -> {"SHORTER", "LONGER"}]
  /\ f_value_lifetimes \in [0 .. FixedAsked.length - 1 -> {"SHORTER", "LONGER"}]
  /\ f_shifted \in BOOLEAN
  /\ ~f_shifted => /\ Told(f_keys, f_key_lifetimes, InUse(FixedAsked.length, f_hashes))
                   /\ Told(f_values, f_value_lifetimes, InUse(FixedAsked.length, f_hashes))

LEMMA ToldOfOneMore ==
  ASSUME NEW n, NEW slot \in 0 .. n - 1, NEW D, NEW strings \in [0 .. n - 1 -> D], NEW x, NEW l,
         NEW lifetimes \in [0 .. n - 1 -> {"SHORTER", "LONGER"}], x.memory = "caller" <=> l = "LONGER",
         NEW slots \in SUBSET (0 .. n - 1), Told(strings, lifetimes, slots)
  PROVE  Told([strings EXCEPT ![slot] = x], [lifetimes EXCEPT ![slot] = l], slots \cup {slot})
<1> SUFFICES ASSUME NEW i \in slots \cup {slot}
             PROVE  [strings EXCEPT ![slot] = x][i].memory = "caller" <=> [lifetimes EXCEPT ![slot] = l][i] = "LONGER"
  BY DEF Told
<1>1. CASE i = slot
  BY <1>1
<1>2. CASE i # slot
  BY <1>2 DEF Told
<1> QED
  BY <1>1, <1>2

LEMMA ToldOfOneLess ==
  ASSUME NEW n, Fixed!Slots = 0 .. n - 1, NEW h, NEW h1, NEW strings, NEW strings1, NEW lifetimes,
         Told(strings, lifetimes, InUse(n, h)),
         \A i \in InUse(n, h1) : i \in InUse(n, h) /\ strings1[i] = strings[i]
  PROVE  Told(strings1, Fixed!LifetimesOf(lifetimes, h1), InUse(n, h1))
<1>1. \A i \in InUse(n, h1) : Fixed!LifetimesOf(lifetimes, h1)[i] = lifetimes[i]
  BY DEF InUse, Fixed!LifetimesOf, Fixed!EMPTY
<1> QED
  BY <1>1 DEF Told

LEMMA LifetimesStart ==
  ASSUME Fixed!Sizes, Fixed!Init
  PROVE  FixedLifetimes
<1>1. Fixed!Slots = 0 .. FixedAsked.length - 1 /\ InUse(FixedAsked.length, f_hashes) = {}
  BY DEF Fixed!Slots, Fixed!Init, Fixed!Zeroed, Fixed!EMPTY, InUse
<1> QED
  BY <1>1 DEF Fixed!Init, Fixed!Zeroed, FixedLifetimes, Told

LEMMA LifetimesDelete ==
  ASSUME Fixed!Sizes, FixedInv, FixedLifetimes, NEW key \in FixedAsked.keys, Fixed!DeletePresent(key)
  PROVE  FixedLifetimes'
<1> DEFINE n == FixedAsked.length
<1>1. PICK slot, s : slot = Fixed!Slot(key) /\ s = Fixed!Backshifted(slot)
  OBVIOUS
<1>2. /\ f_hashes' = s.hashes /\ f_keys' = s.keys /\ f_values' = s.values
      /\ f_key_lifetimes' = Fixed!LifetimesOf(f_key_lifetimes, s.hashes)
      /\ f_value_lifetimes' = Fixed!LifetimesOf(f_value_lifetimes, s.hashes)
      /\ f_shifted' = (f_shifted \/ Fixed!Cleared(slot) # [hashes |-> s.hashes, keys |-> s.keys, values |-> s.values])
  BY <1>1 DEF Fixed!DeletePresent
<1>3. Fixed!Slots = 0 .. n - 1 /\ IsTable(n, f_hashes, f_keys, f_values)
  BY SlotsCounted DEF FixedInv, FixedTable
<1>4. /\ f_key_lifetimes' \in [0 .. n - 1 -> {"SHORTER", "LONGER"}]
      /\ f_value_lifetimes' \in [0 .. n - 1 -> {"SHORTER", "LONGER"}]
  BY <1>2, <1>3 DEF Fixed!LifetimesOf, FixedLifetimes
<1>5. f_shifted' \in BOOLEAN
  BY <1>2
<1>6. ASSUME ~f_shifted'
      PROVE  Told(f_keys', f_key_lifetimes', InUse(n, f_hashes')) /\ Told(f_values', f_value_lifetimes', InUse(n, f_hashes'))
  <2>1. ~f_shifted /\ Fixed!Cleared(slot) = [hashes |-> s.hashes, keys |-> s.keys, values |-> s.values]
    BY <1>2, <1>6
  <2>2. /\ s.hashes = [f_hashes EXCEPT ![slot] = 0]
        /\ s.keys = [f_keys EXCEPT ![slot] = Fixed!Nothing(FixedAsked.none)]
        /\ s.values = [f_values EXCEPT ![slot] = Fixed!Nothing(NoValue)]
    BY <2>1 DEF Fixed!Cleared, Fixed!EMPTY
  <2>3. Told(f_keys, f_key_lifetimes, InUse(n, f_hashes)) /\ Told(f_values, f_value_lifetimes, InUse(n, f_hashes))
    BY <2>1 DEF FixedLifetimes
  <2>4. \A i \in InUse(n, s.hashes) : i \in InUse(n, f_hashes) /\ s.keys[i] = f_keys[i] /\ s.values[i] = f_values[i]
    <3>1. \A i \in InUse(n, s.hashes) : i \in 0 .. n - 1 /\ i # slot /\ f_hashes[i] # 0
      BY <1>3, <2>2 DEF IsTable, InUse
    <3> QED
      BY <1>3, <2>2, <3>1 DEF IsTable, InUse
  <2>5. Told(f_keys', f_key_lifetimes', InUse(n, f_hashes'))
    BY <1>2, <1>3, <2>3, <2>4, ToldOfOneLess
  <2>6. Told(f_values', f_value_lifetimes', InUse(n, f_hashes'))
    BY <1>2, <1>3, <2>3, <2>4, ToldOfOneLess
  <2> QED
    BY <2>5, <2>6
<1> QED
  BY <1>4, <1>5, <1>6 DEF FixedLifetimes

LEMMA LifetimesInsert ==
  ASSUME Fixed!Sizes, FixedInv, FixedLifetimes, NEW key \in FixedAsked.keys, NEW v \in FixedAsked.values,
         NEW vl \in FixedAsked.lifetimes[v],
         \/ Fixed!InsertUpdate(key, v, vl)
         \/ \E kl \in FixedAsked.lifetimes[key] : Fixed!InsertNew(key, kl, v, vl)
  PROVE  FixedLifetimes'
<1> DEFINE n == FixedAsked.length
           used == InUse(n, f_hashes)
<1>1. PICK slot : slot = Fixed!Slot(key)
  OBVIOUS
<1>2. /\ IsTable(n, f_hashes, f_keys, f_values) /\ used \in SUBSET (0 .. n - 1) /\ slot \in 0 .. n - 1
      /\ Fixed!Found(key) => slot \in used
  BY <1>1, KeyFound DEF FixedInv, FixedTable, IsProbe, InUse
<1>3. vl \in {"SHORTER", "LONGER"}
  BY GivenLifetimes
<1>4. PICK vm \in Fixed!Memories(vl) :
        /\ f_values' = [f_values EXCEPT ![slot] = Fixed!Kept(v, NoValue, vm)]
        /\ f_value_lifetimes' = [f_value_lifetimes EXCEPT ![slot] = vl] /\ f_shifted' = f_shifted
  BY <1>1 DEF Fixed!InsertUpdate, Fixed!InsertNew
<1>5. Fixed!Kept(v, NoValue, vm).memory = "caller" <=> vl = "LONGER"
  <2>1. Fixed!Kept(v, NoValue, vm).memory = vm
    BY DEF Fixed!Kept
  <2>2. vm = "caller" <=> vl = "LONGER"
    BY <1>4, KeptString, Zenon
  <2> QED
    BY <2>1, <2>2
<1>6. ~f_shifted => Told(f_values', f_value_lifetimes', used \cup {slot})
  BY <1>2, <1>4, <1>5, ToldOfOneMore DEF FixedLifetimes, IsTable
<1>7. f_value_lifetimes' \in [0 .. n - 1 -> {"SHORTER", "LONGER"}]
  BY <1>3, <1>4 DEF FixedLifetimes
<1>8. CASE Fixed!InsertUpdate(key, v, vl)
  <2>1. /\ Fixed!Found(key) /\ f_hashes' = f_hashes /\ f_keys' = f_keys /\ f_key_lifetimes' = f_key_lifetimes
    BY <1>8 DEF Fixed!InsertUpdate
  <2>2. used \cup {slot} = used
    BY <1>2, <2>1
  <2> QED
    BY <1>4, <1>6, <1>7, <2>1, <2>2 DEF FixedLifetimes
<1>9. ASSUME NEW kl \in FixedAsked.lifetimes[key], Fixed!InsertNew(key, kl, v, vl) PROVE FixedLifetimes'
  <2>1. PICK km \in Fixed!Memories(kl) :
          /\ f_keys' = [f_keys EXCEPT ![slot] = Fixed!Kept(key, FixedAsked.none, km)]
          /\ f_key_lifetimes' = [f_key_lifetimes EXCEPT ![slot] = kl]
          /\ f_hashes' = [f_hashes EXCEPT ![slot] = Fixed!HashOf(key)]
    BY <1>1, <1>9 DEF Fixed!InsertNew
  <2>2. Fixed!Kept(key, FixedAsked.none, km).memory = "caller" <=> kl = "LONGER"
    <3>1. Fixed!Kept(key, FixedAsked.none, km).memory = km
      BY DEF Fixed!Kept
    <3>2. km = "caller" <=> kl = "LONGER"
      BY <2>1, KeptString, Zenon
    <3> QED
      BY <3>1, <3>2
  <2>3. ~f_shifted => Told(f_keys', f_key_lifetimes', used \cup {slot})
    BY <1>2, <2>1, <2>2, ToldOfOneMore DEF FixedLifetimes, IsTable
  <2>4. f_key_lifetimes' \in [0 .. n - 1 -> {"SHORTER", "LONGER"}]
    <3>1. kl \in {"SHORTER", "LONGER"}
      BY GivenLifetimes
    <3> QED
      BY <2>1, <3>1 DEF FixedLifetimes
  <2>5. InUse(n, f_hashes') \subseteq used \cup {slot}
    <3>1. f_hashes \in [0 .. n - 1 -> Nat \ {1}]
      BY <1>2 DEF IsTable
    <3> QED
      BY <2>1, <3>1 DEF InUse
  <2> QED
    BY <1>4, <1>6, <1>7, <2>3, <2>4, <2>5 DEF FixedLifetimes, Told
<1> QED
  BY <1>8, <1>9

LEMMA LifetimesStep ==
  ASSUME Fixed!Sizes, FixedInv, FixedLifetimes, Fixed!Next
  PROVE  FixedLifetimes'
<1>1. CASE UNCHANGED <<Fixed!arrays, f_shifted>>
  BY <1>1 DEF Fixed!arrays, FixedLifetimes
<1>2. CASE Fixed!IteratorStart \/ Fixed!IteratorNext \/ Fixed!Free
  BY <1>1, <1>2 DEF Fixed!IteratorStart, Fixed!IteratorNext, Fixed!Free
<1>3. ASSUME NEW key \in FixedAsked.keys, Fixed!Get(key) \/ Fixed!DeletePresent(key) \/ Fixed!DeleteAbsent(key)
      PROVE  FixedLifetimes'
  BY <1>1, <1>3, LifetimesDelete DEF Fixed!Get, Fixed!DeleteAbsent
<1>4. ASSUME NEW key \in FixedAsked.keys, NEW v \in FixedAsked.values, Fixed!InsertFull(key, v) PROVE FixedLifetimes'
  BY <1>1, <1>4 DEF Fixed!InsertFull
<1>5. ASSUME NEW key \in FixedAsked.keys, NEW v \in FixedAsked.values, NEW l \in FixedAsked.lifetimes[v],
             Fixed!InsertUpdate(key, v, l) \/ \E kl \in FixedAsked.lifetimes[key] : Fixed!InsertNew(key, kl, v, l)
      PROVE  FixedLifetimes'
  BY <1>5, LifetimesInsert
<1> QED
  BY <1>2, <1>3, <1>4, <1>5 DEF Fixed!Next

LEMMA FixedExact ==
  ASSUME Fixed!Sizes, FixedInv, FixedLifetimes
  PROVE  Fixed!CountsSound /\ Fixed!LifetimesKept /\ Fixed!IterationComplete
<1> DEFINE n == FixedAsked.length
           used == InUse(n, f_hashes)
<1>1. /\ n \in Nat \ {0} /\ Fixed!Slots = 0 .. n - 1
      /\ FixedTable(n, f_hashes, f_keys, f_values) /\ IsContents(n, f_hashes, f_keys, f_values, Fixed!Contents)
  BY SlotsCounted, ContentsNow DEF FixedInv
<1>2. Fixed!Occupied(0) = used /\ \A i \in used : i < n
  BY <1>1 DEF Fixed!Occupied, Fixed!EMPTY, InUse
<1>3. f_items = Fixed!Cardinality(Fixed!Occupied(0))
  BY <1>2, FixedSame DEF FixedInv
<1>4. ASSUME NEW key \in FixedAsked.keys PROVE Fixed!Cardinality({i \in Fixed!Slots : Fixed!Matches(key, i)}) <= 1
  <2> DEFINE found == {i \in Fixed!Slots : Fixed!Matches(key, i)}
  <2>1. \A i \in found : i \in used /\ f_keys[i].data = key
    BY <1>1, Hashes DEF InUse, Fixed!Matches
  <2>2. \A i, j \in found : i = j
    BY <1>1, <2>1 DEF FixedTable
  <2>3. found = {} \/ \E i : found = {i}
    BY <2>2
  <2>4. Cardinality(found) <= 1
    <3>1. Cardinality(found) = 0 \/ Cardinality(found) = 1
      <4> HIDE DEF found
      <4> QED
        BY <2>3, FS_EmptySet, FS_Singleton
    <3> QED
      BY <3>1
  <2> QED
    BY <2>4, FixedSame
<1>5. Fixed!CountsSound
  BY <1>3, <1>4 DEF Fixed!CountsSound
<1>6. ASSUME f_fresh, f_slot = n
      PROVE  {p \in f_yielded : p[1] # FixedAsked.none}
               = {<<k, Fixed!Contents[k]>> : k \in {j \in FixedAsked.keys : Fixed!Contents[j] # FixedAsked.absent}}
  <2>1. f_yielded = Pairs(f_keys, f_values, used)
    <3>1. {i \in used : i < f_slot} = used
      BY <1>2, <1>6
    <3> QED
      BY <1>6, <3>1 DEF FixedInv
  <2>2. ASSUME NEW i \in used, f_keys[i].data # FixedAsked.none
        PROVE  /\ f_keys[i].data \in FixedAsked.keys /\ Fixed!Contents[f_keys[i].data] = f_values[i].data
               /\ f_values[i].data # FixedAsked.absent
    <3>1. f_keys[i].data \in FixedAsked.keys /\ f_values[i].data \in FixedAsked.values \cup {NoValue}
      BY <1>1, <2>2 DEF FixedTable
    <3> QED
      BY <1>1, <3>1 DEF IsContents, Fixed!Sizes
  <2>3. ASSUME NEW k \in FixedAsked.keys, Fixed!Contents[k] # FixedAsked.absent
        PROVE  k # FixedAsked.none /\ \E i \in used : f_keys[i].data = k
    BY <1>1, <2>3 DEF IsContents, Fixed!Sizes
  <2> HIDE DEF used, n
  <2>4. ASSUME NEW p \in f_yielded, p[1] # FixedAsked.none
        PROVE  \E k \in FixedAsked.keys : Fixed!Contents[k] # FixedAsked.absent /\ p = <<k, Fixed!Contents[k]>>
    <3>1. PICK i \in used : p = <<f_keys[i].data, f_values[i].data>>
      BY <2>1 DEF Pairs
    <3>2. f_keys[i].data # FixedAsked.none
      BY <2>4, <3>1
    <3> QED
      BY <2>2, <3>1, <3>2
  <2>5. ASSUME NEW k \in FixedAsked.keys, Fixed!Contents[k] # FixedAsked.absent
        PROVE  <<k, Fixed!Contents[k]>> \in f_yielded /\ k # FixedAsked.none
    <3>1. PICK i \in used : f_keys[i].data = k
      BY <2>3, <2>5
    <3>2. k # FixedAsked.none /\ Fixed!Contents[k] = f_values[i].data
      BY <2>2, <2>3, <2>5, <3>1
    <3> QED
      BY <2>1, <3>1, <3>2 DEF Pairs
  <2> QED
    BY <2>4, <2>5
<1>7. Fixed!IterationComplete
  BY <1>6 DEF Fixed!IterationComplete
<1>8. Fixed!LifetimesKept
  BY <1>2 DEF Fixed!LifetimesKept, FixedLifetimes, Told
<1> QED
  BY <1>5, <1>7, <1>8

-----------------------------------------------------------------------------
(* The string set.  A table of n slots: an entry is in at most one of them, *)
(* and no slot from its home to its slot is empty.                          *)
Occupied(n, t) == {i \in 0 .. n - 1 : t[i] \in Set!Entries}
Graves(n, t) == {i \in 0 .. n - 1 : t[i] = 1}
Home(n, v) == SetAsked.hash[v] % n
InTable(n, t, e) == \E i \in 0 .. n - 1 : t[i] = e
Reached(n, t, v, i) == \A j \in 0 .. n - 1 : Ahead(n, Home(n, v), j) < Ahead(n, Home(n, v), i) => t[j] # 0

Tables(n) == [0 .. n - 1 -> {0, 1} \cup Set!Entries]
Probed(n, t, value) ==
  /\ n \in Nat \ {0} /\ t \in Tables(n)
  /\ \A i \in Occupied(n, t) : value[t[i]] \in SetAsked.values /\ Reached(n, t, value[t[i]], i)
  /\ \A i, j \in Occupied(n, t) : t[i] = t[j] => i = j

Once(list) == \A k, l \in 1 .. Len(list) : list[k] = list[l] => k = l
Listed(list, e) == \E k \in 1 .. Len(list) : list[k] = e

(* Every entry is where its state says it is, and a value is in the set     *)
(* once, however many of its copies were lost.                              *)
Placed(n, t, value, state, list) ==
  /\ Probed(n, t, value)
  /\ value \in [Set!Entries -> SetAsked.values \cup {NoValue}]
  /\ state \in [Set!Entries -> {"unused", "set", "lost", "free"}]
  /\ list \in Seq(Set!Entries) /\ Once(list)
  /\ \A e \in Set!Entries : /\ state[e] \in {"set", "lost"} <=> InTable(n, t, e)
                            /\ state[e] = "free" <=> Listed(list, e)
  /\ \A e, f \in Set!Entries : state[e] = "set" /\ state[f] = "set" /\ value[e] = value[f] => e = f

Counted(n, t, items, tombstones) ==
  items = Cardinality(Occupied(n, t)) /\ tombstones \in Nat /\ tombstones >= Cardinality(Graves(n, t))

Passed(n, t, value, state, to) == {value[t[i]] : i \in {j \in Occupied(n, t) : j < to /\ state[t[j]] = "set"}}

Blank == /\ \A e \in Set!Entries : s_state[e] = "unused"
         /\ s_free = <<>> /\ s_items = 0 /\ s_tombstones = 0

SetOf(n) ==
  /\ Placed(n, s_table, s_value, s_state, s_free)
  /\ Counted(n, s_table, s_items, s_tombstones)
  /\ ~s_valid => Blank /\ s_fresh = FALSE
  /\ s_fresh => s_cursor \in 0 .. n /\ s_yielded = Passed(n, s_table, s_value, s_state, s_cursor)

(* Set up again without a table: nothing but an iterator can be asked of it. *)
Bare == /\ s_valid = TRUE /\ s_table = Set!NoTable /\ Blank
        /\ s_fresh => s_cursor = 0 /\ s_yielded = {}
SetInv == (\E n \in Nat : SetOf(n)) \/ Bare

Members(value, state) == {v \in SetAsked.values : \E e \in Set!Entries : state[e] = "set" /\ value[e] = v}

LEMMA SetSame ==
  /\ \A S : Set!Cardinality(S) = Cardinality(S)
  /\ \A S : S \subseteq Nat /\ S # {} => Set!Min(S) \in S /\ \A x \in S : Set!Min(S) <= x
<1>1. \A S : Set!Cardinality(S) = Cardinality(S)
  BY DEF Set!Cardinality, Cardinality
<1>2. ASSUME NEW S, S \subseteq Nat, S # {} PROVE Set!Min(S) \in S /\ \A x \in S : Set!Min(S) <= x
  <2>1. \E m \in S : \A k \in S : m <= k
    BY <1>2, LeastNumber
  <2> QED
    BY <2>1, Zenon DEF Set!Min
<1> QED
  BY <1>1, <1>2, Zenon

LEMMA EntryNumbers ==
  ASSUME Set!SizesAssumption
  PROVE  Set!Entries \subseteq Nat \ {0, 1} /\ Set!EMPTY = 0 /\ Set!TOMBSTONE = 1
BY DEF Set!SizesAssumption, Set!Entries, Set!EMPTY, Set!TOMBSTONE

LEMMA SlotsFinite ==
  ASSUME NEW n \in Nat
  PROVE  /\ IsFiniteSet(0 .. n - 1) /\ Cardinality(0 .. n - 1) = n
         /\ \A S : S \subseteq 0 .. n - 1 => IsFiniteSet(S) /\ Cardinality(S) \in 0 .. n
<1>1. IsFiniteSet(0 .. n - 1) /\ Cardinality(0 .. n - 1) = n
  <2>1. 0 \in Int /\ n - 1 \in Int
    OBVIOUS
  <2>2. IsFiniteSet(0 .. n - 1) /\ Cardinality(0 .. n - 1) = IF 0 > n - 1 THEN 0 ELSE (n - 1) - 0 + 1
    BY <2>1, FS_Interval
  <2> QED
    BY <2>2
<1>2. ASSUME NEW S, S \subseteq 0 .. n - 1 PROVE IsFiniteSet(S) /\ Cardinality(S) \in 0 .. n
  <2>1. IsFiniteSet(S) /\ Cardinality(S) <= Cardinality(0 .. n - 1)
    BY <1>1, <1>2, FS_Subset
  <2>2. Cardinality(S) \in Nat
    BY <2>1, FS_CardinalityType
  <2> QED
    BY <1>1, <2>1, <2>2
<1> QED
  BY <1>1, <1>2

(* The probe goes over all slots, from the home of the value.               *)
LEMMA ProbeSlots ==
  ASSUME Set!ValuesAssumption, NEW n \in Nat \ {0}, NEW t \in Tables(n), NEW v \in SetAsked.values
  PROVE  /\ DOMAIN t = 0 .. n - 1 /\ Set!Cardinality(DOMAIN t) = n /\ Home(n, v) \in 0 .. n - 1
         /\ \A k \in 0 .. n - 1 : Set!At(t, v, k) = Along(n, Home(n, v), k)
<1>1. DOMAIN t = 0 .. n - 1
  BY DEF Tables
<1>2. Set!Cardinality(DOMAIN t) = n
  BY <1>1, SetSame, SlotsFinite
<1>3. PICK x \in Nat : x = SetAsked.hash[v]
  BY DEF Set!ValuesAssumption
<1>4. PICK home \in 0 .. n - 1 : home = x % n
  BY HomeIn
<1>5. \A k \in 0 .. n - 1 : (x + k) % n = Along(n, home, k)
  <2>1. \A k \in 0 .. n - 1 : k \in 0 .. n
    OBVIOUS
  <2> QED
    BY <1>4, <2>1, AlongTable
<1> QED
  BY <1>1, <1>2, <1>3, <1>4, <1>5 DEF Home, Set!At

(* What a probe of a table returns.                                         *)
IsAnswer(n, t, value, state, v, p) ==
  /\ p.found \in BOOLEAN /\ p.passed \in Nat
  /\ p.found => /\ p.index \in 0 .. n - 1 /\ t[p.index] \in Set!Entries
                /\ state[t[p.index]] = "set" /\ value[t[p.index]] = v
  /\ ~p.found => \A i \in Occupied(n, t) : ~(state[t[i]] = "set" /\ value[t[i]] = v)
  /\ ~p.found /\ p.index # -1 => p.index \in 0 .. n - 1 /\ t[p.index] \in {0, 1} /\ Reached(n, t, v, p.index)
  /\ ~p.found /\ p.index = -1 => Occupied(n, t) = 0 .. n - 1

LEMMA SetProbe ==
  ASSUME Set!SizesAssumption, Set!ValuesAssumption, NEW n, NEW t, Probed(n, t, s_value),
         NEW v \in SetAsked.values
  PROVE  IsAnswer(n, t, s_value, s_state, v, Set!Probe(t, v))
<1>1. n \in Nat \ {0} /\ t \in Tables(n)
  BY DEF Probed
<1>2. PICK home \in 0 .. n - 1 : home = Home(n, v)
  BY <1>1, ProbeSlots
<1>3. /\ DOMAIN t = 0 .. n - 1 /\ Set!Cardinality(DOMAIN t) = n
      /\ \A k \in 0 .. n - 1 : Set!At(t, v, k) = Along(n, home, k)
  BY <1>1, <1>2, ProbeSlots
<1>4. \A k \in 0 .. n - 1 : Set!At(t, v, k) \in 0 .. n - 1 /\ Ahead(n, home, Set!At(t, v, k)) = k
  <2>1. \A k \in 0 .. n - 1 : Along(n, home, k) \in 0 .. n - 1 /\ Ahead(n, home, Along(n, home, k)) = k
    BY <1>1, Around
  <2> QED
    BY <1>3, <2>1
<1>5. \A j \in 0 .. n - 1 : Ahead(n, home, j) \in 0 .. n - 1 /\ Set!At(t, v, Ahead(n, home, j)) = j
  <2>1. \A j \in 0 .. n - 1 : Ahead(n, home, j) \in 0 .. n - 1 /\ Along(n, home, Ahead(n, home, j)) = j
    BY <1>1, Around
  <2> QED
    BY <1>3, <2>1
<1> DEFINE M(i) == t[i] \in Set!Entries /\ s_state[t[i]] = "set" /\ s_value[t[i]] = v
           stops == {k \in DOMAIN t : t[Set!At(t, v, k)] = Set!EMPTY \/ Set!Matches(t, v, Set!At(t, v, k))}
<1>6. \A k \in 0 .. n - 1 : k \in stops <=> t[Set!At(t, v, k)] = 0 \/ M(Set!At(t, v, k))
  BY <1>3, EntryNumbers DEF Set!Matches
<1>7. stops \subseteq 0 .. n - 1
  BY <1>3
<1>8. PICK stop \in 0 .. n : stop = Set!Min(stops \cup {n}) /\ (stop \in stops \/ stop = n) /\ \A k \in stops : stop <= k
  <2> HIDE DEF stops
  <2>1. stops \cup {n} \subseteq Nat /\ stops \cup {n} # {}
    <3>1. n \in Nat /\ 0 .. n - 1 \subseteq Nat
      BY <1>1
    <3> QED
      BY <1>7, <3>1, Zenon
  <2>2. Set!Min(stops \cup {n}) \in stops \cup {n} /\ \A k \in stops \cup {n} : Set!Min(stops \cup {n}) <= k
    BY <2>1, SetSame
  <2>3. PICK m : m = Set!Min(stops \cup {n})
    OBVIOUS
  <2>4. m \in stops \cup {n} /\ \A k \in stops : m <= k
    BY <2>2, <2>3
  <2>5. m \in 0 .. n /\ (m \in stops \/ m = n)
    BY <1>1, <1>7, <2>4
  <2> QED
    BY <2>3, <2>4, <2>5
<1>9. stop = Set!Min(stops \cup {Set!Cardinality(DOMAIN t)})
  BY <1>3, <1>8
<1> DEFINE found == stop \in stops /\ Set!Matches(t, v, Set!At(t, v, stop))
           passed == {k \in 0 .. stop - 1 : t[Set!At(t, v, k)] = Set!TOMBSTONE}
           free == passed \cup (stops \cap {stop})
           index == IF found THEN Set!At(t, v, stop) ELSE IF free = {} THEN -1 ELSE Set!At(t, v, Set!Min(free))
<1>10. Set!Probe(t, v) = [found |-> found, index |-> index, passed |-> Set!Cardinality(passed)]
  BY <1>9, Zenon DEF Set!Probe
<1>11. Set!Cardinality(passed) \in Nat
  <2>1. stop \in Nat /\ passed \subseteq 0 .. stop - 1
    OBVIOUS
  <2> HIDE DEF passed
  <2>2. Cardinality(passed) \in 0 .. stop
    BY <2>1, SlotsFinite
  <2> QED
    BY <2>2, SetSame
<1>12. ASSUME found PROVE index \in 0 .. n - 1 /\ M(index)
  <2>1. stop \in 0 .. n - 1 /\ index = Set!At(t, v, stop)
    BY <1>7, <1>12
  <2>2. Set!Matches(t, v, index)
    BY <1>12, <2>1
  <2> QED
    BY <1>4, <2>1, <2>2 DEF Set!Matches
<1>13. ASSUME ~found, NEW i \in Occupied(n, t), M(i) PROVE FALSE
  <2>1. i \in 0 .. n - 1 /\ Ahead(n, home, i) \in 0 .. n - 1 /\ Set!At(t, v, Ahead(n, home, i)) = i
    BY <1>5, <1>13 DEF Occupied
  <2>2. Ahead(n, home, i) \in stops
    BY <1>6, <1>13, <2>1
  <2>3. stop <= Ahead(n, home, i) /\ stop \in stops /\ stop \in 0 .. n - 1
    <3> HIDE DEF stops
    <3>1. stop <= Ahead(n, home, i)
      BY <1>8, <2>2
    <3>2. stop # n
      BY <1>1, <2>1, <3>1
    <3>3. stop \in stops
      BY <1>8, <3>2
    <3> QED
      BY <1>7, <3>1, <3>3
  <2>4. ~Set!Matches(t, v, Set!At(t, v, stop)) /\ t[Set!At(t, v, stop)] = 0
    BY <1>13, <2>3, EntryNumbers
  <2>5. stop # Ahead(n, home, i)
    BY <1>13, <2>1, <2>4 DEF Set!Matches
  <2>6. PICK slot \in 0 .. n - 1 : slot = Set!At(t, v, stop) /\ Ahead(n, home, slot) = stop
    BY <1>4, <2>3
  <2>7. Ahead(n, home, slot) < Ahead(n, home, i)
    BY <2>1, <2>3, <2>5, <2>6
  <2>8. Reached(n, t, v, i)
    BY <1>13 DEF Probed
  <2> QED
    BY <1>2, <2>4, <2>6, <2>7, <2>8 DEF Reached
<1>14. \A j \in 0 .. n - 1 : Ahead(n, home, j) < stop => t[j] # 0
  <2> SUFFICES ASSUME NEW j \in 0 .. n - 1, Ahead(n, home, j) < stop, t[j] = 0 PROVE FALSE
    OBVIOUS
  <2>1. Ahead(n, home, j) \in stops
    BY <1>5, <1>6
  <2>2. stop <= Ahead(n, home, j) /\ Ahead(n, home, j) \in 0 .. n - 1
    BY <1>5, <1>8, <2>1
  <2> QED
    BY <2>2
<1>15. ASSUME ~found, free # {} PROVE index \in 0 .. n - 1 /\ t[index] \in {0, 1} /\ Reached(n, t, v, index)
  <2>1. free \subseteq 0 .. n - 1
    <3>1. \A k \in 0 .. stop - 1 : k \in 0 .. n - 1
      BY <1>1, <1>8
    <3>2. passed \subseteq 0 .. n - 1
      BY <3>1
    <3> HIDE DEF passed, stops
    <3> QED
      BY <1>7, <3>2
  <2>2. PICK k \in 0 .. n - 1 : k = Set!Min(free) /\ k \in free
    <3>1. free \subseteq Nat
      BY <2>1
    <3>2. Set!Min(free) \in free
      <4> HIDE DEF free
      <4> QED
        BY <1>15, <3>1, SetSame
    <3> QED
      BY <2>1, <3>2
  <2>3. index = Set!At(t, v, k)
    BY <1>15, <2>2
  <2>4. PICK slot \in 0 .. n - 1 : slot = index /\ Ahead(n, home, slot) = k /\ slot = Set!At(t, v, k)
    BY <1>4, <2>3
  <2>5. k <= stop /\ (t[slot] = 1 \/ (k \in stops /\ k = stop))
    <3>1. k \in passed \/ k \in stops \cap {stop}
      BY <2>2
    <3>2. ASSUME k \in passed PROVE k <= stop /\ t[slot] = 1
      BY <2>4, <3>2, EntryNumbers
    <3> HIDE DEF stops, passed
    <3>3. ASSUME k \in stops \cap {stop} PROVE k <= stop /\ k \in stops /\ k = stop
      BY <1>8, <3>3
    <3> QED
      BY <3>1, <3>2, <3>3
  <2>6. t[slot] \in {0, 1}
    <3>1. ASSUME k \in stops, k = stop PROVE t[slot] = 0
      <4>1. ~Set!Matches(t, v, Set!At(t, v, stop))
        BY <1>15, <3>1
      <4>2. t[Set!At(t, v, k)] = Set!EMPTY \/ Set!Matches(t, v, Set!At(t, v, k))
        BY <3>1
      <4> QED
        BY <2>4, <3>1, <4>1, <4>2, EntryNumbers
    <3> QED
      BY <2>5, <3>1
  <2>7. \A j \in 0 .. n - 1 : Ahead(n, home, j) < Ahead(n, home, slot) => t[j] # 0
    BY <1>5, <1>14, <2>4, <2>5
  <2> HIDE DEF index
  <2> QED
    BY <1>2, <2>4, <2>6, <2>7 DEF Reached
<1>16. ASSUME ~found, free = {} PROVE Occupied(n, t) = 0 .. n - 1
  <2>1. stop \notin stops
    BY <1>16
  <2>2. stop = n /\ passed = {}
    BY <1>8, <1>16, <2>1
  <2>3. ASSUME NEW j \in 0 .. n - 1 PROVE t[j] \in Set!Entries
    <3>1. Ahead(n, home, j) \in 0 .. n - 1 /\ Set!At(t, v, Ahead(n, home, j)) = j
      BY <1>5
    <3>2. t[j] # 0
      BY <1>1, <1>14, <2>2, <3>1
    <3>3. t[j] # 1
      BY <2>2, <3>1, EntryNumbers
    <3> QED
      BY <1>1, <3>2, <3>3 DEF Tables
  <2> QED
    BY <2>3 DEF Occupied
<1>17. index = -1 => ~found /\ free = {}
  <2>1. \A i \in 0 .. n - 1 : i # -1
    BY <1>1
  <2>2. CASE found
    BY <1>12, <2>1, <2>2
  <2>3. CASE ~found /\ free # {}
    BY <1>15, <2>1, <2>3
  <2> QED
    BY <2>2, <2>3
<1>18. ~found /\ free = {} => index = -1
  OBVIOUS
<1>19. found \in BOOLEAN
  OBVIOUS
<1> HIDE DEF found, free, index, passed, stops
<1>20. PICK p : p = Set!Probe(t, v)
  OBVIOUS
<1>21. p.found = found /\ p.index = index /\ p.passed \in Nat
  BY <1>10, <1>11, <1>20
<1>22. IsAnswer(n, t, s_value, s_state, v, p)
  <2>1. CASE found
    <3>1. p.found = TRUE
      BY <1>19, <1>21, <2>1
    <3> QED
      BY <1>12, <1>21, <2>1, <3>1 DEF IsAnswer
  <2>2. CASE ~found
    <3>1. p.found = FALSE
      BY <1>19, <1>21, <2>2
    <3>2. p.index # -1 => p.index \in 0 .. n - 1 /\ t[p.index] \in {0, 1} /\ Reached(n, t, v, p.index)
      BY <1>15, <1>18, <1>21, <2>2
    <3>3. p.index = -1 => Occupied(n, t) = 0 .. n - 1
      BY <1>16, <1>17, <1>21
    <3>4. \A i \in Occupied(n, t) : ~(s_state[t[i]] = "set" /\ s_value[t[i]] = v)
      BY <1>13, <2>2 DEF Occupied
    <3> QED
      BY <1>21, <3>1, <3>2, <3>3, <3>4 DEF IsAnswer
  <2> QED
    BY <2>1, <2>2
<1> QED
  BY <1>20, <1>22

(* An entry is put into a slot that holds none.                             *)
PutIn(n, t, value, e, v, slot, t1, value1) ==
  /\ Probed(n, t, value) /\ e \in Set!Entries /\ ~InTable(n, t, e) /\ v \in SetAsked.values
  /\ slot \in 0 .. n - 1 /\ t[slot] \in {0, 1} /\ Reached(n, t, v, slot)
  /\ t1 = [t EXCEPT ![slot] = e]
  /\ value1[e] = v /\ \A f \in Set!Entries \ {e} : value1[f] = value[f]

LEMMA PutSound ==
  ASSUME Set!SizesAssumption, NEW n, NEW t, NEW value, NEW e, NEW v, NEW slot, NEW t1, NEW value1,
         PutIn(n, t, value, e, v, slot, t1, value1)
  PROVE  /\ Probed(n, t1, value1) /\ Occupied(n, t1) = Occupied(n, t) \cup {slot} /\ slot \notin Occupied(n, t)
         /\ Graves(n, t1) = Graves(n, t) \ {slot}
         /\ \A f \in Set!Entries : InTable(n, t1, f) <=> InTable(n, t, f) \/ f = e
<1>1. /\ n \in Nat \ {0} /\ t \in [0 .. n - 1 -> {0, 1} \cup Set!Entries] /\ slot \in 0 .. n - 1
      /\ e \in Set!Entries /\ t[slot] \in {0, 1} /\ v \in SetAsked.values
  BY DEF PutIn, Probed, Tables
<1>2. Set!Entries \subseteq Nat \ {0, 1}
  BY EntryNumbers
<1>3. /\ t1 \in [0 .. n - 1 -> {0, 1} \cup Set!Entries] /\ t1[slot] = e
      /\ \A i \in (0 .. n - 1) \ {slot} : t1[i] = t[i]
  BY <1>1 DEF PutIn
<1>4. Occupied(n, t1) = Occupied(n, t) \cup {slot} /\ slot \notin Occupied(n, t)
  BY <1>1, <1>2, <1>3 DEF Occupied
<1>5. Graves(n, t1) = Graves(n, t) \ {slot}
  BY <1>1, <1>2, <1>3 DEF Graves
<1>6. \A f \in Set!Entries : InTable(n, t1, f) <=> InTable(n, t, f) \/ f = e
  BY <1>1, <1>2, <1>3 DEF InTable
<1>7. \A i \in Occupied(n, t) : i # slot /\ t1[i] = t[i] /\ t[i] \in Set!Entries /\ t[i] # e /\ i \in 0 .. n - 1
  BY <1>1, <1>3, <1>4 DEF Occupied, InTable, PutIn
<1>8. \A j \in 0 .. n - 1 : t[j] # 0 => t1[j] # 0
  BY <1>1, <1>2, <1>3
<1>9. ASSUME NEW i \in Occupied(n, t1) PROVE value1[t1[i]] \in SetAsked.values /\ Reached(n, t1, value1[t1[i]], i)
  <2>1. CASE i = slot
    <3>1. value1[t1[i]] = v /\ Reached(n, t, v, i)
      BY <1>3, <2>1 DEF PutIn
    <3> QED
      BY <1>1, <1>8, <3>1 DEF Reached
  <2>2. CASE i # slot
    <3>1. i \in Occupied(n, t) /\ value1[t1[i]] = value[t[i]]
      BY <1>4, <1>7, <1>9, <2>2 DEF PutIn
    <3>2. value[t[i]] \in SetAsked.values /\ Reached(n, t, value[t[i]], i)
      BY <3>1 DEF PutIn, Probed
    <3> QED
      BY <1>8, <3>1, <3>2 DEF Reached
  <2> QED
    BY <2>1, <2>2
<1>10. ASSUME NEW i \in Occupied(n, t1), NEW j \in Occupied(n, t1), t1[i] = t1[j] PROVE i = j
  <2>1. CASE i \in Occupied(n, t) /\ j \in Occupied(n, t)
    BY <1>7, <1>10, <2>1 DEF PutIn, Probed
  <2>2. CASE i = slot \/ j = slot
    BY <1>3, <1>4, <1>7, <1>10, <2>2
  <2> QED
    BY <1>4, <2>1, <2>2
<1>11. Probed(n, t1, value1)
  BY <1>1, <1>3, <1>9, <1>10 DEF Probed, Tables
<1> QED
  BY <1>4, <1>5, <1>6, <1>11

(* As many slots taken as entries in a table.                               *)
LEMMA SameEntries ==
  ASSUME NEW n, NEW t, NEW m, NEW u, IsFiniteSet(Occupied(n, t)),
         \A i, j \in Occupied(n, t) : t[i] = t[j] => i = j,
         \A i, j \in Occupied(m, u) : u[i] = u[j] => i = j,
         \A e \in Set!Entries : InTable(n, t, e) <=> InTable(m, u, e)
  PROVE  Cardinality(Occupied(n, t)) = Cardinality(Occupied(m, u))
<1> DEFINE S == Occupied(n, t)
           T == Occupied(m, u)
           f == [i \in S |-> CHOOSE j \in T : u[j] = t[i]]
<1>1. ASSUME NEW i \in S PROVE \E j \in T : u[j] = t[i]
  BY <1>1 DEF Occupied, InTable
<1>2. ASSUME NEW j \in T PROVE \E i \in S : u[j] = t[i]
  BY <1>2 DEF Occupied, InTable
<1>3. \A i \in S : f[i] \in T /\ u[f[i]] = t[i]
  BY <1>1
<1>4. \A i, j \in S : f[i] = f[j] => i = j
  BY <1>3
<1>5. \A j \in T : \E i \in S : f[i] = j
  BY <1>2, <1>3
<1>6. f \in Bijection(S, T)
  <2>1. f = [i \in S |-> f[i]]
    OBVIOUS
  <2> HIDE DEF S, T, f
  <2> QED
    BY <1>3, <1>4, <1>5, <2>1 DEF Bijection, Injection, Surjection, IsInjective
<1>7. ExistsBijection(S, T)
  BY <1>6 DEF ExistsBijection
<1> QED
  BY <1>7, FS_Bijection

(* Where an entry of the old table goes.                                    *)
Migrate(t, e) ==
  IF e \in Set!Entries
  THEN [t EXCEPT ![Set!At(t, s_value[e], Set!Min({k \in DOMAIN t : t[Set!At(t, s_value[e], k)] = Set!EMPTY}))] = e]
  ELSE t

LEMMA FirstFree ==
  ASSUME Set!SizesAssumption, Set!ValuesAssumption, NEW n \in Nat \ {0}, NEW t \in Tables(n),
         NEW v \in SetAsked.values, \E i \in 0 .. n - 1 : t[i] = 0
  PROVE  \E slot \in 0 .. n - 1 :
           /\ slot = Set!At(t, v, Set!Min({k \in DOMAIN t : t[Set!At(t, v, k)] = Set!EMPTY}))
           /\ t[slot] = 0 /\ Reached(n, t, v, slot)
<1>1. n \in Nat \ {0}
  OBVIOUS
<1>2. PICK home \in 0 .. n - 1 : home = Home(n, v)
  BY ProbeSlots
<1>12. home \in 0 .. n - 1
  OBVIOUS
<1>3. DOMAIN t = 0 .. n - 1 /\ \A k \in 0 .. n - 1 : Set!At(t, v, k) = Along(n, home, k)
  BY <1>2, ProbeSlots
<1>4. \A k \in 0 .. n - 1 : Set!At(t, v, k) \in 0 .. n - 1 /\ Ahead(n, home, Set!At(t, v, k)) = k
  <2>1. \A k \in 0 .. n - 1 : Along(n, home, k) \in 0 .. n - 1 /\ Ahead(n, home, Along(n, home, k)) = k
    BY ONLY <1>1, <1>12, Around
  <2> QED
    BY <1>3, <2>1
<1>5. \A j \in 0 .. n - 1 : Ahead(n, home, j) \in 0 .. n - 1 /\ Set!At(t, v, Ahead(n, home, j)) = j
  <2>1. \A j \in 0 .. n - 1 : Ahead(n, home, j) \in 0 .. n - 1 /\ Along(n, home, Ahead(n, home, j)) = j
    BY ONLY <1>1, <1>12, Around
  <2> QED
    BY <1>3, <2>1
<1> DEFINE free == {k \in DOMAIN t : t[Set!At(t, v, k)] = Set!EMPTY}
<1>6. \A k \in 0 .. n - 1 : k \in free <=> t[Set!At(t, v, k)] = 0
  BY <1>3, EntryNumbers
<1>7. PICK m \in 0 .. n - 1 : m = Set!Min(free) /\ m \in free /\ \A k \in free : m <= k
  <2>1. PICK i \in 0 .. n - 1 : t[i] = 0
    OBVIOUS
  <2>2. Ahead(n, home, i) \in free
    BY <1>5, <1>6, <2>1
  <2>3. free \subseteq 0 .. n - 1
    BY <1>3
  <2> HIDE DEF free
  <2>4. free \subseteq Nat /\ free # {}
    BY <2>2, <2>3
  <2>5. Set!Min(free) \in free /\ \A k \in free : Set!Min(free) <= k
    BY <2>4, SetSame
  <2> QED
    BY <2>3, <2>5
<1>8. PICK slot \in 0 .. n - 1 : slot = Set!At(t, v, m) /\ Ahead(n, home, slot) = m
  BY <1>4
<1>9. t[slot] = 0
  BY <1>6, <1>7, <1>8
<1>10. ASSUME NEW j \in 0 .. n - 1, Ahead(n, home, j) < m PROVE t[j] # 0
  <2> HIDE DEF free
  <2>1. Ahead(n, home, j) \notin free
    BY <1>5, <1>7, <1>10
  <2> QED
    BY <1>5, <1>6, <2>1
<1>11. Reached(n, t, v, slot)
  BY <1>2, <1>8, <1>10 DEF Reached
<1> QED
  BY <1>7, <1>8, <1>9, <1>11

(* A table of which i slots of the old one have been copied.                *)
Migrated(n, m, i, t) ==
  /\ Probed(m, t, s_value) /\ Graves(m, t) = {}
  /\ \A e \in Set!Entries : InTable(m, t, e) <=> InTable(i, s_table, e)

LEMMA MigrateStep ==
  ASSUME Set!SizesAssumption, Set!ValuesAssumption, NEW n, NEW m, m = 2 * n, Probed(n, s_table, s_value),
         NEW i \in 0 .. n - 1, NEW t, Migrated(n, m, i, t)
  PROVE  Migrated(n, m, i + 1, Migrate(t, s_table[i]))
<1>1. n \in Nat \ {0} /\ m \in Nat \ {0} /\ s_table \in [0 .. n - 1 -> {0, 1} \cup Set!Entries] /\ i < n /\ i \in Nat /\ n < m
  BY DEF Probed, Tables
<1>2. PICK e : e = s_table[i]
  OBVIOUS
<1>3. \A f \in Set!Entries : InTable(i + 1, s_table, f) <=> InTable(i, s_table, f) \/ f = e
  <2>1. \A j \in 0 .. (i + 1) - 1 : j \in 0 .. i - 1 \/ j = i
    BY <1>1
  <2>2. 0 .. i - 1 \subseteq 0 .. (i + 1) - 1 /\ i \in 0 .. (i + 1) - 1
    BY <1>1
  <2> QED
    BY <1>2, <2>1, <2>2 DEF InTable
<1>4. CASE e \notin Set!Entries
  <2>1. Migrate(t, e) = t
    BY <1>4 DEF Migrate
  <2> QED
    BY <1>2, <1>3, <1>4, <2>1 DEF Migrated
<1>5. CASE e \in Set!Entries
  <2>1. i \in Occupied(n, s_table) /\ s_value[e] \in SetAsked.values
    BY <1>1, <1>2, <1>5 DEF Occupied, Probed
  <2>2. PICK v \in SetAsked.values : v = s_value[e]
    BY <2>1
  <2>3. ~InTable(i, s_table, e)
    <3> SUFFICES ASSUME NEW j \in 0 .. i - 1, s_table[j] = e PROVE FALSE
      BY DEF InTable
    <3>1. j \in 0 .. n - 1 /\ j # i
      BY <1>1
    <3>2. j \in Occupied(n, s_table)
      BY <1>5, <3>1 DEF Occupied
    <3> QED
      BY <1>2, <2>1, <3>1, <3>2 DEF Probed
  <2>4. ~InTable(m, t, e) /\ t \in Tables(m) /\ Probed(m, t, s_value)
    BY <1>5, <2>3 DEF Migrated, Probed
  <2>5. \E j \in 0 .. m - 1 : t[j] = 0
    <3> SUFFICES ASSUME \A j \in 0 .. m - 1 : t[j] # 0 PROVE FALSE
      OBVIOUS
    <3>1. Occupied(m, t) = 0 .. m - 1
      BY <2>4 DEF Migrated, Graves, Tables, Occupied
    <3>2. IsFiniteSet(Occupied(m, t)) /\ Cardinality(Occupied(m, t)) = m
      BY <1>1, <3>1, SlotsFinite
    <3>3. Cardinality(Occupied(m, t)) = Cardinality(Occupied(i, s_table))
      <4>1. \A j, k \in Occupied(m, t) : t[j] = t[k] => j = k
        BY <2>4 DEF Probed
      <4>2. Occupied(i, s_table) \subseteq Occupied(n, s_table)
        BY <1>1 DEF Occupied
      <4>3. \A j, k \in Occupied(i, s_table) : s_table[j] = s_table[k] => j = k
        BY <4>2 DEF Probed
      <4>4. \A f \in Set!Entries : InTable(m, t, f) <=> InTable(i, s_table, f)
        BY DEF Migrated
      <4> QED
        BY <3>2, <4>1, <4>3, <4>4, SameEntries
    <3>4. Cardinality(Occupied(i, s_table)) \in 0 .. i
      <4>1. Occupied(i, s_table) \subseteq 0 .. i - 1
        BY DEF Occupied
      <4> QED
        BY <1>1, <4>1, SlotsFinite
    <3> QED
      BY <1>1, <3>2, <3>3, <3>4
  <2>6. PICK slot \in 0 .. m - 1 :
          /\ slot = Set!At(t, v, Set!Min({k \in DOMAIN t : t[Set!At(t, v, k)] = Set!EMPTY}))
          /\ t[slot] = 0 /\ Reached(m, t, v, slot)
    BY <1>1, <2>4, <2>5, FirstFree
  <2>7. PICK t1 : t1 = [t EXCEPT ![slot] = e]
    OBVIOUS
  <2>8. Migrate(t, e) = t1
    BY <1>5, <2>2, <2>6, <2>7, Zenon DEF Migrate
  <2>9. PutIn(m, t, s_value, e, v, slot, t1, s_value)
    BY <1>5, <2>2, <2>4, <2>6, <2>7 DEF PutIn
  <2>10. /\ Probed(m, t1, s_value) /\ Graves(m, t1) = Graves(m, t) \ {slot}
         /\ \A f \in Set!Entries : InTable(m, t1, f) <=> InTable(m, t, f) \/ f = e
    BY <2>9, PutSound
  <2>11. Migrated(n, m, i + 1, t1)
    BY <1>3, <2>10 DEF Migrated
  <2> QED
    BY <1>2, <2>8, <2>11
<1> QED
  BY <1>4, <1>5

(* A rehash loses no entry, buries none and leaves half of the table empty. *)
LEMMA Rehash ==
  ASSUME Set!SizesAssumption, Set!ValuesAssumption, NEW n, NEW m, m = 2 * n, Probed(n, s_table, s_value)
  PROVE  Migrated(n, m, n, Set!Rehashed)
<1> DEFINE first == Set!EmptyTable(2 * Set!Length)
           Walks(f) == f = [i \in 0 .. Set!Length |-> IF i = 0 THEN first ELSE Migrate(f[i - 1], s_table[i - 1])]
           a == CHOOSE f : Walks(f)
           S == Tables(m)
           G == [p \in S \X (1 .. n) |-> Migrate(p[1], s_table[p[2] - 1])]
<1>1. n \in Nat \ {0} /\ m \in Nat \ {0} /\ s_table \in [0 .. n - 1 -> {0, 1} \cup Set!Entries]
  BY DEF Probed, Tables
<1>2. Set!Length = n
  <2>1. DOMAIN s_table = 0 .. n - 1
    BY <1>1
  <2> QED
    BY <1>1, <2>1, SetSame, SlotsFinite DEF Set!Length
<1>3. first = [i \in 0 .. m - 1 |-> 0] /\ first \in S
  BY <1>1, <1>2, EntryNumbers DEF Set!EmptyTable, Tables
<1>4. Set!Rehashed = a[Set!Length]
  BY Zenon DEF Set!Rehashed, Migrate, first
<1>5. ASSUME NEW t \in S, NEW e PROVE Migrate(t, e) \in S
  <2>1. CASE e \notin Set!Entries
    BY <1>5, <2>1 DEF Migrate
  <2>2. CASE e \in Set!Entries
    <3>1. PICK slot : slot = Set!At(t, s_value[e], Set!Min({k \in DOMAIN t : t[Set!At(t, s_value[e], k)] = Set!EMPTY}))
      OBVIOUS
    <3>2. Migrate(t, e) = [t EXCEPT ![slot] = e]
      BY <2>2, <3>1, Zenon DEF Migrate
    <3>3. [t EXCEPT ![slot] = e] \in [0 .. m - 1 -> {0, 1} \cup Set!Entries]
      BY <1>5, <2>2 DEF Tables
    <3> QED
      BY <3>2, <3>3 DEF Tables
  <2> QED
    BY <2>1, <2>2
<1> HIDE DEF first, S
<1>6. G \in [S \X (1 .. n) -> S]
  <2>1. ASSUME NEW p \in S \X (1 .. n) PROVE Migrate(p[1], s_table[p[2] - 1]) \in S
    <3>1. p[1] \in S
      OBVIOUS
    <3> QED
      BY <1>5, <3>1
  <2> QED
    BY <2>1
<1>7. Walks(a)
  <2>1. PICK g \in [0 .. n -> S] : g[0] = first /\ \A i \in 1 .. n : g[i] = G[<<g[i - 1], i>>]
    <3>1. StepOn(n, S, first, G)
      BY <1>1, <1>3, <1>6 DEF StepOn
    <3> HIDE DEF G
    <3> QED
      BY <3>1, Recursive DEF Computed
  <2>2. \A i \in 1 .. n : g[i] = Migrate(g[i - 1], s_table[i - 1])
    <3> SUFFICES ASSUME NEW i \in 1 .. n PROVE g[i] = Migrate(g[i - 1], s_table[i - 1])
      OBVIOUS
    <3>1. <<g[i - 1], i>> \in S \X (1 .. n)
      BY <1>1
    <3> QED
      BY <2>1, <3>1
  <2>3. Walks(g)
    BY <1>1, <1>2, <2>1, <2>2
  <2> QED
    BY <2>3, Zenon
<1>8. a[0] = first /\ \A i \in 1 .. n : a[i] = Migrate(a[i - 1], s_table[i - 1])
  <2> HIDE DEF a
  <2> QED
    BY <1>1, <1>2, <1>7
<1> HIDE DEF a
<1> DEFINE T == {i \in 0 .. n : Migrated(n, m, i, a[i])}
<1>9. 0 \in T
  <2>1. Occupied(m, first) = {} /\ Graves(m, first) = {}
    BY <1>3, EntryNumbers DEF Occupied, Graves
  <2>2. \A e \in Set!Entries : ~InTable(m, first, e) /\ ~InTable(0, s_table, e)
    BY <1>3, EntryNumbers DEF InTable
  <2>3. Migrated(n, m, 0, first)
    BY <1>1, <1>3, <2>1, <2>2 DEF Migrated, Probed, S
  <2> QED
    BY <1>1, <1>8, <2>3
<1>10. ASSUME NEW i \in 0 .. n - 1, i \in T PROVE i + 1 \in T
  <2>1. i + 1 \in 1 .. n /\ i + 1 \in 0 .. n /\ (i + 1) - 1 = i
    BY <1>1
  <2>2. a[i + 1] = Migrate(a[i], s_table[i])
    BY <1>8, <2>1
  <2>3. Migrated(n, m, i + 1, Migrate(a[i], s_table[i]))
    BY <1>10, MigrateStep
  <2> QED
    BY <2>1, <2>2, <2>3
<1>11. n \in T
  <2> HIDE DEF T
  <2>1. 0 .. n \subseteq T
    BY <1>1, <1>9, <1>10, UpTo
  <2> QED
    BY <1>1, <2>1
<1> QED
  BY <1>2, <1>4, <1>11

LEMMA Joined ==
  ASSUME NEW S, NEW s \in Seq(S), NEW l \in Seq(S), Once(s), Once(l),
         \A e \in S : ~(Listed(s, e) /\ Listed(l, e))
  PROVE  /\ s \o l \in Seq(S) /\ Once(s \o l)
         /\ \A e \in S : Listed(s \o l, e) <=> Listed(s, e) \/ Listed(l, e)
<1>1. PICK m \in Nat, n \in Nat : m = Len(s) /\ n = Len(l)
  OBVIOUS
<1>2. PICK j : j = s \o l
  OBVIOUS
<1>3. /\ j \in Seq(S) /\ Len(j) = m + n
      /\ \A k \in 1 .. m : j[k] = s[k] /\ s[k] \in S
      /\ \A k \in 1 .. n : j[m + k] = l[k] /\ l[k] \in S
  BY <1>1, <1>2
<1>4. ASSUME NEW k \in 1 .. m + n PROVE k \in 1 .. m \/ \E i \in 1 .. n : k = m + i
  <2>1. CASE k <= m
    BY <2>1
  <2>2. CASE k > m
    <3>1. k - m \in 1 .. n /\ k = m + (k - m)
      BY <1>1, <2>2
    <3> QED
      BY <3>1
  <2> QED
    BY <2>1, <2>2
<1>5. \A i \in 1 .. n : m + i \in 1 .. m + n
  BY <1>1
<1>6. \A e \in S : Listed(j, e) <=> Listed(s, e) \/ Listed(l, e)
  <2>1. ASSUME NEW e \in S, Listed(j, e) PROVE Listed(s, e) \/ Listed(l, e)
    BY <1>1, <1>3, <1>4, <2>1 DEF Listed
  <2>2. ASSUME NEW e \in S, Listed(s, e) PROVE Listed(j, e)
    BY <1>1, <1>3, <2>2 DEF Listed
  <2>3. ASSUME NEW e \in S, Listed(l, e) PROVE Listed(j, e)
    BY <1>1, <1>3, <1>5, <2>3 DEF Listed
  <2> QED
    BY <2>1, <2>2, <2>3
<1>7. ASSUME NEW a \in 1 .. m, NEW b \in 1 .. n PROVE j[a] # j[m + b]
  BY <1>1, <1>3 DEF Listed
<1>8. ASSUME NEW a \in 1 .. m + n, NEW b \in 1 .. m + n, j[a] = j[b] PROVE a = b
  <2>1. CASE a \in 1 .. m /\ b \in 1 .. m
    BY <1>1, <1>3, <1>8, <2>1 DEF Once
  <2>2. CASE \E c, d \in 1 .. n : a = m + c /\ b = m + d
    BY <1>1, <1>3, <1>8, <2>2 DEF Once
  <2>3. CASE a \in 1 .. m /\ \E d \in 1 .. n : b = m + d
    BY <1>7, <1>8, <2>3
  <2>4. CASE b \in 1 .. m /\ \E c \in 1 .. n : a = m + c
    BY <1>7, <1>8, <2>4
  <2> QED
    BY <1>4, <2>1, <2>2, <2>3, <2>4
<1>9. Once(j)
  BY <1>3, <1>8 DEF Once
<1> QED
  BY <1>2, <1>3, <1>6, <1>9

LEMMA Prepended ==
  ASSUME NEW S, NEW l \in Seq(S), NEW e \in S, Once(l), ~Listed(l, e)
  PROVE  /\ <<e>> \o l \in Seq(S) /\ Once(<<e>> \o l)
         /\ \A f \in S : Listed(<<e>> \o l, f) <=> f = e \/ Listed(l, f)
<1>1. <<e>> \in Seq(S) /\ Once(<<e>>) /\ \A f \in S : Listed(<<e>>, f) <=> f = e
  BY DEF Once, Listed
<1>2. PICK s \in Seq(S) : s = <<e>>
  BY <1>1
<1>3. Once(s) /\ \A f \in S : Listed(s, f) <=> f = e
  BY <1>1, <1>2
<1>4. \A f \in S : ~(Listed(s, f) /\ Listed(l, f))
  BY <1>3
<1>5. /\ s \o l \in Seq(S) /\ Once(s \o l)
      /\ \A f \in S : Listed(s \o l, f) <=> Listed(s, f) \/ Listed(l, f)
  BY <1>3, <1>4, Joined
<1> QED
  BY <1>2, <1>3, <1>5

LEMMA Popped ==
  ASSUME NEW S, NEW l \in Seq(S), Once(l), l # <<>>
  PROVE  /\ Tail(l) \in Seq(S) /\ Once(Tail(l)) /\ l[1] \in S /\ Listed(l, l[1])
         /\ \A f \in S : Listed(Tail(l), f) <=> f # l[1] /\ Listed(l, f)
<1>1. PICK n \in Nat : n = Len(l) /\ n > 0
  OBVIOUS
<1>2. PICK r : r = Tail(l)
  OBVIOUS
<1>3. r \in Seq(S) /\ Len(r) = n - 1 /\ \A k \in 1 .. n - 1 : r[k] = l[k + 1]
  BY <1>1, <1>2
<1>4. l[1] \in S /\ Listed(l, l[1])
  BY <1>1 DEF Listed
<1>5. Once(r)
  <2> SUFFICES ASSUME NEW a \in 1 .. n - 1, NEW b \in 1 .. n - 1, r[a] = r[b] PROVE a = b
    BY <1>3 DEF Once
  <2>1. a + 1 \in 1 .. n /\ b + 1 \in 1 .. n
    BY <1>1
  <2>2. a + 1 = b + 1
    BY <1>1, <1>3, <2>1 DEF Once
  <2> QED
    BY <2>2
<1>6. ASSUME NEW f \in S, Listed(r, f) PROVE f # l[1] /\ Listed(l, f)
  <2>1. PICK a \in 1 .. n - 1 : r[a] = f
    BY <1>3, <1>6 DEF Listed
  <2>2. a + 1 \in 1 .. n /\ l[a + 1] = f /\ 1 \in 1 .. n /\ a + 1 # 1
    BY <1>1, <1>3, <2>1
  <2> QED
    BY <1>1, <2>2 DEF Listed, Once
<1>7. ASSUME NEW f \in S, f # l[1], Listed(l, f) PROVE Listed(r, f)
  <2>1. PICK a \in 1 .. n : l[a] = f
    BY <1>1, <1>7 DEF Listed
  <2>2. a # 1
    BY <1>7, <2>1
  <2>3. a - 1 \in 1 .. n - 1 /\ (a - 1) + 1 = a
    BY <1>1, <2>2
  <2>4. r[a - 1] = f
    BY <1>3, <2>1, <2>3
  <2> QED
    BY <1>3, <2>3, <2>4 DEF Listed
<1> QED
  BY <1>2, <1>3, <1>4, <1>5, <1>6, <1>7

(* The entries of a table, collected one slot after the other.              *)
Collect(s, e) == IF e \in Set!Entries THEN <<e>> \o s ELSE s
GivenOut(i, s) ==
  /\ s \in Seq(Set!Entries) /\ Once(s)
  /\ \A e \in Set!Entries : Listed(s, e) <=> InTable(i, s_table, e)

LEMMA EntriesCollected ==
  ASSUME Set!SizesAssumption, NEW n, Probed(n, s_table, s_value)
  PROVE  GivenOut(n, Set!TableEntries) /\ Set!Range(Set!TableEntries) = {e \in Set!Entries : InTable(n, s_table, e)}
<1> DEFINE Walks(f) == f = [i \in 0 .. Set!Length |-> IF i = 0 THEN <<>> ELSE Collect(f[i - 1], s_table[i - 1])]
           a == CHOOSE f : Walks(f)
           S == Seq(Set!Entries)
           G == [p \in S \X (1 .. n) |-> Collect(p[1], s_table[p[2] - 1])]
<1>1. n \in Nat \ {0} /\ s_table \in [0 .. n - 1 -> {0, 1} \cup Set!Entries]
  BY DEF Probed, Tables
<1>2. Set!Length = n
  <2>1. DOMAIN s_table = 0 .. n - 1
    BY <1>1
  <2> QED
    BY <1>1, <2>1, SetSame, SlotsFinite DEF Set!Length
<1>3. <<>> \in S
  OBVIOUS
<1>4. Set!TableEntries = a[Set!Length]
  BY Zenon DEF Set!TableEntries, Collect
<1>5. ASSUME NEW s \in S, NEW e PROVE Collect(s, e) \in S
  <2>1. CASE e \in Set!Entries
    <3>1. <<e>> \in Seq(Set!Entries)
      BY <2>1
    <3>2. <<e>> \o s \in Seq(Set!Entries)
      BY <3>1, <1>5
    <3> QED
      BY <2>1, <3>2 DEF Collect
  <2>2. CASE e \notin Set!Entries
    BY <1>5, <2>2 DEF Collect
  <2> QED
    BY <2>1, <2>2
<1> HIDE DEF S
<1>6. G \in [S \X (1 .. n) -> S]
  <2>1. ASSUME NEW p \in S \X (1 .. n) PROVE Collect(p[1], s_table[p[2] - 1]) \in S
    <3>1. p[1] \in S
      OBVIOUS
    <3> QED
      BY <1>5, <3>1
  <2> QED
    BY <2>1
<1>7. Walks(a)
  <2>1. PICK g \in [0 .. n -> S] : g[0] = <<>> /\ \A i \in 1 .. n : g[i] = G[<<g[i - 1], i>>]
    <3>1. StepOn(n, S, <<>>, G)
      BY <1>1, <1>3, <1>6 DEF StepOn
    <3> HIDE DEF G
    <3> QED
      BY <3>1, Recursive DEF Computed
  <2>2. \A i \in 1 .. n : g[i] = Collect(g[i - 1], s_table[i - 1])
    <3> SUFFICES ASSUME NEW i \in 1 .. n PROVE g[i] = Collect(g[i - 1], s_table[i - 1])
      OBVIOUS
    <3>1. <<g[i - 1], i>> \in S \X (1 .. n)
      BY <1>1
    <3> QED
      BY <2>1, <3>1
  <2>3. Walks(g)
    BY <1>1, <1>2, <2>1, <2>2
  <2> QED
    BY <2>3, Zenon
<1>8. a[0] = <<>> /\ \A i \in 1 .. n : a[i] = Collect(a[i - 1], s_table[i - 1])
  <2> HIDE DEF a
  <2> QED
    BY <1>1, <1>2, <1>7
<1> HIDE DEF a
<1> DEFINE T == {i \in 0 .. n : GivenOut(i, a[i])}
<1>9. 0 \in T
  <2>1. GivenOut(0, <<>>)
    BY DEF GivenOut, Once, Listed, InTable
  <2> QED
    BY <1>1, <1>8, <2>1
<1>10. ASSUME NEW i \in 0 .. n - 1, i \in T PROVE i + 1 \in T
  <2>1. i + 1 \in 1 .. n /\ i + 1 \in 0 .. n /\ (i + 1) - 1 = i
    BY <1>1
  <2>2. PICK e : e = s_table[i]
    OBVIOUS
  <2>3. a[i + 1] = Collect(a[i], e)
    BY <1>8, <2>1, <2>2
  <2>4. \A f \in Set!Entries : InTable(i + 1, s_table, f) <=> InTable(i, s_table, f) \/ f = e
    <3>1. \A j \in 0 .. (i + 1) - 1 : j \in 0 .. i - 1 \/ j = i
      BY <1>1
    <3>2. 0 .. i - 1 \subseteq 0 .. (i + 1) - 1 /\ i \in 0 .. (i + 1) - 1
      BY <1>1
    <3> QED
      BY <2>2, <3>1, <3>2 DEF InTable
  <2>5. a[i] \in Seq(Set!Entries) /\ Once(a[i]) /\ \A f \in Set!Entries : Listed(a[i], f) <=> InTable(i, s_table, f)
    BY <1>10 DEF GivenOut
  <2>6. CASE e \in Set!Entries
    <3>1. ~InTable(i, s_table, e)
      <4> SUFFICES ASSUME NEW j \in 0 .. i - 1, s_table[j] = e PROVE FALSE
        BY DEF InTable
      <4>1. j \in 0 .. n - 1 /\ j # i
        BY <1>1
      <4>2. j \in Occupied(n, s_table) /\ i \in Occupied(n, s_table)
        BY <2>2, <2>6, <4>1 DEF Occupied
      <4> QED
        BY <2>2, <4>1, <4>2 DEF Probed
    <3>2. /\ <<e>> \o a[i] \in Seq(Set!Entries) /\ Once(<<e>> \o a[i])
          /\ \A f \in Set!Entries : Listed(<<e>> \o a[i], f) <=> f = e \/ Listed(a[i], f)
      BY <2>5, <2>6, <3>1, Prepended
    <3>3. a[i + 1] = <<e>> \o a[i]
      BY <2>3, <2>6 DEF Collect
    <3>4. GivenOut(i + 1, a[i + 1])
      BY <2>4, <2>5, <3>2, <3>3 DEF GivenOut
    <3> QED
      BY <2>1, <3>4
  <2>7. CASE e \notin Set!Entries
    <3>1. a[i + 1] = a[i]
      BY <2>3, <2>7 DEF Collect
    <3>2. GivenOut(i + 1, a[i + 1])
      BY <2>4, <2>5, <2>7, <3>1 DEF GivenOut
    <3> QED
      BY <2>1, <3>2
  <2> QED
    BY <2>6, <2>7
<1>11. n \in T
  <2> HIDE DEF T
  <2>1. 0 .. n \subseteq T
    BY <1>1, <1>9, <1>10, UpTo
  <2> QED
    BY <1>1, <2>1
<1>12. PICK s : s = Set!TableEntries
  OBVIOUS
<1>13. GivenOut(n, s)
  BY <1>2, <1>4, <1>11, <1>12
<1>14. Set!Range(s) = {e \in Set!Entries : InTable(n, s_table, e)}
  <2>1. s \in Seq(Set!Entries) /\ \A e \in Set!Entries : Listed(s, e) <=> InTable(n, s_table, e)
    BY <1>13 DEF GivenOut
  <2>2. Set!Range(s) = {s[k] : k \in 1 .. Len(s)}
    BY <2>1 DEF Set!Range
  <2>3. \A k \in 1 .. Len(s) : s[k] \in Set!Entries
    BY <2>1
  <2> QED
    BY <2>1, <2>2, <2>3 DEF Listed
<1> QED
  BY <1>12, <1>13, <1>14

SetPromised == Set!Promise!Next \/ UNCHANGED <<Set!Contents, s_last>>

(* What a set contains, read off its table and off its entries.             *)
TableMembers(t, value, state) ==
  {v \in SetAsked.values : \E i \in DOMAIN t : t[i] \in Set!Entries /\ state[t[i]] = "set" /\ value[t[i]] = v}

LEMMA SetContentsRead ==
  /\ Set!Contents = TableMembers(s_table, s_value, s_state)
  /\ Set!Contents' = TableMembers(s_table', s_value', s_state')
<1>1. Set!Contents = TableMembers(s_table, s_value, s_state)
  BY Zenon DEF Set!Contents, TableMembers, Set!Matches
<1>2. Set!Contents' = TableMembers(s_table', s_value', s_state')
  BY Zenon DEF Set!Contents, TableMembers, Set!Matches
<1> QED
  BY <1>1, <1>2

LEMMA MembersRead ==
  ASSUME NEW n, NEW t, NEW value, NEW state, NEW list, Placed(n, t, value, state, list)
  PROVE  TableMembers(t, value, state) = Members(value, state)
<1>1. t \in [0 .. n - 1 -> {0, 1} \cup Set!Entries]
  BY DEF Placed, Probed, Tables
<1>2. \A e \in Set!Entries : state[e] = "set" => \E i \in DOMAIN t : t[i] = e
  BY <1>1 DEF Placed, InTable
<1> QED
  BY <1>2 DEF TableMembers, Members

LEMMA SetContentsNow ==
  ASSUME NEW n, SetOf(n)
  PROVE  Set!Contents = Members(s_value, s_state)
BY SetContentsRead, MembersRead DEF SetOf

(* A probe answers for the set.                                             *)
LEMMA SetAnswers ==
  ASSUME Set!SizesAssumption, Set!ValuesAssumption, NEW n, NEW t, Placed(n, t, s_value, s_state, s_free),
         NEW v \in SetAsked.values
  PROVE  /\ IsAnswer(n, t, s_value, s_state, v, Set!Probe(t, v))
         /\ Set!Probe(t, v).found = (v \in Members(s_value, s_state))
<1>1. PICK p : p = Set!Probe(t, v)
  OBVIOUS
<1>2. IsAnswer(n, t, s_value, s_state, v, p)
  BY <1>1, SetProbe DEF Placed
<1>3. ASSUME p.found PROVE v \in Members(s_value, s_state)
  BY <1>2, <1>3 DEF IsAnswer, Members
<1>4. ASSUME v \in Members(s_value, s_state) PROVE p.found
  <2>1. PICK e \in Set!Entries : s_state[e] = "set" /\ s_value[e] = v
    BY <1>4 DEF Members
  <2>2. PICK i \in 0 .. n - 1 : t[i] = e
    BY <2>1 DEF Placed, InTable
  <2>3. i \in Occupied(n, t)
    BY <2>2 DEF Occupied
  <2> QED
    BY <1>2, <2>1, <2>2, <2>3 DEF IsAnswer
<1>5. p.found \in BOOLEAN
  BY <1>2 DEF IsAnswer
<1> QED
  BY <1>1, <1>2, <1>3, <1>4, <1>5

(* The state after a call that invalidated the iterator, or left it.        *)
LEMMA SetNext ==
  ASSUME NEW n \in Nat, Placed(n, s_table', s_value', s_state', s_free'),
         Counted(n, s_table', s_items', s_tombstones'),
         s_fresh' => s_cursor' \in 0 .. n /\ s_yielded' = Passed(n, s_table', s_value', s_state', s_cursor'),
         ~s_valid' => Blank' /\ s_fresh' = FALSE
  PROVE  SetInv' /\ Set!Contents' = Members(s_value', s_state')
<1>1. SetOf(n)'
  BY DEF SetOf
<1>2. Set!Contents' = Members(s_value', s_state')
  BY SetContentsRead, MembersRead
<1> QED
  BY <1>1, <1>2 DEF SetInv

LEMMA UsableSet ==
  ASSUME SetInv, Set!Usable
  PROVE  s_valid /\ \E n \in Nat : SetOf(n)
BY DEF SetInv, Bare, Set!Usable

LEMMA SetTypes ==
  ASSUME NEW n, SetOf(n)
  PROVE  /\ n \in Nat \ {0} /\ s_table \in Tables(n) /\ DOMAIN s_table = 0 .. n - 1 /\ Set!Length = n
         /\ IsFiniteSet(Occupied(n, s_table)) /\ IsFiniteSet(Graves(n, s_table))
         /\ s_items \in Nat /\ s_tombstones \in Nat
         /\ Probed(n, s_table, s_value) /\ Placed(n, s_table, s_value, s_state, s_free)
         /\ Counted(n, s_table, s_items, s_tombstones)
<1>1. /\ Placed(n, s_table, s_value, s_state, s_free) /\ Probed(n, s_table, s_value) /\ n \in Nat \ {0}
      /\ s_table \in Tables(n) /\ Counted(n, s_table, s_items, s_tombstones)
  BY DEF SetOf, Placed, Probed
<1>2. DOMAIN s_table = 0 .. n - 1
  BY <1>1 DEF Tables
<1>3. Set!Length = n
  BY <1>1, <1>2, SetSame, SlotsFinite DEF Set!Length
<1>4. /\ IsFiniteSet(Occupied(n, s_table)) /\ IsFiniteSet(Graves(n, s_table)) /\ Cardinality(Occupied(n, s_table)) \in Nat
  <2>1. Occupied(n, s_table) \subseteq 0 .. n - 1 /\ Graves(n, s_table) \subseteq 0 .. n - 1
    BY DEF Occupied, Graves
  <2>2. /\ IsFiniteSet(Occupied(n, s_table)) /\ Cardinality(Occupied(n, s_table)) \in 0 .. n
        /\ IsFiniteSet(Graves(n, s_table))
    BY <1>1, <2>1, SlotsFinite
  <2> QED
    BY <1>1, <2>2
<1> QED
  BY <1>1, <1>2, <1>3, <1>4 DEF Counted

(* An insertion works on a table that has a slot without an entry.          *)
LEMMA ForInsert ==
  ASSUME Set!SizesAssumption, Set!ValuesAssumption, NEW n, SetOf(n)
  PROVE  \E m \in Nat \ {0} :
           /\ Placed(m, Set!TableForInsert, s_value, s_state, s_free)
           /\ Counted(m, Set!TableForInsert, s_items, Set!TombstonesForInsert)
           /\ Occupied(m, Set!TableForInsert) # 0 .. m - 1
<1>1. /\ n \in Nat \ {0} /\ Set!Length = n /\ s_items \in Nat /\ s_tombstones \in Nat
      /\ Probed(n, s_table, s_value) /\ Placed(n, s_table, s_value, s_state, s_free)
      /\ Counted(n, s_table, s_items, s_tombstones) /\ IsFiniteSet(Occupied(n, s_table))
  BY SetTypes
<1>2. s_items = Cardinality(Occupied(n, s_table)) /\ s_items \in 0 .. n
  <2>1. Occupied(n, s_table) \subseteq 0 .. n - 1
    BY DEF Occupied
  <2>2. Cardinality(Occupied(n, s_table)) \in 0 .. n
    BY <1>1, <2>1, SlotsFinite
  <2> QED
    BY <1>1, <2>2 DEF Counted
<1>3. CASE ~Set!NeedsRehash
  <2>1. Set!TableForInsert = s_table /\ Set!TombstonesForInsert = s_tombstones
    BY <1>3 DEF Set!TableForInsert, Set!TombstonesForInsert
  <2>2. PICK load \in 1 .. 99 : load = SetAsked.load
    BY DEF Set!SizesAssumption
  <2>3. PICK items \in Nat, tombs \in Nat : items = s_items /\ tombs = s_tombstones
    BY <1>1
  <2>4. ~((items + tombs) * 100 >= load * n)
    BY <1>1, <1>3, <2>2, <2>3 DEF Set!NeedsRehash
  <2>5. load * n <= 99 * n
    BY <1>1, <2>2
  <2>6. items < n
    <3>1. PICK x \in Nat : x = load * n
      BY <1>1, <2>2
    <3> QED
      BY <1>1, <2>4, <2>5, <3>1
  <2>7. Occupied(n, s_table) # 0 .. n - 1
    BY <1>1, <1>2, <2>3, <2>6, SlotsFinite
  <2> QED
    BY <1>1, <2>1, <2>7
<1>4. CASE Set!NeedsRehash
  <2>1. Set!TableForInsert = Set!Rehashed /\ Set!TombstonesForInsert = 0
    BY <1>4 DEF Set!TableForInsert, Set!TombstonesForInsert
  <2>2. PICK m \in Nat \ {0} : m = 2 * n /\ n < m
    BY <1>1
  <2>3. PICK t : t = Set!Rehashed
    OBVIOUS
  <2>4. Migrated(n, m, n, t)
    BY <1>1, <2>2, <2>3, Rehash
  <2>5. Probed(m, t, s_value) /\ Graves(m, t) = {} /\ \A e \in Set!Entries : InTable(m, t, e) <=> InTable(n, s_table, e)
    BY <2>4 DEF Migrated
  <2>6. Placed(m, t, s_value, s_state, s_free)
    BY <1>1, <2>5 DEF Placed
  <2>7. Cardinality(Occupied(m, t)) = Cardinality(Occupied(n, s_table))
    <3>1. \A i, j \in Occupied(n, s_table) : s_table[i] = s_table[j] => i = j
      BY <1>1 DEF Probed
    <3>2. \A i, j \in Occupied(m, t) : t[i] = t[j] => i = j
      BY <2>5 DEF Probed
    <3>3. \A e \in Set!Entries : InTable(n, s_table, e) <=> InTable(m, t, e)
      BY <2>5
    <3>4. Cardinality(Occupied(n, s_table)) = Cardinality(Occupied(m, t))
      BY <1>1, <3>1, <3>2, <3>3, SameEntries
    <3> QED
      BY <3>4
  <2>8. Counted(m, t, s_items, 0)
    BY <1>2, <2>5, <2>7, FS_EmptySet DEF Counted
  <2>9. Occupied(m, t) # 0 .. m - 1
    BY <1>1, <1>2, <2>2, <2>7, SlotsFinite
  <2> QED
    BY <2>1, <2>2, <2>3, <2>6, <2>8, <2>9
<1> QED
  BY <1>3, <1>4

-----------------------------------------------------------------------------
LEMMA SetStarts ==
  ASSUME Set!SizesAssumption, Set!Init
  PROVE  SetInv /\ Set!Promise!Init
<1>1. PICK n \in Nat \ {0} : n = SetAsked.initial
  BY DEF Set!SizesAssumption
<1>2. /\ s_table = [i \in 0 .. n - 1 |-> 0] /\ s_value = [e \in Set!Entries |-> NoValue]
      /\ s_state = [e \in Set!Entries |-> "unused"] /\ s_free = <<>> /\ s_items = 0 /\ s_tombstones = 0
      /\ s_valid = TRUE /\ s_fresh = FALSE
  BY <1>1, EntryNumbers DEF Set!Init, Set!EmptyTable
<1>3. Occupied(n, s_table) = {} /\ Graves(n, s_table) = {}
  BY <1>2, EntryNumbers DEF Occupied, Graves
<1>4. Probed(n, s_table, s_value)
  BY <1>2, <1>3 DEF Probed, Tables
<1>5. \A e \in Set!Entries : ~InTable(n, s_table, e) /\ ~Listed(s_free, e)
  BY <1>2, EntryNumbers DEF InTable, Listed
<1>6. Placed(n, s_table, s_value, s_state, s_free)
  <2>1. s_free \in Seq(Set!Entries) /\ Once(s_free)
    BY <1>2 DEF Once
  <2> QED
    BY <1>2, <1>4, <1>5, <2>1 DEF Placed
<1>7. Counted(n, s_table, s_items, s_tombstones)
  <2>1. Cardinality(Occupied(n, s_table)) = 0 /\ Cardinality(Graves(n, s_table)) = 0
    BY <1>3, FS_EmptySet
  <2> QED
    BY <1>2, <2>1 DEF Counted
<1>8. SetOf(n)
  BY <1>2, <1>6, <1>7 DEF SetOf
<1>9. Set!Contents = {}
  <2>1. Members(s_value, s_state) = {}
    BY <1>2 DEF Members
  <2> QED
    BY <1>8, <2>1, SetContentsNow
<1>10. s_last = [op |-> "init", value |-> NoValue, answer |-> TRUE, lost |-> FALSE]
  BY DEF Set!Init
<1> QED
  BY <1>8, <1>9, <1>10 DEF SetInv, Set!Promise!Init, Set!Promise!Call

(* Calls that leave the entries: has, an insertion without memory, of what  *)
(* is there already, a deletion of what is not.                             *)
LEMMA SetKept ==
  ASSUME NEW m \in Nat, NEW n, SetOf(n), s_valid, Placed(m, s_table', s_value, s_state, s_free),
         Counted(m, s_table', s_items, s_tombstones'),
         UNCHANGED <<s_valid, s_value, s_state, s_free, s_items>>,
         s_fresh' = FALSE \/ (m = n /\ UNCHANGED <<s_table, s_cursor, s_fresh, s_yielded>>)
  PROVE  SetInv' /\ Set!Contents' = Set!Contents
<1>1. Set!Contents = Members(s_value, s_state)
  BY SetContentsNow
<1>2. s_fresh' => s_cursor' \in 0 .. m /\ s_yielded' = Passed(m, s_table', s_value', s_state', s_cursor')
  BY DEF SetOf
<1>3. SetInv' /\ Set!Contents' = Members(s_value', s_state')
  BY <1>2, SetNext
<1> QED
  BY <1>1, <1>3

LEMMA SetAsks ==
  ASSUME Set!SizesAssumption, Set!ValuesAssumption, SetInv, NEW v \in SetAsked.values,
         Set!Has(v) \/ Set!DeleteAbsent(v) \/ Set!RehashFails(v)
  PROVE  SetInv' /\ SetPromised
<1>1. PICK n \in Nat : SetOf(n) /\ s_valid
  BY UsableSet DEF Set!Has, Set!DeleteAbsent, Set!RehashFails
<1>2. Placed(n, s_table, s_value, s_state, s_free) /\ Counted(n, s_table, s_items, s_tombstones)
  BY <1>1, SetTypes
<1>3. PICK p : p = Set!Probe(s_table, v)
  OBVIOUS
<1>4. IsAnswer(n, s_table, s_value, s_state, v, p) /\ p.found = (v \in Set!Contents)
  BY <1>1, <1>2, <1>3, SetAnswers, SetContentsNow
<1>5. UNCHANGED <<s_valid, s_table, s_value, s_state, s_free, s_items, s_cursor, s_fresh, s_yielded>>
  BY DEF Set!Has, Set!DeleteAbsent, Set!RehashFails, Set!entries, Set!iterator
<1>6. s_tombstones' = s_tombstones + p.passed \/ s_tombstones' = s_tombstones
  BY <1>3 DEF Set!Has, Set!DeleteAbsent, Set!RehashFails
<1>7. Counted(n, s_table, s_items, s_tombstones')
  <2>1. Cardinality(Graves(n, s_table)) \in Nat
    BY <1>1, SetTypes, FS_CardinalityType
  <2>2. PICK passed \in Nat : passed = p.passed
    BY <1>4 DEF IsAnswer
  <2> QED
    BY <1>2, <1>6, <2>1, <2>2 DEF Counted
<1>8. SetInv' /\ Set!Contents' = Set!Contents
  BY <1>1, <1>2, <1>5, <1>7, SetKept
<1> USE DEF SetPromised, Set!Promise!Next, Set!Promise!Returns, Set!Promise!Call, Set!Call
<1>9. CASE Set!Has(v)
  <2>1. s_last' = [op |-> "has", value |-> v, answer |-> v \in Set!Contents, lost |-> FALSE]
    BY <1>3, <1>4, <1>9, Zenon DEF Set!Has
  <2>2. Set!Promise!Has(v)
    BY <1>8, <2>1 DEF Set!Promise!Has
  <2> QED
    BY <1>8, <2>2
<1>10. CASE Set!DeleteAbsent(v)
  <2>1. v \notin Set!Contents /\ s_last' = [op |-> "delete", value |-> v, answer |-> FALSE, lost |-> FALSE]
    BY <1>3, <1>4, <1>10 DEF Set!DeleteAbsent
  <2>2. Set!Contents \ {v} = Set!Contents /\ (v \in Set!Contents) = FALSE
    BY <2>1
  <2>3. Set!Promise!Delete(v)
    BY <1>8, <2>1, <2>2 DEF Set!Promise!Delete
  <2> QED
    BY <1>8, <2>3
<1>11. CASE Set!RehashFails(v)
  <2>1. Set!Promise!InsertOutOfMemory(v)
    BY <1>8, <1>11 DEF Set!RehashFails, Set!Promise!InsertOutOfMemory
  <2> QED
    BY <1>8, <2>1
<1> QED
  BY <1>9, <1>10, <1>11

LEMMA SetInsertsNothing ==
  ASSUME Set!SizesAssumption, Set!ValuesAssumption, SetInv, NEW v \in SetAsked.values,
         Set!InsertExisting(v) \/ Set!InsertFails(v)
  PROVE  SetInv' /\ SetPromised
<1>1. PICK n \in Nat : SetOf(n) /\ s_valid
  BY UsableSet DEF Set!InsertExisting, Set!InsertFails
<1>2. PICK t, tombs : t = Set!TableForInsert /\ tombs = Set!TombstonesForInsert
  OBVIOUS
<1>3. PICK m \in Nat \ {0} : /\ Placed(m, t, s_value, s_state, s_free) /\ Counted(m, t, s_items, tombs)
                             /\ Occupied(m, t) # 0 .. m - 1
  BY <1>1, <1>2, ForInsert
<1>4. PICK p : p = Set!Probe(t, v)
  OBVIOUS
<1>5. IsAnswer(m, t, s_value, s_state, v, p) /\ p.found = (v \in Set!Contents)
  BY <1>1, <1>3, <1>4, SetAnswers, SetContentsNow
<1>6. /\ s_table' = t /\ s_tombstones' = tombs + p.passed
      /\ UNCHANGED <<s_valid, s_value, s_state, s_free, s_items>>
      /\ s_fresh' = FALSE \/ (~Set!NeedsRehash /\ UNCHANGED <<s_cursor, s_fresh, s_yielded>>)
  BY <1>2, <1>4 DEF Set!InsertExisting, Set!InsertFails, Set!Mutated, Set!entries, Set!iterator
<1>7. Counted(m, t, s_items, s_tombstones')
  <2>1. Cardinality(Graves(m, t)) \in Nat
    <3>1. Graves(m, t) \subseteq 0 .. m - 1
      BY DEF Graves
    <3> QED
      BY <3>1, SlotsFinite
  <2>2. PICK passed \in Nat : passed = p.passed
    BY <1>5 DEF IsAnswer
  <2> QED
    BY <1>3, <1>6, <2>1, <2>2 DEF Counted
<1>8. s_fresh' = FALSE \/ (m = n /\ UNCHANGED <<s_table, s_cursor, s_fresh, s_yielded>>)
  <2> SUFFICES ASSUME ~Set!NeedsRehash PROVE m = n /\ s_table' = s_table
    BY <1>6
  <2>1. t = s_table
    BY <1>2 DEF Set!TableForInsert
  <2>2. DOMAIN s_table = 0 .. n - 1 /\ n \in Nat \ {0} /\ DOMAIN t = 0 .. m - 1
    <3>1. DOMAIN s_table = 0 .. n - 1 /\ n \in Nat \ {0}
      BY <1>1, SetTypes
    <3>2. DOMAIN t = 0 .. m - 1
      BY <1>3 DEF Placed, Probed, Tables
    <3> QED
      BY <3>1, <3>2
  <2>3. 0 .. n - 1 = 0 .. m - 1
    BY <2>1, <2>2
  <2>4. m = n
    BY <2>2, <2>3, SlotsFinite
  <2> QED
    BY <1>6, <2>1, <2>4
<1>9. SetInv' /\ Set!Contents' = Set!Contents
  BY <1>1, <1>3, <1>6, <1>7, <1>8, SetKept
<1> USE DEF SetPromised, Set!Promise!Next, Set!Promise!Returns, Set!Promise!Call, Set!Call
<1>10. CASE Set!InsertExisting(v)
  <2>1. p.found \/ p.index = -1
    BY <1>2, <1>4, <1>10 DEF Set!InsertExisting
  <2>2. p.found
    BY <1>3, <1>5, <2>1 DEF IsAnswer
  <2>3. Set!Contents \cup {v} = Set!Contents
    BY <1>5, <2>2
  <2>4. Set!Promise!Insert(v)
    BY <1>9, <1>10, <2>3 DEF Set!InsertExisting, Set!Promise!Insert
  <2> QED
    BY <1>9, <2>4
<1>11. CASE Set!InsertFails(v)
  <2>1. Set!Promise!InsertOutOfMemory(v)
    BY <1>9, <1>11 DEF Set!InsertFails, Set!Promise!InsertOutOfMemory
  <2> QED
    BY <1>9, <2>1
<1> QED
  BY <1>10, <1>11

(* The entry an insertion takes is in no table, and leaves the free list.   *)
LEMMA EntryTaken ==
  ASSUME Set!SizesAssumption, NEW m, NEW t, Placed(m, t, s_value, s_state, s_free), Set!Available # {},
         NEW e, e = Set!Min(Set!Available),
         NEW list, list = IF s_free = <<>> THEN <<>> ELSE Tail(s_free)
  PROVE  /\ e \in Set!Entries /\ ~InTable(m, t, e) /\ s_state[e] \in {"unused", "free"}
         /\ list \in Seq(Set!Entries) /\ Once(list)
         /\ \A f \in Set!Entries : Listed(list, f) <=> f # e /\ Listed(s_free, f)
<1>1. s_free \in Seq(Set!Entries) /\ Once(s_free)
  BY DEF Placed
<1>2. Set!Entries \subseteq Nat
  BY EntryNumbers
<1>3. CASE s_free = <<>>
  <2>1. Set!Available = Set!Unused
    BY <1>3 DEF Set!Available
  <2>2. Set!Unused \subseteq Nat /\ Set!Unused # {}
    BY <1>2, <2>1 DEF Set!Unused
  <2>3. e \in Set!Unused
    BY <2>1, <2>2, SetSame
  <2>4. e \in Set!Entries /\ s_state[e] = "unused"
    BY <2>3 DEF Set!Unused
  <2>5. list = <<>> /\ \A f \in Set!Entries : ~Listed(<<>>, f)
    BY <1>3 DEF Listed
  <2>6. ~InTable(m, t, e)
    BY <2>4 DEF Placed
  <2> QED
    BY <1>1, <1>3, <2>4, <2>5, <2>6
<1>4. CASE s_free # <<>>
  <2>1. Set!Available = {s_free[1]} /\ list = Tail(s_free)
    BY <1>4 DEF Set!Available
  <2>2. /\ Tail(s_free) \in Seq(Set!Entries) /\ Once(Tail(s_free)) /\ s_free[1] \in Set!Entries
        /\ Listed(s_free, s_free[1])
        /\ \A f \in Set!Entries : Listed(Tail(s_free), f) <=> f # s_free[1] /\ Listed(s_free, f)
    BY <1>1, <1>4, Popped
  <2>3. {s_free[1]} \subseteq Nat /\ {s_free[1]} # {}
    BY <1>2, <2>2
  <2>4. e = s_free[1]
    <3>1. Set!Min({s_free[1]}) \in {s_free[1]}
      BY <2>3, SetSame
    <3> QED
      BY <2>1, <3>1
  <2>5. s_state[e] = "free" /\ ~InTable(m, t, e)
    <3>1. s_state[e] = "free"
      BY <2>2, <2>4 DEF Placed
    <3> QED
      BY <2>2, <2>4, <3>1 DEF Placed
  <2> QED
    BY <2>1, <2>2, <2>4, <2>5
<1> QED
  BY <1>3, <1>4

(* An entry is set, or its copy lost.                                       *)
IsAdded(n, t, value, state, list, e, v, slot, mark, t1, value1, state1, list1) ==
  /\ PutIn(n, t, value, e, v, slot, t1, value1) /\ state[e] \in {"unused", "free"}
  /\ list1 \in Seq(Set!Entries) /\ Once(list1)
  /\ \A f \in Set!Entries : Listed(list1, f) <=> f # e /\ Listed(list, f)
  /\ value1 = [value EXCEPT ![e] = v] /\ state1 = [state EXCEPT ![e] = mark]

LEMMA EntryAdded ==
  ASSUME Set!SizesAssumption, NEW n, NEW t, NEW value, NEW state, NEW list, Placed(n, t, value, state, list),
         NEW v \in SetAsked.values, v \notin Members(value, state),
         NEW e, NEW slot, NEW t1, NEW value1, NEW state1, NEW list1, NEW mark \in {"set", "lost"},
         IsAdded(n, t, value, state, list, e, v, slot, mark, t1, value1, state1, list1)
  PROVE  /\ Placed(n, t1, value1, state1, list1)
         /\ Members(value1, state1) = IF mark = "set" THEN Members(value, state) \cup {v} ELSE Members(value, state)
<1> USE DEF IsAdded
<1>1. e \in Set!Entries /\ v \in SetAsked.values
  BY DEF PutIn
<1>2. Probed(n, t1, value1) /\ \A f \in Set!Entries : InTable(n, t1, f) <=> InTable(n, t, f) \/ f = e
  BY PutSound
<1>3. /\ value \in [Set!Entries -> SetAsked.values \cup {NoValue}]
      /\ state \in [Set!Entries -> {"unused", "set", "lost", "free"}]
      /\ \A f \in Set!Entries : /\ state[f] \in {"set", "lost"} <=> InTable(n, t, f)
                                /\ state[f] = "free" <=> Listed(list, f)
      /\ \A f, g \in Set!Entries : state[f] = "set" /\ state[g] = "set" /\ value[f] = value[g] => f = g
  BY DEF Placed
<1>4. value1[e] = v /\ \A f \in Set!Entries \ {e} : value1[f] = value[f]
  BY <1>1, <1>3
<1>5. state1[e] = mark /\ \A f \in Set!Entries \ {e} : state1[f] = state[f]
  BY <1>1, <1>3
<1>6. /\ value1 \in [Set!Entries -> SetAsked.values \cup {NoValue}]
      /\ state1 \in [Set!Entries -> {"unused", "set", "lost", "free"}]
  BY <1>1, <1>3
<1>7. ASSUME NEW f \in Set!Entries
      PROVE  /\ state1[f] \in {"set", "lost"} <=> InTable(n, t1, f)
             /\ state1[f] = "free" <=> Listed(list1, f)
  BY <1>2, <1>3, <1>5
<1>8. \A f \in Set!Entries : state[f] = "set" => value[f] # v
  BY DEF Members
<1>9. ASSUME NEW f \in Set!Entries, NEW g \in Set!Entries, state1[f] = "set", state1[g] = "set", value1[f] = value1[g]
      PROVE  f = g
  <2>1. CASE f # e /\ g # e
    BY <1>3, <1>4, <1>5, <1>9, <2>1
  <2>2. CASE f = e \/ g = e
    BY <1>4, <1>5, <1>8, <1>9, <2>2
  <2> QED
    BY <2>1, <2>2
<1>10. Placed(n, t1, value1, state1, list1)
  BY <1>2, <1>6, <1>7, <1>9 DEF Placed
<1>11. \A f \in Set!Entries : state[f] = "set" => f # e
  OBVIOUS
<1>12. \A f \in Set!Entries : state1[f] = "set" /\ f # e <=> state[f] = "set"
  BY <1>5, <1>11
<1>13. ASSUME mark = "set" PROVE Members(value1, state1) = Members(value, state) \cup {v}
  <2>1. ASSUME NEW w \in Members(value1, state1) PROVE w \in Members(value, state) \cup {v}
    <3>1. PICK f \in Set!Entries : state1[f] = "set" /\ value1[f] = w
      BY DEF Members
    <3>2. w \in SetAsked.values
      BY DEF Members
    <3> QED
      BY <1>4, <1>12, <3>1, <3>2 DEF Members
  <2>2. ASSUME NEW w \in Members(value, state) \cup {v} PROVE w \in Members(value1, state1)
    <3>1. CASE w = v
      BY <1>1, <1>4, <1>5, <1>13, <3>1 DEF Members
    <3>2. CASE w \in Members(value, state)
      <4>1. PICK f \in Set!Entries : state[f] = "set" /\ value[f] = w
        BY <3>2 DEF Members
      <4>2. state1[f] = "set" /\ value1[f] = w
        BY <1>4, <1>11, <1>12, <4>1
      <4> QED
        BY <3>2, <4>1, <4>2 DEF Members
    <3> QED
      BY <3>1, <3>2
  <2> QED
    BY <2>1, <2>2
<1>14. ASSUME mark = "lost" PROVE Members(value1, state1) = Members(value, state)
  <2>1. \A f \in Set!Entries : state1[f] = "set" <=> state[f] = "set"
    BY <1>1, <1>5, <1>11, <1>12, <1>14
  <2>2. \A f \in Set!Entries : state[f] = "set" => value1[f] = value[f]
    BY <1>4, <1>11
  <2> QED
    BY <2>1, <2>2 DEF Members
<1> QED
  BY <1>10, <1>13, <1>14

LEMMA SetInserts ==
  ASSUME Set!SizesAssumption, Set!ValuesAssumption, SetInv, NEW v \in SetAsked.values, Set!InsertNew(v)
  PROVE  SetInv' /\ SetPromised
<1>1. PICK n \in Nat : SetOf(n) /\ s_valid
  BY UsableSet DEF Set!InsertNew
<1>2. PICK t, tombs : t = Set!TableForInsert /\ tombs = Set!TombstonesForInsert
  OBVIOUS
<1>3. PICK m \in Nat \ {0} : Placed(m, t, s_value, s_state, s_free) /\ Counted(m, t, s_items, tombs)
  BY <1>1, <1>2, ForInsert
<1>4. PICK p, e : p = Set!Probe(t, v) /\ e = Set!Min(Set!Available)
  OBVIOUS
<1>5. IsAnswer(m, t, s_value, s_state, v, p) /\ p.found = (v \in Set!Contents)
  BY <1>1, <1>3, <1>4, SetAnswers, SetContentsNow
<1>6. /\ Set!Available # {} /\ ~p.found /\ p.index # -1
      /\ s_table' = [t EXCEPT ![p.index] = e]
      /\ s_tombstones' = IF t[p.index] = 1 THEN (tombs + p.passed) - 1 ELSE tombs + p.passed
      /\ s_value' = [s_value EXCEPT ![e] = v]
      /\ s_free' = IF s_free = <<>> THEN <<>> ELSE Tail(s_free)
      /\ s_items' = s_items + 1 /\ s_fresh' = FALSE /\ s_valid' = s_valid
  <2>1. /\ Set!Available # {} /\ ~p.found /\ p.index # -1
        /\ s_table' = [t EXCEPT ![p.index] = e] /\ s_value' = [s_value EXCEPT ![e] = v]
    BY <1>2, <1>4 DEF Set!InsertNew
  <2>2. s_tombstones' = IF t[p.index] = Set!TOMBSTONE THEN (tombs + p.passed) - 1 ELSE tombs + p.passed
    <3> DEFINE pt == Set!Probe(Set!TableForInsert, v)
               count == Set!TombstonesForInsert + pt.passed
    <3>1. s_tombstones' = IF Set!TableForInsert[pt.index] = Set!TOMBSTONE THEN count - 1 ELSE count
      BY Zenon DEF Set!InsertNew
    <3>2. pt = p /\ Set!TombstonesForInsert = tombs /\ Set!TableForInsert = t
      BY <1>2, <1>4
    <3> HIDE DEF pt
    <3> QED
      BY <3>1, <3>2
  <2>3. /\ s_free' = IF s_free = <<>> THEN <<>> ELSE Tail(s_free)
        /\ s_items' = s_items + 1 /\ s_fresh' = FALSE /\ s_valid' = s_valid
    BY DEF Set!InsertNew, Set!Mutated
  <2> QED
    BY <2>1, <2>2, <2>3, EntryNumbers
<1>7. PICK mark \in {"set", "lost"}, lost \in BOOLEAN :
        /\ s_state' = [s_state EXCEPT ![e] = mark]
        /\ s_last' = [op |-> "insert", value |-> v, answer |-> TRUE, lost |-> lost]
        /\ IF lost THEN mark = "lost" /\ v \in SetAsked.long ELSE mark = "set"
  <2>1. PICK lost \in IF v \in SetAsked.long THEN BOOLEAN ELSE {FALSE} :
          /\ s_state' = [s_state EXCEPT ![e] = IF lost THEN "lost" ELSE "set"]
          /\ s_last' = [op |-> "insert", value |-> v, answer |-> TRUE, lost |-> lost]
    BY <1>4 DEF Set!InsertNew
  <2>2. CASE lost = TRUE
    BY <2>1, <2>2
  <2>3. CASE lost = FALSE
    BY <2>1, <2>3
  <2> QED
    BY <2>1, <2>2, <2>3
<1>8. /\ e \in Set!Entries /\ ~InTable(m, t, e) /\ s_state[e] \in {"unused", "free"}
      /\ s_free' \in Seq(Set!Entries) /\ Once(s_free')
      /\ \A f \in Set!Entries : Listed(s_free', f) <=> f # e /\ Listed(s_free, f)
  BY <1>3, <1>4, <1>6, EntryTaken
<1>9. PICK slot \in 0 .. m - 1 : slot = p.index /\ t[slot] \in {0, 1} /\ Reached(m, t, v, slot)
  BY <1>5, <1>6 DEF IsAnswer
<1>10. s_value'[e] = v /\ \A f \in Set!Entries \ {e} : s_value'[f] = s_value[f]
  <2>1. s_value \in [Set!Entries -> SetAsked.values \cup {NoValue}]
    BY <1>3 DEF Placed
  <2> QED
    BY <1>6, <1>8, <2>1
<1>11. PutIn(m, t, s_value, e, v, slot, s_table', s_value')
  BY <1>3, <1>6, <1>8, <1>9, <1>10 DEF PutIn, Placed
<1>12. Set!Contents = Members(s_value, s_state) /\ v \notin Members(s_value, s_state)
  BY <1>1, <1>5, <1>6, SetContentsNow
<1>13. /\ Placed(m, s_table', s_value', s_state', s_free')
       /\ Members(s_value', s_state') =
            IF mark = "set" THEN Members(s_value, s_state) \cup {v} ELSE Members(s_value, s_state)
  <2>1. IsAdded(m, t, s_value, s_state, s_free, e, v, slot, mark, s_table', s_value', s_state', s_free')
    BY <1>6, <1>7, <1>8, <1>11 DEF IsAdded
  <2> QED
    BY <1>3, <1>12, <2>1, EntryAdded
<1>14. Counted(m, s_table', s_items', s_tombstones')
  <2>1. /\ Occupied(m, s_table') = Occupied(m, t) \cup {slot} /\ slot \notin Occupied(m, t)
        /\ Graves(m, s_table') = Graves(m, t) \ {slot}
    BY <1>11, PutSound
  <2>2. /\ IsFiniteSet(Occupied(m, t)) /\ IsFiniteSet(Graves(m, t)) /\ Cardinality(Occupied(m, t)) \in Nat
        /\ Cardinality(Graves(m, t)) \in Nat
    <3>1. Occupied(m, t) \subseteq 0 .. m - 1 /\ Graves(m, t) \subseteq 0 .. m - 1
      BY DEF Occupied, Graves
    <3>2. /\ IsFiniteSet(Occupied(m, t)) /\ IsFiniteSet(Graves(m, t)) /\ Cardinality(Occupied(m, t)) \in 0 .. m
          /\ Cardinality(Graves(m, t)) \in 0 .. m
      BY <3>1, SlotsFinite
    <3> QED
      BY <3>2
  <2>3. s_items' = Cardinality(Occupied(m, s_table'))
    <3>1. Cardinality(Occupied(m, t) \cup {slot}) = Cardinality(Occupied(m, t)) + 1
      BY <2>1, <2>2, FS_AddElement
    <3> QED
      BY <1>3, <1>6, <2>1, <3>1 DEF Counted
  <2>4. PICK passed \in Nat, graves \in Nat, before \in Nat :
          passed = p.passed /\ graves = Cardinality(Graves(m, t)) /\ before = tombs /\ before >= graves
    BY <1>3, <1>5, <2>2 DEF IsAnswer, Counted
  <2>5. s_tombstones' \in Nat /\ s_tombstones' >= Cardinality(Graves(m, s_table'))
    <3>1. CASE t[slot] = 1
      <4>1. slot \in Graves(m, t)
        BY <3>1 DEF Graves
      <4>2. Cardinality(Graves(m, s_table')) = graves - 1
        BY <2>1, <2>2, <2>4, <4>1, FS_RemoveElement
      <4>3. graves # 0
        BY <2>2, <2>4, <4>1, FS_EmptySet
      <4>4. s_tombstones' = (before + passed) - 1
        BY <1>6, <1>9, <2>4, <3>1
      <4> QED
        BY <2>4, <4>2, <4>3, <4>4
    <3>2. CASE t[slot] # 1
      <4>1. Graves(m, s_table') = Graves(m, t)
        BY <2>1, <3>2 DEF Graves
      <4>2. s_tombstones' = before + passed
        BY <1>6, <1>9, <2>4, <3>2
      <4> QED
        BY <2>4, <4>1, <4>2
    <3> QED
      BY <3>1, <3>2
  <2> QED
    BY <2>3, <2>5 DEF Counted
<1>15. SetInv' /\ Set!Contents' = Members(s_value', s_state')
  BY <1>1, <1>6, <1>13, <1>14, SetNext
<1>16. CASE lost = FALSE
  <2>1. Set!Contents' = Set!Contents \cup {v}
    BY <1>7, <1>12, <1>13, <1>15, <1>16
  <2>2. s_last' = [op |-> "insert", value |-> v, answer |-> TRUE, lost |-> FALSE]
    BY <1>7, <1>16
  <2>3. Set!Promise!Insert(v)
    BY <2>1, <2>2 DEF Set!Promise!Insert, Set!Promise!Returns, Set!Promise!Call
  <2> QED
    BY <1>15, <2>3 DEF SetPromised, Set!Promise!Next
<1>17. CASE lost = TRUE
  <2>1. Set!Contents' = Set!Contents /\ v \notin Set!Contents
    BY <1>7, <1>12, <1>13, <1>15, <1>17
  <2>2. s_last' = [op |-> "insert", value |-> v, answer |-> TRUE, lost |-> TRUE] /\ v \in SetAsked.long
    BY <1>7, <1>17
  <2>3. Set!Promise!InsertWithLoss(v)
    BY <2>1, <2>2 DEF Set!Promise!InsertWithLoss
  <2> QED
    BY <1>15, <2>3 DEF SetPromised, Set!Promise!Next
<1> QED
  BY <1>7, <1>15, <1>16, <1>17

(* An entry leaves a tombstone and goes to the front of the free list.      *)
IsDropped(n, t, value, state, list, e, slot, t1, value1, state1, list1) ==
  /\ slot \in 0 .. n - 1 /\ t[slot] = e /\ e \in Set!Entries /\ state[e] = "set"
  /\ t1 = [t EXCEPT ![slot] = 1]
  /\ value1 = [value EXCEPT ![e] = NoValue] /\ state1 = [state EXCEPT ![e] = "free"]
  /\ list1 = <<e>> \o list

LEMMA Dropped ==
  ASSUME Set!SizesAssumption, NEW n, NEW t, NEW value, NEW state, NEW list, Placed(n, t, value, state, list),
         NEW e, NEW slot, NEW t1, NEW value1, NEW state1, NEW list1,
         IsDropped(n, t, value, state, list, e, slot, t1, value1, state1, list1)
  PROVE  /\ Placed(n, t1, value1, state1, list1)
         /\ Occupied(n, t1) = Occupied(n, t) \ {slot} /\ slot \in Occupied(n, t)
         /\ Graves(n, t1) = Graves(n, t) \cup {slot} /\ slot \notin Graves(n, t)
         /\ Members(value1, state1) = Members(value, state) \ {value[e]}
<1>1. /\ n \in Nat \ {0} /\ t \in [0 .. n - 1 -> {0, 1} \cup Set!Entries] /\ slot \in 0 .. n - 1
      /\ e \in Set!Entries /\ t[slot] = e
  BY DEF IsDropped, Placed, Probed, Tables
<1>2. Set!Entries \subseteq Nat \ {0, 1}
  BY EntryNumbers
<1>3. /\ value \in [Set!Entries -> SetAsked.values \cup {NoValue}]
      /\ state \in [Set!Entries -> {"unused", "set", "lost", "free"}]
      /\ list \in Seq(Set!Entries) /\ Once(list)
      /\ \A f \in Set!Entries : /\ state[f] \in {"set", "lost"} <=> InTable(n, t, f)
                                /\ state[f] = "free" <=> Listed(list, f)
      /\ \A f, g \in Set!Entries : state[f] = "set" /\ state[g] = "set" /\ value[f] = value[g] => f = g
  BY DEF Placed
<1>4. /\ t1 \in [0 .. n - 1 -> {0, 1} \cup Set!Entries] /\ t1[slot] = 1
      /\ \A i \in (0 .. n - 1) \ {slot} : t1[i] = t[i]
  BY <1>1 DEF IsDropped
<1>5. value1[e] = NoValue /\ \A f \in Set!Entries \ {e} : value1[f] = value[f]
  BY <1>1, <1>3 DEF IsDropped
<1>6. state1[e] = "free" /\ \A f \in Set!Entries \ {e} : state1[f] = state[f]
  BY <1>1, <1>3 DEF IsDropped
<1>7. /\ value1 \in [Set!Entries -> SetAsked.values \cup {NoValue}]
      /\ state1 \in [Set!Entries -> {"unused", "set", "lost", "free"}]
  BY <1>1, <1>3 DEF IsDropped
<1>8. Occupied(n, t1) = Occupied(n, t) \ {slot} /\ slot \in Occupied(n, t)
  BY <1>1, <1>2, <1>4 DEF Occupied
<1>9. Graves(n, t1) = Graves(n, t) \cup {slot} /\ slot \notin Graves(n, t)
  BY <1>1, <1>2, <1>4 DEF Graves
<1>10. \A i, j \in Occupied(n, t) : t[i] = t[j] => i = j
  BY DEF Placed, Probed
<1>11. \A i \in Occupied(n, t1) : /\ i \in Occupied(n, t) /\ i \in 0 .. n - 1 /\ t1[i] = t[i] /\ t[i] # e
                               /\ t[i] \in Set!Entries
  BY <1>1, <1>4, <1>8, <1>10 DEF Occupied
<1>12. \A f \in Set!Entries : InTable(n, t1, f) <=> f # e /\ InTable(n, t, f)
  <2>1. ASSUME NEW f \in Set!Entries, InTable(n, t1, f) PROVE f # e /\ InTable(n, t, f)
    <3>1. PICK i \in 0 .. n - 1 : t1[i] = f
      BY <2>1 DEF InTable
    <3>2. i \in Occupied(n, t1)
      BY <3>1 DEF Occupied
    <3> QED
      BY <1>11, <3>1, <3>2 DEF InTable
  <2>2. ASSUME NEW f \in Set!Entries, f # e, InTable(n, t, f) PROVE InTable(n, t1, f)
    BY <1>1, <1>4, <2>2 DEF InTable
  <2> QED
    BY <2>1, <2>2
<1>13. \A j \in 0 .. n - 1 : t[j] # 0 => t1[j] # 0
  BY <1>1, <1>4
<1>14. ASSUME NEW i \in Occupied(n, t1) PROVE value1[t1[i]] \in SetAsked.values /\ Reached(n, t1, value1[t1[i]], i)
  <2>1. i \in Occupied(n, t) /\ value1[t1[i]] = value[t[i]]
    BY <1>5, <1>11
  <2>2. value[t[i]] \in SetAsked.values /\ Reached(n, t, value[t[i]], i)
    BY <2>1 DEF Placed, Probed
  <2> QED
    BY <1>13, <2>1, <2>2 DEF Reached
<1>15. Probed(n, t1, value1)
  BY <1>1, <1>4, <1>10, <1>11, <1>14 DEF Probed, Tables
<1>16. ~Listed(list, e) /\ state[e] = "set"
  BY <1>1, <1>3 DEF IsDropped
<1>17. list1 \in Seq(Set!Entries) /\ Once(list1) /\ \A f \in Set!Entries : Listed(list1, f) <=> f = e \/ Listed(list, f)
  BY <1>1, <1>3, <1>16, Prepended DEF IsDropped
<1>18. ASSUME NEW f \in Set!Entries
       PROVE  /\ state1[f] \in {"set", "lost"} <=> InTable(n, t1, f)
              /\ state1[f] = "free" <=> Listed(list1, f)
  BY <1>3, <1>6, <1>12, <1>17
<1>19. \A f, g \in Set!Entries : state1[f] = "set" /\ state1[g] = "set" /\ value1[f] = value1[g] => f = g
  BY <1>3, <1>5, <1>6
<1>20. Placed(n, t1, value1, state1, list1)
  BY <1>7, <1>15, <1>17, <1>18, <1>19 DEF Placed
<1>21. Members(value1, state1) = Members(value, state) \ {value[e]}
  <2>1. ASSUME NEW w \in Members(value1, state1) PROVE w \in Members(value, state) \ {value[e]}
    <3>1. PICK f \in Set!Entries : state1[f] = "set" /\ value1[f] = w
      BY DEF Members
    <3>2. f # e /\ state[f] = "set" /\ value[f] = w
      BY <1>5, <1>6, <3>1
    <3>3. w # value[e] /\ w \in SetAsked.values
      BY <1>1, <1>3, <1>16, <3>2 DEF Members
    <3> QED
      BY <3>2, <3>3 DEF Members
  <2>2. ASSUME NEW w \in Members(value, state) \ {value[e]} PROVE w \in Members(value1, state1)
    <3>1. PICK f \in Set!Entries : state[f] = "set" /\ value[f] = w
      BY DEF Members
    <3>2. f # e
      BY <3>1
    <3>3. state1[f] = "set" /\ value1[f] = w /\ w \in SetAsked.values
      BY <1>5, <1>6, <3>1, <3>2 DEF Members
    <3> QED
      BY <3>3 DEF Members
  <2> QED
    BY <2>1, <2>2
<1> QED
  BY <1>8, <1>9, <1>20, <1>21

LEMMA SetDeletes ==
  ASSUME Set!SizesAssumption, Set!ValuesAssumption, SetInv, NEW v \in SetAsked.values, Set!DeletePresent(v)
  PROVE  SetInv' /\ SetPromised
<1>1. PICK n \in Nat : SetOf(n) /\ s_valid
  BY UsableSet DEF Set!DeletePresent
<1>2. Placed(n, s_table, s_value, s_state, s_free) /\ Counted(n, s_table, s_items, s_tombstones)
  BY <1>1, SetTypes
<1>3. PICK p : p = Set!Probe(s_table, v)
  OBVIOUS
<1>4. IsAnswer(n, s_table, s_value, s_state, v, p) /\ p.found = (v \in Set!Contents)
  BY <1>1, <1>2, <1>3, SetAnswers, SetContentsNow
<1>5. PICK e : e = s_table[p.index]
  OBVIOUS
<1>6. /\ p.found /\ s_table' = [s_table EXCEPT ![p.index] = 1]
      /\ s_tombstones' = (s_tombstones + p.passed) + 1
      /\ s_state' = [s_state EXCEPT ![e] = "free"] /\ s_value' = [s_value EXCEPT ![e] = NoValue]
      /\ s_free' = <<e>> \o s_free /\ s_items' = s_items - 1 /\ s_fresh' = FALSE
      /\ s_last' = [op |-> "delete", value |-> v, answer |-> TRUE, lost |-> FALSE]
  BY <1>3, <1>5, EntryNumbers DEF Set!DeletePresent, Set!Mutated, Set!Call
<1>7. s_valid' = s_valid
  BY DEF Set!DeletePresent
<1>8. PICK slot \in 0 .. n - 1 : slot = p.index /\ s_table[slot] = e /\ e \in Set!Entries
                                /\ s_state[e] = "set" /\ s_value[e] = v
  BY <1>4, <1>5, <1>6 DEF IsAnswer
<1>9. IsDropped(n, s_table, s_value, s_state, s_free, e, slot, s_table', s_value', s_state', s_free')
  BY <1>6, <1>8 DEF IsDropped
<1>10. /\ Placed(n, s_table', s_value', s_state', s_free')
       /\ Occupied(n, s_table') = Occupied(n, s_table) \ {slot} /\ slot \in Occupied(n, s_table)
       /\ Graves(n, s_table') = Graves(n, s_table) \cup {slot} /\ slot \notin Graves(n, s_table)
       /\ Members(s_value', s_state') = Members(s_value, s_state) \ {v}
  BY <1>2, <1>8, <1>9, Dropped
<1>11. Counted(n, s_table', s_items', s_tombstones')
  <2>1. /\ IsFiniteSet(Occupied(n, s_table)) /\ IsFiniteSet(Graves(n, s_table))
        /\ Cardinality(Graves(n, s_table)) \in Nat
    BY <1>1, SetTypes, FS_CardinalityType
  <2>2. Cardinality(Occupied(n, s_table')) = Cardinality(Occupied(n, s_table)) - 1
    BY <1>10, <2>1, FS_RemoveElement
  <2>3. Cardinality(Graves(n, s_table')) = Cardinality(Graves(n, s_table)) + 1
    BY <1>10, <2>1, FS_AddElement
  <2>4. PICK passed \in Nat, graves \in Nat, before \in Nat :
          passed = p.passed /\ graves = Cardinality(Graves(n, s_table)) /\ before = s_tombstones /\ before >= graves
    BY <1>2, <1>4, <2>1 DEF IsAnswer, Counted
  <2>5. s_tombstones' \in Nat /\ s_tombstones' >= Cardinality(Graves(n, s_table'))
    <3>1. s_tombstones' = (before + passed) + 1
      BY <1>6, <2>4
    <3>2. Cardinality(Graves(n, s_table')) = graves + 1
      BY <2>3, <2>4
    <3> QED
      BY <2>4, <3>1, <3>2
  <2> QED
    BY <1>2, <1>6, <2>2, <2>5 DEF Counted
<1>12. SetInv' /\ Set!Contents' = Members(s_value', s_state')
  BY <1>1, <1>6, <1>7, <1>10, <1>11, SetNext
<1>13. Set!Contents' = Set!Contents \ {v} /\ v \in Set!Contents
  BY <1>1, <1>4, <1>6, <1>10, <1>12, SetContentsNow
<1>14. Set!Promise!Delete(v)
  BY <1>6, <1>13 DEF Set!Promise!Delete, Set!Promise!Returns, Set!Promise!Call
<1> QED
  BY <1>12, <1>14 DEF SetPromised, Set!Promise!Next

(* A table without an entry.                                                *)
LEMMA Emptied ==
  ASSUME Set!SizesAssumption, NEW n \in Nat \ {0}, NEW t, NEW value, NEW state, NEW list,
         t = [i \in 0 .. n - 1 |-> 0], value \in [Set!Entries -> SetAsked.values \cup {NoValue}],
         state \in [Set!Entries -> {"unused", "free"}], list \in Seq(Set!Entries), Once(list),
         \A e \in Set!Entries : state[e] = "free" <=> Listed(list, e)
  PROVE  Placed(n, t, value, state, list) /\ Counted(n, t, 0, 0) /\ Members(value, state) = {}
<1>1. Occupied(n, t) = {} /\ Graves(n, t) = {} /\ \A e \in Set!Entries : ~InTable(n, t, e)
  BY EntryNumbers DEF Occupied, Graves, InTable
<1>2. Probed(n, t, value)
  BY <1>1 DEF Probed, Tables
<1>3. \A e \in Set!Entries : state[e] = "unused" \/ state[e] = "free"
  OBVIOUS
<1>4. state \in [Set!Entries -> {"unused", "set", "lost", "free"}]
  OBVIOUS
<1>5. Placed(n, t, value, state, list)
  BY <1>1, <1>2, <1>3, <1>4 DEF Placed
<1>6. Counted(n, t, 0, 0)
  <2>1. Cardinality(Occupied(n, t)) = 0 /\ Cardinality(Graves(n, t)) = 0
    BY <1>1, FS_EmptySet
  <2> QED
    BY <2>1 DEF Counted
<1> QED
  BY <1>3, <1>5, <1>6 DEF Members

LEMMA SetEmpties ==
  ASSUME Set!SizesAssumption, SetInv, Set!Clear \/ Set!Free
  PROVE  SetInv' /\ SetPromised
<1>1. PICK n \in Nat : SetOf(n) /\ s_valid
  BY UsableSet DEF Set!Clear, Set!Free
<1>2. /\ n \in Nat \ {0} /\ Set!Length = n /\ Probed(n, s_table, s_value)
      /\ Placed(n, s_table, s_value, s_state, s_free) /\ Counted(n, s_table, s_items, s_tombstones)
  BY <1>1, SetTypes
<1>3. PICK s : s = Set!TableEntries
  OBVIOUS
<1>4. /\ s \in Seq(Set!Entries) /\ Once(s) /\ \A e \in Set!Entries : Listed(s, e) <=> InTable(n, s_table, e)
      /\ Set!Range(s) = {e \in Set!Entries : InTable(n, s_table, e)}
  BY <1>2, <1>3, EntriesCollected DEF GivenOut
<1>5. /\ s_value \in [Set!Entries -> SetAsked.values \cup {NoValue}]
      /\ s_state \in [Set!Entries -> {"unused", "set", "lost", "free"}]
      /\ s_free \in Seq(Set!Entries) /\ Once(s_free)
      /\ \A e \in Set!Entries : /\ s_state[e] \in {"set", "lost"} <=> InTable(n, s_table, e)
                                /\ s_state[e] = "free" <=> Listed(s_free, e)
  BY <1>2 DEF Placed
<1> USE DEF SetPromised, Set!Promise!Next, Set!Promise!Returns, Set!Promise!Call, Set!Call, Set!Promise!Empty
<1>6. CASE Set!Clear
  <2>1. /\ s_free' = s \o s_free /\ s_items' = 0 /\ s_tombstones' = 0 /\ s_fresh' = FALSE
        /\ s_valid' = s_valid
        /\ s_last' = [op |-> "clear", value |-> NoValue, answer |-> TRUE, lost |-> FALSE]
    BY <1>3, <1>6 DEF Set!Clear, Set!Mutated
  <2>2. s_table' = [i \in 0 .. n - 1 |-> 0]
    BY <1>2, <1>6, EntryNumbers DEF Set!Clear, Set!EmptyTable
  <2>3. s_state' = [e \in Set!Entries |-> IF e \in Set!Range(s) THEN "free" ELSE s_state[e]]
    BY <1>3, <1>6 DEF Set!Clear
  <2>4. s_value' = [e \in Set!Entries |-> IF e \in Set!Range(s) THEN NoValue ELSE s_value[e]]
    BY <1>3, <1>6 DEF Set!Clear
  <2>5. s_value' \in [Set!Entries -> SetAsked.values \cup {NoValue}]
    BY <1>5, <2>4
  <2>6. s_state' \in [Set!Entries -> {"unused", "free"}]
    BY <1>4, <1>5, <2>3
  <2>7. \A e \in Set!Entries : ~(Listed(s, e) /\ Listed(s_free, e))
    BY <1>4, <1>5
  <2>8. /\ s_free' \in Seq(Set!Entries) /\ Once(s_free')
        /\ \A e \in Set!Entries : Listed(s_free', e) <=> Listed(s, e) \/ Listed(s_free, e)
    BY <1>4, <1>5, <2>1, <2>7, Joined
  <2>9. \A e \in Set!Entries : s_state'[e] = "free" <=> Listed(s_free', e)
    BY <1>4, <1>5, <2>3, <2>8
  <2>10. /\ Placed(n, s_table', s_value', s_state', s_free') /\ Counted(n, s_table', 0, 0)
         /\ Members(s_value', s_state') = {}
    BY <1>2, <2>2, <2>5, <2>6, <2>8, <2>9, Emptied
  <2>11. SetInv' /\ Set!Contents' = Members(s_value', s_state')
    BY <1>1, <2>1, <2>10, SetNext
  <2>12. Set!Promise!Empty("clear")
    BY <2>1, <2>10, <2>11
  <2> QED
    BY <2>11, <2>12
<1>7. CASE Set!Free
  <2>1. /\ s_free' = <<>> /\ s_items' = 0 /\ s_tombstones' = 0 /\ s_fresh' = FALSE
        /\ s_last' = [op |-> "free", value |-> NoValue, answer |-> TRUE, lost |-> FALSE]
    BY <1>7 DEF Set!Free, Set!Mutated
  <2>2. PICK m \in Nat \ {0} : m = SetAsked.initial
    BY DEF Set!SizesAssumption
  <2>3. s_table' = [i \in 0 .. m - 1 |-> 0]
    BY <1>7, <2>2, EntryNumbers DEF Set!Free, Set!EmptyTable
  <2>4. PICK freed : freed = Set!Range(s) \cup Set!Range(s_free)
    OBVIOUS
  <2>5. \A e \in Set!Entries : e \in freed <=> InTable(n, s_table, e) \/ Listed(s_free, e)
    <3>1. Set!Range(s_free) = {s_free[k] : k \in 1 .. Len(s_free)}
      BY <1>5 DEF Set!Range
    <3> QED
      BY <1>4, <2>4, <3>1 DEF Listed
  <2>6. s_state' = [e \in Set!Entries |-> IF e \in freed THEN "unused" ELSE s_state[e]]
    BY <1>3, <1>7, <2>4 DEF Set!Free
  <2>7. s_value' = [e \in Set!Entries |-> IF e \in freed THEN NoValue ELSE s_value[e]]
    BY <1>3, <1>7, <2>4 DEF Set!Free
  <2>8. s_value' \in [Set!Entries -> SetAsked.values \cup {NoValue}]
    BY <1>5, <2>7
  <2>9. \A e \in Set!Entries : s_state'[e] = "unused"
    BY <1>5, <2>5, <2>6
  <2>10. s_state' \in [Set!Entries -> {"unused", "free"}]
    BY <2>6, <2>9
  <2>11. s_free' \in Seq(Set!Entries) /\ Once(s_free') /\ \A e \in Set!Entries : ~Listed(s_free', e)
    BY <2>1 DEF Once, Listed
  <2>12. \A e \in Set!Entries : s_state'[e] = "free" <=> Listed(s_free', e)
    BY <2>9, <2>11
  <2>13. /\ Placed(m, s_table', s_value', s_state', s_free') /\ Counted(m, s_table', 0, 0)
         /\ Members(s_value', s_state') = {}
    BY <2>2, <2>3, <2>8, <2>10, <2>11, <2>12, Emptied
  <2>14. SetInv' /\ Set!Contents' = Members(s_value', s_state')
    <3>1. Blank'
      BY <2>1, <2>9 DEF Blank
    <3> QED
      BY <2>1, <2>2, <2>13, <3>1, SetNext
  <2>15. Set!Promise!Empty("free")
    BY <2>1, <2>13, <2>14
  <2> QED
    BY <2>14, <2>15
<1> QED
  BY <1>6, <1>7

(* init2 again, with a table or without.                                    *)
LEMMA SetStartsAgain ==
  ASSUME Set!SizesAssumption, SetInv, Set!InitAgain
  PROVE  SetInv' /\ SetPromised
<1>1. /\ ~s_valid /\ s_valid' = TRUE /\ s_table' \in {Set!EmptyTable(SetAsked.initial), Set!NoTable}
      /\ UNCHANGED <<s_value, s_state, s_free, s_items, s_tombstones, s_cursor, s_fresh, s_yielded>>
      /\ s_last' = [op |-> "init", value |-> NoValue, answer |-> TRUE, lost |-> FALSE]
  BY DEF Set!InitAgain, Set!entries, Set!iterator, Set!Call
<1>2. PICK n \in Nat : SetOf(n)
  BY <1>1 DEF SetInv, Bare
<1>3. Blank /\ s_fresh = FALSE /\ Blank'
  BY <1>1, <1>2 DEF SetOf, Blank
<1>4. ASSUME s_table' = Set!EmptyTable(SetAsked.initial) PROVE SetInv' /\ Set!Contents' = {}
  <2>1. PICK m \in Nat \ {0} : m = SetAsked.initial
    BY DEF Set!SizesAssumption
  <2>2. s_table' = [i \in 0 .. m - 1 |-> 0]
    BY <1>4, <2>1, EntryNumbers DEF Set!EmptyTable
  <2>3. s_value' \in [Set!Entries -> SetAsked.values \cup {NoValue}]
    BY <1>1, <1>2 DEF SetOf, Placed
  <2>4. s_state' \in [Set!Entries -> {"unused", "free"}]
    <3>1. s_state \in [Set!Entries -> {"unused", "set", "lost", "free"}]
      BY <1>2 DEF SetOf, Placed
    <3> QED
      BY <1>1, <1>3, <3>1 DEF Blank
  <2>5. s_free' \in Seq(Set!Entries) /\ Once(s_free') /\ \A e \in Set!Entries : ~Listed(s_free', e)
    BY <1>3 DEF Blank, Once, Listed
  <2>6. \A e \in Set!Entries : s_state'[e] = "free" <=> Listed(s_free', e)
    BY <1>3, <2>5 DEF Blank
  <2>7. /\ Placed(m, s_table', s_value', s_state', s_free') /\ Counted(m, s_table', 0, 0)
        /\ Members(s_value', s_state') = {}
    BY <2>1, <2>2, <2>3, <2>4, <2>5, <2>6, Emptied
  <2>8. s_items' = 0 /\ s_tombstones' = 0
    BY <1>3 DEF Blank
  <2> QED
    BY <1>1, <1>3, <2>1, <2>7, <2>8, SetNext
<1>5. ASSUME s_table' = Set!NoTable PROVE SetInv' /\ Set!Contents' = {}
  <2>1. Bare'
    BY <1>1, <1>3, <1>5 DEF Bare, Set!NoTable, Set!EmptyTable
  <2>2. TableMembers(s_table', s_value', s_state') = {}
    <3>1. DOMAIN s_table' = {}
      BY <1>5 DEF Set!NoTable, Set!EmptyTable
    <3> QED
      BY <3>1 DEF TableMembers
  <2> QED
    BY <2>1, <2>2, SetContentsRead DEF SetInv
<1>6. SetInv' /\ Set!Contents' = {}
  BY <1>1, <1>4, <1>5
<1>7. Set!Promise!Empty("init")
  BY <1>1, <1>6 DEF Set!Promise!Empty, Set!Promise!Returns, Set!Promise!Call
<1> QED
  BY <1>6, <1>7 DEF SetPromised, Set!Promise!Next

LEMMA SetGoesOn ==
  ASSUME Set!SizesAssumption, NEW n \in Nat, SetOf(n), Set!IteratorInit \/ Set!IteratorNext
  PROVE  SetInv' /\ SetPromised
<1>1. SetOf(n) /\ s_valid
  BY DEF Set!IteratorInit, Set!IteratorNext, Set!Usable
<1>2. /\ n \in Nat \ {0} /\ Set!Length = n /\ DOMAIN s_table = 0 .. n - 1
      /\ Placed(n, s_table, s_value, s_state, s_free) /\ Counted(n, s_table, s_items, s_tombstones)
  BY <1>1, SetTypes
<1>3. UNCHANGED <<s_valid, s_table, s_value, s_state, s_free, s_items, s_tombstones, s_last>>
  BY DEF Set!IteratorInit, Set!IteratorNext, Set!entries
<1> DEFINE taken == Occupied(n, s_table)
<1>4. \A from : Set!Occupied(from) = {i \in taken : i >= from} /\ taken \subseteq 0 .. n - 1
  BY <1>2 DEF Set!Occupied, Occupied
<1>5. s_fresh' => s_cursor' \in 0 .. n /\ s_yielded' = Passed(n, s_table, s_value, s_state, s_cursor')
  <2>1. CASE Set!IteratorInit
    <3>1. s_cursor' = 0 /\ s_yielded' = {}
      BY <2>1 DEF Set!IteratorInit
    <3>2. {j \in taken : j < 0 /\ s_state[s_table[j]] = "set"} = {}
      BY <1>4
    <3> QED
      BY <1>2, <3>1, <3>2 DEF Passed
  <2>2. CASE Set!IteratorNext
    <3>1. PICK at \in 0 .. n : at = s_cursor
      BY <1>1, <2>2 DEF Set!IteratorNext, SetOf
    <3>2. s_yielded = Passed(n, s_table, s_value, s_state, at)
      BY <1>1, <2>2, <3>1 DEF Set!IteratorNext, SetOf
    <3>3. CASE Set!Occupied(s_cursor) = {}
      <4>1. s_cursor' = n /\ s_yielded' = s_yielded
        BY <1>2, <2>2, <3>3 DEF Set!IteratorNext
      <4>2. {i \in taken : i >= at} = {} /\ taken \subseteq 0 .. n - 1
        BY <1>4, <3>1, <3>3
      <4>3. \A i \in taken : i < at /\ i < n
        BY <1>2, <3>1, <4>2
      <4>4. Passed(n, s_table, s_value, s_state, at) = Passed(n, s_table, s_value, s_state, n)
        BY <4>3 DEF Passed
      <4>5. s_cursor' \in 0 .. n
        BY <1>2, <4>1
      <4> QED
        BY <3>2, <4>1, <4>4, <4>5
    <3>4. CASE Set!Occupied(s_cursor) # {}
      <4> DEFINE i == Set!Min(Set!Occupied(s_cursor))
      <4>1. i \in Set!Occupied(s_cursor) /\ \A x \in Set!Occupied(s_cursor) : i <= x
        <5>1. Set!Occupied(s_cursor) \subseteq Nat
          BY <1>4
        <5> QED
          BY <3>4, <5>1, SetSame
      <4>2. PICK m \in taken : m = i /\ m >= at /\ m \in 0 .. n - 1 /\ \A x \in taken : x >= at => m <= x
        BY <1>4, <3>1, <4>1
      <4>3. /\ s_cursor' = m + 1
            /\ s_yielded' = s_yielded \cup (IF s_state[s_table[m]] = "set" THEN {s_value[s_table[m]]} ELSE {})
        BY <2>2, <3>4, <4>2 DEF Set!IteratorNext
      <4>4. \A x \in taken : x < m + 1 <=> x < at \/ x = m
        BY <1>4, <3>1, <4>2
      <4>5. m + 1 \in 0 .. n
        BY <1>2, <4>2
      <4> HIDE DEF i
      <4>6. s_yielded' = Passed(n, s_table, s_value, s_state, m + 1)
        BY <3>2, <4>2, <4>3, <4>4 DEF Passed
      <4> QED
        BY <4>3, <4>5, <4>6
    <3> QED
      BY <3>3, <3>4
  <2> QED
    BY <2>1, <2>2
<1>6. SetInv'
  BY <1>1, <1>2, <1>3, <1>5, SetNext
<1>7. Set!Contents' = Set!Contents
  BY <1>3, SetContentsRead
<1> QED
  BY <1>3, <1>6, <1>7 DEF SetPromised

LEMMA SetIterates ==
  ASSUME Set!SizesAssumption, SetInv, Set!IteratorInit \/ Set!IteratorNext
  PROVE  SetInv' /\ SetPromised
<1>1. CASE Bare
  <2>1. /\ UNCHANGED <<s_valid, s_table, s_value, s_state, s_free, s_items, s_tombstones, s_last>>
        /\ s_cursor' = 0 /\ s_yielded' = {}
    BY <1>1 DEF Set!IteratorInit, Set!IteratorNext, Set!Usable, Set!entries, Bare
  <2>2. Bare'
    BY <1>1, <2>1 DEF Bare, Blank, Set!NoTable, Set!EmptyTable
  <2>3. Set!Contents' = Set!Contents
    BY <2>1, SetContentsRead
  <2> QED
    BY <2>1, <2>2, <2>3 DEF SetInv, SetPromised
<1>2. CASE \E n \in Nat : SetOf(n)
  BY <1>2, SetGoesOn
<1> QED
  BY <1>1, <1>2 DEF SetInv

LEMMA SetStep ==
  ASSUME Set!SizesAssumption, Set!ValuesAssumption, SetInv, Set!Next
  PROVE  SetInv' /\ SetPromised
<1>1. ASSUME NEW v \in SetAsked.values, Set!Has(v) \/ Set!Insert(v) \/ Set!Delete(v)
      PROVE  SetInv' /\ SetPromised
  BY <1>1, SetAsks, SetInsertsNothing, SetInserts, SetDeletes DEF Set!Insert, Set!Delete
<1>2. CASE Set!Clear \/ Set!Free \/ Set!InitAgain
  BY <1>2, SetEmpties, SetStartsAgain
<1>3. CASE Set!IteratorInit \/ Set!IteratorNext
  BY <1>3, SetIterates
<1> QED
  BY <1>1, <1>2, <1>3 DEF Set!Next

LEMMA AtMostOne ==
  ASSUME NEW S, \A i, j \in S : i = j
  PROVE  Cardinality(S) = IF S = {} THEN 0 ELSE 1
<1>1. CASE S = {}
  BY <1>1, FS_EmptySet
<1>2. CASE S # {}
  <2>1. PICK i \in S : TRUE
    BY <1>2
  <2>2. S = {i}
    BY <2>1
  <2> QED
    BY <1>2, <2>2, FS_Singleton
<1> QED
  BY <1>1, <1>2

LEMMA TableExact ==
  ASSUME Set!SizesAssumption, NEW n \in Nat, SetOf(n)
  PROVE  Set!CountsSound /\ Set!EntriesAccounted /\ Set!IterationComplete
<1>1. SetOf(n)
  OBVIOUS
<1>2. /\ n \in Nat \ {0} /\ Set!Length = n /\ DOMAIN s_table = 0 .. n - 1 /\ Probed(n, s_table, s_value)
      /\ Placed(n, s_table, s_value, s_state, s_free) /\ Counted(n, s_table, s_items, s_tombstones)
  BY <1>1, SetTypes
<1>3. Set!CountsSound
  <2>1. Set!Occupied(0) = Occupied(n, s_table)
    BY <1>2 DEF Set!Occupied, Occupied
  <2>2. {i \in DOMAIN s_table : s_table[i] = Set!TOMBSTONE} = Graves(n, s_table)
    BY <1>2, EntryNumbers DEF Graves
  <2> QED
    BY <1>2, <2>1, <2>2, SetSame DEF Set!CountsSound, Counted
<1>4. ASSUME NEW e \in Set!Entries
      PROVE  LET inTable == Set!Cardinality({i \in DOMAIN s_table : s_table[i] = e})
                 inList == Set!Cardinality({k \in DOMAIN s_free : s_free[k] = e})
             IN  /\ inTable + inList = IF s_state[e] = "unused" THEN 0 ELSE 1
                 /\ inList = 1 <=> s_state[e] = "free"
                 /\ ~s_valid => s_state[e] = "unused"
  <2> DEFINE S == {i \in DOMAIN s_table : s_table[i] = e}
             T == {k \in DOMAIN s_free : s_free[k] = e}
  <2>1. Cardinality(S) = IF InTable(n, s_table, e) THEN 1 ELSE 0
    <3>1. \A i \in S : i \in Occupied(n, s_table) /\ s_table[i] = e
      BY <1>2 DEF Occupied
    <3>2. \A i, j \in S : i = j
      BY <1>2, <3>1 DEF Probed
    <3>3. S # {} <=> InTable(n, s_table, e)
      BY <1>2 DEF InTable
    <3> HIDE DEF S
    <3>4. Cardinality(S) = IF S = {} THEN 0 ELSE 1
      BY <3>2, AtMostOne
    <3> QED
      BY <3>3, <3>4
  <2>2. Cardinality(T) = IF Listed(s_free, e) THEN 1 ELSE 0
    <3>1. DOMAIN s_free = 1 .. Len(s_free) /\ Once(s_free)
      BY <1>2 DEF Placed
    <3>2. \A i, j \in T : i = j
      BY <3>1 DEF Once
    <3>3. T # {} <=> Listed(s_free, e)
      BY <3>1 DEF Listed
    <3> HIDE DEF T
    <3>4. Cardinality(T) = IF T = {} THEN 0 ELSE 1
      BY <3>2, AtMostOne
    <3> QED
      BY <3>3, <3>4
  <2>3. /\ s_state[e] \in {"unused", "set", "lost", "free"}
        /\ s_state[e] \in {"set", "lost"} <=> InTable(n, s_table, e)
        /\ s_state[e] = "free" <=> Listed(s_free, e)
    BY <1>2 DEF Placed
  <2>4. ~s_valid => s_state[e] = "unused"
    BY <1>1 DEF SetOf, Blank
  <2>5. Set!Cardinality(S) = Cardinality(S) /\ Set!Cardinality(T) = Cardinality(T)
    BY SetSame
  <2> HIDE DEF S, T
  <2>6. Cardinality(S) + Cardinality(T) = IF s_state[e] = "unused" THEN 0 ELSE 1
    <3>1. CASE s_state[e] = "unused"
      BY <2>1, <2>2, <2>3, <3>1
    <3>2. CASE s_state[e] \in {"set", "lost"}
      BY <2>1, <2>2, <2>3, <3>2
    <3>3. CASE s_state[e] = "free"
      BY <2>1, <2>2, <2>3, <3>3
    <3> QED
      BY <2>3, <3>1, <3>2, <3>3
  <2>7. Cardinality(T) = 1 <=> s_state[e] = "free"
    BY <2>2, <2>3
  <2>8. /\ Set!Cardinality(S) + Set!Cardinality(T) = IF s_state[e] = "unused" THEN 0 ELSE 1
        /\ Set!Cardinality(T) = 1 <=> s_state[e] = "free"
    BY <2>5, <2>6, <2>7
  <2> USE DEF S, T
  <2> QED
    BY <2>4, <2>8, Zenon
<1>5. Set!EntriesAccounted
  BY <1>4, Zenon DEF Set!EntriesAccounted
<1>6. ASSUME s_fresh, s_cursor = n PROVE s_yielded = Set!Contents
  <2>1. s_yielded = Passed(n, s_table, s_value, s_state, n)
    BY <1>1, <1>6 DEF SetOf
  <2>2. Passed(n, s_table, s_value, s_state, n) = Members(s_value, s_state)
    <3>1. ASSUME NEW v \in Passed(n, s_table, s_value, s_state, n) PROVE v \in Members(s_value, s_state)
      <4>1. PICK i \in Occupied(n, s_table) : s_state[s_table[i]] = "set" /\ v = s_value[s_table[i]]
        BY DEF Passed
      <4>2. s_table[i] \in Set!Entries /\ v \in SetAsked.values
        BY <1>2, <4>1 DEF Occupied, Probed
      <4> QED
        BY <4>1, <4>2 DEF Members
    <3>2. ASSUME NEW v \in Members(s_value, s_state) PROVE v \in Passed(n, s_table, s_value, s_state, n)
      <4>1. PICK e \in Set!Entries : s_state[e] = "set" /\ s_value[e] = v
        BY DEF Members
      <4>2. PICK i \in 0 .. n - 1 : s_table[i] = e
        BY <1>2, <4>1 DEF Placed, InTable
      <4>3. i \in Occupied(n, s_table) /\ i < n
        BY <1>2, <4>2 DEF Occupied
      <4> QED
        BY <4>1, <4>2, <4>3 DEF Passed
    <3> QED
      BY <3>1, <3>2
  <2> QED
    BY <1>1, <2>1, <2>2, SetContentsNow
<1>7. Set!IterationComplete
  BY <1>2, <1>6 DEF Set!IterationComplete
<1> QED
  BY <1>3, <1>5, <1>7

LEMMA SetExact ==
  ASSUME Set!SizesAssumption, SetInv
  PROVE  Set!CountsSound /\ Set!EntriesAccounted /\ Set!IterationComplete
<1>1. CASE Bare
  <2>1. DOMAIN s_table = {} /\ DOMAIN s_free = {}
    BY <1>1 DEF Bare, Blank, Set!NoTable, Set!EmptyTable
  <2>2. Set!Cardinality({}) = 0 /\ Cardinality({}) = 0
    BY SetSame, FS_EmptySet
  <2>3. Set!Occupied(0) = {} /\ {i \in DOMAIN s_table : s_table[i] = Set!TOMBSTONE} = {}
    BY <2>1 DEF Set!Occupied
  <2>4. s_items = 0 /\ s_tombstones = 0
    BY <1>1 DEF Bare, Blank
  <2>5. Set!CountsSound
    BY <2>2, <2>3, <2>4 DEF Set!CountsSound
  <2>6. ASSUME NEW e \in Set!Entries
        PROVE  /\ {i \in DOMAIN s_table : s_table[i] = e} = {} /\ {k \in DOMAIN s_free : s_free[k] = e} = {}
               /\ s_state[e] = "unused"
    BY <1>1, <2>1 DEF Bare, Blank
  <2>7. Set!EntriesAccounted
    BY <2>2, <2>6 DEF Set!EntriesAccounted
  <2>8. Set!Contents = {}
    BY <2>1, SetContentsRead DEF TableMembers
  <2>9. Set!IterationComplete
    BY <1>1, <2>8 DEF Set!IterationComplete, Bare
  <2> QED
    BY <2>5, <2>7, <2>9
<1>2. CASE \E n \in Nat : SetOf(n)
  BY <1>2, TableExact
<1> QED
  BY <1>1, <1>2 DEF SetInv

-----------------------------------------------------------------------------
(* The proofs are about the arguments, the steps and the properties of      *)
(* these instances.                                                         *)
Pr == INSTANCE AllocatorProofs
  WITH Nodes <- LibcNodes, Memories <- LayoutAsked.starts, Lengths <- LayoutAsked.lengths,
       ChunkSizes <- LayoutAsked.sizes,
       Start <- GrowingAsked.start, Granule <- GrowingAsked.granule, RefusedIn <- GrowingAsked.refused,
       Starts <- ArenaAsked.starts, Length <- ArenaAsked.length, Guards <- ArenaAsked.guards, Sizes <- ArenaAsked.sizes,
       Alignments <- ArenaAsked.alignments, MaxBlocks <- ArenaAsked.blocks,
       mallocd <- l_mallocd, prev <- l_prev, next <- l_next, head <- l_head, owner <- l_owner,
       kids <- l_kids, walk <- l_walk, touched <- l_touched,
       memory_start <- y_memory_start, memory_end <- y_memory_end,
       allocation_size <- y_allocation_size, cursor <- y_cursor, remaining <- y_remaining,
       chunks <- y_chunks, chunk_count <- y_chunk_count, done <- y_done,
       windows <- i_windows, valid <- i_valid, committed <- i_committed, backed <- i_backed,
       start <- a_start, guard <- a_guard, current <- a_current, blocks <- a_blocks,
       saved <- a_saved, survivors <- a_survivors

GrowingPr == INSTANCE AllocatorProofs
  WITH Nodes <- LibcNodes, Memories <- LayoutAsked.starts, Lengths <- LayoutAsked.lengths,
       ChunkSizes <- LayoutAsked.sizes,
       Start <- GrowingAsked.start, Granule <- GrowingAsked.granule, RefusedIn <- GrowingAsked.refused,
       Starts <- ArenaAsked.starts, Length <- GrowingAsked.length, Guards <- GrowingAsked.guards, Sizes <- GrowingAsked.sizes,
       Alignments <- GrowingAsked.alignments, MaxBlocks <- GrowingAsked.blocks,
       mallocd <- l_mallocd, prev <- l_prev, next <- l_next, head <- l_head, owner <- l_owner,
       kids <- l_kids, walk <- l_walk, touched <- l_touched,
       memory_start <- y_memory_start, memory_end <- y_memory_end,
       allocation_size <- y_allocation_size, cursor <- y_cursor, remaining <- y_remaining,
       chunks <- y_chunks, chunk_count <- y_chunk_count, done <- y_done,
       windows <- i_windows, valid <- i_valid, committed <- i_committed, backed <- i_backed,
       start <- a_start, guard <- i_guard, current <- i_current, blocks <- i_blocks,
       saved <- i_saved, survivors <- i_survivors

LEMMA LayoutSame ==
  /\ Layout!ArgumentsAssumption <=> Pr!Layout!ArgumentsAssumption
  /\ Layout!Init <=> Pr!Layout!Init
  /\ Layout!Next <=> Pr!Layout!Next
  /\ Layout!ChunksApart <=> Pr!Layout!ChunksApart
<1>1. Layout!ArgumentsAssumption <=> Pr!Layout!ArgumentsAssumption
  BY DEF Layout!ArgumentsAssumption, Pr!Layout!ArgumentsAssumption
<1>2. (Layout!Init <=> Pr!Layout!Init) /\ (Layout!Next <=> Pr!Layout!Next)
  BY DEF
       Layout!Header, Layout!arguments, Layout!vars, Layout!Init,
       Layout!Alignment, Layout!AlignUpwards, Layout!NextChunk, Layout!Another,
       Layout!PushChunk, Layout!Finish, Layout!Next, Pr!Layout!Header,
       Pr!Layout!arguments, Pr!Layout!vars, Pr!Layout!Init,
       Pr!Layout!Alignment, Pr!Layout!AlignUpwards,
       Pr!Layout!NextChunk, Pr!Layout!Another,
       Pr!Layout!PushChunk, Pr!Layout!Finish, Pr!Layout!Next
<1>3. Layout!ChunksApart <=> Pr!Layout!ChunksApart
  BY DEF
       Layout!ChunksApart, Layout!Header, Pr!Layout!ChunksApart,
       Pr!Layout!Header
<1> QED
  BY <1>1, <1>2, <1>3

LEMMA ArenaSame ==
  /\ Bump!ArenaArguments <=> Pr!Bump!ArenaArguments
  /\ Bump!Init <=> Pr!Bump!Init
  /\ Bump!Next <=> Pr!Bump!Next
  /\ Bump!BlocksApart <=> Pr!Bump!BlocksApart
<1>1. Bump!ArenaArguments <=> Pr!Bump!ArenaArguments
  BY DEF Bump!ArenaArguments, Pr!Bump!ArenaArguments
<1>2. (Bump!Init <=> Pr!Bump!Init) /\ (Bump!Next <=> Pr!Bump!Next)
  BY DEF
       Bump!memory, Bump!vars, Bump!end, Bump!Block, Bump!Owners, Bump!Init,
       Bump!Fits, Bump!Allocate, Bump!AllocateFails, Bump!AlignedFor, Bump!Last,
       Bump!ReallocateInPlace, Bump!ReallocateMoves, Bump!ReallocateFails,
       Bump!Free, Bump!ChildFreeAll, Bump!Reset, Bump!SaveRestorePoint,
       Bump!LoadRestorePoint, Bump!Next, Bump!Header, Bump!AlignUpwards,
       Bump!EffectiveAlignment, Bump!Place, Bump!BlockEnd, Bump!Cardinality,
       Pr!Bump!memory, Pr!Bump!vars, Pr!Bump!end,
       Pr!Bump!Block, Pr!Bump!Owners, Pr!Bump!Init,
       Pr!Bump!Fits, Pr!Bump!Allocate, Pr!Bump!AllocateFails,
       Pr!Bump!AlignedFor, Pr!Bump!Last,
       Pr!Bump!ReallocateInPlace, Pr!Bump!ReallocateMoves,
       Pr!Bump!ReallocateFails, Pr!Bump!Free,
       Pr!Bump!ChildFreeAll, Pr!Bump!Reset,
       Pr!Bump!SaveRestorePoint, Pr!Bump!LoadRestorePoint,
       Pr!Bump!Next, Pr!Bump!Header, Pr!Bump!AlignUpwards,
       Pr!Bump!EffectiveAlignment, Pr!Bump!Place,
       Pr!Bump!BlockEnd, Pr!Bump!Cardinality
<1>3. Bump!BlocksApart <=> Pr!Bump!BlocksApart
  BY DEF
       Bump!BlocksApart, Bump!end, Bump!Inside, Bump!Apart, Bump!BlockEnd,
       Bump!Header, Pr!Bump!BlocksApart, Pr!Bump!end,
       Pr!Bump!Inside, Pr!Bump!Apart, Pr!Bump!BlockEnd,
       Pr!Bump!Header
<1> QED
  BY <1>1, <1>2, <1>3

LEMMA InfiniteSame ==
  /\ Growing!InfiniteArenaArguments <=> GrowingPr!Growing!InfiniteArenaArguments
  /\ Growing!Init <=> GrowingPr!Growing!Init
  /\ Growing!Next <=> GrowingPr!Growing!Next
  /\ Growing!BlocksApart <=> GrowingPr!Growing!BlocksApart
  /\ Growing!BlocksCommitted <=> GrowingPr!Growing!BlocksCommitted
<1>1. Growing!InfiniteArenaArguments <=> GrowingPr!Growing!InfiniteArenaArguments
  BY DEF Growing!InfiniteArenaArguments, GrowingPr!Growing!InfiniteArenaArguments
<1>2. (Growing!Init <=> GrowingPr!Growing!Init) /\ (Growing!Next <=> GrowingPr!Growing!Next)
  BY DEF
       Growing!build, Growing!point, Growing!commits, Growing!vars, Growing!end,
       Growing!CommittedEnd, Growing!Block, Growing!SomeBlocks, Growing!Init,
       Growing!Missing, Growing!NeedsCommit, Growing!CommitPossible,
       Growing!MayFailToCommit, Growing!CommitUpTo, Growing!Fits, Growing!Take,
       Growing!Allocate, Growing!AllocateFails, Growing!ReallocateSmaller,
       Growing!CanResizeInPlace, Growing!ReallocateInPlace,
       Growing!ReallocateCannotCommit, Growing!ReallocateMoves,
       Growing!ReallocateFails, Growing!Free, Growing!Reset,
       Growing!SaveRestorePoint, Growing!LoadRestorePoint, Growing!Release,
       Growing!InitAgain, Growing!Next, Growing!Header, Growing!AlignUpwards,
       Growing!EffectiveAlignment, Growing!Place, Growing!BlockEnd,
       Growing!Cardinality, GrowingPr!Growing!build, GrowingPr!Growing!point,
       GrowingPr!Growing!commits, GrowingPr!Growing!vars, GrowingPr!Growing!end,
       GrowingPr!Growing!CommittedEnd, GrowingPr!Growing!Block,
       GrowingPr!Growing!SomeBlocks, GrowingPr!Growing!Init,
       GrowingPr!Growing!Missing, GrowingPr!Growing!NeedsCommit,
       GrowingPr!Growing!CommitPossible, GrowingPr!Growing!MayFailToCommit,
       GrowingPr!Growing!CommitUpTo, GrowingPr!Growing!Fits,
       GrowingPr!Growing!Take, GrowingPr!Growing!Allocate,
       GrowingPr!Growing!AllocateFails, GrowingPr!Growing!ReallocateSmaller,
       GrowingPr!Growing!CanResizeInPlace, GrowingPr!Growing!ReallocateInPlace,
       GrowingPr!Growing!ReallocateCannotCommit,
       GrowingPr!Growing!ReallocateMoves, GrowingPr!Growing!ReallocateFails,
       GrowingPr!Growing!Free, GrowingPr!Growing!Reset,
       GrowingPr!Growing!SaveRestorePoint, GrowingPr!Growing!LoadRestorePoint,
       GrowingPr!Growing!Release, GrowingPr!Growing!InitAgain,
       GrowingPr!Growing!Next, GrowingPr!Growing!Header,
       GrowingPr!Growing!AlignUpwards, GrowingPr!Growing!EffectiveAlignment,
       GrowingPr!Growing!Place, GrowingPr!Growing!BlockEnd,
       GrowingPr!Growing!Cardinality
<1>3. Growing!BlocksApart <=> GrowingPr!Growing!BlocksApart
  BY DEF
       Growing!BlocksApart, Growing!Inside, Growing!Apart, Growing!BlockEnd,
       Growing!Header, GrowingPr!Growing!BlocksApart, GrowingPr!Growing!Inside,
       GrowingPr!Growing!Apart, GrowingPr!Growing!BlockEnd,
       GrowingPr!Growing!Header
<1>4. Growing!BlocksCommitted <=> GrowingPr!Growing!BlocksCommitted
  BY DEF
       Growing!BlocksCommitted, GrowingPr!Growing!BlocksCommitted
<1> QED
  BY <1>1, <1>2, <1>3, <1>4

LEMMA LibcSame ==
  /\ Libc!LibcNames <=> Pr!Libc!LibcNames
  /\ Libc!Init <=> Pr!Libc!Init
  /\ Libc!Next <=> Pr!Libc!Next
  /\ Libc!ListsSound <=> Pr!Libc!ListsSound
  /\ Libc!NoUseAfterFree <=> Pr!Libc!NoUseAfterFree
  /\ Libc!FreeAllComplete <=> Pr!Libc!FreeAllComplete
<1>1. Libc!LibcNames <=> Pr!Libc!LibcNames
  BY DEF Libc!LibcNames, Pr!Libc!LibcNames
<1>2. (Libc!Init <=> Pr!Libc!Init) /\ (Libc!Next <=> Pr!Libc!Next)
  BY DEF
       Libc!lists, Libc!vars, Libc!Allocators, Libc!NoWalk, Libc!Init,
       Libc!Live, Libc!Idle, Libc!Touch, Libc!Linked, Libc!Unlinked, Libc!Now,
       Libc!Become, Libc!UsedOf, Libc!Allocate, Libc!CreateChild,
       Libc!Reallocate, Libc!Free, Libc!FreeAllBegin, Libc!FreeAllStep,
       Libc!FreeAllEnd, Libc!Next, Pr!Libc!lists, Pr!Libc!vars,
       Pr!Libc!Allocators, Pr!Libc!NoWalk, Pr!Libc!Init,
       Pr!Libc!Live, Pr!Libc!Idle, Pr!Libc!Touch,
       Pr!Libc!Linked, Pr!Libc!Unlinked, Pr!Libc!Now,
       Pr!Libc!Become, Pr!Libc!UsedOf, Pr!Libc!Allocate,
       Pr!Libc!CreateChild, Pr!Libc!Reallocate, Pr!Libc!Free,
       Pr!Libc!FreeAllBegin, Pr!Libc!FreeAllStep,
       Pr!Libc!FreeAllEnd, Pr!Libc!Next
<1>3. Libc!ListsSound <=> Pr!Libc!ListsSound
  BY DEF
       Libc!ListsSound, Libc!Idle, Libc!NoWalk, Libc!Live, Libc!ListOf,
       Libc!Older, Libc!Cardinality, Pr!Libc!ListsSound, Pr!Libc!Idle,
       Pr!Libc!NoWalk, Pr!Libc!Live, Pr!Libc!ListOf,
       Pr!Libc!Older, Pr!Libc!Cardinality
<1>4. Libc!NoUseAfterFree <=> Pr!Libc!NoUseAfterFree
  BY DEF
       Libc!NoUseAfterFree, Pr!Libc!NoUseAfterFree
<1>5. Libc!FreeAllComplete <=> Pr!Libc!FreeAllComplete
  BY DEF
       Libc!FreeAllComplete, Libc!Idle, Libc!NoWalk,
       Pr!Libc!FreeAllComplete, Pr!Libc!Idle, Pr!Libc!NoWalk
<1> QED
  BY <1>1, <1>2, <1>3, <1>4, <1>5

-----------------------------------------------------------------------------
(* The part of a run that does not stand still keeps its invariant, and the *)
(* others have none to keep.                                                *)
LayoutPart == running = "layout" => Pr!LayoutInv
ArenaPart == running = "arena" => Pr!ArenaInv
InfinitePart == running = "infinite" => GrowingPr!GrowingInv /\ GrowingPr!CommitInv
LibcPart == running = "libc" => Pr!LibcInv
SearchPart == running = "search" => SearchInv
ArrayPart == running = "array" => ArrayInv
BuilderPart == running = "builder" => BuilderInv
SetPart == running = "set" => SetInv
OperationPart == running = "operations" => OperationInv
FixedPart == running = "fixed" => FixedInv /\ FixedLifetimes

LEMMA LayoutPartStarts == ASSUME InitAny PROVE LayoutPart
BY Instances, LayoutSame, Pr!LayoutStarts DEF InitAny, LayoutPart

LEMMA LayoutPartKept == ASSUME LayoutPart, [NextAny]_allVars PROVE LayoutPart'
<1>1. running' = running /\ (running = "layout" => Layout!Next \/ UNCHANGED layoutVars)
  BY Zenon DEF NextAny, allVars, allocatorVars
<1>2. CASE running = "layout"
  <2>1. Pr!LayoutInv
    BY <1>2 DEF LayoutPart
  <2>2. [Pr!Layout!Next]_(Pr!Layout!vars)
    BY <1>1, <1>2, LayoutSame DEF layoutVars, Pr!Layout!vars, Pr!Layout!arguments
  <2> QED
    BY <2>1, <2>2, Pr!LayoutKept DEF LayoutPart
<1> QED
  BY <1>1, <1>2 DEF LayoutPart

LEMMA ArenaPartStarts == ASSUME InitAny PROVE ArenaPart
BY Instances, ArenaSame, Pr!ArenaStarts DEF InitAny, ArenaPart

LEMMA ArenaPartKept == ASSUME ArenaPart, [NextAny]_allVars PROVE ArenaPart'
<1>1. running' = running /\ (running = "arena" => Bump!Next \/ UNCHANGED arenaVars)
  BY Zenon DEF NextAny, allVars, allocatorVars, textVars
<1>2. CASE running = "arena"
  <2>1. Pr!ArenaInv
    BY <1>2 DEF ArenaPart
  <2>2. [Pr!Bump!Next]_(Pr!Bump!vars)
    BY <1>1, <1>2, ArenaSame DEF arenaVars, Pr!Bump!vars, Pr!Bump!memory
  <2> QED
    BY <2>1, <2>2, Instances, ArenaSame, Pr!ArenaKept DEF ArenaPart
<1> QED
  BY <1>1, <1>2 DEF ArenaPart

(* The infinite arena is proved about where the system refuses no           *)
(* reallocation its memory and the reserved memory ends with a granule.     *)
GrowingAssumption ==
  GrowingAsked.length % GrowingAsked.granule = 0 /\ "reallocate" \notin GrowingAsked.refused

LEMMA InfinitePartStarts == ASSUME InitAny PROVE InfinitePart
BY Instances, InfiniteSame, GrowingPr!GrowingStarts, GrowingPr!CommitStarts DEF InitAny, InfinitePart

LEMMA InfinitePartKept == ASSUME GrowingAssumption, InfinitePart, [NextAny]_allVars PROVE InfinitePart'
<1>1. running' = running /\ (running = "infinite" => Growing!Next \/ UNCHANGED infiniteVars)
  BY Zenon DEF NextAny, allVars, allocatorVars, textVars
<1>2. CASE running = "infinite"
  <2>1. GrowingPr!GrowingInv /\ GrowingPr!CommitInv
    BY <1>2 DEF InfinitePart
  <2>2. [GrowingPr!Growing!Next]_(GrowingPr!Growing!vars)
    BY <1>1, <1>2, InfiniteSame DEF infiniteVars, GrowingPr!Growing!vars, GrowingPr!Growing!build, GrowingPr!Growing!point, GrowingPr!Growing!commits
  <2> QED
    BY <2>1, <2>2, Instances, InfiniteSame, GrowingPr!GrowingKept, GrowingPr!CommitKept
       DEF InfinitePart, GrowingAssumption, GrowingPr!WholeGranules, GrowingPr!NeverRefused
<1> QED
  BY <1>1, <1>2 DEF InfinitePart

LEMMA LibcPartStarts == ASSUME InitAny PROVE LibcPart
BY Instances, LibcSame, Pr!LibcStarts DEF InitAny, LibcPart

LEMMA LibcPartKept == ASSUME LibcPart, [NextAny]_allVars PROVE LibcPart'
<1>1. running' = running /\ (running = "libc" => Libc!Next \/ UNCHANGED libcVars)
  BY Zenon DEF NextAny, allVars, allocatorVars, textVars
<1>2. CASE running = "libc"
  <2>1. Pr!LibcInv
    BY <1>2 DEF LibcPart
  <2>2. [Pr!Libc!Next]_(Pr!Libc!vars)
    BY <1>1, <1>2, LibcSame DEF libcVars, Pr!Libc!vars, Pr!Libc!lists
  <2> QED
    BY <2>1, <2>2, Instances, LibcSame, Pr!LibcKeeps DEF LibcPart
<1> QED
  BY <1>1, <1>2 DEF LibcPart

LEMMA SearchPartStarts == ASSUME InitAny PROVE SearchPart
BY Instances, SearchStarts DEF InitAny, SearchPart

LEMMA SearchPartKept == ASSUME SearchPart, [NextAny]_allVars PROVE SearchPart'
<1>1. running' = running /\ (running = "search" => Search!Next \/ UNCHANGED searchVars)
  BY Zenon DEF NextAny, allVars, allocatorVars, textVars
<1>2. CASE running = "search"
  <2>1. SearchInv
    BY <1>2 DEF SearchPart
  <2>2. [Search!Next]_(Search!vars)
    BY <1>1, <1>2 DEF searchVars, Search!vars, Search!arguments, Search!window
  <2> QED
    BY <2>1, <2>2, Instances, SearchKept DEF SearchPart
<1> QED
  BY <1>1, <1>2 DEF SearchPart

LEMMA ArrayPromiseStarts == ASSUME Array!Init PROVE Array!Promise!Init
BY DEF Array!Init, Array!Promise!Init, Array!Contents

LEMMA BuilderPromiseStarts == ASSUME Builder!Init PROVE Builder!Promise!Init
BY DEF Builder!Init, Builder!Promise!Init

LEMMA ArrayPartStarts == ASSUME InitAny PROVE ArrayPart
BY Instances, ArrayStarts DEF InitAny, ArrayPart

LEMMA ArrayPartKept ==
  ASSUME ArrayPart, [NextAny]_allVars
  PROVE  ArrayPart' /\ [running = "array" => ArrayPromised]_arrayVars
<1>1. running' = running /\ (running = "array" => Array!Next \/ UNCHANGED arrayVars)
  BY Zenon DEF NextAny, allVars, containerVars
<1>2. CASE running # "array"
  BY <1>1, <1>2, Zenon DEF ArrayPart
<1>3. CASE running = "array" /\ Array!Next
  <2>1. ArrayInv
    BY <1>3 DEF ArrayPart
  <2>2. Array!ArrayArguments
    BY Instances, Zenon
  <2>3. ArrayInv' /\ ArrayPromised
    BY <1>3, <2>1, <2>2, ArrayStep
  <2> QED
    BY <2>3, Zenon DEF ArrayPart
<1>4. CASE running = "array" /\ UNCHANGED arrayVars
  <2>1. ArrayInv
    BY <1>4 DEF ArrayPart
  <2>2. ArrayInv'
    BY <1>4, <2>1, Zenon DEF ArrayInv, arrayVars
  <2> QED
    BY <1>4, <2>2, Zenon DEF ArrayPart
<1> QED
  BY <1>1, <1>2, <1>3, <1>4, Zenon

LEMMA BuilderPartStarts == ASSUME InitAny PROVE BuilderPart
BY Instances, BuilderStarts DEF InitAny, BuilderPart

LEMMA BuilderPartKept ==
  ASSUME BuilderPart, [NextAny]_allVars
  PROVE  BuilderPart' /\ [running = "builder" => BuilderPromised]_builderVars
<1>1. running' = running /\ (running = "builder" => Builder!Next \/ UNCHANGED builderVars)
  BY Zenon DEF NextAny, allVars, containerVars
<1>2. CASE running # "builder"
  BY <1>1, <1>2, Zenon DEF BuilderPart
<1>3. CASE running = "builder" /\ Builder!Next
  <2>1. BuilderInv
    BY <1>3 DEF BuilderPart
  <2>2. Builder!BuilderArguments
    BY Instances, Zenon
  <2>3. BuilderInv' /\ BuilderPromised
    BY <1>3, <2>1, <2>2, BuilderStep
  <2> QED
    BY <2>3, Zenon DEF BuilderPart
<1>4. CASE running = "builder" /\ UNCHANGED builderVars
  <2>1. BuilderInv
    BY <1>4 DEF BuilderPart
  <2>2. BuilderInv'
    BY <1>4, <2>1 DEF BuilderInv, builderVars, Builder!InsideTheBlock, Builder!length
  <2> QED
    BY <1>4, <2>2, Zenon DEF BuilderPart
<1> QED
  BY <1>1, <1>2, <1>3, <1>4, Zenon

LEMMA SetPartStarts == ASSUME InitAny PROVE SetPart
BY Instances, SetStarts DEF InitAny, SetPart

LEMMA SetPartKept ==
  ASSUME SetPart, [NextAny]_allVars
  PROVE  SetPart' /\ [running = "set" => SetPromised]_setVars
<1>1. running' = running /\ (running = "set" => Set!Next \/ UNCHANGED setVars)
  BY Zenon DEF NextAny, allVars, containerVars
<1>2. CASE running # "set"
  BY <1>1, <1>2, Zenon DEF SetPart
<1>3. CASE running = "set" /\ Set!Next
  <2>1. SetInv
    BY <1>3 DEF SetPart
  <2>2. Set!SizesAssumption /\ Set!ValuesAssumption
    BY Instances, Zenon
  <2>3. SetInv' /\ SetPromised
    BY <1>3, <2>1, <2>2, SetStep
  <2> QED
    BY <2>3, Zenon DEF SetPart
<1>4. CASE running = "set" /\ UNCHANGED setVars
  <2>1. SetInv
    BY <1>4 DEF SetPart
  <2>2. SetInv'
    BY <1>4, <2>1, Zenon DEF SetInv, SetOf, Bare, Blank, setVars
  <2> QED
    BY <1>4, <2>2, Zenon DEF SetPart
<1> QED
  BY <1>1, <1>2, <1>3, <1>4, Zenon

LEMMA OperationPartStarts == ASSUME InitAny PROVE OperationPart
BY OperationStarts DEF InitAny, OperationPart

LEMMA OperationPartKept == ASSUME OperationPart, [NextAny]_allVars PROVE OperationPart'
<1>1. running' = running /\ (running = "operations" => Operations!Next \/ UNCHANGED operationVars)
  BY Zenon DEF NextAny, allVars, containerVars
<1>2. CASE running # "operations"
  BY <1>1, <1>2, Zenon DEF OperationPart
<1>3. CASE running = "operations" /\ Operations!Next
  <2>1. OperationInv
    BY <1>3 DEF OperationPart
  <2> QED
    BY <1>3, <2>1, OperationStep DEF OperationPart
<1>4. CASE running = "operations" /\ UNCHANGED operationVars
  <2>1. OperationInv
    BY <1>4 DEF OperationPart
  <2>2. OperationShape' /\ OutGrows' /\ LoopsOver' = LoopsOver /\ Collected' = Collected
    BY <1>4, <2>1, Zenon
       DEF OperationInv, operationVars, OperationShape, OutGrows, LoopsOver, Collected, Wanted,
           Operations!NothingElse, Operations!Result, Operations!Source
  <2>3. OperationInv'
    BY <1>4, <2>1, <2>2, Zenon DEF OperationInv, operationVars
  <2> QED
    BY <1>4, <2>3, Zenon DEF OperationPart
<1> QED
  BY <1>1, <1>2, <1>3, <1>4, Zenon

LEMMA FixedPartStarts == ASSUME InitAny PROVE FixedPart
BY Instances, FixedStarts, LifetimesStart DEF InitAny, FixedPart

LEMMA FixedPartKept ==
  ASSUME FixedPart, [NextAny]_allVars
  PROVE  FixedPart' /\ [running = "fixed" => FixedPromised]_fixedVars
<1>1. running' = running /\ (running = "fixed" => Fixed!Next \/ UNCHANGED fixedVars)
  BY Zenon DEF NextAny, allVars, containerVars
<1>2. CASE running # "fixed"
  BY <1>1, <1>2, Zenon DEF FixedPart
<1>3. CASE running = "fixed" /\ Fixed!Next
  <2>1. FixedInv /\ FixedLifetimes
    BY <1>3 DEF FixedPart
  <2>2. Fixed!Sizes
    BY Instances, Zenon
  <2>3. FixedInv' /\ FixedPromised /\ FixedLifetimes'
    BY <1>3, <2>1, <2>2, FixedStep, LifetimesStep
  <2> QED
    BY <2>3, Zenon DEF FixedPart
<1>4. CASE running = "fixed" /\ UNCHANGED fixedVars
  <2>1. FixedInv /\ FixedLifetimes
    BY <1>4 DEF FixedPart
  <2>2. FixedInv' /\ FixedLifetimes'
    BY <1>4, <2>1, Zenon DEF FixedInv, FixedLifetimes, fixedVars
  <2> QED
    BY <1>4, <2>2, Zenon DEF FixedPart
<1> QED
  BY <1>1, <1>2, <1>3, <1>4, Zenon

(* What the proof of BlocksSound keeps: each part its own invariant.       *)
PartsSound == LayoutPart /\ ArenaPart /\ InfinitePart /\ LibcPart /\ ArrayPart /\ BuilderPart

(* In a run of any of the allocators, whatever sizes, alignments and memory *)
(* it is given: no two blocks of one overlap, what an infinite arena gave   *)
(* out is committed, the list of a libc allocator is what it has from       *)
(* malloc, nothing freed is touched and free_all spares none; an array and  *)
(* a string builder have exactly one block where they have any cell, none   *)
(* after their free, and their elements are inside it.                      *)
THEOREM LibraryBlocksSound ==
  ASSUME GrowingAssumption, Pr!IsFiniteSet(LibcNodes) PROVE SpecAny => []BlocksSound
<1>1. InitAny => PartsSound
  BY LayoutPartStarts, ArenaPartStarts, InfinitePartStarts, LibcPartStarts, ArrayPartStarts, BuilderPartStarts
     DEF PartsSound
<1>2. PartsSound /\ [NextAny]_allVars => PartsSound'
  BY LayoutPartKept, ArenaPartKept, InfinitePartKept, LibcPartKept, ArrayPartKept, BuilderPartKept
     DEF PartsSound
<1>3. PartsSound => BlocksSound
  <2> SUFFICES ASSUME PartsSound PROVE BlocksSound
    OBVIOUS
  <2>1. running = "layout" => Layout!ChunksApart
    BY LayoutSame, Pr!LayoutApart DEF PartsSound, LayoutPart
  <2>2. running = "arena" => Bump!BlocksApart
    BY ArenaSame, Pr!ArenaApart DEF PartsSound, ArenaPart
  <2>3. running = "infinite" => Growing!BlocksApart /\ Growing!BlocksCommitted
    BY InfiniteSame, GrowingPr!GrowingApart, GrowingPr!HeldIsCommitted DEF PartsSound, InfinitePart
  <2>4. running = "libc" => Libc!ListsSound /\ Libc!NoUseAfterFree /\ Libc!FreeAllComplete
    BY Instances, LibcSame, Pr!ListsMatch, Pr!NoneTouched, Pr!NoneSpared DEF PartsSound, LibcPart
  <2>5. running = "array" => Array!BlockAccounted
    BY DEF PartsSound, ArrayPart, ArrayInv, ArrayShape, Array!BlockAccounted
  <2>6. running = "builder" => Builder!InsideTheBlock
    BY DEF PartsSound, BuilderPart, BuilderInv
  <2> QED
    BY <2>1, <2>2, <2>3, <2>4, <2>5, <2>6 DEF BlocksSound
<1> QED
  BY <1>1, <1>2, <1>3, PTL DEF SpecAny

(* In a run of the searches, in any string and on a build with any vectors: *)
(* the search for a substring and for a byte returns the first occurrence.  *)
THEOREM LibraryFirstFound == SpecAny => []FirstFound
<1>1. SearchPart => FirstFound
  BY DEF SearchPart, FirstFound, SearchInv
<1> QED
  BY <1>1, SearchPartStarts, SearchPartKept, PTL DEF SpecAny

(* A generated array of any capacity and with whatever is put into it: its  *)
(* elements change as the sequence of AbstractSequence, and a call that     *)
(* finds no memory leaves them.                                             *)
THEOREM LibraryArrayKeepsPromise ==
  SpecAny => Array!Promise!Init /\ [][running = "array" => ArrayPromised]_arrayVars
<1>1. InitAny => Array!Promise!Init
  BY ArrayPromiseStarts DEF InitAny
<1>2. ArrayPart /\ [NextAny]_allVars => ArrayPart' /\ [running = "array" => ArrayPromised]_arrayVars
  BY ArrayPartKept
<1> QED
  BY <1>1, <1>2, ArrayPartStarts, PTL DEF SpecAny

(* A string builder of any capacity: its bytes change as the same sequence. *)
THEOREM LibraryBuilderKeepsPromise ==
  SpecAny => Builder!Promise!Init /\ [][running = "builder" => BuilderPromised]_builderVars
<1>1. InitAny => Builder!Promise!Init
  BY BuilderPromiseStarts DEF InitAny
<1>2. BuilderPart /\ [NextAny]_allVars => BuilderPart' /\ [running = "builder" => BuilderPromised]_builderVars
  BY BuilderPartKept
<1> QED
  BY <1>1, <1>2, BuilderPartStarts, PTL DEF SpecAny

(* What the proof of ContainersSound keeps.                                 *)
SetsSound == SetPart /\ OperationPart /\ FixedPart

(* In a run of the string set, of the operations on sets or of a generated  *)
(* map, with any values, any hash of them, any load factor and any length:  *)
(* the counters count, an entry of a set is in one slot or once in the free *)
(* list, and an iterator that no change made invalid has returned all at    *)
(* its end.  As long as no deletion has moved an entry of a map, its        *)
(* lifetimes tell which of its strings are copies of its own.               *)
(* Union, intersection and difference add exactly their result, also where  *)
(* out is one of the two they read.                                         *)
THEOREM LibraryContainersSound == SpecAny => []ContainersSound
<1>1. InitAny => SetsSound
  BY SetPartStarts, OperationPartStarts, FixedPartStarts DEF SetsSound
<1>2. SetsSound /\ [NextAny]_allVars => SetsSound'
  BY SetPartKept, OperationPartKept, FixedPartKept DEF SetsSound
<1>3. SetsSound => ContainersSound
  <2> SUFFICES ASSUME SetsSound PROVE ContainersSound
    OBVIOUS
  <2>1. running = "set" => Set!CountsSound /\ Set!EntriesAccounted /\ Set!IterationComplete
    BY Instances, SetExact DEF SetsSound, SetPart
  <2>2. running = "operations" => Operations!ResultExact /\ Operations!NothingElse
    BY OperationsExact DEF SetsSound, OperationPart
  <2>3. running = "fixed" => Fixed!CountsSound /\ Fixed!LifetimesKept /\ Fixed!IterationComplete
    BY Instances, FixedExact DEF SetsSound, FixedPart
  <2> QED
    BY <2>1, <2>2, <2>3 DEF ContainersSound
<1> QED
  BY <1>1, <1>2, <1>3, PTL DEF SpecAny

(* What the proof of ContainersKeepPromise keeps.                           *)
PromiseKept == SetPart /\ FixedPart /\ ArrayPart /\ BuilderPart

(* The string set, the generated map, the generated array and the string    *)
(* builder answer every call, and change at it, as the set, the map and the *)
(* sequence of their abstract specifications, through any rehash, backshift *)
(* and reallocation and whichever allocations fail.  Those specifications   *)
(* weaken what the headers say in the ways they name: an insertion whose    *)
(* copy is lost returns true without the value of a set, or with a key of a *)
(* map that nothing finds, and a full map refuses the update of a key.      *)
THEOREM LibraryContainersKeepPromise == SpecAny => ContainersKeepPromise
<1>1. InitAny => PromiseKept
  BY SetPartStarts, FixedPartStarts, ArrayPartStarts, BuilderPartStarts DEF PromiseKept
<1>2. InitAny => Set!Promise!Init /\ Fixed!Promise!Init /\ Array!Promise!Init /\ Builder!Promise!Init
  BY Instances, SetStarts, FixedStarts, ArrayPromiseStarts, BuilderPromiseStarts DEF InitAny
<1>3. PromiseKept /\ [NextAny]_allVars =>
        /\ PromiseKept'
        /\ [running = "set" => SetPromised]_setVars
        /\ [running = "fixed" => FixedPromised]_fixedVars
        /\ [running = "array" => ArrayPromised]_arrayVars
        /\ [running = "builder" => BuilderPromised]_builderVars
  BY SetPartKept, FixedPartKept, ArrayPartKept, BuilderPartKept DEF PromiseKept
<1> QED
  BY <1>1, <1>2, <1>3, PTL
     DEF SpecAny, ContainersKeepPromise, SetPromised, FixedPromised, ArrayPromised, BuilderPromised

=============================================================================
