---------------------------- MODULE AllocatorProofs ----------------------------
(***************************************************************************)
(* Proofs about the allocators, for every memory, every size and every     *)
(* alignment: the blocks of an arena and of an infinite arena lie apart,   *)
(* and what an infinite arena gave out is committed; the chunks of a pool  *)
(* lie apart; the list of a libc allocator is what it has from malloc, no  *)
(* header is touched after its free and free_all spares none.              *)
(***************************************************************************)
EXTENDS BumpLayout, FiniteSetTheorems, Sequences, TLAPS

(* The names that the two arenas have in common are declared once; every    *)
(* theorem is about one allocator.                                          *)
CONSTANTS
  Nodes, Root, Null,               \* libc allocator
  Memories, Lengths, ChunkSizes,   \* layout of a pool
  Starts, Start, Length, Granule, Guards, Sizes, Alignments, RefusedIn, MaxBlocks, NoPoint

VARIABLES
  mallocd, prev, next, head, owner, kids, walk, touched,
  start, guard, current, blocks, saved, survivors,
  windows, valid, committed, backed,
  memory_start, memory_end, allocation_size, cursor, remaining, chunks, chunk_count, done

Libc == INSTANCE LibcAllocator
Bump == INSTANCE Arena
Growing == INSTANCE InfiniteArena
Layout == INSTANCE PoolLayout WITH Starts <- Memories, Sizes <- ChunkSizes

-----------------------------------------------------------------------------
(* Induction: a set of numbers that is not empty has a least one, so what   *)
(* is false of some number is false of a first.                             *)
LEMMA LeastOf ==
  ASSUME NEW S \in SUBSET Nat, S # {}
  PROVE  \E m \in S : \A k \in S : m <= k
<1> DEFINE Up == {0 .. m - 1 : m \in S}
<1>1. Up \subseteq FiniteSubsetsOf(Nat)
  <2> SUFFICES ASSUME NEW m \in S PROVE 0 .. m - 1 \in FiniteSubsetsOf(Nat)
    OBVIOUS
  <2>1. IsFiniteSet(0 .. m - 1)
    BY FS_Interval
  <2> QED
    BY <2>1 DEF FiniteSubsetsOf
<1>2. PICK X \in Up : \A Y \in Up : ~(<<Y, X>> \in StrictSubsetOrdering(Nat))
  <2>1. Up # {}
    OBVIOUS
  <2>2. IsWellFoundedOn(StrictSubsetOrdering(Nat), FiniteSubsetsOf(Nat))
    BY FS_StrictSubsetOrderingWellFounded
  <2> QED
    BY <1>1, <2>1, <2>2, WFMin
<1>3. PICK m \in S : X = 0 .. m - 1
  OBVIOUS
<1>4. ASSUME NEW k \in S PROVE m <= k
  <2> SUFFICES ASSUME k < m PROVE FALSE
    OBVIOUS
  <2>1. 0 .. k - 1 \in Up /\ 0 .. k - 1 \subseteq X /\ 0 .. k - 1 # X
    BY <1>3
  <2> QED
    BY <1>1, <1>2, <2>1 DEF StrictSubsetOrdering, FiniteSubsetsOf
<1> QED
  BY <1>4

-----------------------------------------------------------------------------
(* The headers of a list, the oldest first, as the links l lead along them. *)
Newest(s) == IF s = <<>> THEN Null ELSE s[Len(s)]
Among(s) == {s[i] : i \in 1 .. Len(s)}
IsList(l, s) ==
  /\ s \in Seq(Nodes)
  /\ \A i, j \in 1 .. Len(s) : s[i] = s[j] => i = j
  /\ \A i \in 1 .. Len(s) : l.prev[s[i]] = IF i = 1 THEN Null ELSE s[i - 1]
  /\ \A i \in 1 .. Len(s) - 1 : l.next[s[i]] = s[i + 1]
Ended(l, s) == s # <<>> => l.next[s[Len(s)]] = Null
Links ==
  [prev : [Nodes -> Nodes \cup {Null}], next : [Nodes -> Nodes \cup {Null}],
   head : [Libc!Allocators -> Nodes \cup {Null}]]

(* The walk from the newest header along prev goes through the list.        *)
LEMMA OlderIs ==
  ASSUME NEW s, IsList(Libc!Now, s), Null \notin Nodes, NEW k \in Nat
  PROVE  Libc!Older(Newest(s), k) = IF k < Len(s) THEN s[Len(s) - k] ELSE Null
<1> DEFINE h == Newest(s)
           At(i) == IF i < Len(s) THEN s[Len(s) - i] ELSE Null
           Steps(f) == f = [i \in 0 .. k |-> IF i = 0 THEN h ELSE IF f[i - 1] = Null THEN Null ELSE prev[f[i - 1]]]
           g == [i \in 0 .. k |-> At(i)]
           f == CHOOSE o : Steps(o)
<1>1. ASSUME NEW i \in 0 .. k
      PROVE  At(i) = IF i = 0 THEN h ELSE IF At(i - 1) = Null THEN Null ELSE prev[At(i - 1)]
  <2>1. /\ Len(s) \in Nat /\ \A j \in 1 .. Len(s) : s[j] \in Nodes /\ s[j] # Null
        /\ \A j \in 1 .. Len(s) : prev[s[j]] = IF j = 1 THEN Null ELSE s[j - 1]
    BY DEF IsList, Libc!Now
  <2>2. CASE i = 0
    BY <2>1, <2>2 DEF IsList, Newest
  <2>3. CASE i > 0 /\ i - 1 < Len(s)
    <3>1. At(i - 1) = s[Len(s) - i + 1] /\ Len(s) - i + 1 \in 1 .. Len(s)
      BY <2>1, <2>3
    <3> QED
      BY <2>1, <2>3, <3>1
  <2>4. CASE i > 0 /\ i - 1 >= Len(s)
    BY <2>1, <2>4
  <2> QED
    BY <2>1, <2>2, <2>3, <2>4
<1>2. Steps(f)
  <2>1. Steps(g)
    BY <1>1
  <2> QED
    BY <2>1, Zenon
<1>3. Libc!Older(h, k) = f[k]
  BY Zenon DEF Libc!Older
<1> HIDE DEF f
<1>4. \A i \in 0 .. k : f[i] = At(i)
  <2> DEFINE Wrong == {i \in 0 .. k : f[i] # At(i)}
  <2> SUFFICES ASSUME Wrong # {} PROVE FALSE
    OBVIOUS
  <2>1. PICK i \in Wrong : \A e \in Wrong : i <= e
    <3>1. Wrong \in SUBSET Nat
      OBVIOUS
    <3> QED
      BY <3>1, LeastOf
  <2>2. i > 0 => f[i - 1] = At(i - 1)
    BY <2>1
  <2>3. f[i] = IF i = 0 THEN h ELSE IF f[i - 1] = Null THEN Null ELSE prev[f[i - 1]]
    BY <1>2, <2>1
  <2>4. At(i) = IF i = 0 THEN h ELSE IF At(i - 1) = Null THEN Null ELSE prev[At(i - 1)]
    BY <1>1, <2>1
  <2>5. f[i] # At(i) /\ (i = 0 \/ i > 0)
    BY <2>1
  <2> HIDE DEF At
  <2> QED
    BY <2>2, <2>3, <2>4, <2>5
<1> QED
  BY <1>3, <1>4
-----------------------------------------------------------------------------
(* A header that is linked becomes the newest of its list; those of other   *)
(* lists stay as they are.                                                  *)
LEMMA LinkedList ==
  ASSUME NEW l \in Links, NEW a \in Libc!Allocators, NEW n \in Nodes, Null \notin Nodes,
         NEW s, IsList(l, s), l.head[a] = Newest(s), n \notin Among(s)
  PROVE  LET L == Libc!Linked(l, a, n) IN
           /\ L \in Links
           /\ IsList(L, Append(s, n)) /\ Ended(L, Append(s, n)) /\ L.head[a] = Newest(Append(s, n))
           /\ Among(Append(s, n)) = Among(s) \cup {n}
           /\ L.next[n] = Null /\ L.prev[n] = l.head[a] /\ \A c \in Libc!Allocators \ {a} : L.head[c] = l.head[c]
<1> DEFINE L == Libc!Linked(l, a, n)
           t == Append(s, n)
<1>1. /\ l.prev \in [Nodes -> Nodes \cup {Null}] /\ l.next \in [Nodes -> Nodes \cup {Null}]
      /\ l.head \in [Libc!Allocators -> Nodes \cup {Null}]
  BY DEF Links
<1>2. /\ L.prev = [l.prev EXCEPT ![n] = l.head[a]]
      /\ L.next = [[l.next EXCEPT ![n] = Null] EXCEPT
                     ![IF l.head[a] = Null THEN n ELSE l.head[a]] = IF l.head[a] = Null THEN Null ELSE n]
      /\ L.head = [l.head EXCEPT ![a] = n]
      /\ L = [prev |-> L.prev, next |-> L.next, head |-> L.head]
  BY DEF Libc!Linked
<1> HIDE DEF L
<1>3. L.prev \in [Nodes -> Nodes \cup {Null}]
  BY <1>1, <1>2
<1>4. L.next \in [Nodes -> Nodes \cup {Null}]
  BY <1>1, <1>2
<1>5. L.head \in [Libc!Allocators -> Nodes \cup {Null}]
  BY <1>1, <1>2
<1>6. L \in Links
  BY <1>2, <1>3, <1>4, <1>5 DEF Links
<1>7. /\ s \in Seq(Nodes) /\ Len(s) \in Nat /\ \A i \in 1 .. Len(s) : s[i] \in Nodes /\ s[i] # n
      /\ s # <<>> => Len(s) >= 1 /\ l.head[a] = s[Len(s)] /\ l.head[a] # Null
      /\ s = <<>> => Len(s) = 0 /\ l.head[a] = Null
  BY DEF IsList, Among, Newest
<1>8. /\ t \in Seq(Nodes) /\ Len(t) = Len(s) + 1 /\ t[Len(s) + 1] = n
      /\ \A i \in 1 .. Len(s) : t[i] = s[i]
  BY <1>7
<1> HIDE DEF t
<1>9. /\ L.next[n] = Null /\ L.prev[n] = l.head[a]
      /\ \A c \in Libc!Allocators \ {a} : L.head[c] = l.head[c]
  BY <1>1, <1>2, <1>7
<1>10. \A m \in Nodes \ {n} : /\ L.prev[m] = l.prev[m]
                               /\ L.next[m] = IF m = l.head[a] THEN n ELSE l.next[m]
  BY <1>1, <1>2, <1>7
<1>11. IsList(L, t)
  <2>1. \A i, j \in 1 .. Len(t) : t[i] = t[j] => i = j
    BY <1>7, <1>8 DEF IsList
  <2>2. ASSUME NEW i \in 1 .. Len(t) PROVE L.prev[t[i]] = IF i = 1 THEN Null ELSE t[i - 1]
    <3>1. CASE i \in 1 .. Len(s)
      <4>1. t[i] = s[i] /\ s[i] \in Nodes \ {n} /\ (i # 1 => t[i - 1] = s[i - 1])
        BY <1>7, <1>8, <3>1
      <4>2. l.prev[s[i]] = IF i = 1 THEN Null ELSE s[i - 1]
        BY <3>1 DEF IsList
      <4> QED
        BY <1>10, <4>1, <4>2
    <3>2. CASE i = Len(s) + 1
      BY <1>7, <1>8, <1>9, <3>2
    <3> QED
      BY <1>7, <1>8, <3>1, <3>2
  <2>3. ASSUME NEW i \in 1 .. Len(t) - 1 PROVE L.next[t[i]] = t[i + 1]
    <3>1. i \in 1 .. Len(s) /\ t[i] = s[i] /\ s[i] \in Nodes \ {n}
      BY <1>7, <1>8
    <3>2. CASE i = Len(s)
      BY <1>7, <1>8, <1>10, <3>1, <3>2
    <3>3. CASE i < Len(s)
      <4>1. s[i] # s[Len(s)] /\ l.next[s[i]] = s[i + 1] /\ t[i + 1] = s[i + 1]
        BY <1>7, <1>8, <3>1, <3>3 DEF IsList
      <4> QED
        BY <1>7, <1>10, <3>1, <4>1
    <3> QED
      BY <1>7, <3>1, <3>2, <3>3
  <2> QED
    BY <1>8, <2>1, <2>2, <2>3 DEF IsList
<1>12. Ended(L, t) /\ L.head[a] = Newest(t)
  <2>1. t # <<>> /\ t[Len(t)] = n
    BY <1>7, <1>8
  <2>2. L.head[a] = n
    BY <1>1, <1>2
  <2> QED
    BY <1>9, <2>1, <2>2 DEF Ended, Newest
<1>13. Among(t) = Among(s) \cup {n}
  BY <1>7, <1>8 DEF Among
<1> QED
  BY <1>6, <1>9, <1>11, <1>12, <1>13 DEF L, t

LEMMA LinkedElsewhere ==
  ASSUME NEW l \in Links, NEW a \in Libc!Allocators, NEW n \in Nodes, Null \notin Nodes,
         NEW t, IsList(l, t), n \notin Among(t), l.head[a] \notin Among(t)
  PROVE  LET L == Libc!Linked(l, a, n) IN IsList(L, t) /\ (Ended(l, t) => Ended(L, t))
<1> DEFINE L == Libc!Linked(l, a, n)
<1>1. /\ l.prev \in [Nodes -> Nodes \cup {Null}] /\ l.next \in [Nodes -> Nodes \cup {Null}]
      /\ l.head \in [Libc!Allocators -> Nodes \cup {Null}]
  BY DEF Links
<1>2. /\ L.prev = [l.prev EXCEPT ![n] = l.head[a]]
      /\ L.next = [[l.next EXCEPT ![n] = Null] EXCEPT
                     ![IF l.head[a] = Null THEN n ELSE l.head[a]] = IF l.head[a] = Null THEN Null ELSE n]
  BY DEF Libc!Linked
<1> HIDE DEF L
<1>3. \A m \in Among(t) : m \in Nodes /\ L.prev[m] = l.prev[m] /\ L.next[m] = l.next[m]
  <2>1. \A m \in Among(t) : m \in Nodes /\ m # n /\ m # l.head[a]
    BY DEF IsList, Among
  <2> QED
    BY <1>1, <1>2, <2>1
<1>4. t \in Seq(Nodes) /\ \A i \in 1 .. Len(t) : t[i] \in Among(t)
  BY DEF IsList, Among
<1>5. IsList(L, t)
  BY <1>3, <1>4 DEF IsList
<1>6. Ended(l, t) => Ended(L, t)
  <2>1. t # <<>> => t[Len(t)] \in Among(t)
    BY <1>4
  <2> QED
    BY <1>3, <2>1 DEF Ended
<1> QED
  BY <1>5, <1>6 DEF L

(* A header that is unlinked leaves the others in order.                    *)
LEMMA UnlinkedList ==
  ASSUME NEW l \in Links, NEW a \in Libc!Allocators, NEW n \in Nodes, Null \notin Nodes,
         NEW s, IsList(l, s), Ended(l, s), l.head[a] = Newest(s), n \in Among(s)
  PROVE  LET U == Libc!Unlinked(l, a, n) IN
           /\ U \in Links
           /\ \E t : /\ IsList(U, t) /\ Ended(U, t) /\ U.head[a] = Newest(t)
                    /\ Among(t) = Among(s) \ {n}
           /\ \A c \in Libc!Allocators \ {a} : U.head[c] = l.head[c]
<1> DEFINE U == Libc!Unlinked(l, a, n)
<1>1. /\ l.prev \in [Nodes -> Nodes \cup {Null}] /\ l.next \in [Nodes -> Nodes \cup {Null}]
      /\ l.head \in [Libc!Allocators -> Nodes \cup {Null}]
  BY DEF Links
<1>2. /\ U.prev = [m \in Nodes |-> IF m = n THEN Null ELSE IF m = l.next[n] THEN l.prev[n] ELSE l.prev[m]]
      /\ U.next = [m \in Nodes |-> IF m = n THEN Null ELSE IF m = l.prev[n] THEN l.next[n] ELSE l.next[m]]
      /\ U.head = IF l.head[a] = n THEN [l.head EXCEPT ![a] = l.prev[n]] ELSE l.head
      /\ U = [prev |-> U.prev, next |-> U.next, head |-> U.head]
  BY DEF Libc!Unlinked
<1> HIDE DEF U
<1>3. U \in Links /\ \A c \in Libc!Allocators \ {a} : U.head[c] = l.head[c]
  <2>1. U.prev \in [Nodes -> Nodes \cup {Null}] /\ U.next \in [Nodes -> Nodes \cup {Null}]
    BY <1>1, <1>2
  <2>2. U.head \in [Libc!Allocators -> Nodes \cup {Null}]
    BY <1>1, <1>2
  <2>3. \A c \in Libc!Allocators \ {a} : U.head[c] = l.head[c]
    BY <1>1, <1>2
  <2> QED
    BY <1>2, <2>1, <2>2, <2>3 DEF Links
<1>4. PICK k \in 1 .. Len(s) : n = s[k]
  BY DEF Among
<1>5. /\ s \in Seq(Nodes) /\ Len(s) \in Nat /\ s # <<>> /\ l.head[a] = s[Len(s)]
      /\ \A i \in 1 .. Len(s) : s[i] \in Nodes /\ s[i] # Null
      /\ \A i, j \in 1 .. Len(s) : s[i] = s[j] => i = j
      /\ \A i \in 1 .. Len(s) : l.prev[s[i]] = IF i = 1 THEN Null ELSE s[i - 1]
      /\ \A i \in 1 .. Len(s) : l.next[s[i]] = IF i = Len(s) THEN Null ELSE s[i + 1]
  <2>1. s \in Seq(Nodes) /\ Len(s) \in Nat /\ s # <<>>
    BY <1>4 DEF IsList
  <2>2. \A i \in 1 .. Len(s) : l.next[s[i]] = IF i = Len(s) THEN Null ELSE s[i + 1]
    BY <2>1 DEF IsList, Ended
  <2> QED
    BY <2>1, <2>2 DEF IsList, Newest
<1> DEFINE t == [i \in 1 .. Len(s) - 1 |-> IF i < k THEN s[i] ELSE s[i + 1]]
<1>6. /\ t \in Seq(Nodes) /\ Len(t) = Len(s) - 1
      /\ \A i \in 1 .. Len(t) : t[i] = IF i < k THEN s[i] ELSE s[i + 1]
  <2>1. \A i \in 1 .. Len(s) - 1 : t[i] \in Nodes
    BY <1>4, <1>5
  <2>2. Len(s) - 1 \in Nat
    BY <1>4, <1>5
  <2> QED
    BY <2>1, <2>2
<1> HIDE DEF t
<1>7. /\ \A m \in Nodes \ {n} : U.prev[m] = IF m = l.next[n] THEN l.prev[n] ELSE l.prev[m]
      /\ \A m \in Nodes \ {n} : U.next[m] = IF m = l.prev[n] THEN l.next[n] ELSE l.next[m]
  BY DEF U, Libc!Unlinked
<1>8. \A i \in 1 .. Len(t) : t[i] \in Nodes \ {n}
  BY <1>4, <1>5, <1>6
<1>9. /\ l.next[n] = IF k = Len(s) THEN Null ELSE s[k + 1]
      /\ l.prev[n] = IF k = 1 THEN Null ELSE s[k - 1]
      /\ \A i \in 1 .. Len(s) : s[i] = l.next[n] <=> i = k + 1
      /\ \A i \in 1 .. Len(s) : s[i] = l.prev[n] <=> i = k - 1
  <2>1. /\ l.next[n] = IF k = Len(s) THEN Null ELSE s[k + 1]
        /\ l.prev[n] = IF k = 1 THEN Null ELSE s[k - 1]
    BY <1>4, <1>5
  <2>2. ASSUME NEW i \in 1 .. Len(s) PROVE s[i] = l.next[n] <=> i = k + 1
    <3>1. k # Len(s) => k + 1 \in 1 .. Len(s)
      BY <1>4, <1>5
    <3> QED
      BY <1>4, <1>5, <2>1, <3>1
  <2>3. ASSUME NEW i \in 1 .. Len(s) PROVE s[i] = l.prev[n] <=> i = k - 1
    <3>1. k # 1 => k - 1 \in 1 .. Len(s)
      BY <1>4, <1>5
    <3> QED
      BY <1>4, <1>5, <2>1, <3>1
  <2> QED
    BY <2>1, <2>2, <2>3
<1>10. IsList(U, t)
  <2>1. \A i, j \in 1 .. Len(t) : t[i] = t[j] => i = j
    BY <1>4, <1>5, <1>6
  <2>2. ASSUME NEW i \in 1 .. Len(t) PROVE U.prev[t[i]] = IF i = 1 THEN Null ELSE t[i - 1]
    <3>1. CASE i < k
      <4>1. t[i] = s[i] /\ s[i] # l.next[n] /\ i \in 1 .. Len(s)
        BY <1>4, <1>5, <1>6, <1>9, <3>1
      <4>2. U.prev[t[i]] = l.prev[s[i]]
        BY <1>7, <1>8, <4>1
      <4>3. l.prev[s[i]] = IF i = 1 THEN Null ELSE s[i - 1]
        BY <1>5, <4>1
      <4>4. i # 1 => t[i - 1] = s[i - 1]
        BY <1>4, <1>6, <3>1
      <4> QED
        BY <4>2, <4>3, <4>4
    <3>2. CASE i = k
      <4>1. t[i] = s[k + 1] /\ t[i] = l.next[n]
        BY <1>4, <1>5, <1>6, <1>9, <3>2
      <4>2. U.prev[t[i]] = l.prev[n]
        BY <1>7, <1>8, <4>1
      <4> QED
        BY <1>4, <1>6, <1>9, <3>2, <4>2
    <3>3. CASE i > k
      <4>1. t[i] = s[i + 1] /\ i + 1 \in 1 .. Len(s) /\ i # 1
        BY <1>4, <1>5, <1>6, <3>3
      <4>2. s[i + 1] # l.next[n]
        BY <1>4, <1>9, <3>3, <4>1
      <4>3. U.prev[t[i]] = l.prev[s[i + 1]]
        BY <1>7, <1>8, <4>1, <4>2
      <4>4. l.prev[s[i + 1]] = s[i]
        BY <1>5, <4>1
      <4>5. t[i - 1] = s[i]
        BY <1>4, <1>6, <3>3, <4>1
      <4> QED
        BY <4>1, <4>3, <4>4, <4>5
    <3> QED
      BY <1>4, <3>1, <3>2, <3>3
  <2>3. ASSUME NEW i \in 1 .. Len(t) - 1 PROVE U.next[t[i]] = t[i + 1]
    <3>1. CASE i < k - 1
      <4>1. t[i] = s[i] /\ t[i + 1] = s[i + 1] /\ i \in 1 .. Len(s)
        BY <1>4, <1>5, <1>6, <3>1
      <4>2. s[i] # l.prev[n]
        BY <1>4, <1>9, <3>1, <4>1
      <4> QED
        BY <1>4, <1>5, <1>6, <1>7, <1>8, <4>1, <4>2
    <3>2. CASE i = k - 1
      <4>1. t[i] = l.prev[n] /\ t[i + 1] = s[k + 1] /\ k # Len(s)
        BY <1>4, <1>5, <1>6, <1>9, <3>2
      <4> QED
        BY <1>6, <1>7, <1>8, <1>9, <4>1
    <3>3. CASE i > k - 1
      <4> DEFINE j == i + 1
      <4>0. Len(t) = Len(s) - 1 /\ Len(s) \in Nat /\ i \in Nat /\ k \in Nat /\ i >= k
        BY <1>4, <1>5, <1>6, <3>3
      <4>1. /\ j \in 1 .. Len(t) /\ j \in 1 .. Len(s) /\ j # Len(s) /\ j + 1 \in 1 .. Len(s) /\ j > k /\ j # k - 1
            /\ t[i] = s[j] /\ t[j] = s[j + 1]
        BY <1>6, <4>0
      <4> HIDE DEF j
      <4>2. s[j] # l.prev[n]
        BY <1>9, <4>0, <4>1
      <4>3. l.next[s[j]] = s[j + 1]
        BY <1>5, <4>1
      <4>4. U.next[t[i]] = t[j]
        BY <1>7, <1>8, <4>1, <4>2, <4>3
      <4> QED
        BY <4>4 DEF j
    <3> QED
      BY <1>4, <3>1, <3>2, <3>3
  <2> QED
    BY <1>6, <2>1, <2>2, <2>3 DEF IsList
<1>11. Ended(U, t)
  <2> SUFFICES ASSUME t # <<>> PROVE U.next[t[Len(t)]] = Null
    BY DEF Ended
  <2>1. Len(t) >= 1 /\ t[Len(t)] \in Nodes \ {n}
    BY <1>6, <1>8
  <2>2. CASE k = Len(s)
    <3>1. t[Len(t)] = l.prev[n]
      BY <1>4, <1>5, <1>6, <1>9, <2>1, <2>2
    <3> QED
      BY <1>7, <1>9, <2>1, <2>2, <3>1
  <2>3. CASE k # Len(s)
    <3>1. t[Len(t)] = s[Len(s)] /\ s[Len(s)] # l.prev[n] /\ l.next[s[Len(s)]] = Null
      BY <1>4, <1>5, <1>6, <1>9, <2>1, <2>3
    <3> QED
      BY <1>7, <2>1, <3>1
  <2> QED
    BY <2>2, <2>3
<1>12. U.head[a] = Newest(t)
  <2>1. CASE k = Len(s)
    <3>1. U.head[a] = l.prev[n]
      BY <1>1, <1>2, <1>4, <1>5, <2>1
    <3> QED
      BY <1>4, <1>5, <1>6, <1>9, <2>1, <3>1 DEF Newest
  <2>2. CASE k # Len(s)
    <3>1. s[Len(s)] # n
      BY <1>4, <1>5, <2>2
    <3>2. U.head[a] = s[Len(s)]
      BY <1>2, <1>5, <3>1
    <3>3. t # <<>> /\ t[Len(t)] = s[Len(s)]
      BY <1>4, <1>5, <1>6, <2>2
    <3> QED
      BY <3>2, <3>3 DEF Newest
  <2> QED
    BY <2>1, <2>2
<1>13. Among(t) = Among(s) \ {n}
  <2>1. Among(t) \subseteq Among(s) \ {n}
    BY <1>4, <1>5, <1>6, <1>8 DEF Among
  <2>2. ASSUME NEW i \in 1 .. Len(s), i # k PROVE s[i] \in Among(t)
    <3>1. CASE i < k
      BY <1>4, <1>5, <1>6, <3>1 DEF Among
    <3>2. CASE i > k
      <4>1. i - 1 \in 1 .. Len(t) /\ t[i - 1] = s[i]
        BY <1>4, <1>5, <1>6, <3>2
      <4> QED
        BY <4>1 DEF Among
    <3> QED
      BY <1>4, <2>2, <3>1, <3>2
  <2> QED
    BY <1>4, <2>1, <2>2 DEF Among
<1> QED
  BY <1>3, <1>10, <1>11, <1>12, <1>13 DEF U

LEMMA UnlinkedElsewhere ==
  ASSUME NEW l \in Links, NEW a \in Libc!Allocators, NEW n \in Nodes, Null \notin Nodes,
         NEW t, IsList(l, t), n \notin Among(t), l.prev[n] \notin Among(t), l.next[n] \notin Among(t)
  PROVE  LET U == Libc!Unlinked(l, a, n) IN IsList(U, t) /\ (Ended(l, t) => Ended(U, t))
<1> DEFINE U == Libc!Unlinked(l, a, n)
<1>1. \A m \in Among(t) : m \in Nodes /\ U.prev[m] = l.prev[m] /\ U.next[m] = l.next[m]
  <2>1. \A m \in Among(t) : m \in Nodes /\ m # n /\ m # l.prev[n] /\ m # l.next[n]
    BY DEF IsList, Among
  <2> QED
    BY <2>1 DEF Libc!Unlinked
<1> HIDE DEF U
<1>2. t \in Seq(Nodes) /\ \A i \in 1 .. Len(t) : t[i] \in Among(t)
  BY DEF IsList, Among
<1>3. IsList(U, t)
  <2>1. \A i \in 1 .. Len(t) : U.prev[t[i]] = l.prev[t[i]] /\ U.next[t[i]] = l.next[t[i]]
    BY <1>1, <1>2
  <2>2. \A i \in 1 .. Len(t) - 1 : i \in 1 .. Len(t)
    BY <1>2
  <2>3. \A i \in 1 .. Len(t) - 1 : U.next[t[i]] = t[i + 1]
    BY <2>1, <2>2 DEF IsList
  <2> QED
    BY <2>1, <2>3 DEF IsList
<1>4. Ended(l, t) => Ended(U, t)
  <2>1. t # <<>> => t[Len(t)] \in Among(t)
    BY <1>2
  <2> QED
    BY <1>1, <2>1 DEF Ended
<1> QED
  BY <1>3, <1>4 DEF U

-----------------------------------------------------------------------------
(* What each of some allocators owns is in its list, in the order of the    *)
(* allocations, and no node is owned by two.                                *)
AllLists(l, live, own) ==
  \A a \in live : \E s : /\ IsList(l, s) /\ Ended(l, s) /\ l.head[a] = Newest(s)
                         /\ Among(s) = own[a]
Disjoint(live, own) == \A a, c \in live : a # c => own[a] \cap own[c] = {}

LEMMA Neighbours ==
  ASSUME NEW l, NEW s, IsList(l, s), Null \notin Nodes
  PROVE  /\ Among(s) \subseteq Nodes /\ Newest(s) \in Among(s) \cup {Null}
         /\ \A n \in Among(s) : l.prev[n] \in Among(s) \cup {Null}
         /\ Ended(l, s) => \A n \in Among(s) : l.next[n] \in Among(s) \cup {Null}
<1>1. s \in Seq(Nodes) /\ Len(s) \in Nat /\ \A i \in 1 .. Len(s) : s[i] \in Nodes /\ s[i] \in Among(s)
  BY DEF IsList, Among
<1>2. Among(s) \subseteq Nodes /\ Newest(s) \in Among(s) \cup {Null}
  BY <1>1 DEF Newest, Among
<1>3. ASSUME NEW i \in 1 .. Len(s) PROVE l.prev[s[i]] \in Among(s) \cup {Null}
  BY <1>1 DEF IsList
<1>4. ASSUME NEW i \in 1 .. Len(s), Ended(l, s) PROVE l.next[s[i]] \in Among(s) \cup {Null}
  <2>1. CASE i = Len(s)
    BY <1>1, <1>4, <2>1 DEF Ended
  <2>2. CASE i # Len(s)
    BY <1>1, <2>2 DEF IsList
  <2> QED
    BY <2>1, <2>2
<1> QED
  BY <1>2, <1>3, <1>4 DEF Among

LEMMA LinkKeepsLists ==
  ASSUME NEW l \in Links, NEW live \in SUBSET Libc!Allocators, NEW own, AllLists(l, live, own),
         Disjoint(live, own), Null \notin Nodes, NEW a \in live, NEW n \in Nodes,
         \A c \in live : n \notin own[c], NEW more,
         \A c \in live : more[c] = IF c = a THEN own[c] \cup {n} ELSE own[c]
  PROVE  LET L == Libc!Linked(l, a, n) IN L \in Links /\ AllLists(L, live, more)
<1> DEFINE L == Libc!Linked(l, a, n)
<1>1. PICK s : IsList(l, s) /\ Ended(l, s) /\ l.head[a] = Newest(s) /\ Among(s) = own[a]
  BY DEF AllLists
<1>2. /\ L \in Links
      /\ IsList(L, Append(s, n)) /\ Ended(L, Append(s, n)) /\ L.head[a] = Newest(Append(s, n))
      /\ Among(Append(s, n)) = Among(s) \cup {n}
      /\ \A c \in Libc!Allocators \ {a} : L.head[c] = l.head[c]
  BY <1>1, LinkedList
<1>3. l.head[a] \in own[a] \cup {Null}
  BY <1>1, Neighbours
<1>4. ASSUME NEW c \in live \ {a}
      PROVE  \E t : IsList(L, t) /\ Ended(L, t) /\ L.head[c] = Newest(t) /\ Among(t) = more[c]
  <2>1. PICK t : IsList(l, t) /\ Ended(l, t) /\ l.head[c] = Newest(t) /\ Among(t) = own[c]
    BY DEF AllLists
  <2>2. n \notin Among(t) /\ l.head[a] \notin Among(t)
    <3>1. own[a] \cap own[c] = {}
      BY DEF Disjoint
    <3>2. Null \notin Among(t)
      BY <2>1, Neighbours
    <3> QED
      BY <1>3, <2>1, <3>1, <3>2
  <2>3. IsList(L, t) /\ Ended(L, t)
    BY <2>1, <2>2, LinkedElsewhere
  <2> QED
    BY <1>2, <2>1, <2>3
<1> HIDE DEF L
<1>5. \E t : IsList(L, t) /\ Ended(L, t) /\ L.head[a] = Newest(t) /\ Among(t) = more[a]
  BY <1>1, <1>2
<1>6. AllLists(L, live, more)
  BY <1>4, <1>5 DEF AllLists
<1> QED
  BY <1>2, <1>6 DEF L

LEMMA UnlinkKeepsLists ==
  ASSUME NEW l \in Links, NEW live \in SUBSET Libc!Allocators, NEW own, AllLists(l, live, own),
         Disjoint(live, own), Null \notin Nodes, NEW a \in live, NEW n \in own[a], NEW less,
         \A c \in live : less[c] = IF c = a THEN own[c] \ {n} ELSE own[c]
  PROVE  LET U == Libc!Unlinked(l, a, n) IN U \in Links /\ AllLists(U, live, less)
<1> DEFINE U == Libc!Unlinked(l, a, n)
<1>1. PICK s : IsList(l, s) /\ Ended(l, s) /\ l.head[a] = Newest(s) /\ Among(s) = own[a]
  BY DEF AllLists
<1>2. /\ n \in Nodes /\ l.prev[n] \in own[a] \cup {Null} /\ l.next[n] \in own[a] \cup {Null}
  BY <1>1, Neighbours
<1>3. /\ U \in Links
      /\ \E t : IsList(U, t) /\ Ended(U, t) /\ U.head[a] = Newest(t) /\ Among(t) = Among(s) \ {n}
      /\ \A c \in Libc!Allocators \ {a} : U.head[c] = l.head[c]
  BY <1>1, <1>2, UnlinkedList
<1>4. ASSUME NEW c \in live \ {a}
      PROVE  \E t : IsList(U, t) /\ Ended(U, t) /\ U.head[c] = Newest(t) /\ Among(t) = less[c]
  <2>1. PICK t : IsList(l, t) /\ Ended(l, t) /\ l.head[c] = Newest(t) /\ Among(t) = own[c]
    BY DEF AllLists
  <2>2. n \notin Among(t) /\ l.prev[n] \notin Among(t) /\ l.next[n] \notin Among(t)
    <3>1. own[a] \cap own[c] = {}
      BY DEF Disjoint
    <3>2. Null \notin Among(t)
      BY <2>1, Neighbours
    <3> QED
      BY <1>2, <2>1, <3>1, <3>2
  <2>3. IsList(U, t) /\ Ended(U, t)
    BY <1>2, <2>1, <2>2, UnlinkedElsewhere
  <2> QED
    BY <1>3, <2>1, <2>3
<1> HIDE DEF U
<1>5. \E t : IsList(U, t) /\ Ended(U, t) /\ U.head[a] = Newest(t) /\ Among(t) = less[a]
  BY <1>1, <1>3
<1>6. AllLists(U, live, less)
  BY <1>4, <1>5 DEF AllLists
<1> QED
  BY <1>3, <1>6 DEF U

-----------------------------------------------------------------------------
(* Between calls every allocator in use has its list.  While free_all walks *)
(* one, what it still has is the rest of that list, from the header the     *)
(* walk has come to; the others stay, and no allocator owns itself, so that *)
(* the walk does not free the one it walks.                                 *)
Own == [a \in Libc!Allocators |-> {n \in mallocd : owner[n] = a}]
Walked == Libc!Live \ {walk.of}
RestOfWalk ==
  \E s : IsList(Libc!Now, s) /\ walk.at = Newest(s) /\ Among(s) = Own[walk.of]

OwnersInv ==
  /\ mallocd \subseteq Nodes /\ kids \subseteq mallocd
  /\ owner \in [Nodes -> Libc!Allocators \cup {Null}]
  /\ \A n \in Nodes : owner[n] # Null => n \in mallocd /\ owner[n] # n /\ owner[n] \in Libc!Live
WalkInv ==
  \/ walk = Libc!NoWalk
  \/ walk = [of |-> walk.of, at |-> walk.at] /\ walk.of \in Libc!Live /\ RestOfWalk
LibcInv ==
  /\ OwnersInv /\ Libc!Now \in Links
  /\ AllLists(Libc!Now, Walked, Own) /\ WalkInv
  /\ touched = FALSE

(* What a step does to the lists is what it does to what is owned.          *)
LEMMA OwnedApart ==
  ASSUME OwnersInv
  PROVE  /\ Libc!Live \subseteq Libc!Allocators /\ Disjoint(Libc!Live, Own)
         /\ \A a \in Libc!Live : Own[a] = {n \in mallocd : owner[n] = a} /\ Own[a] \subseteq Nodes
<1>1. Libc!Live \subseteq Libc!Allocators
  BY DEF OwnersInv, Libc!Live, Libc!Allocators
<1>2. \A a \in Libc!Live : Own[a] = {n \in mallocd : owner[n] = a} /\ Own[a] \subseteq Nodes
  BY <1>1 DEF Own, OwnersInv
<1> QED
  BY <1>1, <1>2 DEF Disjoint

LEMMA IdleLists ==
  ASSUME Libc!LibcNames, LibcInv, Libc!Idle
  PROVE  Walked = Libc!Live /\ AllLists(Libc!Now, Libc!Live, Own)
<1>1. walk.of = Null /\ Null \notin Libc!Live
  BY DEF LibcInv, OwnersInv, Libc!LibcNames, Libc!Idle, Libc!NoWalk, Libc!Live
<1> QED
  BY <1>1 DEF Walked, LibcInv

(* The headers that linking and unlinking touch are headers in use.         *)
LEMMA HeadInUse ==
  ASSUME OwnersInv, Libc!LibcNames, AllLists(Libc!Now, Libc!Live, Own), NEW a \in Libc!Live
  PROVE  head[a] \in Own[a] \cup {Null}
<1>1. PICK s : IsList(Libc!Now, s) /\ Libc!Now.head[a] = Newest(s) /\ Among(s) = Own[a]
  BY DEF AllLists
<1> QED
  BY <1>1, Neighbours DEF Libc!Now, Libc!LibcNames

LEMMA NeighboursInUse ==
  ASSUME OwnersInv, Libc!LibcNames, AllLists(Libc!Now, Libc!Live, Own), NEW a \in Libc!Live,
         NEW n \in Own[a]
  PROVE  prev[n] \in Own[a] \cup {Null} /\ next[n] \in Own[a] \cup {Null}
<1>1. PICK s : IsList(Libc!Now, s) /\ Ended(Libc!Now, s) /\ Among(s) = Own[a]
  BY DEF AllLists
<1> QED
  BY <1>1, Neighbours DEF Libc!Now, Libc!LibcNames

(* A step of a call that ends between calls.                                *)
LEMMA IdleKeeps ==
  ASSUME Libc!LibcNames, UNCHANGED walk, Libc!Idle, OwnersInv', (Libc!Now \in Links)',
         AllLists(Libc!Now', Libc!Live', Own'), touched' = FALSE
  PROVE  LibcInv'
<1>1. walk' = Libc!NoWalk /\ Null \notin Libc!Live'
  BY DEF OwnersInv, Libc!LibcNames, Libc!Idle, Libc!Live
<1>2. Walked' = Libc!Live'
  BY <1>1 DEF Walked, Libc!NoWalk
<1>3. WalkInv'
  BY <1>1 DEF WalkInv, Libc!NoWalk
<1> QED
  BY <1>2, <1>3 DEF LibcInv

LEMMA LibcStarts == ASSUME Libc!LibcNames, Libc!Init PROVE LibcInv
<1>1. /\ mallocd = {} /\ kids = {} /\ touched = FALSE /\ walk = Libc!NoWalk
      /\ prev = [n \in Nodes |-> Null] /\ next = [n \in Nodes |-> Null]
      /\ head = [a \in Libc!Allocators |-> Null] /\ owner = [n \in Nodes |-> Null]
  BY DEF Libc!Init
<1>2. OwnersInv
  BY <1>1 DEF OwnersInv
<1>3. Libc!Now \in Links
  BY <1>1 DEF Libc!Now, Links
<1>4. AllLists(Libc!Now, Walked, Own)
  <2> SUFFICES ASSUME NEW a \in Walked
               PROVE  /\ IsList(Libc!Now, <<>>) /\ Ended(Libc!Now, <<>>)
                      /\ Libc!Now.head[a] = Newest(<<>>) /\ Among(<<>>) = Own[a]
    BY Zenon DEF AllLists
  <2>1. IsList(Libc!Now, <<>>) /\ Ended(Libc!Now, <<>>)
    BY DEF IsList, Ended
  <2>2. a \in Libc!Allocators
    BY <1>1 DEF Walked, Libc!Live, Libc!Allocators
  <2>3. Libc!Now.head[a] = Newest(<<>>)
    BY <1>1, <2>2 DEF Newest, Libc!Now
  <2>4. Among(<<>>) = Own[a]
    BY <1>1, <2>2 DEF Own, Among
  <2> QED
    BY <2>1, <2>3, <2>4
<1> QED
  BY <1>1, <1>2, <1>3, <1>4 DEF LibcInv, WalkInv

LEMMA AllocateKeeps ==
  ASSUME Libc!LibcNames, LibcInv, NEW a \in Libc!Live, NEW n \in Nodes, Libc!Allocate(a, n)
  PROVE  LibcInv'
<1>1. /\ Libc!Idle /\ n \notin mallocd /\ mallocd' = mallocd \cup {n} /\ UNCHANGED <<kids, walk>>
      /\ owner' = [owner EXCEPT ![n] = a] /\ Libc!Now' = Libc!Linked(Libc!Now, a, n)
      /\ touched' = (touched \/ ~({head[a]} \ {Null} \subseteq mallocd))
  BY DEF Libc!Allocate, Libc!Become, Libc!Now, Libc!Linked, Libc!Touch
<1>2. /\ OwnersInv /\ Libc!Now \in Links /\ AllLists(Libc!Now, Libc!Live, Own) /\ touched = FALSE
  BY <1>1, IdleLists DEF LibcInv
<1>3. Libc!Live' = Libc!Live
  BY <1>1 DEF Libc!Live
<1>4. OwnersInv'
  <2>1. n # a
    BY <1>1, <1>2 DEF Libc!Live, OwnersInv, Libc!LibcNames
  <2>2. \A m \in Nodes \ {n} : owner'[m] = owner[m]
    BY <1>1, <1>2 DEF OwnersInv
  <2>3. owner'[n] = a /\ owner' \in [Nodes -> Libc!Allocators \cup {Null}]
    BY <1>1, <1>2, OwnedApart DEF OwnersInv
  <2> QED
    BY <1>1, <1>2, <1>3, <2>1, <2>2, <2>3 DEF OwnersInv
<1>5. /\ \A c \in Libc!Live : n \notin Own[c]
      /\ \A c \in Libc!Live : Own'[c] = IF c = a THEN Own[c] \cup {n} ELSE Own[c]
  <2>1. \A c \in Libc!Live : Own[c] = {m \in mallocd : owner[m] = c}
    BY <1>2, OwnedApart
  <2>2. \A c \in Libc!Live : Own'[c] = {m \in mallocd' : owner'[m] = c}
    BY <1>3, <1>4, OwnedApart DEF Own, Libc!Allocators, OwnersInv, Libc!Live
  <2>3. owner'[n] = a /\ \A m \in mallocd : owner'[m] = owner[m]
    BY <1>1, <1>2 DEF OwnersInv
  <2>4. ASSUME NEW c \in Libc!Live PROVE Own'[c] = IF c = a THEN Own[c] \cup {n} ELSE Own[c]
    <3>1. Own[c] = {m \in mallocd : owner[m] = c} /\ Own'[c] = {m \in mallocd \cup {n} : owner'[m] = c}
      BY <1>1, <2>1, <2>2
    <3> QED
      BY <1>1, <2>3, <3>1
  <2> QED
    BY <1>1, <2>1, <2>4
<1>6. Libc!Now' \in Links /\ AllLists(Libc!Now', Libc!Live, Own')
  <2>1. Libc!Live \in SUBSET Libc!Allocators /\ Disjoint(Libc!Live, Own) /\ Null \notin Nodes
    BY <1>2, OwnedApart DEF Libc!LibcNames
  <2> DEFINE L == Libc!Linked(Libc!Now, a, n)
  <2>2. L \in Links /\ AllLists(L, Libc!Live, Own')
    BY <1>2, <1>5, <2>1, LinkKeepsLists
  <2> QED
    BY <1>1, <2>2
<1>7. touched' = FALSE
  <2>1. head[a] \in mallocd \cup {Null}
    BY <1>2, HeadInUse, OwnedApart
  <2> QED
    BY <1>1, <1>2, <2>1
<1> QED
  BY <1>1, <1>3, <1>4, <1>6, <1>7, IdleKeeps

LEMMA CreateChildKeeps ==
  ASSUME Libc!LibcNames, LibcInv, NEW a \in Libc!Live, NEW n \in Nodes, Libc!CreateChild(a, n)
  PROVE  LibcInv'
<1> DEFINE L == Libc!Linked(Libc!Now, a, n)
<1>1. /\ Libc!Idle /\ n \notin mallocd /\ mallocd' = mallocd \cup {n} /\ UNCHANGED walk
      /\ kids' = kids \cup {n} /\ owner' = [owner EXCEPT ![n] = a]
      /\ Libc!Now' = [L EXCEPT !.head[n] = Null]
      /\ touched' = (touched \/ ~({head[a]} \ {Null} \subseteq mallocd))
  BY DEF Libc!CreateChild, Libc!Become, Libc!Now, Libc!Linked, Libc!Touch
<1>2. /\ OwnersInv /\ Libc!Now \in Links /\ AllLists(Libc!Now, Libc!Live, Own) /\ touched = FALSE
      /\ Null \notin Nodes
  BY <1>1, IdleLists DEF LibcInv, Libc!LibcNames
<1>3. Libc!Live' = Libc!Live \cup {n} /\ n # a /\ n \notin Libc!Live
  BY <1>1, <1>2 DEF Libc!Live, OwnersInv, Libc!LibcNames
<1>4. OwnersInv'
  <2>1. \A m \in Nodes \ {n} : owner'[m] = owner[m]
    BY <1>1, <1>2 DEF OwnersInv
  <2>2. owner'[n] = a /\ owner' \in [Nodes -> Libc!Allocators \cup {Null}]
    BY <1>1, <1>2, OwnedApart DEF OwnersInv
  <2> QED
    BY <1>1, <1>2, <1>3, <2>1, <2>2 DEF OwnersInv
<1>5. /\ \A c \in Libc!Live : n \notin Own[c]
      /\ \A c \in Libc!Live : Own'[c] = IF c = a THEN Own[c] \cup {n} ELSE Own[c]
      /\ Own'[n] = {}
  <2>1. \A c \in Libc!Allocators : /\ Own[c] = {m \in mallocd : owner[m] = c}
                                   /\ Own'[c] = {m \in mallocd' : owner'[m] = c}
    BY DEF Own
  <2>2. owner'[n] = a /\ \A m \in mallocd : owner'[m] = owner[m] /\ owner[m] # n
    BY <1>1, <1>2, <1>3 DEF OwnersInv, Libc!LibcNames
  <2>3. Libc!Live \subseteq Libc!Allocators /\ n \in Libc!Allocators
    BY <1>2, OwnedApart DEF Libc!Allocators
  <2>4. ASSUME NEW c \in Libc!Live PROVE Own'[c] = IF c = a THEN Own[c] \cup {n} ELSE Own[c]
    <3>1. Own[c] = {m \in mallocd : owner[m] = c} /\ Own'[c] = {m \in mallocd \cup {n} : owner'[m] = c}
      BY <1>1, <2>1, <2>3
    <3> QED
      BY <1>1, <2>2, <3>1
  <2>5. Own'[n] = {}
    BY <1>1, <1>3, <2>1, <2>2, <2>3
  <2> QED
    BY <1>1, <2>1, <2>3, <2>4, <2>5
<1>6. L \in Links /\ AllLists(L, Libc!Live, Own')
  <2>1. Libc!Live \in SUBSET Libc!Allocators /\ Disjoint(Libc!Live, Own)
    BY <1>2, OwnedApart
  <2> QED
    BY <1>2, <1>5, <2>1, LinkKeepsLists
<1> HIDE DEF L
<1>7. /\ Libc!Now' \in Links /\ Libc!Now'.prev = L.prev /\ Libc!Now'.next = L.next
      /\ Libc!Now'.head[n] = Null /\ \A c \in Libc!Live : Libc!Now'.head[c] = L.head[c]
  <2>1. L.head \in [Libc!Allocators -> Nodes \cup {Null}] /\ n \in Libc!Allocators
    BY <1>6 DEF Links, Libc!Allocators
  <2>2. Libc!Live \subseteq Libc!Allocators
    BY <1>2, OwnedApart
  <2> QED
    BY <1>1, <1>3, <1>6, <2>1, <2>2 DEF Links
<1>8. AllLists(Libc!Now', Libc!Live', Own')
  <2>1. ASSUME NEW c \in Libc!Live
        PROVE  \E s : /\ IsList(Libc!Now', s) /\ Ended(Libc!Now', s) /\ Libc!Now'.head[c] = Newest(s)
                      /\ Among(s) = Own'[c]
    <3>1. PICK s : IsList(L, s) /\ Ended(L, s) /\ L.head[c] = Newest(s) /\ Among(s) = Own'[c]
      BY <1>6 DEF AllLists
    <3>2. IsList(Libc!Now', s) /\ Ended(Libc!Now', s)
      BY <1>7, <3>1 DEF IsList, Ended
    <3> QED
      BY <1>7, <3>1, <3>2
  <2>2. /\ IsList(Libc!Now', <<>>) /\ Ended(Libc!Now', <<>>) /\ Libc!Now'.head[n] = Newest(<<>>)
        /\ Among(<<>>) = Own'[n]
    BY <1>5, <1>7 DEF IsList, Ended, Newest, Among
  <2> QED
    BY <1>3, <2>1, <2>2, Zenon DEF AllLists
<1>9. touched' = FALSE
  <2>1. head[a] \in mallocd \cup {Null}
    BY <1>2, HeadInUse, OwnedApart
  <2> QED
    BY <1>1, <1>2, <2>1
<1> QED
  BY <1>1, <1>4, <1>7, <1>8, <1>9, IdleKeeps

LEMMA FreeKeeps ==
  ASSUME Libc!LibcNames, LibcInv, NEW a \in Libc!Live, NEW n \in Nodes, Libc!Free(a, n)
  PROVE  LibcInv'
<1> DEFINE U == Libc!Unlinked(Libc!Now, a, n)
<1>1. /\ Libc!Idle /\ n \in mallocd \ kids /\ owner[n] = a /\ mallocd' = mallocd \ {n}
      /\ UNCHANGED <<kids, walk>>
      /\ owner' = [owner EXCEPT ![n] = Null]
      /\ Libc!Now' = U
      /\ touched' = (touched \/ ~({n, next[n], prev[n]} \ {Null} \subseteq mallocd))
  BY DEF Libc!Free, Libc!Become, Libc!Now, Libc!Unlinked, Libc!Touch, Libc!UsedOf
<1>2. /\ OwnersInv /\ Libc!Now \in Links /\ AllLists(Libc!Now, Libc!Live, Own) /\ touched = FALSE
      /\ Null \notin Nodes
  BY <1>1, IdleLists DEF LibcInv, Libc!LibcNames
<1>3. /\ Libc!Live' = Libc!Live /\ n \notin Libc!Live /\ Null \notin Libc!Live
      /\ Libc!Live \in SUBSET Libc!Allocators /\ Disjoint(Libc!Live, Own)
  BY <1>1, <1>2, OwnedApart DEF Libc!Live, OwnersInv, Libc!LibcNames
<1>4. /\ owner' \in [Nodes -> Libc!Allocators \cup {Null}] /\ owner'[n] = Null
      /\ \A m \in Nodes \ {n} : owner'[m] = owner[m]
  BY <1>1, <1>2 DEF OwnersInv
<1>5. OwnersInv'
  BY <1>1, <1>2, <1>3, <1>4 DEF OwnersInv
<1>6. n \in Own[a] /\ \A c \in Libc!Live : Own'[c] = IF c = a THEN Own[c] \ {n} ELSE Own[c]
  <2>1. \A c \in Libc!Live : /\ Own[c] = {m \in mallocd : owner[m] = c}
                             /\ Own'[c] = {m \in mallocd \ {n} : owner'[m] = c}
    BY <1>1, <1>3 DEF Own
  <2>2. \A m \in mallocd \ {n} : owner'[m] = owner[m]
    BY <1>2, <1>4 DEF OwnersInv
  <2>3. ASSUME NEW c \in Libc!Live PROVE Own'[c] = IF c = a THEN Own[c] \ {n} ELSE Own[c]
    <3>1. Own[c] = {m \in mallocd : owner[m] = c} /\ Own'[c] = {m \in mallocd \ {n} : owner[m] = c}
      BY <2>1, <2>2
    <3> QED
      BY <1>1, <3>1
  <2> QED
    BY <1>1, <2>1, <2>3
<1>7. U \in Links /\ AllLists(U, Libc!Live, Own')
  BY <1>2, <1>3, <1>6, UnlinkKeepsLists
<1>8. touched' = FALSE
  <2>1. prev[n] \in Own[a] \cup {Null} /\ next[n] \in Own[a] \cup {Null}
    BY <1>2, <1>6, NeighboursInUse
  <2>2. Own[a] \subseteq mallocd
    BY <1>3 DEF Own
  <2> QED
    BY <1>1, <1>2, <2>1, <2>2
<1> QED
  BY <1>1, <1>3, <1>5, <1>7, <1>8, IdleKeeps

LEMMA ReallocateKeeps ==
  ASSUME Libc!LibcNames, LibcInv, NEW a \in Libc!Live, NEW b \in Nodes, NEW n \in Nodes,
         Libc!Reallocate(a, b, n)
  PROVE  LibcInv'
<1> DEFINE L == Libc!Linked(Libc!Now, a, n)
           U == Libc!Unlinked(L, a, b)
           more == [c \in Libc!Allocators |-> IF c = a THEN Own[c] \cup {n} ELSE Own[c]]
<1>1. /\ Libc!Idle /\ b \in mallocd \ kids /\ owner[b] = a /\ n \notin mallocd
      /\ mallocd' = (mallocd \cup {n}) \ {b} /\ UNCHANGED <<kids, walk>>
      /\ owner' = [owner EXCEPT ![n] = a, ![b] = Null]
      /\ Libc!Now' = U
      /\ touched' = (touched \/ ~(({head[a], b, prev[b]} \cup ({L.next[b]} \ {n})) \ {Null} \subseteq mallocd))
  BY DEF Libc!Reallocate, Libc!Become, Libc!Now, Libc!Linked, Libc!Unlinked, Libc!Touch, Libc!UsedOf
<1>2. /\ OwnersInv /\ Libc!Now \in Links /\ AllLists(Libc!Now, Libc!Live, Own) /\ touched = FALSE
      /\ Null \notin Nodes
  BY <1>1, IdleLists DEF LibcInv, Libc!LibcNames
<1>3. /\ Libc!Live' = Libc!Live /\ b \notin Libc!Live /\ n \notin Libc!Live /\ Null \notin Libc!Live
      /\ Libc!Live \in SUBSET Libc!Allocators /\ Disjoint(Libc!Live, Own) /\ n # b
  BY <1>1, <1>2, OwnedApart DEF Libc!Live, OwnersInv, Libc!LibcNames
<1>4. /\ owner' \in [Nodes -> Libc!Allocators \cup {Null}] /\ owner'[b] = Null /\ owner'[n] = a
      /\ \A m \in Nodes \ {b, n} : owner'[m] = owner[m]
  BY <1>1, <1>2, <1>3 DEF OwnersInv
<1>5. OwnersInv'
  BY <1>1, <1>2, <1>3, <1>4 DEF OwnersInv
<1>6. \A c \in Libc!Live : Own[c] = {m \in mallocd : owner[m] = c} /\ n \notin Own[c]
  BY <1>1, <1>3 DEF Own
<1>7. /\ \A c \in Libc!Live : more[c] = IF c = a THEN Own[c] \cup {n} ELSE Own[c]
      /\ b \in more[a] /\ Disjoint(Libc!Live, more)
  <2>1. \A c \in Libc!Live : more[c] = IF c = a THEN Own[c] \cup {n} ELSE Own[c]
    BY <1>3
  <2>2. b \in Own[a]
    BY <1>1, <1>6
  <2> HIDE DEF more
  <2>3. Disjoint(Libc!Live, more)
    <3> SUFFICES ASSUME NEW c \in Libc!Live, NEW d \in Libc!Live, c # d
                 PROVE  more[c] \cap more[d] = {}
      BY DEF Disjoint
    <3>1. Own[c] \cap Own[d] = {} /\ n \notin Own[c] /\ n \notin Own[d]
      BY <1>3, <1>6 DEF Disjoint
    <3>2. /\ more[c] = IF c = a THEN Own[c] \cup {n} ELSE Own[c]
          /\ more[d] = IF d = a THEN Own[d] \cup {n} ELSE Own[d]
      BY <2>1
    <3> QED
      BY <3>1, <3>2
  <2> QED
    BY <2>1, <2>2, <2>3
<1> HIDE DEF more
<1>8. L \in Links /\ AllLists(L, Libc!Live, more)
  BY <1>2, <1>3, <1>6, <1>7, LinkKeepsLists
<1>9. \A c \in Libc!Live : Own'[c] = IF c = a THEN more[c] \ {b} ELSE more[c]
  <2>1. /\ owner'[n] = a /\ owner'[b] = Null
        /\ \A m \in mallocd \ {b} : owner'[m] = owner[m]
    BY <1>1, <1>2, <1>4 DEF OwnersInv
  <2> SUFFICES ASSUME NEW c \in Libc!Live PROVE Own'[c] = IF c = a THEN more[c] \ {b} ELSE more[c]
    OBVIOUS
  <2>2. Own'[c] = {m \in (mallocd \cup {n}) \ {b} : owner'[m] = c}
    BY <1>1, <1>3 DEF Own
  <2>3. Own[c] = {m \in mallocd : owner[m] = c} /\ more[c] = IF c = a THEN Own[c] \cup {n} ELSE Own[c]
    BY <1>6, <1>7
  <2>4. Own'[c] = {m \in mallocd \ {b} : owner[m] = c} \cup IF c = a THEN {n} ELSE {}
    BY <1>1, <1>3, <2>1, <2>2
  <2> QED
    BY <1>1, <1>3, <2>3, <2>4
<1>10. U \in Links /\ AllLists(U, Libc!Live, Own')
  <2> HIDE DEF L
  <2> QED
    BY <1>2, <1>3, <1>7, <1>8, <1>9, UnlinkKeepsLists
<1>11. touched' = FALSE
  <2>1. head[a] \in Own[a] \cup {Null} /\ prev[b] \in Own[a] \cup {Null}
    BY <1>1, <1>2, <1>6, HeadInUse, NeighboursInUse
  <2>2. L.next[b] \in Own[a] \cup {n, Null}
    <3> HIDE DEF L
    <3>1. PICK s : IsList(L, s) /\ Ended(L, s) /\ Among(s) = more[a]
      BY <1>8 DEF AllLists
    <3>2. L.next[b] \in Among(s) \cup {Null}
      BY <1>2, <1>7, <3>1, Neighbours
    <3> QED
      BY <1>7, <3>1, <3>2
  <2>3. Own[a] \subseteq mallocd
    BY <1>6
  <2> QED
    BY <1>1, <1>2, <2>1, <2>2, <2>3
<1> QED
  BY <1>1, <1>3, <1>5, <1>10, <1>11, IdleKeeps

LEMMA FreeAllBeginKeeps ==
  ASSUME Libc!LibcNames, LibcInv, NEW a \in Libc!Live, Libc!FreeAllBegin(a)
  PROVE  LibcInv'
<1>1. /\ Libc!Idle /\ walk' = [of |-> a, at |-> head[a]]
      /\ UNCHANGED <<mallocd, prev, next, head, owner, kids, touched>>
  BY DEF Libc!FreeAllBegin, Libc!lists
<1>2. /\ OwnersInv /\ Libc!Now \in Links /\ AllLists(Libc!Now, Libc!Live, Own) /\ touched = FALSE
  BY <1>1, IdleLists DEF LibcInv
<1>3. /\ Libc!Live' = Libc!Live /\ Own' = Own /\ Libc!Now' = Libc!Now /\ walk'.of = a /\ walk'.at = head[a]
  BY <1>1 DEF Libc!Live, Own, Libc!Now
<1>4. OwnersInv'
  BY <1>1, <1>2, <1>3 DEF OwnersInv
<1>5. AllLists(Libc!Now', Walked', Own')
  BY <1>2, <1>3 DEF AllLists, Walked
<1>6. RestOfWalk'
  <2>1. PICK s : IsList(Libc!Now, s) /\ Libc!Now.head[a] = Newest(s) /\ Among(s) = Own[a]
    BY <1>2 DEF AllLists
  <2> QED
    BY <1>3, <2>1 DEF RestOfWalk, Libc!Now
<1>7. WalkInv'
  BY <1>1, <1>3, <1>6 DEF WalkInv
<1> QED
  BY <1>1, <1>2, <1>3, <1>4, <1>5, <1>7 DEF LibcInv

LEMMA FreeAllStepKeeps ==
  ASSUME Libc!LibcNames, LibcInv, Libc!FreeAllStep
  PROVE  LibcInv'
<1> DEFINE w == walk.at
<1>1. /\ w # Null /\ walk' = [walk EXCEPT !.at = prev[w]]
      /\ mallocd' = mallocd \ {w} /\ kids' = kids \ {w}
      /\ owner' = [n \in Nodes |-> IF n = w \/ owner[n] = w THEN Null ELSE owner[n]]
      /\ UNCHANGED <<prev, next, head>> /\ touched' = (touched \/ ~({w} \ {Null} \subseteq mallocd))
  BY DEF Libc!FreeAllStep, Libc!Touch, Libc!lists
<1>2. /\ OwnersInv /\ Libc!Now \in Links /\ AllLists(Libc!Now, Walked, Own) /\ touched = FALSE
      /\ Null \notin Nodes /\ Libc!Now' = Libc!Now
  BY <1>1 DEF LibcInv, Libc!LibcNames, Libc!Now
<1>3. /\ walk = [of |-> walk.of, at |-> w] /\ walk.of \in Libc!Live /\ RestOfWalk
  BY <1>1 DEF LibcInv, WalkInv, Libc!NoWalk
<1>4. PICK s : IsList(Libc!Now, s) /\ w = Newest(s) /\ Among(s) = Own[walk.of]
  BY <1>3 DEF RestOfWalk
<1>5. /\ s \in Seq(Nodes) /\ Len(s) \in Nat /\ Len(s) >= 1 /\ w = s[Len(s)]
      /\ \A i \in 1 .. Len(s) : s[i] \in Nodes
      /\ \A i, j \in 1 .. Len(s) : s[i] = s[j] => i = j
      /\ \A i \in 1 .. Len(s) : prev[s[i]] = IF i = 1 THEN Null ELSE s[i - 1]
      /\ \A i \in 1 .. Len(s) - 1 : next[s[i]] = s[i + 1]
  BY <1>1, <1>4 DEF Newest, IsList, Libc!Now
<1>6. /\ Libc!Live \subseteq Libc!Allocators
      /\ \A c \in Libc!Live : Own[c] = {m \in mallocd : owner[m] = c}
  BY <1>2, OwnedApart
<1>7. w \in mallocd /\ w \in Nodes /\ owner[w] = walk.of /\ walk.of # w
  <2>1. w \in Own[walk.of]
    BY <1>4, <1>5 DEF Among
  <2> QED
    BY <1>2, <1>3, <1>5, <1>6, <2>1 DEF OwnersInv
<1>8. /\ Libc!Live' = Libc!Live \ {w} /\ walk' = [of |-> walk'.of, at |-> walk'.at]
      /\ walk'.of = walk.of /\ walk'.at = prev[w] /\ walk'.of \in Libc!Live'
  <2>1. w # Root
    BY <1>7 DEF Libc!LibcNames
  <2>2. Libc!Live' = Libc!Live \ {w}
    BY <1>1, <2>1 DEF Libc!Live
  <2>3. walk'.of = walk.of /\ walk'.at = prev[w] /\ walk' = [of |-> walk'.of, at |-> walk'.at]
    BY <1>1, <1>3
  <2> QED
    BY <1>3, <1>7, <2>2, <2>3
<1>9. OwnersInv'
  <2>1. \A n \in Nodes : owner'[n] = IF n = w \/ owner[n] = w THEN Null ELSE owner[n]
    BY <1>1
  <2>2. mallocd' \subseteq Nodes /\ kids' \subseteq mallocd'
    BY <1>1, <1>2 DEF OwnersInv
  <2>3. owner' \in [Nodes -> Libc!Allocators \cup {Null}]
    BY <1>1, <1>2 DEF OwnersInv
  <2>4. \A n \in Nodes : owner'[n] # Null => n \in mallocd' /\ owner'[n] # n /\ owner'[n] \in Libc!Live'
    BY <1>1, <1>2, <1>8, <2>1 DEF OwnersInv
  <2> QED
    BY <2>2, <2>3, <2>4 DEF OwnersInv
<1>10. \A c \in Libc!Live' : Own'[c] = IF c = walk.of THEN Own[c] \ {w} ELSE Own[c]
  <2> SUFFICES ASSUME NEW c \in Libc!Live' PROVE Own'[c] = IF c = walk.of THEN Own[c] \ {w} ELSE Own[c]
    OBVIOUS
  <2>1. c \in Libc!Live /\ c \in Libc!Allocators /\ c # w /\ c # Null
    BY <1>2, <1>6, <1>8 DEF Libc!Live, OwnersInv, Libc!LibcNames
  <2>2. \A m \in mallocd \ {w} : owner'[m] = c <=> owner[m] = c
    BY <1>1, <1>2, <2>1 DEF OwnersInv
  <2>3. Own'[c] = {m \in mallocd \ {w} : owner'[m] = c} /\ Own[c] = {m \in mallocd : owner[m] = c}
    BY <1>1, <2>1 DEF Own
  <2> QED
    BY <1>7, <2>2, <2>3
<1>11. AllLists(Libc!Now', Walked', Own')
  <2>1. \A c \in Walked' : c \in Walked /\ Own'[c] = Own[c]
    BY <1>8, <1>10 DEF Walked
  <2> QED
    BY <1>2, <2>1 DEF AllLists
<1>12. RestOfWalk'
  <2> DEFINE t == [i \in 1 .. Len(s) - 1 |-> s[i]]
  <2>1. /\ t \in Seq(Nodes) /\ Len(t) = Len(s) - 1 /\ \A i \in 1 .. Len(t) : t[i] = s[i]
    <3>1. Len(s) - 1 \in Nat /\ \A i \in 1 .. Len(s) - 1 : t[i] \in Nodes
      BY <1>5
    <3> QED
      BY <3>1
  <2> HIDE DEF t
  <2>2. IsList(Libc!Now', t)
    <3>1. IsList(Libc!Now, t)
      BY <1>5, <2>1 DEF IsList, Libc!Now
    <3> QED
      BY <1>2, <3>1
  <2>3. walk'.at = Newest(t)
    <3>1. CASE Len(s) = 1
      BY <1>5, <1>8, <2>1, <3>1 DEF Newest
    <3>2. CASE Len(s) # 1
      <4>1. t # <<>> /\ t[Len(t)] = s[Len(s) - 1] /\ prev[w] = s[Len(s) - 1]
        BY <1>5, <2>1, <3>2
      <4> QED
        BY <1>8, <4>1 DEF Newest
    <3> QED
      BY <3>1, <3>2
  <2>4. Among(t) = Among(s) \ {w}
    <3>1. \A i \in 1 .. Len(t) : i \in 1 .. Len(s) /\ i # Len(s) /\ t[i] = s[i] /\ s[i] # w
      BY <1>5, <2>1
    <3>2. \A i \in 1 .. Len(s) : s[i] # w => i \in 1 .. Len(t)
      BY <1>5, <2>1
    <3> QED
      BY <3>1, <3>2 DEF Among
  <2>5. Among(t) = Own'[walk'.of]
    BY <1>4, <1>8, <1>10, <2>4
  <2> QED
    BY <2>2, <2>3, <2>5 DEF RestOfWalk
<1>13. touched' = FALSE
  BY <1>1, <1>2, <1>7
<1>14. WalkInv'
  BY <1>8, <1>12 DEF WalkInv
<1> QED
  BY <1>2, <1>9, <1>11, <1>13, <1>14 DEF LibcInv

(* A walk that has come to its end has nothing of its list left.            *)
LEMMA NothingLeft ==
  ASSUME Libc!LibcNames, LibcInv, ~Libc!Idle, walk.at = Null
  PROVE  walk.of \in Libc!Live /\ Own[walk.of] = {}
<1>1. walk.of \in Libc!Live /\ RestOfWalk
  BY DEF LibcInv, WalkInv, Libc!Idle
<1>2. PICK s : IsList(Libc!Now, s) /\ walk.at = Newest(s) /\ Among(s) = Own[walk.of]
  BY <1>1 DEF RestOfWalk
<1>3. s = <<>>
  BY <1>2 DEF IsList, Newest, Libc!LibcNames
<1> QED
  BY <1>1, <1>2, <1>3 DEF Among

LEMMA FreeAllEndKeeps ==
  ASSUME Libc!LibcNames, LibcInv, Libc!FreeAllEnd
  PROVE  LibcInv'
<1>1. /\ ~Libc!Idle /\ walk.at = Null /\ head' = [head EXCEPT ![walk.of] = Null] /\ walk' = Libc!NoWalk
      /\ UNCHANGED <<mallocd, prev, next, owner, kids, touched>>
  BY DEF Libc!FreeAllEnd
<1>2. /\ OwnersInv /\ Libc!Now \in Links /\ AllLists(Libc!Now, Walked, Own) /\ touched = FALSE
      /\ walk.of \in Libc!Live /\ Own[walk.of] = {} /\ Libc!Live \subseteq Libc!Allocators
  BY <1>1, NothingLeft, OwnedApart DEF LibcInv
<1>3. /\ Libc!Live' = Libc!Live /\ Own' = Own /\ OwnersInv' /\ Libc!Now'.prev = Libc!Now.prev
      /\ Libc!Now'.next = Libc!Now.next
  <2>1. Libc!Live' = Libc!Live /\ Own' = Own
    BY <1>1 DEF Libc!Live, Own
  <2> QED
    BY <1>1, <1>2, <2>1 DEF OwnersInv, Libc!Now
<1>4. head' \in [Libc!Allocators -> Nodes \cup {Null}] /\ head'[walk.of] = Null
      /\ \A c \in Walked : head'[c] = head[c]
  BY <1>1, <1>2 DEF Links, Libc!Now, Walked
<1>5. Libc!Now' \in Links
  BY <1>1, <1>2, <1>4 DEF Links, Libc!Now
<1>6. AllLists(Libc!Now', Libc!Live', Own')
  <2>1. ASSUME NEW c \in Walked
        PROVE  \E s : /\ IsList(Libc!Now', s) /\ Ended(Libc!Now', s) /\ Libc!Now'.head[c] = Newest(s)
                      /\ Among(s) = Own'[c]
    <3>1. PICK s : /\ IsList(Libc!Now, s) /\ Ended(Libc!Now, s) /\ Libc!Now.head[c] = Newest(s)
                   /\ Among(s) = Own[c]
      BY <1>2 DEF AllLists
    <3>2. IsList(Libc!Now', s) /\ Ended(Libc!Now', s)
      BY <1>3, <3>1 DEF IsList, Ended
    <3>3. Libc!Now'.head[c] = Libc!Now.head[c]
      BY <1>4 DEF Libc!Now
    <3> QED
      BY <1>3, <3>1, <3>2, <3>3
  <2>2. /\ IsList(Libc!Now', <<>>) /\ Ended(Libc!Now', <<>>)
        /\ Libc!Now'.head[walk.of] = Newest(<<>>) /\ Among(<<>>) = Own'[walk.of]
    BY <1>2, <1>3, <1>4 DEF IsList, Ended, Newest, Among, Libc!Now
  <2>3. \A c \in Libc!Live' : c \in Walked \/ c = walk.of
    BY <1>3 DEF Walked
  <2> QED
    BY <2>1, <2>2, <2>3, Zenon DEF AllLists
<1>7. Walked' = Libc!Live' /\ WalkInv'
  <2>1. walk'.of = Null /\ Null \notin Libc!Live'
    BY <1>1, <1>3 DEF OwnersInv, Libc!LibcNames, Libc!NoWalk, Libc!Live
  <2> QED
    BY <1>1, <2>1 DEF Walked, WalkInv, Libc!NoWalk
<1> QED
  BY <1>1, <1>2, <1>3, <1>5, <1>6, <1>7 DEF LibcInv

LEMMA LibcKeeps == ASSUME Libc!LibcNames, LibcInv, [Libc!Next]_(Libc!vars) PROVE LibcInv'
<1>1. CASE Libc!Next
  <2>1. CASE \E a \in Libc!Live, n \in Nodes :
               \/ Libc!Allocate(a, n) \/ Libc!CreateChild(a, n) \/ Libc!Free(a, n)
               \/ \E b \in Nodes : Libc!Reallocate(a, b, n)
    BY <2>1, AllocateKeeps, CreateChildKeeps, FreeKeeps, ReallocateKeeps
  <2>2. CASE \E a \in Libc!Live : Libc!FreeAllBegin(a)
    BY <2>2, FreeAllBeginKeeps
  <2>3. CASE Libc!FreeAllStep \/ Libc!FreeAllEnd
    BY <2>3, FreeAllStepKeeps, FreeAllEndKeeps
  <2> QED
    BY <1>1, <2>1, <2>2, <2>3 DEF Libc!Next
<1>2. CASE UNCHANGED Libc!vars
  <2>1. /\ mallocd' = mallocd /\ prev' = prev /\ next' = next /\ head' = head /\ owner' = owner
        /\ kids' = kids /\ walk' = walk /\ touched' = touched
    BY <1>2 DEF Libc!vars, Libc!lists
  <2>2. /\ Libc!Live' = Libc!Live /\ Own' = Own /\ Libc!Now' = Libc!Now /\ Walked' = Walked
    BY <2>1 DEF Libc!Live, Own, Libc!Now, Walked
  <2> QED
    BY <2>1, <2>2 DEF LibcInv, OwnersInv, AllLists, WalkInv, RestOfWalk
<1> QED
  BY <1>1, <1>2

LEMMA LibcInvariant == ASSUME Libc!LibcNames PROVE Libc!Spec => []LibcInv
<1>1. Libc!Init => LibcInv
  BY LibcStarts
<1>2. LibcInv /\ [Libc!Next]_(Libc!vars) => LibcInv'
  BY LibcKeeps
<1> QED
  BY <1>1, <1>2, PTL DEF Libc!Spec

LEMMA NoneTouched == LibcInv => Libc!NoUseAfterFree
BY DEF LibcInv, Libc!NoUseAfterFree

(* Whatever is allocated, moved and freed, and however free_all walks over  *)
(* headers it frees: no header that was given back is read or written.      *)
THEOREM LibcTouchesNothingFreed == ASSUME Libc!LibcNames PROVE Libc!Spec => []Libc!NoUseAfterFree
BY NoneTouched, LibcInvariant, PTL

LEMMA NoneSpared == ASSUME Libc!LibcNames, LibcInv PROVE Libc!FreeAllComplete
<1> SUFFICES ASSUME ~Libc!Idle, walk.at = Null, NEW n \in mallocd
             PROVE  owner[n] # walk.of
  BY DEF Libc!FreeAllComplete
<1>1. walk.of \in Libc!Live /\ Own[walk.of] = {}
  BY NothingLeft
<1> QED
  BY <1>1, OwnedApart DEF LibcInv

(* free_all of an allocator spares none of its allocations, and takes no    *)
(* more than them: the others keep their lists.                             *)
THEOREM LibcFreesAll == ASSUME Libc!LibcNames PROVE Libc!Spec => []Libc!FreeAllComplete
BY NoneSpared, LibcInvariant, PTL

(* A list has no more headers than there is memory for.                     *)
LEMMA ListFits ==
  ASSUME IsFiniteSet(Nodes), NEW l, NEW s, IsList(l, s)
  PROVE  Cardinality(Nodes) \in Nat /\ Len(s) <= Cardinality(Nodes)
<1>1. Cardinality(Nodes) \in Nat
  BY FS_CardinalityType
<1>2. s \in Injection(1 .. Len(s), Nodes)
  BY DEF IsList, Injection, IsInjective
<1>3. Len(s) \in Nat /\ IsFiniteSet(1 .. Len(s)) /\ Cardinality(1 .. Len(s)) = Len(s)
  <2>1. Len(s) \in Nat
    BY DEF IsList
  <2>2. /\ IsFiniteSet(1 .. Len(s))
        /\ Cardinality(1 .. Len(s)) = IF 1 > Len(s) THEN 0 ELSE Len(s) - 1 + 1
    BY <2>1, FS_Interval, 1 \in Int, Len(s) \in Int
  <2> QED
    BY <2>1, <2>2
<1>4. Cardinality(1 .. Len(s)) <= Cardinality(Nodes)
  BY <1>2, <1>3, FS_Injection
<1> QED
  BY <1>1, <1>3, <1>4

LEMMA ListsMatch ==
  ASSUME Libc!LibcNames, IsFiniteSet(Nodes), LibcInv PROVE Libc!ListsSound
<1> SUFFICES ASSUME Libc!Idle, NEW a \in Libc!Live
             PROVE  /\ Libc!ListOf(a) = {n \in mallocd : owner[n] = a}
                    /\ head[a] # Null => next[head[a]] = Null
                    /\ \A n \in Libc!ListOf(a) : prev[n] # Null => next[prev[n]] = n
  BY DEF Libc!ListsSound
<1>1. PICK s : IsList(Libc!Now, s) /\ Ended(Libc!Now, s) /\ Libc!Now.head[a] = Newest(s) /\ Among(s) = Own[a]
  BY IdleLists DEF AllLists
<1>2. Own[a] = {n \in mallocd : owner[n] = a}
  BY OwnedApart DEF LibcInv
<1>3. /\ Len(s) \in Nat /\ \A i \in 1 .. Len(s) : s[i] \in Nodes /\ s[i] # Null
      /\ head[a] = Newest(s) /\ Cardinality(Nodes) \in Nat /\ Len(s) <= Cardinality(Nodes)
  BY <1>1, ListFits DEF IsList, Libc!Now, Libc!LibcNames
<1>4. \A k \in Nat : Libc!Older(head[a], k) = IF k < Len(s) THEN s[Len(s) - k] ELSE Null
  BY <1>1, <1>3, OlderIs DEF Libc!LibcNames
<1>5. Libc!ListOf(a) = Among(s)
  <2>1. ASSUME NEW k \in 0 .. Cardinality(Nodes), Libc!Older(head[a], k) # Null
        PROVE  Libc!Older(head[a], k) \in Among(s)
    <3>1. k < Len(s) /\ Libc!Older(head[a], k) = s[Len(s) - k]
      BY <1>3, <1>4, <2>1
    <3>2. Len(s) - k \in 1 .. Len(s)
      BY <1>3, <3>1
    <3> QED
      BY <3>1, <3>2 DEF Among
  <2>2. ASSUME NEW i \in 1 .. Len(s)
        PROVE  s[i] # Null /\ \E k \in 0 .. Cardinality(Nodes) : s[i] = Libc!Older(head[a], k)
    <3>1. Len(s) - i \in 0 .. Cardinality(Nodes) /\ Len(s) - i \in Nat /\ Len(s) - i < Len(s)
          /\ Len(s) - (Len(s) - i) = i
      BY <1>3
    <3>2. Libc!Older(head[a], Len(s) - i) = s[i]
      BY <1>4, <3>1
    <3> QED
      BY <1>3, <3>1, <3>2
  <2>3. Libc!ListOf(a) = {Libc!Older(head[a], k) : k \in 0 .. Cardinality(Nodes)} \ {Null}
    BY DEF Libc!ListOf, Libc!Cardinality, Cardinality
  <2> QED
    BY <2>1, <2>2, <2>3 DEF Among
<1>6. head[a] # Null => next[head[a]] = Null
  BY <1>1, <1>3 DEF Ended, Newest, Libc!Now
<1>7. ASSUME NEW i \in 1 .. Len(s), prev[s[i]] # Null PROVE next[prev[s[i]]] = s[i]
  <2>1. i # 1 /\ prev[s[i]] = s[i - 1]
    BY <1>1, <1>7 DEF IsList, Libc!Now
  <2>2. i - 1 \in 1 .. Len(s) - 1 /\ (i - 1) + 1 = i
    BY <1>3, <2>1
  <2>3. next[s[i - 1]] = s[i]
    BY <1>1, <2>2 DEF IsList, Libc!Now
  <2> QED
    BY <2>1, <2>3
<1> QED
  BY <1>1, <1>2, <1>5, <1>6, <1>7 DEF Among

(* Between calls the list of every allocator in use is doubly linked and is *)
(* exactly what the allocator has from malloc.                              *)
THEOREM LibcListsSound ==
  ASSUME Libc!LibcNames, IsFiniteSet(Nodes)
  PROVE  Libc!Spec => []Libc!ListsSound
BY ListsMatch, LibcInvariant, PTL

-----------------------------------------------------------------------------
(* An address that is aligned upwards goes forwards, by less than the       *)
(* alignment, and so a block is placed past the bump pointer and a header.  *)
LEMMA AlignedPast ==
  ASSUME NEW x \in Int, NEW a \in Nat \ {0}
  PROVE  AlignUpwards(x, a) \in Int /\ AlignUpwards(x, a) >= x /\ AlignUpwards(x, a) < x + a
<1> DEFINE d == (x + a - 1) \div a
<1>1. d \in Int /\ a * d <= x + a - 1 /\ x + a - 1 < a * d + a
  BY SMT
<1>2. AlignUpwards(x, a) = a * d
  BY <1>1, SMT DEF AlignUpwards
<1> QED
  BY <1>1, <1>2

LEMMA PlacedPast ==
  ASSUME NEW c \in Nat, NEW a \in Nat \ {0}
  PROVE  Place(c, a) \in Nat /\ Place(c, a) >= c + Header
<1>1. EffectiveAlignment(a) \in Nat \ {0} /\ c + Header \in Int /\ Header = 8
  BY DEF EffectiveAlignment, Header
<1>2. Place(c, a) \in Int /\ Place(c, a) >= c + Header
  BY <1>1, AlignedPast DEF Place
<1> QED
  BY <1>1, <1>2

(* The names that the two arenas share with BumpLayout mean the same.       *)
LEMMA SameLayout ==
  /\ \A c, a : Bump!Place(c, a) = Place(c, a) /\ Growing!Place(c, a) = Place(c, a)
  /\ \A x, a : Growing!AlignUpwards(x, a) = AlignUpwards(x, a)
  /\ \A b : Bump!BlockEnd(b) = BlockEnd(b) /\ Growing!BlockEnd(b) = BlockEnd(b)
  /\ \A b, c : (Bump!Apart(b, c) <=> Apart(b, c)) /\ (Growing!Apart(b, c) <=> Apart(b, c))
  /\ \A b, f, t : (Bump!Inside(b, f, t) <=> Inside(b, f, t)) /\ (Growing!Inside(b, f, t) <=> Inside(b, f, t))
BY DEF Bump!Place, Growing!Place, Place, Bump!AlignUpwards, Growing!AlignUpwards, AlignUpwards,
       Bump!EffectiveAlignment, Growing!EffectiveAlignment, EffectiveAlignment, Bump!Header,
       Growing!Header, Header, Bump!BlockEnd, Growing!BlockEnd, BlockEnd, Bump!Apart,
       Growing!Apart, Apart, Bump!Inside, Growing!Inside, Inside

-----------------------------------------------------------------------------
(* Every block of an arena ends, with its guard, before the bump pointer,   *)
(* and those in use at a saved point before that point: so a block that     *)
(* goes to the bump pointer, and one that grows there, meets no other, and  *)
(* a rewind leaves only blocks that are before the pointer it goes back to. *)
Placed(b, from, to) ==
  /\ b.at \in Nat /\ b.header \in Nat \ {0}
  /\ from <= b.at - Header /\ BlockEnd(b) + guard <= to
AllPlaced(B, from, to) ==
  /\ \A b \in B : Placed(b, from, to)
  /\ \A b, c \in B : b # c => Apart(b, c)

(* A block put past all others lies apart from them.                        *)
LEMMA OneMorePlaced ==
  ASSUME NEW B, NEW from \in Nat, NEW to \in Nat, guard \in Nat, AllPlaced(B, from, to),
         NEW b, NEW at \in Nat, NEW header \in Nat \ {0}, b.at = at, b.header = header,
         from <= to, at - Header >= to
  PROVE  AllPlaced(B \cup {b}, from, at + header + guard)
<1>1. Placed(b, from, at + header + guard)
  BY DEF Placed, BlockEnd, Header
<1>2. ASSUME NEW c \in B PROVE Placed(c, from, at + header + guard) /\ Apart(b, c) /\ Apart(c, b)
  <2>1. Placed(c, from, to)
    BY DEF AllPlaced
  <2> QED
    BY <2>1, <1>1 DEF Placed, Apart, BlockEnd, Header
<1> QED
  BY <1>1, <1>2 DEF AllPlaced

(* The last block alone reaches the bump pointer, so it can change its      *)
(* length.                                                                  *)
LEMMA LastResized ==
  ASSUME NEW B, NEW from \in Nat, NEW to \in Nat, guard \in Nat, AllPlaced(B, from, to),
         NEW b \in B, to \in {BlockEnd(b), BlockEnd(b) + guard},
         NEW r, NEW header \in Nat \ {0}, r.at = b.at, r.header = header
  PROVE  AllPlaced((B \ {b}) \cup {r}, from, b.at + header + guard)
<1>1. Placed(b, from, to)
  BY DEF AllPlaced
<1>2. Placed(r, from, b.at + header + guard)
  BY <1>1 DEF Placed, BlockEnd
<1>3. ASSUME NEW c \in B \ {b} PROVE Placed(c, from, b.at + header + guard) /\ Apart(r, c) /\ Apart(c, r)
  <2>1. Placed(c, from, to) /\ Apart(b, c)
    BY DEF AllPlaced
  <2>2. BlockEnd(c) <= b.at - Header
    BY <1>1, <2>1 DEF Placed, Apart, BlockEnd, Header
  <2> QED
    BY <1>1, <1>2, <2>1, <2>2 DEF Placed, Apart, BlockEnd, Header
<1> QED
  BY <1>2, <1>3 DEF AllPlaced

LEMMA FewerPlaced ==
  ASSUME NEW B, NEW C \in SUBSET B, NEW from, NEW to, AllPlaced(B, from, to)
  PROVE  AllPlaced(C, from, to)
BY DEF AllPlaced

-----------------------------------------------------------------------------
ArenaPoint ==
  saved # NoPoint => saved \in Nat /\ start <= saved /\ \A b \in survivors : Placed(b, start, saved)

ArenaInv ==
  /\ start \in Nat /\ guard \in Nat /\ Length \in Nat
  /\ current \in Nat /\ start <= current /\ current <= Bump!end
  /\ AllPlaced(blocks, start, current)
  /\ ArenaPoint

LEMMA ArenaKept ==
  ASSUME Bump!ArenaArguments, ArenaInv, [Bump!Next]_Bump!vars PROVE ArenaInv'
<1>1. /\ start \in Nat /\ guard \in Nat /\ Length \in Nat
      /\ current \in Nat /\ start <= current /\ current <= Bump!end
      /\ AllPlaced(blocks, start, current)
      /\ ArenaPoint
  BY DEF ArenaInv
<1>2. /\ \A s \in Sizes : s \in Int
      /\ \A a \in Alignments : a \in Nat \ {0} /\ Place(current, a) \in Nat /\ Place(current, a) >= current + Header
      /\ NoPoint \notin Nat
  BY <1>1, PlacedPast DEF Bump!ArenaArguments
<1>3. ASSUME UNCHANGED <<start, guard, saved, survivors>> PROVE ArenaPoint'
  BY <1>1, <1>3 DEF ArenaPoint, Placed
<1>4. ASSUME NEW bytes \in Sizes, NEW alignment \in Alignments, NEW b, NEW others \in SUBSET blocks,
             Bump!Fits(bytes, alignment), b.at = Bump!Place(current, alignment), b.header = bytes,
             blocks' = others \cup {b}, current' = b.at + bytes + guard,
             UNCHANGED <<start, guard, saved, survivors>>
      PROVE  ArenaInv'
  <2>1. AllPlaced(others, start, current)
    BY <1>1, FewerPlaced
  <2>2. b.at \in Nat /\ b.at - Header >= current /\ bytes \in Nat \ {0} /\ b.at + bytes + guard <= Bump!end
    BY <1>1, <1>2, <1>4, SameLayout DEF Bump!Fits, Header
  <2>3. AllPlaced(others \cup {b}, start, b.at + bytes + guard)
    BY <1>1, <1>4, <2>1, <2>2, OneMorePlaced
  <2>4. AllPlaced(blocks, start, current)'
    BY <1>4, <2>3 DEF AllPlaced, Placed
  <2>5. current' \in Nat /\ start' <= current' /\ current' <= Bump!end'
    BY <1>1, <1>4, <2>2 DEF Bump!end, Header
  <2> QED
    BY <1>1, <1>3, <1>4, <2>4, <2>5 DEF ArenaInv
<1>5. ASSUME NEW B, B \in SUBSET blocks, blocks' = B, UNCHANGED <<start, guard, current, saved, survivors>>
      PROVE  ArenaInv'
  <2>1. AllPlaced(B, start, current)
    BY <1>1, <1>5, FewerPlaced
  <2>2. AllPlaced(blocks, start, current)'
    BY <1>5, <2>1 DEF AllPlaced, Placed
  <2> QED
    BY <1>1, <1>3, <1>5, <2>2 DEF ArenaInv, Bump!end
<1>6. ASSUME NEW bytes \in Sizes, NEW alignment \in Alignments, NEW b \in blocks,
             Bump!ReallocateInPlace(b, bytes, alignment)
      PROVE  ArenaInv'
  <2> DEFINE r == Bump!Block(b.at, bytes, bytes, b.owner)
  <2>1. r.at = b.at /\ r.header = bytes /\ bytes \in Nat \ {0} /\ b.at \in Nat
    BY <1>1, <1>2, <1>6 DEF Bump!Block, Bump!ReallocateInPlace, AllPlaced, Placed
  <2>2. /\ current \in {BlockEnd(b), BlockEnd(b) + guard} /\ b.at + bytes + guard <= Bump!end
        /\ blocks' = (blocks \ {b}) \cup {r} /\ current' = b.at + bytes + guard
        /\ UNCHANGED <<start, guard, saved, survivors>>
    BY <1>6, SameLayout DEF Bump!ReallocateInPlace, Bump!Last, Bump!memory
  <2> HIDE DEF r
  <2>3. AllPlaced((blocks \ {b}) \cup {r}, start, b.at + bytes + guard)
    BY <1>1, <2>1, <2>2, LastResized
  <2>4. AllPlaced(blocks, start, current)'
    BY <2>2, <2>3 DEF AllPlaced, Placed
  <2>5. start <= b.at
    BY <1>1 DEF AllPlaced, Placed, Header
  <2>6. current' \in Nat /\ start' <= current' /\ current' <= Bump!end'
    BY <1>1, <2>1, <2>2, <2>5 DEF Bump!end
  <2> QED
    BY <1>1, <1>3, <2>2, <2>4, <2>6 DEF ArenaInv
<1>7. CASE Bump!Reset
  BY <1>1, <1>2, <1>7 DEF Bump!Reset, Bump!memory, ArenaInv, ArenaPoint, AllPlaced, Bump!end
<1>8. CASE Bump!SaveRestorePoint
  BY <1>1, <1>2, <1>8 DEF Bump!SaveRestorePoint, Bump!memory, ArenaInv, ArenaPoint, AllPlaced, Placed, Bump!end
<1>9. CASE Bump!LoadRestorePoint
  <2>1. /\ saved # NoPoint /\ saved <= current /\ current' = saved /\ blocks' = blocks \cap survivors
        /\ UNCHANGED <<start, guard, saved, survivors>>
    BY <1>9 DEF Bump!LoadRestorePoint, Bump!memory
  <2>2. saved \in Nat /\ start <= saved /\ \A b \in survivors : Placed(b, start, saved)
    BY <1>1, <2>1 DEF ArenaPoint
  <2>3. AllPlaced(blocks, start, current)'
    BY <1>1, <2>1, <2>2 DEF AllPlaced, Placed
  <2>4. current' \in Nat /\ start' <= current' /\ current' <= Bump!end'
    BY <1>1, <2>1, <2>2 DEF Bump!end
  <2> QED
    BY <1>1, <1>3, <2>1, <2>3, <2>4 DEF ArenaInv
<1>10. ASSUME UNCHANGED Bump!vars PROVE ArenaInv'
  BY <1>1, <1>5, <1>10 DEF Bump!vars, Bump!memory
<1>11. ASSUME NEW bytes \in Sizes, NEW alignment \in Alignments, NEW whose \in Bump!Owners,
              Bump!Allocate(bytes, alignment, whose)
       PROVE  ArenaInv'
  <2> DEFINE b == Bump!Block(Bump!Place(current, alignment), bytes, bytes, whose)
  <2>1. b.at = Bump!Place(current, alignment) /\ b.header = bytes
    BY DEF Bump!Block
  <2>2. /\ Bump!Fits(bytes, alignment) /\ blocks' = blocks \cup {b} /\ current' = b.at + bytes + guard
        /\ UNCHANGED <<start, guard, saved, survivors>>
    BY <1>11 DEF Bump!Allocate, Bump!memory
  <2> HIDE DEF b
  <2> QED
    BY <1>4, <2>1, <2>2
<1>12. ASSUME NEW bytes \in Sizes, NEW alignment \in Alignments, NEW b \in blocks,
              Bump!ReallocateMoves(b, bytes, alignment)
       PROVE  ArenaInv'
  <2> DEFINE r == Bump!Block(Bump!Place(current, alignment), bytes, bytes, b.owner)
  <2>1. r.at = Bump!Place(current, alignment) /\ r.header = bytes
    BY DEF Bump!Block
  <2>2. /\ Bump!Fits(bytes, alignment) /\ blocks' = (blocks \ {b}) \cup {r} /\ current' = r.at + bytes + guard
        /\ UNCHANGED <<start, guard, saved, survivors>>
    BY <1>12 DEF Bump!ReallocateMoves, Bump!memory
  <2>3. blocks \ {b} \in SUBSET blocks
    OBVIOUS
  <2> HIDE DEF r
  <2> QED
    BY <1>4, <2>1, <2>2, <2>3
<1>13. ASSUME NEW bytes \in Sizes, NEW alignment \in Alignments, NEW b \in blocks,
              Bump!ReallocateFails(b, bytes, alignment)
       PROVE  ArenaInv'
  BY <1>10, <1>13 DEF Bump!ReallocateFails, Bump!vars
<1>14. ASSUME NEW bytes \in Sizes, NEW alignment \in Alignments, Bump!AllocateFails(bytes, alignment)
       PROVE  ArenaInv'
  BY <1>10, <1>14 DEF Bump!AllocateFails, Bump!vars
<1>15. ASSUME NEW b \in blocks, Bump!Free(b) PROVE ArenaInv'
  BY <1>5, <1>15 DEF Bump!Free, Bump!memory
<1>16. CASE Bump!ChildFreeAll
  BY <1>5, <1>16 DEF Bump!ChildFreeAll, Bump!memory
<1> QED
  BY <1>6, <1>7, <1>8, <1>9, <1>10, <1>11, <1>12, <1>13, <1>14, <1>15, <1>16 DEF Bump!Next

LEMMA ArenaStarts == ASSUME Bump!ArenaArguments, Bump!Init PROVE ArenaInv
BY DEF Bump!ArenaArguments, Bump!Init, ArenaInv, ArenaPoint, AllPlaced, Bump!end

LEMMA ArenaApart == ArenaInv => Bump!BlocksApart
BY SameLayout DEF ArenaInv, AllPlaced, Placed, Bump!BlocksApart, Inside, BlockEnd

(* Whatever is allocated, moved, resized, freed or rewound, no two blocks   *)
(* of an arena overlap and none leaves the memory or reaches past the bump  *)
(* pointer.                                                                 *)
THEOREM ArenaBlocksApart == ASSUME Bump!ArenaArguments PROVE Bump!Spec => []Bump!BlocksApart
<1>1. Bump!Init => ArenaInv
  BY ArenaStarts
<1>2. ArenaInv /\ [Bump!Next]_Bump!vars => ArenaInv'
  BY ArenaKept
<1> QED
  BY <1>1, <1>2, ArenaApart, PTL DEF Bump!Spec

-----------------------------------------------------------------------------
(* The infinite arena: as the arena, and besides a header never promises    *)
(* less than its block's user holds.                                        *)
GrowingPoint ==
  saved # NoPoint => saved \in Nat /\ Start <= saved /\ \A b \in survivors : Placed(b, Start, saved)

GrowingInv ==
  /\ Start \in Nat /\ guard \in Nat
  /\ current \in Nat /\ Start <= current
  /\ AllPlaced(blocks, Start, current)
  /\ \A b \in blocks : b \in Growing!SomeBlocks /\ b.len <= b.header
  /\ GrowingPoint
  /\ ~valid => blocks = {}

LEMMA GrowingKept ==
  ASSUME Growing!InfiniteArenaArguments, GrowingInv, [Growing!Next]_Growing!vars PROVE GrowingInv'
<1>1. /\ Start \in Nat /\ guard \in Nat
      /\ current \in Nat /\ Start <= current
      /\ AllPlaced(blocks, Start, current)
      /\ \A b \in blocks : b \in Growing!SomeBlocks /\ b.len <= b.header
      /\ GrowingPoint
      /\ ~valid => blocks = {}
  BY DEF GrowingInv
<1>2. /\ \A s \in Sizes : s \in Int
      /\ \A a \in Alignments : a \in Nat \ {0} /\ Place(current, a) \in Nat /\ Place(current, a) >= current + Header
      /\ NoPoint \notin Nat
  BY <1>1, PlacedPast DEF Growing!InfiniteArenaArguments
<1>3. ASSUME UNCHANGED <<guard, saved, survivors>> PROVE GrowingPoint'
  BY <1>1, <1>3 DEF GrowingPoint, Placed
<1>4. ASSUME NEW bytes \in Sizes, NEW alignment \in Alignments, NEW others \in SUBSET blocks,
             valid, Growing!Fits(bytes, alignment),
             Growing!Take(Growing!Block(Growing!Place(current, alignment), bytes, bytes), others)
      PROVE  GrowingInv'
  <2> DEFINE b == Growing!Block(Growing!Place(current, alignment), bytes, bytes)
  <2>1. AllPlaced(others, Start, current)
    BY <1>1, FewerPlaced
  <2>2. b.at \in Nat /\ b.at - Header >= current /\ bytes \in Nat \ {0} /\ b.header = bytes
    BY <1>1, <1>2, <1>4, SameLayout DEF Growing!Fits, Growing!Block, Header
  <2>3. b \in Growing!SomeBlocks /\ b.len <= b.header
    BY <2>2 DEF Growing!Block, Growing!SomeBlocks
  <2>4. /\ blocks' = others \cup {b} /\ current' = b.at + bytes + guard
        /\ UNCHANGED <<guard, valid, saved, survivors>>
    BY <1>4, <2>2, SameLayout DEF Growing!Take, BlockEnd, Growing!build, Growing!point
  <2> HIDE DEF b
  <2>5. AllPlaced(others \cup {b}, Start, b.at + bytes + guard)
    BY <1>1, <2>1, <2>2, OneMorePlaced
  <2>6. AllPlaced(blocks, Start, current)'
    BY <2>4, <2>5 DEF AllPlaced, Placed
  <2>7. current' \in Nat /\ Start <= current'
    BY <1>1, <2>2, <2>4 DEF Header
  <2>8. \A c \in blocks' : c \in Growing!SomeBlocks /\ c.len <= c.header
    BY <1>1, <2>3, <2>4
  <2>9. valid'
    BY <1>4, <2>4, Zenon
  <2> QED
    BY <1>1, <1>3, <2>4, <2>6, <2>7, <2>8, <2>9 DEF GrowingInv
<1>5. ASSUME NEW B, B \in SUBSET blocks, blocks' = B, UNCHANGED <<guard, valid, current, saved, survivors>>
      PROVE  GrowingInv'
  <2>1. AllPlaced(B, Start, current)
    BY <1>1, <1>5, FewerPlaced
  <2>2. AllPlaced(blocks, Start, current)'
    BY <1>5, <2>1 DEF AllPlaced, Placed
  <2> QED
    BY <1>1, <1>3, <1>5, <2>2 DEF GrowingInv
<1>6. ASSUME NEW bytes \in Nat \ {0}, NEW b \in blocks, NEW r \in Growing!SomeBlocks,
             r.at = b.at, r.header = bytes, r.len <= r.header,
             current \in {BlockEnd(b), BlockEnd(b) + guard},
             blocks' = (blocks \ {b}) \cup {r}, current' = b.at + bytes + guard,
             UNCHANGED <<guard, valid, saved, survivors>>
      PROVE  GrowingInv'
  <2>1. AllPlaced((blocks \ {b}) \cup {r}, Start, b.at + bytes + guard)
    BY <1>1, <1>6, LastResized
  <2>2. AllPlaced(blocks, Start, current)'
    BY <1>6, <2>1 DEF AllPlaced, Placed
  <2>3. Start <= b.at /\ b.at \in Nat
    BY <1>1 DEF AllPlaced, Placed, Header
  <2>4. current' \in Nat /\ Start <= current'
    BY <1>1, <1>6, <2>3
  <2>5. \A c \in blocks' : c \in Growing!SomeBlocks /\ c.len <= c.header
    BY <1>1, <1>6
  <2> QED
    BY <1>1, <1>3, <1>6, <2>2, <2>4, <2>5 DEF GrowingInv
<1>7. ASSUME NEW bytes \in Sizes, NEW alignment \in Alignments, NEW b \in blocks,
             Growing!ReallocateInPlace(b, bytes, alignment)
      PROVE  GrowingInv'
  <2> DEFINE r == Growing!Block(b.at, bytes, bytes)
  <2>1. b \in Growing!SomeBlocks /\ bytes \in Nat \ {0}
    BY <1>1, <1>2, <1>7 DEF Growing!ReallocateInPlace, Growing!SomeBlocks
  <2>2. r \in Growing!SomeBlocks /\ r.at = b.at /\ r.header = bytes /\ r.len <= r.header
    BY <2>1 DEF Growing!Block, Growing!SomeBlocks
  <2>3. /\ current \in {BlockEnd(b), BlockEnd(b) + guard}
        /\ blocks' = (blocks \ {b}) \cup {r} /\ current' = b.at + bytes + guard
        /\ UNCHANGED <<guard, valid, saved, survivors>>
    BY <1>7, <2>2, SameLayout
    DEF Growing!ReallocateInPlace, Growing!CanResizeInPlace, Growing!Take, BlockEnd,
        Growing!build, Growing!point
  <2> HIDE DEF r
  <2> QED
    BY <1>6, <2>1, <2>2, <2>3
<1>8. ASSUME NEW bytes \in Sizes, NEW alignment \in Alignments, NEW b \in blocks,
             Growing!ReallocateCannotCommit(b, bytes, alignment)
      PROVE  GrowingInv'
  <2> DEFINE r == [b EXCEPT !.header = bytes]
  <2>1. b \in Growing!SomeBlocks /\ bytes \in Nat \ {0} /\ b.len <= b.header /\ b.header <= bytes
    BY <1>1, <1>2, <1>8 DEF Growing!ReallocateCannotCommit, Growing!SomeBlocks
  <2>2. r \in Growing!SomeBlocks /\ r.at = b.at /\ r.header = bytes /\ r.len <= r.header
    BY <2>1 DEF Growing!SomeBlocks
  <2>3. /\ current \in {BlockEnd(b), BlockEnd(b) + guard}
        /\ blocks' = (blocks \ {b}) \cup {r} /\ current' = b.at + bytes + guard
        /\ UNCHANGED <<guard, valid, saved, survivors>>
    BY <1>8, <2>2, SameLayout
    DEF Growing!ReallocateCannotCommit, Growing!CanResizeInPlace, Growing!build, Growing!point
  <2> HIDE DEF r
  <2> QED
    BY <1>6, <2>1, <2>2, <2>3
<1>9. ASSUME NEW bytes \in Sizes, NEW b \in blocks, Growing!ReallocateSmaller(b, bytes)
      PROVE  GrowingInv'
  <2> DEFINE r == [b EXCEPT !.len = bytes]
  <2>1. b \in Growing!SomeBlocks /\ bytes \in Nat \ {0} /\ bytes <= b.header
    BY <1>1, <1>2, <1>9 DEF Growing!ReallocateSmaller, Growing!SomeBlocks
  <2>2. r \in Growing!SomeBlocks /\ r.at = b.at /\ r.header = b.header /\ r.len <= r.header
    BY <2>1 DEF Growing!SomeBlocks
  <2>3. /\ blocks' = (blocks \ {b}) \cup {r} /\ UNCHANGED <<guard, valid, current, saved, survivors>>
    BY <1>9 DEF Growing!ReallocateSmaller, Growing!build, Growing!point
  <2> HIDE DEF r
  <2>4. AllPlaced(blocks, Start, current)'
    BY <1>1, <2>2, <2>3 DEF AllPlaced, Placed, Apart, BlockEnd
  <2>5. \A c \in blocks' : c \in Growing!SomeBlocks /\ c.len <= c.header
    BY <1>1, <2>2, <2>3
  <2> QED
    BY <1>1, <1>3, <2>3, <2>4, <2>5 DEF GrowingInv
<1>10. ASSUME UNCHANGED Growing!vars PROVE GrowingInv'
  BY <1>1, <1>5, <1>10 DEF Growing!vars, Growing!build, Growing!point
<1>11. ASSUME NEW bytes \in Sizes, NEW alignment \in Alignments,
              Growing!Allocate(bytes, alignment) \/ Growing!AllocateFails(bytes, alignment)
       PROVE  GrowingInv'
  BY <1>4, <1>10, <1>11 DEF Growing!Allocate, Growing!AllocateFails
<1>12. ASSUME NEW bytes \in Sizes, NEW alignment \in Alignments, NEW b \in blocks,
              Growing!ReallocateMoves(b, bytes, alignment) \/ Growing!ReallocateFails(b, bytes, alignment)
       PROVE  GrowingInv'
  <2>1. blocks \ {b} \in SUBSET blocks
    OBVIOUS
  <2> QED
    BY <1>4, <1>10, <1>12, <2>1 DEF Growing!ReallocateMoves, Growing!ReallocateFails
<1>13. ASSUME NEW b \in blocks, Growing!Free(b) PROVE GrowingInv'
  BY <1>5, <1>13 DEF Growing!Free, Growing!build, Growing!point
<1>14. CASE Growing!Reset \/ Growing!Release
  BY <1>1, <1>2, <1>14
  DEF Growing!Reset, Growing!Release, Growing!build, GrowingInv, GrowingPoint, AllPlaced
<1>15. CASE Growing!InitAgain
  <2>1. valid' /\ Start = current' /\ UNCHANGED <<guard, blocks, saved, survivors>> /\ blocks = {}
    BY <1>1, <1>15 DEF Growing!InitAgain, Growing!build, Growing!point
  <2> QED
    BY <1>1, <1>3, <2>1 DEF GrowingInv, AllPlaced
<1>16. CASE Growing!SaveRestorePoint
  BY <1>1, <1>2, <1>16 DEF Growing!SaveRestorePoint, Growing!build, GrowingInv, GrowingPoint, AllPlaced, Placed
<1>17. CASE Growing!LoadRestorePoint
  <2>1. /\ saved # NoPoint /\ saved <= current /\ current' = saved /\ blocks' = blocks \cap survivors
        /\ UNCHANGED <<guard, valid, saved, survivors>>
    BY <1>17 DEF Growing!LoadRestorePoint, Growing!build, Growing!point
  <2>2. saved \in Nat /\ Start <= saved /\ \A b \in survivors : Placed(b, Start, saved)
    BY <1>1, <2>1 DEF GrowingPoint
  <2>3. AllPlaced(blocks, Start, current)'
    BY <1>1, <2>1, <2>2 DEF AllPlaced, Placed
  <2> QED
    BY <1>1, <1>3, <2>1, <2>2, <2>3 DEF GrowingInv
<1> QED
  BY <1>7, <1>8, <1>9, <1>10, <1>11, <1>12, <1>13, <1>14, <1>15, <1>16, <1>17 DEF Growing!Next

LEMMA GrowingStarts == ASSUME Growing!InfiniteArenaArguments, Growing!Init PROVE GrowingInv
BY DEF Growing!InfiniteArenaArguments, Growing!Init, GrowingInv, GrowingPoint, AllPlaced

LEMMA GrowingApart == GrowingInv => Growing!BlocksApart
BY SameLayout DEF GrowingInv, AllPlaced, Placed, Growing!BlocksApart, Inside, BlockEnd

(* No two blocks of an infinite arena overlap and none reaches past the     *)
(* bump pointer, also where a commit that failed in the middle of a         *)
(* reallocation has left a header that counts more than the user holds.     *)
THEOREM InfiniteArenaBlocksApart ==
  ASSUME Growing!InfiniteArenaArguments PROVE Growing!Spec => []Growing!BlocksApart
<1>1. Growing!Init => GrowingInv
  BY GrowingStarts
<1>2. GrowingInv /\ [Growing!Next]_Growing!vars => GrowingInv'
  BY GrowingKept
<1> QED
  BY <1>1, <1>2, GrowingApart, PTL DEF Growing!Spec

-----------------------------------------------------------------------------
(* The system is asked for whole granules, and for no more of them than are *)
(* needed.                                                                  *)
LEMMA AlignedTight ==
  ASSUME NEW x \in Int, NEW g \in Nat \ {0}, NEW q \in Int, x <= q * g
  PROVE  /\ AlignUpwards(x, g) <= q * g
         /\ \E d \in Int : AlignUpwards(x, g) = d * g
<1> DEFINE d == (x + g - 1) \div g
<1>1. d \in Int /\ g * d <= x + g - 1 /\ AlignUpwards(x, g) = d * g
  BY SMT DEF AlignUpwards
<1> HIDE DEF d
<1>2. d <= q
  <2> SUFFICES ASSUME d >= q + 1 PROVE FALSE
    BY <1>1
  <2>1. g * d >= g * (q + 1)
    BY <1>1
  <2>2. g * (q + 1) = g * q + g
    BY <1>1
  <2> QED
    BY <1>1, <2>1, <2>2
<1>3. g * d <= g * q
  BY <1>1, <1>2
<1> QED
  BY <1>1, <1>3

(* What committed_bytes counts is committed, in whole granules, and every   *)
(* block of a build for Windows ends in it.  The one commit that can fail   *)
(* in a reallocation is of no bytes at all, where the block ends exactly    *)
(* where the committed memory does, unless the system refuses another.      *)
CommitInv ==
  /\ backed \in Nat /\ committed \in Nat
  /\ \E k \in Nat : committed = k * Granule
  /\ (valid => committed = backed) /\ (~valid => backed = 0)
  /\ windows => \A b \in blocks : BlockEnd(b) <= Start + backed

WholeGranules == Length % Granule = 0
NeverRefused == "reallocate" \notin RefusedIn

LEMMA CommitReaches ==
  ASSUME Growing!InfiniteArenaArguments, CommitInv, NEW to \in Nat, Growing!CommitUpTo(to), valid
  PROVE  /\ backed' \in Nat /\ committed' \in Nat /\ committed' = backed' /\ backed <= backed'
         /\ \E k \in Nat : committed' = k * Granule
         /\ windows => to <= Start + backed'
<1>1. Start \in Nat /\ Granule \in Nat \ {0}
  BY DEF Growing!InfiniteArenaArguments
<1>2. backed \in Nat /\ committed \in Nat /\ committed = backed
  BY DEF CommitInv
<1>3. PICK k \in Nat : committed = k * Granule
  BY DEF CommitInv
<1>4. CASE Growing!NeedsCommit(to)
  <2> DEFINE missing == AlignUpwards(to - (Start + committed), Granule)
  <2>1. missing \in Int /\ missing >= to - (Start + committed)
    BY <1>1, <1>2, AlignedPast
  <2>2. missing > 0 /\ committed' = committed + missing /\ backed' = committed + missing
    BY <1>2, <1>4, SameLayout
    DEF Growing!CommitUpTo, Growing!CommitPossible, Growing!Missing, Growing!CommittedEnd
  <2>3. PICK d \in Int : missing = d * Granule
    <3> DEFINE x == to - (Start + committed)
    <3>1. x \in Int /\ \E q \in Int : x <= q * Granule
      <4>1. x <= to * Granule
        BY <1>1, <1>2
      <4> QED
        BY <1>1, <1>2, <4>1
    <3> HIDE DEF x
    <3>2. \E d \in Int : AlignUpwards(x, Granule) = d * Granule
      BY <1>1, <3>1, AlignedTight
    <3> QED
      BY <3>2 DEF x
  <2> HIDE DEF missing
  <2>4. k + d \in Nat /\ committed' = (k + d) * Granule
    <3>1. d > 0
      BY <1>1, <2>2, <2>3
    <3>2. (k + d) * Granule = k * Granule + d * Granule
      BY <1>1
    <3> QED
      BY <1>3, <2>2, <2>3, <3>1, <3>2
  <2> QED
    BY <1>1, <1>2, <2>1, <2>2, <2>4
<1>5. CASE ~Growing!NeedsCommit(to)
  <2>1. committed' = committed /\ backed' = backed
    BY <1>5 DEF Growing!CommitUpTo, Growing!commits
  <2>2. windows => to < Start + committed
    BY <1>1, <1>2, <1>5 DEF Growing!NeedsCommit, Growing!CommittedEnd
  <2>3. \E e \in Nat : committed' = e * Granule
    BY <1>3, <2>1, Zenon
  <2> QED
    BY <1>1, <1>2, <2>1, <2>2, <2>3
<1> QED
  BY <1>4, <1>5

LEMMA RefusalIsOfNothing ==
  ASSUME Growing!InfiniteArenaArguments, WholeGranules, NeverRefused, CommitInv,
         NEW to \in Nat, to <= Growing!end, Growing!MayFailToCommit(to, "reallocate")
  PROVE  to <= Start + committed
<1>1. Start \in Nat /\ Length \in Nat /\ Granule \in Nat \ {0}
  BY DEF Growing!InfiniteArenaArguments
<1>2. committed \in Nat
  BY DEF CommitInv
<1>3. PICK k \in Nat : committed = k * Granule
  BY DEF CommitInv
<1> DEFINE l == Length \div Granule
           x == to - (Start + committed)
           missing == AlignUpwards(x, Granule)
<1>4. l \in Int /\ Length = l * Granule
  BY <1>1, SMT DEF WholeGranules
<1> SUFFICES ASSUME x > 0 PROVE FALSE
  BY <1>1, <1>2
<1>5. x \in Int /\ x <= (l - k) * Granule /\ l - k \in Int
  <2>1. (l - k) * Granule = l * Granule - k * Granule
    BY <1>1, <1>4
  <2> QED
    BY <1>1, <1>2, <1>3, <1>4, <2>1 DEF Growing!end
<1>6. (l - k) * Granule = Length - committed
  BY <1>1, <1>3, <1>4
<1> HIDE DEF l, x
<1>7. missing \in Int /\ missing >= x /\ missing <= (l - k) * Granule
  BY <1>1, <1>5, AlignedPast, AlignedTight
<1>8. ~Growing!CommitPossible(to) /\ Growing!Missing(to) = missing
  BY SameLayout DEF Growing!MayFailToCommit, NeverRefused, Growing!Missing, Growing!CommittedEnd, x
<1> HIDE DEF missing
<1> QED
  BY <1>1, <1>2, <1>5, <1>6, <1>7, <1>8 DEF Growing!CommitPossible

LEMMA CommitKept ==
  ASSUME Growing!InfiniteArenaArguments, WholeGranules, NeverRefused,
         GrowingInv, CommitInv, [Growing!Next]_Growing!vars
  PROVE  CommitInv'
<1>1. /\ Start \in Nat /\ guard \in Nat /\ current \in Nat
      /\ \A b \in blocks : b.at \in Nat /\ b.header \in Nat
      /\ \A b \in blocks : b \in Growing!SomeBlocks
      /\ ~valid => blocks = {}
  BY DEF GrowingInv, AllPlaced, Placed
<1>2. /\ backed \in Nat /\ committed \in Nat
      /\ \E k \in Nat : committed = k * Granule
      /\ (valid => committed = backed) /\ (~valid => backed = 0)
      /\ windows => \A b \in blocks : BlockEnd(b) <= Start + backed
  BY DEF CommitInv
<1>3. /\ \A s \in Sizes : s \in Int /\ Length \in Nat
      /\ \A a \in Alignments : Place(current, a) \in Nat
  BY <1>1, PlacedPast DEF Growing!InfiniteArenaArguments
<1>4. ASSUME NEW others \in SUBSET blocks, NEW b, BlockEnd(b) \in Nat, valid, Growing!Take(b, others)
      PROVE  CommitInv'
  <2>1. /\ Growing!CommitUpTo(BlockEnd(b)) /\ blocks' = others \cup {b} /\ windows' = windows
    BY <1>4, SameLayout DEF Growing!Take, Growing!build
  <2>2. /\ backed' \in Nat /\ committed' \in Nat /\ committed' = backed' /\ backed <= backed'
        /\ \E k \in Nat : committed' = k * Granule
        /\ windows => BlockEnd(b) <= Start + backed'
    BY <1>4, <2>1, CommitReaches
  <2>3. ASSUME NEW c \in blocks', windows PROVE BlockEnd(c) <= Start + backed'
    <3>1. CASE c = b
      BY <2>2, <2>3, <3>1
    <3>2. CASE c \in others
      BY <1>1, <1>2, <2>2, <2>3, <3>2 DEF BlockEnd
    <3> QED
      BY <2>1, <2>3, <3>1, <3>2
  <2>4. valid'
    BY <1>4, Zenon DEF Growing!Take
  <2> QED
    BY <2>1, <2>2, <2>3, <2>4 DEF CommitInv
<1>5. ASSUME blocks' \in SUBSET blocks, UNCHANGED <<windows, valid, committed, backed>> PROVE CommitInv'
  BY <1>2, <1>5 DEF CommitInv
<1>6. ASSUME NEW bytes \in Sizes, NEW alignment \in Alignments, NEW others \in SUBSET blocks,
             valid, Growing!Fits(bytes, alignment),
             Growing!Take(Growing!Block(Growing!Place(current, alignment), bytes, bytes), others)
      PROVE  CommitInv'
  <2> DEFINE b == Growing!Block(Growing!Place(current, alignment), bytes, bytes)
  <2>1. BlockEnd(b) \in Nat
    BY <1>3, <1>6, SameLayout DEF Growing!Block, BlockEnd, Growing!Fits
  <2> HIDE DEF b
  <2>2. Growing!Take(b, others)
    BY <1>6 DEF b
  <2> QED
    BY <1>4, <1>6, <2>1, <2>2
<1>7. ASSUME NEW bytes \in Sizes, NEW alignment \in Alignments, NEW b \in blocks,
             Growing!ReallocateInPlace(b, bytes, alignment)
      PROVE  CommitInv'
  <2> DEFINE r == Growing!Block(b.at, bytes, bytes)
  <2>1. BlockEnd(r) \in Nat
    BY <1>1, <1>3, <1>7 DEF Growing!Block, BlockEnd, Growing!ReallocateInPlace
  <2>2. valid /\ Growing!Take(r, blocks \ {b})
    BY <1>7 DEF Growing!ReallocateInPlace
  <2>3. blocks \ {b} \in SUBSET blocks
    OBVIOUS
  <2> HIDE DEF r
  <2> QED
    BY <1>4, <2>1, <2>2, <2>3
<1>8. ASSUME NEW bytes \in Sizes, NEW alignment \in Alignments, NEW b \in blocks,
             Growing!ReallocateCannotCommit(b, bytes, alignment)
      PROVE  CommitInv'
  <2> DEFINE r == [b EXCEPT !.header = bytes]
  <2>1. /\ valid /\ bytes \in Nat /\ b.at + bytes <= Growing!end /\ b.at + bytes \in Nat
        /\ Growing!MayFailToCommit(b.at + bytes, "reallocate")
    BY <1>1, <1>3, <1>8
    DEF Growing!ReallocateCannotCommit, Growing!CanResizeInPlace, Growing!SomeBlocks, Growing!end
  <2>2. b.at + bytes <= Start + committed
    BY <2>1, RefusalIsOfNothing
  <2>3. BlockEnd(r) = b.at + bytes
    BY <1>1 DEF BlockEnd, Growing!SomeBlocks
  <2>4. blocks' = (blocks \ {b}) \cup {r} /\ UNCHANGED <<windows, valid, committed, backed>>
    BY <1>8 DEF Growing!ReallocateCannotCommit, Growing!build, Growing!commits
  <2> HIDE DEF r
  <2>5. \A c \in blocks' : windows => BlockEnd(c) <= Start + backed
    BY <1>2, <2>1, <2>2, <2>3, <2>4
  <2> QED
    BY <1>2, <2>4, <2>5 DEF CommitInv
<1>9. ASSUME NEW bytes \in Sizes, NEW b \in blocks, Growing!ReallocateSmaller(b, bytes)
      PROVE  CommitInv'
  <2> DEFINE r == [b EXCEPT !.len = bytes]
  <2>1. BlockEnd(r) = BlockEnd(b)
    BY <1>1 DEF BlockEnd, Growing!SomeBlocks
  <2>2. blocks' = (blocks \ {b}) \cup {r} /\ UNCHANGED <<windows, valid, committed, backed>>
    BY <1>9 DEF Growing!ReallocateSmaller, Growing!build, Growing!commits
  <2> HIDE DEF r
  <2>3. \A c \in blocks' : windows => BlockEnd(c) <= Start + backed
    BY <1>2, <2>1, <2>2
  <2> QED
    BY <1>2, <2>2, <2>3 DEF CommitInv
<1>10. ASSUME UNCHANGED Growing!vars PROVE CommitInv'
  BY <1>5, <1>10 DEF Growing!vars, Growing!build, Growing!commits
<1>11. ASSUME NEW bytes \in Sizes, NEW alignment \in Alignments,
              Growing!Allocate(bytes, alignment) \/ Growing!AllocateFails(bytes, alignment)
       PROVE  CommitInv'
  BY <1>6, <1>10, <1>11 DEF Growing!Allocate, Growing!AllocateFails
<1>12. ASSUME NEW bytes \in Sizes, NEW alignment \in Alignments, NEW b \in blocks,
              Growing!ReallocateMoves(b, bytes, alignment) \/ Growing!ReallocateFails(b, bytes, alignment)
       PROVE  CommitInv'
  <2>1. blocks \ {b} \in SUBSET blocks
    OBVIOUS
  <2> QED
    BY <1>6, <1>10, <1>12, <2>1 DEF Growing!ReallocateMoves, Growing!ReallocateFails
<1>13. ASSUME NEW b \in blocks, Growing!Free(b) PROVE CommitInv'
  BY <1>5, <1>13 DEF Growing!Free, Growing!build, Growing!commits
<1>14. CASE Growing!Reset \/ Growing!SaveRestorePoint \/ Growing!LoadRestorePoint
  BY <1>5, <1>14
  DEF Growing!Reset, Growing!SaveRestorePoint, Growing!LoadRestorePoint, Growing!build, Growing!commits
<1>15. CASE Growing!Release
  BY <1>2, <1>15 DEF Growing!Release, Growing!build, CommitInv
<1>16. CASE Growing!InitAgain
  <2>1. ~valid /\ valid' /\ committed' = 0 /\ UNCHANGED <<windows, backed, blocks>>
    BY <1>16 DEF Growing!InitAgain, Growing!build
  <2>2. 0 = 0 * Granule /\ 0 \in Nat
    BY DEF Growing!InfiniteArenaArguments
  <2>3. backed' = 0 /\ \E k \in Nat : committed' = k * Granule
    BY <1>2, <2>1, <2>2
  <2> QED
    BY <1>2, <2>1, <2>3 DEF CommitInv
<1> QED
  BY <1>7, <1>8, <1>9, <1>10, <1>11, <1>12, <1>13, <1>14, <1>15, <1>16 DEF Growing!Next

LEMMA CommitStarts == ASSUME Growing!InfiniteArenaArguments, Growing!Init PROVE CommitInv
<1>1. 0 = 0 * Granule /\ 0 \in Nat
  BY DEF Growing!InfiniteArenaArguments
<1>2. committed = 0 /\ backed = 0 /\ blocks = {} /\ valid
  BY DEF Growing!Init
<1>3. \E k \in Nat : committed = k * Granule
  BY <1>1, <1>2
<1> QED
  BY <1>2, <1>3 DEF CommitInv

LEMMA HeldIsCommitted == ASSUME GrowingInv, CommitInv PROVE Growing!BlocksCommitted
<1> SUFFICES ASSUME windows, NEW b \in blocks PROVE b.at + b.len <= Start + backed
  BY DEF Growing!BlocksCommitted
<1>1. b \in Growing!SomeBlocks /\ b.len <= b.header /\ b.at + b.header <= Start + backed
  BY DEF GrowingInv, CommitInv, BlockEnd
<1> QED
  BY <1>1 DEF CommitInv, GrowingInv, Growing!SomeBlocks

(* On Windows every byte that the user of an infinite arena holds is        *)
(* committed, as long as the system refuses no reallocation its memory: the *)
(* one refusal that is left is of no bytes at all.                          *)
THEOREM InfiniteArenaCommitted ==
  ASSUME Growing!InfiniteArenaArguments, WholeGranules, NeverRefused
  PROVE  Growing!Spec => []Growing!BlocksCommitted
<1>1. Growing!Init => GrowingInv /\ CommitInv
  BY GrowingStarts, CommitStarts
<1>2. GrowingInv /\ CommitInv /\ [Growing!Next]_Growing!vars => (GrowingInv /\ CommitInv)'
  BY GrowingKept, CommitKept
<1> QED
  BY <1>1, <1>2, HeldIsCommitted, PTL DEF Growing!Spec

-----------------------------------------------------------------------------
(* The loop of jsl_pool_init2: until it ends every chunk pushed fits and is *)
(* counted, and the cursor is where the last one ends.                      *)
InOrder(k) == chunks[k] - Layout!Header >= IF k = 1 THEN memory_start ELSE chunks[k - 1] + allocation_size
FitsMemory(k) == chunks[k] + allocation_size <= memory_end

LayoutInv ==
  /\ memory_start \in Nat /\ memory_end \in Nat /\ allocation_size \in Nat \ {0}
  /\ cursor \in Nat /\ remaining \in Int /\ cursor + remaining = memory_end
  /\ chunks \in Seq(Int) /\ chunk_count \in Nat /\ done \in BOOLEAN
  /\ \A k \in 1 .. Len(chunks) : InOrder(k)
  /\ \A k \in 1 .. Len(chunks) : k <= chunk_count <=> FitsMemory(k)
  /\ IF done THEN chunk_count \in {Len(chunks), Len(chunks) - 1} ELSE chunk_count = Len(chunks)
  /\ ~done => cursor = IF chunks = <<>> THEN memory_start ELSE chunks[Len(chunks)] + allocation_size

LEMMA NextChunkPast ==
  ASSUME LayoutInv PROVE Layout!NextChunk \in Int /\ Layout!NextChunk >= cursor + Layout!Header
<1>1. Layout!Alignment \in Nat \ {0}
  BY DEF Layout!Alignment
<1> DEFINE x == cursor + Layout!Header
           a == Layout!Alignment
           d == (x + a - 1) \div a
<1>2. x \in Int
  BY DEF LayoutInv, Layout!Header
<1> HIDE DEF x, a
<1>3. d \in Int /\ a * d <= x + a - 1 /\ x + a - 1 < a * d + a
  BY <1>1, <1>2, SMT DEF a
<1>4. Layout!NextChunk = d * a
  BY DEF Layout!NextChunk, Layout!AlignUpwards, x, a
<1> HIDE DEF d
<1>5. a \in Nat \ {0} /\ d * a = a * d
  BY <1>1, <1>3 DEF a
<1> QED
  BY <1>2, <1>3, <1>4, <1>5 DEF x

LEMMA LayoutKept == ASSUME LayoutInv, [Layout!Next]_Layout!vars PROVE LayoutInv'
<1>1. /\ memory_start \in Nat /\ memory_end \in Nat /\ allocation_size \in Nat \ {0}
      /\ cursor \in Nat /\ remaining \in Int /\ cursor + remaining = memory_end
      /\ chunks \in Seq(Int) /\ chunk_count \in Nat /\ done \in BOOLEAN
      /\ \A k \in 1 .. Len(chunks) : InOrder(k)
      /\ \A k \in 1 .. Len(chunks) : k <= chunk_count <=> FitsMemory(k)
      /\ IF done THEN chunk_count \in {Len(chunks), Len(chunks) - 1} ELSE chunk_count = Len(chunks)
      /\ ~done => cursor = IF chunks = <<>> THEN memory_start ELSE chunks[Len(chunks)] + allocation_size
  BY DEF LayoutInv
<1>2. CASE UNCHANGED Layout!vars
  BY <1>1, <1>2 DEF LayoutInv, Layout!vars, Layout!arguments, InOrder, FitsMemory
<1>3. CASE Layout!Finish
  BY <1>1, <1>3 DEF LayoutInv, Layout!Finish, Layout!arguments, InOrder, FitsMemory
<1>4. CASE Layout!PushChunk
  <2> DEFINE n == Layout!NextChunk
  <2>0. Len(chunks) \in Nat
    BY <1>1
  <2>10. PICK last \in Nat : last = Len(chunks) + 1
    BY <2>0
  <2>1. n \in Int /\ n - Layout!Header >= cursor
    BY <1>1, NextChunkPast DEF Layout!Header
  <2>2. ~done /\ chunks' = Append(chunks, n) /\ UNCHANGED <<memory_start, memory_end, allocation_size>>
    BY <1>4 DEF Layout!PushChunk, Layout!arguments
  <2> HIDE DEF n
  <2>3. /\ chunks' \in Seq(Int) /\ Len(chunks') = last /\ chunks'[last] = n /\ chunks' # <<>>
        /\ \A k \in 1 .. Len(chunks) : chunks'[k] = chunks[k]
    BY <1>1, <2>10, <2>1, <2>2
  <2>5. \A k \in 1 .. last : InOrder(k)'
    <3>1. ASSUME NEW k \in 1 .. Len(chunks) PROVE InOrder(k)'
      <4>1. chunks'[k] = chunks[k] /\ (k # 1 => chunks'[k - 1] = chunks[k - 1])
        BY <2>0, <2>3
      <4> QED
        BY <1>1, <2>2, <4>1, Zenon DEF InOrder
    <3>2. InOrder(last)'
      <4>1. n - Layout!Header >= IF last = 1 THEN memory_start ELSE chunks[last - 1] + allocation_size
        BY <1>1, <2>10, <2>1, <2>2
      <4> QED
        BY <1>1, <2>10, <2>2, <2>3, <4>1 DEF InOrder
    <3> QED
      BY <1>1, <2>10, <3>1, <3>2
  <2>6. chunk_count = Len(chunks) /\ Len(chunks) \in Nat /\ \A k \in 1 .. Len(chunks) : FitsMemory(k)'
    BY <1>1, <2>2, <2>3 DEF FitsMemory
  <2>7. FitsMemory(last)' <=> n + allocation_size <= memory_end
    BY <2>2, <2>3 DEF FitsMemory
  <2>8. CASE n + allocation_size <= memory_end
    <3>1. /\ cursor' = n + allocation_size /\ remaining' = remaining - (n + allocation_size - cursor)
          /\ chunk_count' = chunk_count + 1
      BY <1>1, <1>4, <2>1, <2>8 DEF Layout!PushChunk, n
    <3>2. done' = done
      BY <1>4, <2>8, Zenon DEF Layout!PushChunk, n
    <3>9. ~done' /\ done' \in BOOLEAN
      <4>1. done \in BOOLEAN
        BY <1>1, Zenon
      <4> QED
        BY <2>2, <3>2, <4>1, Zenon
    <3>3. \A k \in 1 .. Len(chunks') : k <= chunk_count' <=> FitsMemory(k)'
      BY <1>1, <2>0, <2>10, <2>3, <2>6, <2>7, <2>8, <3>1
    <3> QED
      BY <1>1, <2>10, <2>1, <2>2, <2>3, <2>5, <2>6, <3>1, <3>9, <3>3 DEF LayoutInv, Layout!Header
  <2>9. CASE ~(n + allocation_size <= memory_end)
    <3>1. done' /\ done' \in BOOLEAN
      BY <1>4, <2>9, Zenon DEF Layout!PushChunk, n
    <3>2. UNCHANGED <<cursor, remaining, chunk_count>>
      BY <1>4, <2>9 DEF Layout!PushChunk, n
    <3>3. \A k \in 1 .. Len(chunks') : k <= chunk_count' <=> FitsMemory(k)'
      BY <1>1, <2>0, <2>10, <2>3, <2>6, <2>7, <2>9, <3>2
    <3> QED
      BY <1>1, <2>10, <2>2, <2>3, <2>5, <2>6, <3>1, <3>2, <3>3 DEF LayoutInv
  <2> QED
    BY <2>8, <2>9
<1> QED
  BY <1>2, <1>3, <1>4 DEF Layout!Next

LEMMA LayoutStarts == ASSUME Layout!ArgumentsAssumption, Layout!Init PROVE LayoutInv
<1>1. chunks = <<>> /\ chunk_count = 0 /\ cursor = memory_start /\ done = FALSE
  BY Zenon DEF Layout!Init
<1>3. ~done /\ done \in BOOLEAN
  BY <1>1, Zenon
<1>4. chunks \in Seq(Int) /\ Len(chunks) = 0
  BY <1>1
<1>2. /\ memory_start \in Nat /\ memory_end \in Nat /\ allocation_size \in Nat \ {0}
      /\ remaining \in Nat /\ memory_end = memory_start + remaining
  BY DEF Layout!ArgumentsAssumption, Layout!Init
<1> QED
  BY <1>1, <1>2, <1>3, <1>4 DEF LayoutInv

LEMMA LayoutApart == LayoutInv => Layout!ChunksApart
BY DEF LayoutInv, Layout!ChunksApart, InOrder, FitsMemory

(* The chunks of a pool and their headers lie apart in the memory, only the *)
(* last may end past it, and chunk_count counts the others, for every       *)
(* memory and every allocation size.                                        *)
THEOREM PoolChunksApart == ASSUME Layout!ArgumentsAssumption PROVE Layout!Spec => []Layout!ChunksApart
<1>1. Layout!Init => LayoutInv
  BY LayoutStarts
<1>2. LayoutInv /\ [Layout!Next]_Layout!vars => LayoutInv'
  BY LayoutKept
<1> QED
  BY <1>1, <1>2, LayoutApart, PTL DEF Layout!Spec
=============================================================================
