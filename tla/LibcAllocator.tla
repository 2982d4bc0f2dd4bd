----------------------------- MODULE LibcAllocator -----------------------------
(***************************************************************************)
(* allocator_libc.c: malloc with a header before every block, the headers  *)
(* of one allocator in a doubly linked list.  The state of a child         *)
(* allocator is itself a block of its parent.  malloc and free are those   *)
(* of the C library: malloc returns any block that is not in use, or NULL. *)
(***************************************************************************)
EXTENDS Integers, FiniteSets

CONSTANTS
  Nodes,      \* headers malloc may return, each with the block behind it
  Root,       \* the allocator the program declares; children live in nodes
  Null

LibcNames == Root \notin Nodes /\ Null \notin Nodes \cup {Root}

VARIABLES
  mallocd,        \* nodes malloc has returned and free has not got back
  prev, next,     \* of a header
  head,           \* of an allocator: the newest header
  owner,          \* whose allocation a node is, or Null
  kids,           \* nodes that hold the state of a child allocator
  walk,           \* free_all at work: the allocator and its current header
  touched         \* memory that had been freed was read or written

lists == <<prev, next, head>>
vars == <<mallocd, lists, owner, kids, walk, touched>>

Allocators == {Root} \cup Nodes
NoWalk == [of |-> Null, at |-> Null]

TypeOK ==
  /\ mallocd \subseteq Nodes /\ kids \subseteq mallocd
  /\ prev \in [Nodes -> Nodes \cup {Null}] /\ next \in [Nodes -> Nodes \cup {Null}]
  /\ head \in [Allocators -> Nodes \cup {Null}]
  /\ owner \in [Nodes -> Allocators \cup {Null}]
  /\ walk \in [of : Allocators \cup {Null}, at : mallocd \cup {Null}]
  /\ \A a \in {Root} \cup kids : walk.of = a \/ head[a] \in mallocd \cup {Null}
  /\ touched \in BOOLEAN

Init ==
  /\ mallocd = {} /\ kids = {}
  /\ prev = [n \in Nodes |-> Null] /\ next = [n \in Nodes |-> Null]
  /\ head = [a \in Allocators |-> Null]
  /\ owner = [n \in Nodes |-> Null]
  /\ walk = NoWalk /\ touched = FALSE

(* The allocators in use: the root, and children whose parent still is.     *)
Live == {Root} \cup kids
Idle == walk = NoWalk
Touch(S) == touched' = (touched \/ ~(S \ {Null} \subseteq mallocd))

-----------------------------------------------------------------------------
(* jsl__libc_link_header and jsl__libc_unlink_header, on values of the two  *)
(* links and the head.                                                      *)
Linked(l, a, n) ==
  [prev |-> [l.prev EXCEPT ![n] = l.head[a]],
   next |-> [[l.next EXCEPT ![n] = Null] EXCEPT
               ![IF l.head[a] = Null THEN n ELSE l.head[a]] = IF l.head[a] = Null THEN Null ELSE n],
   head |-> [l.head EXCEPT ![a] = n]]

(* Mutant: the head is not moved when it is the one that goes.              *)
UnlinkedKeepsHead(l, a, n) ==
  [prev |-> [m \in Nodes |-> IF m = n THEN Null ELSE IF m = l.next[n] THEN l.prev[n] ELSE l.prev[m]],
   next |-> [m \in Nodes |-> IF m = n THEN Null ELSE IF m = l.prev[n] THEN l.next[n] ELSE l.next[m]],
   head |-> l.head]

Unlinked(l, a, n) ==
  [prev |-> [m \in Nodes |-> IF m = n THEN Null ELSE IF m = l.next[n] THEN l.prev[n] ELSE l.prev[m]],
   next |-> [m \in Nodes |-> IF m = n THEN Null ELSE IF m = l.prev[n] THEN l.next[n] ELSE l.next[m]],
   head |-> IF l.head[a] = n THEN [l.head EXCEPT ![a] = l.prev[n]] ELSE l.head]

Now == [prev |-> prev, next |-> next, head |-> head]
Become(l) == prev' = l.prev /\ next' = l.next /\ head' = l.head

(* The blocks in use that do not belong to a free_all at work.              *)
UsedOf(a) == {n \in mallocd \ kids : owner[n] = a}

-----------------------------------------------------------------------------
(* jsl_libc_allocator_allocate_aligned.                                     *)
Allocate(a, n) ==
  /\ Idle /\ n \notin mallocd
  /\ mallocd' = mallocd \cup {n}
  /\ Become(Linked(Now, a, n))
  /\ owner' = [owner EXCEPT ![n] = a]
  /\ Touch({head[a]})
  /\ UNCHANGED <<kids, walk>>

(* jsl__libc_create_child: the child's head is set in the block it is.      *)
CreateChild(a, n) ==
  /\ Idle /\ n \notin mallocd
  /\ mallocd' = mallocd \cup {n} /\ kids' = kids \cup {n}
  /\ LET l == Linked(Now, a, n) IN Become([l EXCEPT !.head[n] = Null])
  /\ owner' = [owner EXCEPT ![n] = a]
  /\ Touch({head[a]})
  /\ UNCHANGED walk

(* jsl_libc_allocator_reallocate_aligned: a new block, a copy, and only     *)
(* then the old one goes.  If malloc fails nothing has happened.            *)
Reallocate(a, b, n) ==
  /\ Idle /\ b \in UsedOf(a) /\ n \notin mallocd
  /\ mallocd' = (mallocd \cup {n}) \ {b}
  /\ LET l == Linked(Now, a, n) IN
       /\ Become(Unlinked(l, a, b))
       /\ Touch({head[a], b, prev[b]} \cup ({l.next[b]} \ {n}))
  /\ owner' = [owner EXCEPT ![n] = a, ![b] = Null]
  /\ UNCHANGED <<kids, walk>>

(* jsl_libc_allocator_free.  A child's state is no block of the user's.     *)
Free(a, n) ==
  /\ Idle /\ n \in UsedOf(a)
  /\ Become(Unlinked(Now, a, n))
  /\ Touch({n, next[n], prev[n]})
  /\ mallocd' = mallocd \ {n}
  /\ owner' = [owner EXCEPT ![n] = Null]
  /\ UNCHANGED <<kids, walk>>

-----------------------------------------------------------------------------
(* jsl_libc_allocator_free_all: the walk from the head along prev.  With a  *)
(* child's state goes the list of the child's blocks, which stay with the C *)
(* library and have no owner any more.                                      *)
FreeAllBegin(a) ==
  /\ Idle
  /\ walk' = [of |-> a, at |-> head[a]]
  /\ UNCHANGED <<mallocd, lists, owner, kids, touched>>

(* Mutant: prev is read after the header was given back.                    *)
FreeAllStepReadsLate ==
  /\ walk.at # Null
  /\ walk' = [walk EXCEPT !.at = prev[walk.at]]
  /\ mallocd' = mallocd \ {walk.at} /\ kids' = kids \ {walk.at}
  /\ owner' = [n \in Nodes |-> IF n = walk.at \/ owner[n] = walk.at THEN Null ELSE owner[n]]
  /\ touched' = (touched \/ walk.at \notin mallocd')
  /\ UNCHANGED lists

FreeAllStep ==
  /\ walk.at # Null
  /\ walk' = [walk EXCEPT !.at = prev[walk.at]]
  /\ Touch({walk.at})
  /\ mallocd' = mallocd \ {walk.at} /\ kids' = kids \ {walk.at}
  /\ owner' = [n \in Nodes |-> IF n = walk.at \/ owner[n] = walk.at THEN Null ELSE owner[n]]
  /\ UNCHANGED lists

FreeAllEnd ==
  /\ ~Idle /\ walk.at = Null
  /\ head' = [head EXCEPT ![walk.of] = Null]
  /\ walk' = NoWalk
  /\ UNCHANGED <<mallocd, prev, next, owner, kids, touched>>

Next ==
  \/ \E a \in Live, n \in Nodes :
       \/ Allocate(a, n) \/ CreateChild(a, n) \/ Free(a, n)
       \/ \E b \in Nodes : Reallocate(a, b, n)
  \/ \E a \in Live : FreeAllBegin(a)
  \/ FreeAllStep \/ FreeAllEnd

Spec == Init /\ [][Next]_vars

-----------------------------------------------------------------------------
(* Between calls the list of every allocator in use is a doubly linked list *)
(* of exactly its allocations, which the C library has not got back.        *)
Older(n, k) ==
  LET older[i \in 0 .. k] == IF i = 0 THEN n ELSE IF older[i - 1] = Null THEN Null ELSE prev[older[i - 1]]
  IN  older[k]
ListOf(a) == {Older(head[a], k) : k \in 0 .. Cardinality(Nodes)} \ {Null}

ListsSound ==
  Idle =>
    \A a \in Live :
      /\ ListOf(a) = {n \in mallocd : owner[n] = a}
      /\ head[a] # Null => next[head[a]] = Null
      /\ \A n \in ListOf(a) : prev[n] # Null => next[prev[n]] = n

(* Nothing reads or writes a header that was given back to the C library,   *)
(* also where free_all walks over headers it frees.                         *)
NoUseAfterFree == ~touched

(* A free_all that has come to its end has freed every allocation of its    *)
(* allocator, children's states included.                                   *)
FreeAllComplete ==
  ~Idle /\ walk.at = Null => \A n \in mallocd : owner[n] # walk.of
=============================================================================
