----------------------------- MODULE AbstractPool -----------------------------
(***************************************************************************)
(* What allocator_pool.h promises of a pool: a set of chunks, each given   *)
(* to at most one user at a time; an allocation fails only when every      *)
(* chunk is outstanding; a free is accepted exactly when the chunk is      *)
(* outstanding; after free_all nothing is outstanding.                     *)
(***************************************************************************)
CONSTANTS
  Chunks,     \* addresses of the chunks of the memory given to init
  Strangers,  \* pointers the pool never returned
  Null

VARIABLES
  made,       \* chunks of the pool
  out,        \* outstanding chunks
  given,      \* result of the last allocate
  asked,      \* argument of the last free
  answer,     \* result of the last free
  freeingAll  \* free_all is at work

vars == <<made, out, given, asked, answer, freeingAll>>

Init ==
  /\ made = {} /\ out = {}
  /\ given = Null /\ asked = Null /\ answer = FALSE /\ freeingAll = FALSE

Make(c) ==
  /\ c \notin made /\ ~freeingAll
  /\ made' = made \cup {c}
  /\ UNCHANGED <<out, given, asked, answer, freeingAll>>

Allocate ==
  /\ ~freeingAll
  /\ \/ /\ made \ out = {}
        /\ given' = Null
        /\ out' = out
     \/ \E c \in made \ out :
        /\ given' = c
        /\ out' = out \cup {c}
  /\ UNCHANGED <<made, asked, answer, freeingAll>>

Free(x) ==
  /\ ~freeingAll
  /\ asked' = x
  /\ answer' = (x \in out)
  /\ out' = out \ {x}
  /\ UNCHANGED <<made, given, freeingAll>>

FreeAllBegin ==
  /\ ~freeingAll
  /\ freeingAll' = TRUE
  /\ UNCHANGED <<made, out, given, asked, answer>>

FreeAllOne ==
  /\ freeingAll
  /\ \E c \in out : out' = out \ {c}
  /\ UNCHANGED <<made, given, asked, answer, freeingAll>>

FreeAllEnd ==
  /\ freeingAll
  /\ out = {}
  /\ freeingAll' = FALSE
  /\ UNCHANGED <<made, out, given, asked, answer>>

Next ==
  \/ \E c \in Chunks : Make(c)
  \/ Allocate
  \/ \E x \in Chunks \cup Strangers : Free(x)
  \/ FreeAllBegin \/ FreeAllOne \/ FreeAllEnd

Spec == Init /\ [][Next]_vars
=============================================================================
