--------------------------- MODULE AbstractSequence ----------------------------
(***************************************************************************)
(* What generate_array.h and string_builder.h promise: a sequence.  Only a *)
(* call that makes it longer may fail for want of memory, and a call that  *)
(* fails changes nothing.                                                  *)
(***************************************************************************)
EXTENDS Naturals, Sequences

CONSTANTS
  Chunks,       \* what one call adds
  MaxLength     \* bound: of the sequence

VARIABLES
  contents,
  last          \* the last call, its arguments and its result

vars == <<contents, last>>

Call(op, chunk, place, count, answer) ==
  [op |-> op, chunk |-> chunk, place |-> place, count |-> count, answer |-> answer]

Init == contents = <<>> /\ last.op = "init"

(* The arguments come first: they leave one instance of an action.          *)
Called(op, chunk, place, count) ==
  last'.op = op /\ last'.place = place /\ last'.count = count /\ last'.chunk = chunk
Answers(answer) == last'.answer = answer

Add(op, chunk, place) ==
  /\ Called(op, chunk, place, 0)
  /\ \/ /\ Answers(TRUE) /\ place <= Len(contents)
        /\ contents' = SubSeq(contents, 1, place) \o chunk \o SubSeq(contents, place + 1, Len(contents))
     \/ Answers(FALSE) /\ UNCHANGED contents

Remove(place, count) ==
  /\ Called("delete", <<>>, place, count)
  /\ IF count > 0 /\ place + count <= Len(contents)
     THEN /\ Answers(TRUE)
          /\ contents' = SubSeq(contents, 1, place) \o SubSeq(contents, place + count + 1, Len(contents))
     ELSE Answers(FALSE) /\ UNCHANGED contents

Empty(op) == Called(op, <<>>, 0, 0) /\ contents' = <<>>

Next ==
  \/ \E c \in Chunks : \/ Add("append", c, Len(contents))
                       \/ \E i \in 0 .. MaxLength : Add("insert_at", c, i)
  \/ \E i \in 0 .. MaxLength, n \in 0 .. MaxLength : Remove(i, n)
  \/ \E op \in {"clear", "free", "init"} : Empty(op)

Spec == Init /\ [][Next]_vars
=============================================================================
