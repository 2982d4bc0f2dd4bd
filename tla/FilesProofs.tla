------------------------------ MODULE FilesProofs ------------------------------
(***************************************************************************)
(* What the run of MCFiles checks of the directory walk, the transfers,    *)
(* the calls on one entry and the deletion of a directory holds for any    *)
(* tree, any sizes and any number of failures and of changes by others.    *)
(***************************************************************************)
EXTENDS MCFiles, FiniteSetTheorems, TLAPS

-----------------------------------------------------------------------------
(* The directories a walk has open.                                         *)

(* The stack of frames is a sequence, of whatever.                          *)
Stacked(s) == \E S : s \in Seq(S)

LEMMA StackPush == ASSUME NEW s, NEW x, Stacked(s) PROVE Stacked(Append(s, x)) /\ Len(Append(s, x)) = Len(s) + 1
<1>1. PICK S : s \in Seq(S)
  BY DEF Stacked
<1>2. PICK T : T = S \cup {x}
  OBVIOUS
<1>3. s \in Seq(T) /\ x \in T
  BY <1>1, <1>2
<1>4. Append(s, x) \in Seq(T) /\ Len(Append(s, x)) = Len(s) + 1
  BY <1>3
<1> QED
  BY <1>4, Zenon DEF Stacked

LEMMA StackPop ==
  ASSUME NEW s, Stacked(s), s # <<>>
  PROVE  Stacked(Front(s)) /\ Len(Front(s)) = Len(s) - 1 /\ Len(s) \in Nat \ {0}
<1>1. PICK S : s \in Seq(S)
  BY DEF Stacked
<1>2. Len(s) \in Nat \ {0}
  BY <1>1
<1>3. PICK n \in Nat : n = Len(s) /\ n >= 1
  BY <1>2
<1>4. Front(s) = SubSeq(s, 1, n - 1)
  BY <1>3, Zenon DEF Front
<1>5. SubSeq(s, 1, n - 1) \in Seq(S) /\ Len(SubSeq(s, 1, n - 1)) = n - 1
  BY <1>1, <1>3
<1> QED
  BY <1>2, <1>3, <1>4, <1>5, Zenon DEF Stacked

LEMMA StackSame ==
  ASSUME NEW s, NEW t, Stacked(s), DOMAIN t = DOMAIN s, t = [i \in DOMAIN t |-> t[i]]
  PROVE  Stacked(t) /\ Len(t) = Len(s)
<1>1. PICK S : s \in Seq(S)
  BY DEF Stacked
<1>2. PICK n \in Nat : n = Len(s) /\ DOMAIN s = 1 .. n
  BY <1>1
<1>3. PICK T : T = {t[i] : i \in 1 .. n}
  OBVIOUS
<1>4. t \in [1 .. n -> T]
  BY <1>2, <1>3
<1>5. t \in Seq(T) /\ Len(t) = n
  BY <1>4
<1> QED
  BY <1>2, <1>5, Zenon DEF Stacked

(* A directory stays open exactly as long as its frame is there, and a walk *)
(* in a call of next is not over.                                           *)
WalkInv == Stacked(frames) /\ HandlesReleased /\ (pc # "idle" => ~exhausted)

LEMMA NoneStacked == Stacked(<<>>) /\ Len(<<>>) = 0
<1>1. <<>> \in Seq({}) /\ Len(<<>>) = 0
  OBVIOUS
<1> QED
  BY <1>1, Zenon DEF Stacked

LEMMA WalkStarts == ASSUME Init PROVE WalkInv
BY NoneStacked DEF Init, IteratorInit, WalkInv, HandlesReleased

LEMMA WalkUnchanged ==
  ASSUME WalkInv, UNCHANGED <<frames, handles, exhausted>>, pc' # "idle" => pc # "idle" PROVE WalkInv'
BY DEF WalkInv, HandlesReleased

(* A frame comes on top, its directory opened.                              *)
LEMMA WalkPushes ==
  ASSUME WalkInv, NEW x, frames' = Append(frames, x), handles' = handles + 1, exhausted' = FALSE
  PROVE  WalkInv'
<1>1. Stacked(Append(frames, x)) /\ Len(Append(frames, x)) = Len(frames) + 1
  BY StackPush DEF WalkInv
<1> QED
  BY <1>1, Zenon DEF WalkInv, HandlesReleased

LEMMA WalkPops == ASSUME WalkInv, pc # "idle", frames # <<>>, Pop, UNCHANGED exhausted PROVE WalkInv'
<1>1. Stacked(Front(frames)) /\ Len(Front(frames)) = Len(frames) - 1
  BY StackPop DEF WalkInv
<1> QED
  BY <1>1, Zenon DEF WalkInv, HandlesReleased, Pop

LEMMA BeginInv == ASSUME WalkInv, NEW follow, Begin(follow) \/ BeginFails(follow) PROVE WalkInv'
<1>1. CASE Begin(follow)
  <2>1. <<Frame(Root, <<>>)>> = Append(<<>>, Frame(Root, <<>>))
    OBVIOUS
  <2>2. WalkInv /\ frames = <<>> /\ handles' = handles + 1 /\ exhausted' = FALSE
        /\ frames' = <<Frame(Root, <<>>)>>
    BY <1>1 DEF Begin
  <2>3. frames' = Append(frames, Frame(Root, <<>>))
    BY <2>1, <2>2
  <2> QED
    BY <2>2, <2>3, WalkPushes
<1>2. CASE BeginFails(follow)
  BY <1>2 DEF BeginFails, WalkInv, HandlesReleased
<1> QED
  BY <1>1, <1>2

LEMMA EndInv == ASSUME WalkInv, End PROVE WalkInv'
<1>1. handles - Len(frames) = 0
  <2>1. PICK n \in Nat : n = Len(frames)
    BY DEF WalkInv, Stacked
  <2> QED
    BY <2>1 DEF WalkInv, HandlesReleased
<1> QED
  BY <1>1, NoneStacked, Zenon DEF End, WalkInv, HandlesReleased

LEMMA NextWorksInv == ASSUME WalkInv, NextWorks PROVE WalkInv'
<1>1. ASSUME NEW n \in Names, Read(n) PROVE WalkInv'
  <2>1. PICK x : frames' = Append(Front(frames), x)
    BY <1>1, Zenon DEF Read
  <2>2. Stacked(Front(frames)) /\ Len(Front(frames)) = Len(frames) - 1 /\ Len(frames) \in Nat \ {0}
    BY <1>1, StackPop DEF WalkInv, Read
  <2>3. Stacked(frames') /\ Len(frames') = Len(Front(frames)) + 1
    BY <2>1, <2>2, StackPush
  <2>4. Len(Front(frames)) + 1 = Len(frames)
    BY <2>2
  <2>5. handles' = handles /\ exhausted' = exhausted /\ pc # "idle" /\ frames # <<>>
    BY <1>1 DEF Read, histories
  <2>6. ~exhausted
    BY <2>5 DEF WalkInv
  <2> QED
    BY <2>3, <2>4, <2>5, <2>6 DEF WalkInv, HandlesReleased
<1>2. CASE ReadEnds
  BY <1>2, WalkPops DEF ReadEnds
<1>3. CASE ReadFails
  BY <1>3, WalkPops DEF ReadFails
<1>4. CASE Drained
  BY <1>4 DEF Drained, WalkInv, HandlesReleased, histories
<1>5. CASE Stat
  BY <1>5, WalkUnchanged DEF Stat, iterator
<1>6. CASE Enter
  <2>1. ~exhausted /\ exhausted' = exhausted
    BY <1>6 DEF WalkInv, Enter
  <2>2. exhausted' = FALSE
    BY <2>1
  <2> QED
    BY <1>6, <2>2, WalkPushes DEF Enter
<1>7. CASE EnterFails
  BY <1>7, WalkUnchanged DEF EnterFails, iterator
<1> QED
  BY <1>1, <1>2, <1>3, <1>4, <1>5, <1>6, <1>7 DEF NextWorks

LEMMA OthersInv == ASSUME WalkInv, Others PROVE WalkInv'
<1>1. ASSUME NEW d, NEW n, OthersRemove(d, n) PROVE WalkInv'
  <2>1. DOMAIN frames' = DOMAIN frames /\ frames' = [i \in DOMAIN frames' |-> frames'[i]]
    BY <1>1 DEF OthersRemove
  <2>2. Stacked(frames') /\ Len(frames') = Len(frames)
    BY <2>1, StackSame DEF WalkInv
  <2>3. UNCHANGED <<handles, exhausted, pc>> /\ frames # <<>>
    BY <1>1 DEF OthersRemove
  <2>4. ~exhausted
    BY <2>3 DEF WalkInv, HandlesReleased
  <2> QED
    BY <2>2, <2>3, <2>4 DEF WalkInv, HandlesReleased
<1>2. ASSUME NEW d, NEW n, NEW entry, OthersAdd(d, n, entry) PROVE WalkInv'
  BY <1>2, WalkUnchanged DEF OthersAdd, iterator
<1> QED
  BY <1>1, <1>2 DEF Others

LEMMA CopyInv == ASSUME WalkInv, NEW t \in Targets, Copy(t[1], t[2]) PROVE WalkInv'
BY WalkUnchanged DEF Copy, iterator, histories

LEMMA WalkKept == ASSUME WalkInv, [Next]_vars PROVE WalkInv'
<1> USE WalkUnchanged
<1>1. CASE CopyRefused
  BY <1>1 DEF CopyRefused, iteratorVars, iterator, histories
<1>2. CASE CopyWorks
  <2>1. CASE CopyBegins \/ CopyCannotBegin
    BY <2>1, BeginInv DEF CopyBegins, CopyCannotBegin
  <2>2. CASE CopyCallsNext
    BY <2>2 DEF CopyCallsNext, CallNext, iterator, histories, WalkInv, HandlesReleased
  <2>3. CASE CopyEntry
    BY <2>3 DEF CopyEntry, iterator, histories
  <2>4. CASE CopyReachesEnd
    BY <2>4 DEF CopyReachesEnd, iteratorVars, iterator, histories
  <2>5. CASE CopyEnds
    BY <2>5, EndInv DEF CopyEnds, iteratorVars, iterator, histories
  <2> QED
    BY <1>2, <2>1, <2>2, <2>3, <2>4, <2>5 DEF CopyWorks
<1>3. CASE Caller
  <2>1. CASE CallNext
    BY <2>1 DEF CallNext, iterator, histories, WalkInv, HandlesReleased
  <2> QED
    BY <1>3, <2>1, BeginInv, EndInv DEF Caller
<1>4. CASE UNCHANGED vars
  BY <1>4 DEF vars, iteratorVars, iterator, histories
<1> QED
  BY <1>1, <1>2, <1>3, <1>4, CopyInv, NextWorksInv, OthersInv DEF Next

-----------------------------------------------------------------------------
(* The paths a walk reports.                                                *)

PathSeqs == Seq(Names)

(* Every frame is one level below the one before it and was reported, but   *)
(* for the first; what was reported of a directory is not left in it.       *)
Fields(f) == {"prefix", "left"} \subseteq DOMAIN f /\ f.prefix \in PathSeqs
Walked(fs, lg) ==
  \A k \in 1 .. Len(fs) :
    /\ Fields(fs[k]) /\ Len(fs[k].prefix) = k - 1
    /\ k > 1 => \E i \in 1 .. Len(lg) : lg[i] = fs[k].prefix
    /\ \A i \in 1 .. Len(lg) : Front(lg[i]) = fs[k].prefix => Last(lg[i]) \notin fs[k].left
InOrder(lg) ==
  \A i, j \in 1 .. Len(lg) :
    /\ i # j => lg[i] # lg[j]
    /\ Len(lg[i]) > 1 => \E k \in 1 .. i - 1 : lg[k] = Front(lg[i])
Unreported(lg, path) == \A i \in 1 .. Len(lg) : lg[i] # path
OrderInv ==
  /\ Stacked(frames) /\ log \in Seq(PathSeqs)
  /\ InOrder(log) /\ Walked(frames, log)
  /\ pc = "stat" =>
       frames # <<>> /\ name \in Names /\ name \notin Top.left /\ Unreported(log, PathOf(name))
  /\ pc = "open" =>
       frames # <<>> /\ name \in Names /\ log # <<>> /\ log[Len(log)] = PathOf(name)

LEMMA PathGrows ==
  ASSUME NEW p \in PathSeqs, NEW n \in Names
  PROVE  /\ Append(p, n) \in PathSeqs /\ Len(Append(p, n)) = Len(p) + 1 /\ Len(p) \in Nat
         /\ Front(Append(p, n)) = p /\ Last(Append(p, n)) = n
<1>1. PICK m \in Nat : m = Len(p)
  BY DEF PathSeqs
<1>2. PICK q : q = Append(p, n)
  OBVIOUS
<1>3. q \in Seq(Names) /\ Len(q) = m + 1 /\ q[m + 1] = n /\ \A i \in 1 .. m : q[i] = p[i]
  BY <1>1, <1>2 DEF PathSeqs
<1>4. Front(q) = SubSeq(q, 1, m) /\ Last(q) = n
  <2>1. (m + 1) - 1 = m
    OBVIOUS
  <2> QED
    BY <1>3, <2>1 DEF Front, Last
<1>5. SubSeq(q, 1, m) = p
  BY <1>1, <1>3 DEF PathSeqs
<1> QED
  BY <1>1, <1>2, <1>3, <1>4, <1>5 DEF PathSeqs

(* Sequences of frames that differ at the top.                              *)
Below0(fs, gs) == \A i \in 1 .. Len(fs) - 1 : gs[i] = fs[i]
LEMMA Tops ==
  ASSUME NEW fs, Stacked(fs), fs # <<>>, NEW x
  PROVE  /\ Len(fs) \in Nat \ {0} /\ Last(fs) = fs[Len(fs)]
         /\ Stacked(Front(fs)) /\ Len(Front(fs)) = Len(fs) - 1 /\ Below0(fs, Front(fs))
         /\ LET gs == Append(Front(fs), x)
            IN  Stacked(gs) /\ Len(gs) = Len(fs) /\ gs[Len(fs)] = x /\ Below0(fs, gs) /\ gs # <<>>
<1>1. PICK S : fs \in Seq(S)
  BY DEF Stacked
<1>2. PICK m \in Nat : m = Len(fs) /\ m >= 1
  BY <1>1
<1>3. Front(fs) = SubSeq(fs, 1, m - 1)
  BY <1>2, Zenon DEF Front
<1>4. PICK g : g = SubSeq(fs, 1, m - 1)
  OBVIOUS
<1>5. g \in Seq(S) /\ Len(g) = m - 1 /\ \A i \in 1 .. m - 1 : g[i] = fs[i]
  BY <1>1, <1>2, <1>4
<1>6. PICK h : h = Append(g, x)
  OBVIOUS
<1>7. g \in Seq(S \cup {x}) /\ x \in S \cup {x}
  BY <1>5
<1>8. h \in Seq(S \cup {x}) /\ Len(h) = m /\ h[m] = x /\ \A i \in 1 .. m - 1 : h[i] = fs[i]
  BY <1>2, <1>5, <1>6, <1>7
<1>9. h # <<>> /\ Last(fs) = fs[m]
  BY <1>2, <1>8 DEF Last
<1>10. Stacked(g) /\ Stacked(h) /\ Below0(fs, g) /\ Below0(fs, h)
  BY <1>2, <1>5, <1>8, Zenon DEF Stacked, Below0
<1>11. m \in Nat \ {0}
  BY <1>2
<1> QED
  BY <1>2, <1>3, <1>4, <1>5, <1>6, <1>8, <1>9, <1>10, <1>11, Zenon

LEMMA Pushes ==
  ASSUME NEW fs, Stacked(fs), NEW x
  PROVE  LET gs == Append(fs, x)
         IN  /\ Stacked(gs) /\ Len(gs) = Len(fs) + 1 /\ Len(fs) \in Nat
             /\ gs[Len(fs) + 1] = x /\ \A i \in 1 .. Len(fs) : gs[i] = fs[i]
<1>1. PICK S : fs \in Seq(S)
  BY DEF Stacked
<1>2. Stacked(Append(fs, x))
  BY StackPush
<1>3. fs \in Seq(S \cup {x}) /\ x \in S \cup {x}
  BY <1>1
<1> QED
  BY <1>2, <1>3

(* The walk goes up.                                                        *)
LEMMA WalkedUp ==
  ASSUME NEW fs, NEW lg, Stacked(fs), fs # <<>>, Walked(fs, lg) PROVE Walked(Front(fs), lg)
<1>1. PICK m \in Nat : m = Len(fs) /\ m >= 1
  BY Tops
<1>2. PICK g : g = Front(fs) /\ Len(g) = m - 1 /\ \A i \in 1 .. m - 1 : g[i] = fs[i]
  <2>1. Len(Front(fs)) = Len(fs) - 1 /\ Below0(fs, Front(fs))
    BY Tops
  <2> QED
    BY <1>1, <2>1, Zenon DEF Below0
<1>3. \A k \in 1 .. m - 1 : k \in 1 .. m
  BY <1>1
<1> QED
  BY <1>1, <1>2, <1>3, Zenon DEF Walked

(* It takes a name from the directory it is in.                             *)
LEMMA WalkedTakes ==
  ASSUME NEW fs, NEW lg, NEW x, NEW n \in Names, Stacked(fs), fs # <<>>, Walked(fs, lg), n \in Last(fs).left,
         {"prefix", "left"} \subseteq DOMAIN x, x.prefix = Last(fs).prefix, x.left = Last(fs).left \ {n}
  PROVE  Walked(Append(Front(fs), x), lg) /\ Unreported(lg, Append(x.prefix, n))
<1>1. PICK m \in Nat : m = Len(fs) /\ m >= 1 /\ Last(fs) = fs[m]
  BY Tops
<1>2. PICK g : g = Append(Front(fs), x) /\ Len(g) = m /\ g[m] = x /\ \A i \in 1 .. m - 1 : g[i] = fs[i]
  <2>1. PICK h : h = Append(Front(fs), x) /\ Len(h) = Len(fs) /\ h[Len(fs)] = x /\ Below0(fs, h)
    BY Tops, Zenon
  <2> QED
    BY <1>1, <2>1, Zenon DEF Below0
<1>3. m \in 1 .. m
  BY <1>1
<1>4. Fields(fs[m]) /\ (\A i \in 1 .. Len(lg) : Front(lg[i]) = fs[m].prefix => Last(lg[i]) \notin fs[m].left)
      /\ Len(fs[m].prefix) = m - 1 /\ (m > 1 => \E i \in 1 .. Len(lg) : lg[i] = fs[m].prefix)
  BY <1>1, <1>3, Zenon DEF Walked
<1>5. x.prefix = fs[m].prefix /\ x.left \subseteq fs[m].left /\ n \in fs[m].left
  BY <1>1
<1>6. Fields(g[m]) /\ (\A i \in 1 .. Len(lg) : Front(lg[i]) = g[m].prefix => Last(lg[i]) \notin g[m].left)
      /\ Len(g[m].prefix) = m - 1 /\ (m > 1 => \E i \in 1 .. Len(lg) : lg[i] = g[m].prefix)
  BY <1>2, <1>4, <1>5, Zenon DEF Fields
<1>7. \A k \in 1 .. m : k \in 1 .. m - 1 \/ k = m
  BY <1>1
<1>8. Walked(g, lg)
  BY <1>1, <1>2, <1>6, <1>7, Zenon DEF Walked
<1>9. ASSUME NEW i \in 1 .. Len(lg), lg[i] = Append(x.prefix, n) PROVE FALSE
  <2>1. Front(lg[i]) = x.prefix /\ Last(lg[i]) = n
    BY <1>4, <1>5, <1>9, PathGrows, Zenon DEF Fields
  <2> QED
    BY <1>4, <1>5, <2>1
<1> QED
  BY <1>2, <1>8, <1>9 DEF Unreported

(* It reports what it has taken.                                            *)
LEMMA WalkedReports ==
  ASSUME NEW fs, NEW lg \in Seq(PathSeqs), NEW n \in Names, Stacked(fs), fs # <<>>, Walked(fs, lg), InOrder(lg),
         n \notin Last(fs).left, Unreported(lg, Append(Last(fs).prefix, n))
  PROVE  LET path == Append(Last(fs).prefix, n)
             hg == Append(lg, path)
         IN  hg \in Seq(PathSeqs) /\ InOrder(hg) /\ Walked(fs, hg) /\ hg # <<>> /\ hg[Len(hg)] = path
<1>1. PICK m \in Nat : m = Len(fs) /\ m >= 1 /\ Last(fs) = fs[m]
  BY Tops
<1>2. m \in 1 .. m
  BY <1>1
<1>3. Fields(fs[m]) /\ Len(fs[m].prefix) = m - 1 /\ (m > 1 => \E i \in 1 .. Len(lg) : lg[i] = fs[m].prefix)
  BY <1>1, <1>2, Zenon DEF Walked
<1>4. PICK p \in PathSeqs : p = fs[m].prefix /\ Len(p) = m - 1
  BY <1>3 DEF Fields
<1>5. PICK q \in PathSeqs : q = Append(p, n) /\ Front(q) = p /\ Last(q) = n /\ Len(q) = (m - 1) + 1
  BY <1>4, PathGrows
<1>6. PICK l \in Nat : l = Len(lg)
  OBVIOUS
<1>7. PICK h \in Seq(PathSeqs) :
        h = Append(lg, q) /\ Len(h) = l + 1 /\ h[l + 1] = q /\ \A i \in 1 .. l : h[i] = lg[i]
  <2>1. PICK h : h = Append(lg, q)
    OBVIOUS
  <2>2. h \in Seq(PathSeqs) /\ Len(h) = l + 1 /\ h[l + 1] = q /\ \A i \in 1 .. l : h[i] = lg[i]
    BY <1>6, <2>1
  <2> QED
    BY <2>1, <2>2, Zenon
<1>8. \A i \in 1 .. l + 1 : i \in 1 .. l \/ i = l + 1
  BY <1>6
<1>9. InOrder(h)
  <2>1. ASSUME NEW i \in 1 .. l + 1, NEW j \in 1 .. l + 1, i # j PROVE h[i] # h[j]
    <3>1. \A k \in 1 .. l : lg[k] # q
      BY <1>1, <1>4, <1>5, <1>6 DEF Unreported
    <3>2. CASE i \in 1 .. l /\ j \in 1 .. l
      BY <1>6, <1>7, <2>1, <3>2, Zenon DEF InOrder
    <3>3. CASE i = l + 1 /\ j \in 1 .. l
      BY <1>7, <3>1, <3>3
    <3>4. CASE i \in 1 .. l /\ j = l + 1
      BY <1>7, <3>1, <3>4
    <3> QED
      BY <1>8, <2>1, <3>2, <3>3, <3>4
  <2>2. ASSUME NEW i \in 1 .. l + 1, Len(h[i]) > 1 PROVE \E k \in 1 .. i - 1 : h[k] = Front(h[i])
    <3>1. CASE i \in 1 .. l
      <4>1. PICK k \in 1 .. i - 1 : lg[k] = Front(lg[i])
        BY <1>6, <1>7, <2>2, <3>1, Zenon DEF InOrder
      <4>2. k \in 1 .. l
        BY <1>6, <3>1, <4>1
      <4> QED
        BY <1>7, <3>1, <4>1, <4>2
    <3>2. CASE i = l + 1
      <4>1. m > 1
        BY <1>1, <1>5, <1>7, <2>2, <3>2
      <4>2. PICK k \in 1 .. l : lg[k] = p
        BY <1>3, <1>4, <1>6, <4>1
      <4>3. k \in 1 .. i - 1
        BY <1>6, <3>2, <4>2
      <4>4. h[k] = Front(h[i])
        BY <1>5, <1>7, <3>2, <4>2, Zenon
      <4> QED
        BY <4>3, <4>4
    <3> QED
      BY <1>8, <2>2, <3>1, <3>2
  <2> QED
    BY <1>7, <2>1, <2>2, Zenon DEF InOrder
<1>10. Walked(fs, h)
  <2>1. ASSUME NEW k \in 1 .. m
        PROVE  /\ Fields(fs[k]) /\ Len(fs[k].prefix) = k - 1
               /\ k > 1 => \E i \in 1 .. l + 1 : h[i] = fs[k].prefix
               /\ \A i \in 1 .. l + 1 : Front(h[i]) = fs[k].prefix => Last(h[i]) \notin fs[k].left
    <3>1. Fields(fs[k]) /\ Len(fs[k].prefix) = k - 1
          /\ (k > 1 => \E i \in 1 .. l : lg[i] = fs[k].prefix)
          /\ (\A i \in 1 .. l : Front(lg[i]) = fs[k].prefix => Last(lg[i]) \notin fs[k].left)
      BY <1>1, <1>6, Zenon DEF Walked
    <3>2. \A i \in 1 .. l : i \in 1 .. l + 1
      BY <1>6
    <3>3. ASSUME p = fs[k].prefix PROVE n \notin fs[k].left
      <4>1. k = m
        BY <1>1, <1>4, <3>1, <3>3
      <4> QED
        BY <1>1, <4>1
    <3>4. ASSUME NEW i \in 1 .. l + 1, Front(h[i]) = fs[k].prefix PROVE Last(h[i]) \notin fs[k].left
      <4>1. CASE i \in 1 .. l
        BY <1>7, <3>1, <3>4, <4>1
      <4>2. CASE i = l + 1
        BY <1>5, <1>7, <3>3, <3>4, <4>2, Zenon
      <4> QED
        BY <1>8, <4>1, <4>2
    <3>5. k > 1 => \E i \in 1 .. l + 1 : h[i] = fs[k].prefix
      BY <1>7, <3>1, <3>2, Zenon
    <3> QED
      BY <3>1, <3>4, <3>5, Zenon
  <2> QED
    BY <1>1, <1>7, <2>1, Zenon DEF Walked
<1>11. h # <<>> /\ h[Len(h)] = q
  BY <1>6, <1>7
<1>12. Append(Last(fs).prefix, n) = q
  BY <1>1, <1>4, <1>5
<1> QED
  BY <1>7, <1>9, <1>10, <1>11, <1>12, Zenon

(* It goes down into the directory it has reported last.                    *)
LEMMA WalkedDown ==
  ASSUME NEW fs, NEW lg \in Seq(PathSeqs), NEW n \in Names, NEW x, Stacked(fs), fs # <<>>, Walked(fs, lg), InOrder(lg),
         lg # <<>>, lg[Len(lg)] = Append(Last(fs).prefix, n),
         {"prefix", "left"} \subseteq DOMAIN x, x.prefix = Append(Last(fs).prefix, n)
  PROVE  Walked(Append(fs, x), lg)
<1>1. PICK m \in Nat : m = Len(fs) /\ m >= 1 /\ Last(fs) = fs[m]
  BY Tops
<1>2. m \in 1 .. m
  BY <1>1
<1>3. fs[m].prefix \in PathSeqs /\ Len(fs[m].prefix) = m - 1
  BY <1>1, <1>2, Zenon DEF Walked, Fields
<1>4. PICK q \in PathSeqs : q = x.prefix /\ Len(q) = (m - 1) + 1
  BY <1>1, <1>3, PathGrows
<1>5. PICK l \in Nat : l = Len(lg) /\ l >= 1 /\ lg[l] = q /\ l \in 1 .. l
  BY <1>4
<1>6. PICK g : g = Append(fs, x) /\ Len(g) = m + 1 /\ g[m + 1] = x /\ \A i \in 1 .. m : g[i] = fs[i]
  <2>1. PICK h : h = Append(fs, x)
    OBVIOUS
  <2>2. Len(h) = Len(fs) + 1 /\ h[Len(fs) + 1] = x /\ \A i \in 1 .. Len(fs) : h[i] = fs[i]
    BY <2>1, Pushes
  <2> QED
    BY <1>1, <2>1, <2>2, Zenon
<1>7. ASSUME NEW i \in 1 .. l, Front(lg[i]) = q PROVE FALSE
  <2>1. PICK p \in PathSeqs : p = lg[i]
    BY <1>5
  <2>2. Len(p) > 1
    <3>1. PICK w \in Nat : w = Len(p)
      BY <2>1 DEF PathSeqs
    <3>2. Len(q) = IF w = 0 THEN 0 ELSE w - 1
      <4>1. SubSeq(p, 1, w - 1) = q
        BY <1>7, <2>1, <3>1, Zenon DEF Front
      <4>2. Len(SubSeq(p, 1, w - 1)) = IF w = 0 THEN 0 ELSE w - 1
        BY <3>1, <2>1 DEF PathSeqs
      <4> QED
        BY <4>1, <4>2
    <3> QED
      BY <1>1, <1>4, <3>1, <3>2
  <2>3. PICK k \in 1 .. i - 1 : lg[k] = q
    BY <1>5, <1>7, <2>1, <2>2, Zenon DEF InOrder
  <2>4. k # l /\ k \in 1 .. l
    BY <1>5, <2>3
  <2> QED
    BY <1>5, <2>3, <2>4, Zenon DEF InOrder
<1>8. Fields(x) /\ Len(x.prefix) = (m + 1) - 1 /\ (\E i \in 1 .. l : lg[i] = x.prefix)
      /\ \A i \in 1 .. l : Front(lg[i]) # x.prefix
  BY <1>1, <1>4, <1>5, <1>7 DEF Fields
<1>9. \A k \in 1 .. m + 1 : k \in 1 .. m \/ k = m + 1
  BY <1>1
<1>10. ASSUME NEW k \in 1 .. m + 1
       PROVE  /\ Fields(g[k]) /\ Len(g[k].prefix) = k - 1
              /\ k > 1 => \E i \in 1 .. Len(lg) : lg[i] = g[k].prefix
              /\ \A i \in 1 .. Len(lg) : Front(lg[i]) = g[k].prefix => Last(lg[i]) \notin g[k].left
  <2>1. CASE k \in 1 .. m
    <3>1. g[k] = fs[k]
      BY <1>6, <2>1
    <3> QED
      BY <1>1, <2>1, <3>1, Zenon DEF Walked
  <2>2. CASE k = m + 1
    BY <1>5, <1>6, <1>8, <2>2, Zenon
  <2> QED
    BY <1>9, <2>1, <2>2
<1>11. Walked(g, lg)
  BY <1>6, <1>10, Zenon DEF Walked
<1> QED
  BY <1>6, <1>11

LEMMA OrderStarts == ASSUME Init PROVE OrderInv
<1>1. frames = <<>> /\ log = <<>> /\ pc = "idle"
  BY DEF Init, IteratorInit
<1> QED
  BY <1>1, NoneStacked DEF OrderInv, InOrder, Walked

LEMMA OrderPromises == ASSUME OrderInv PROVE PreOrder
<1>1. DOMAIN log = 1 .. Len(log)
  BY DEF OrderInv
<1> QED
  BY <1>1, Zenon DEF OrderInv, InOrder, PreOrder

(* A walk ends, or a new one begins.                                        *)
LEMMA OrderEnds ==
  ASSUME OrderInv, log' = <<>>, frames' = <<>>, pc' = "idle" PROVE OrderInv'
BY NoneStacked DEF OrderInv, InOrder, Walked

LEMMA OrderBegins == ASSUME OrderInv, NEW follow, Begin(follow) \/ BeginFails(follow) PROVE OrderInv'
<1>1. CASE Begin(follow)
  <2>1. PICK x : x = Frame(Root, <<>>)
    OBVIOUS
  <2>2. {"prefix", "left"} \subseteq DOMAIN x /\ x.prefix = <<>>
    BY <2>1 DEF Frame
  <2>3. frames' = <<x>> /\ log' = <<>> /\ pc' = "idle"
    BY <1>1, <2>1 DEF Begin
  <2>4. <<x>> \in Seq({x}) /\ Len(<<x>>) = 1 /\ <<x>>[1] = x
    OBVIOUS
  <2>5. Stacked(frames')
    BY <2>3, <2>4, Zenon DEF Stacked
  <2>6. Fields(x) /\ Len(x.prefix) = 0
    BY <2>2 DEF Fields, PathSeqs
  <2>7. Walked(<<x>>, <<>>)
    BY <2>4, <2>6 DEF Walked
  <2> QED
    BY <2>3, <2>5, <2>7 DEF OrderInv, InOrder
<1>2. CASE BeginFails(follow)
  <2>1. frames' = frames /\ frames = <<>> /\ log' = <<>> /\ pc' = pc /\ pc = "idle"
    BY <1>2 DEF BeginFails
  <2> QED
    BY <2>1, OrderEnds
<1> QED
  BY <1>1, <1>2

LEMMA OrderStops == ASSUME OrderInv, End PROVE OrderInv'
BY OrderEnds DEF End

(* Nothing of it changes.                                                   *)
LEMMA OrderStays == ASSUME OrderInv, UNCHANGED <<frames, log, pc, name>> PROVE OrderInv'
BY DEF OrderInv, Top, PathOf

LEMMA OrderWaits ==
  ASSUME OrderInv, UNCHANGED <<frames, log>>, pc' \in {"idle", "read"} PROVE OrderInv'
BY DEF OrderInv

LEMMA OrderWorks == ASSUME OrderInv, NextWorks PROVE OrderInv'
<1>1. ASSUME NEW n \in Names, Read(n) PROVE OrderInv'
  <2>1. PICK x : x = [Top EXCEPT !.left = @ \ {n}, !.due = @ \ {n}]
    OBVIOUS
  <2>2. frames # <<>> /\ n \in Last(frames).left /\ frames' = Append(Front(frames), x) /\ log' = log
    BY <1>1, <2>1 DEF Read, histories, Top
  <2>3. PICK m \in Nat : m = Len(frames) /\ m >= 1 /\ Last(frames) = frames[m] /\ m \in 1 .. m
    BY <2>2, Tops DEF OrderInv
  <2>4. PICK f : f = Last(frames) /\ {"prefix", "left"} \subseteq DOMAIN f
    BY <2>3, Zenon DEF OrderInv, Walked, Fields
  <2>5. x = [f EXCEPT !.left = @ \ {n}, !.due = @ \ {n}]
    BY <2>1, <2>4, Zenon DEF Top
  <2>6. {"prefix", "left"} \subseteq DOMAIN x /\ x.prefix = f.prefix /\ x.left = f.left \ {n}
    BY <2>4, <2>5
  <2>7. Walked(frames', log') /\ Unreported(log', Append(x.prefix, n))
    BY <2>2, <2>4, <2>6, WalkedTakes DEF OrderInv
  <2>8. Stacked(frames') /\ frames' # <<>> /\ Last(frames') = x
    <3>1. PICK g : g = frames' /\ Stacked(g) /\ Len(g) = m /\ g[m] = x /\ g # <<>>
      BY <2>2, <2>3, Tops, Zenon DEF OrderInv
    <3> QED
      BY <2>3, <3>1 DEF Last
  <2>9. pc' = "idle" \/ (pc' = "stat" /\ name' = n)
    BY <1>1 DEF Read
  <2>10. n \notin x.left
    BY <2>6
  <2>11. log' \in Seq(PathSeqs) /\ InOrder(log')
    BY <2>2, Zenon DEF OrderInv
  <2>12. pc' = "stat" =>
          frames' # <<>> /\ name' \in Names /\ name' \notin Top'.left /\ Unreported(log', PathOf(name)')
    BY <2>7, <2>8, <2>9, <2>10 DEF Top, PathOf
  <2>13. pc' # "open"
    BY <2>9
  <2> QED
    BY <2>7, <2>8, <2>11, <2>12, <2>13, Zenon DEF OrderInv
<1>2. ASSUME frames # <<>>, Pop, UNCHANGED <<pc, log>>, pc = "read" PROVE OrderInv'
  <2>1. Stacked(frames') /\ Walked(frames', log')
    BY <1>2, WalkedUp, Tops DEF Pop, OrderInv
  <2> QED
    BY <1>2, <2>1 DEF OrderInv
<1>3. CASE ReadEnds
  BY <1>2, <1>3 DEF ReadEnds
<1>4. CASE ReadFails
  BY <1>2, <1>4 DEF ReadFails
<1>5. CASE Drained
  BY <1>5, OrderWaits DEF Drained, histories
<1>6. CASE Stat
  <2>1. frames' = frames /\ log' = Append(log, Append(Last(frames).prefix, name))
    BY <1>6 DEF Stat, iterator, PathOf, Top
  <2>2. frames # <<>> /\ name \in Names /\ name \notin Last(frames).left
        /\ Unreported(log, Append(Last(frames).prefix, name))
    BY <1>6 DEF OrderInv, Stat, Top, PathOf
  <2>3. log' \in Seq(PathSeqs) /\ InOrder(log') /\ Walked(frames, log') /\ log' # <<>>
        /\ log'[Len(log')] = Append(Last(frames).prefix, name)
    BY <2>1, <2>2, WalkedReports, Zenon DEF OrderInv
  <2>4. pc' = "idle" \/ (pc' = "open" /\ name' = name)
    BY <1>6 DEF Stat
  <2>5. pc' # "stat"
    BY <2>4
  <2>6. pc' = "open" =>
          frames' # <<>> /\ name' \in Names /\ log' # <<>> /\ log'[Len(log')] = PathOf(name)'
    BY <2>1, <2>2, <2>3, <2>4, Zenon DEF Top, PathOf
  <2> QED
    BY <2>1, <2>3, <2>5, <2>6, Zenon DEF OrderInv
<1>7. CASE Enter
  <2>1. PICK x : x = Frame(DirAt(Root, PathOf(name)), PathOf(name))
    OBVIOUS
  <2>2. {"prefix", "left"} \subseteq DOMAIN x /\ x.prefix = Append(Last(frames).prefix, name)
    BY <2>1 DEF Frame, PathOf, Top
  <2>3. frames' = Append(frames, x) /\ log' = log /\ pc' = "idle"
    BY <1>7, <2>1 DEF Enter
  <2>4. frames # <<>> /\ name \in Names /\ log # <<>> /\ log[Len(log)] = Append(Last(frames).prefix, name)
    BY <1>7 DEF OrderInv, Enter, Top, PathOf
  <2>5. Walked(frames', log') /\ Stacked(frames')
    BY <2>2, <2>3, <2>4, WalkedDown, StackPush, Zenon DEF OrderInv
  <2> QED
    BY <2>3, <2>5 DEF OrderInv
<1>8. CASE EnterFails
  BY <1>8, OrderWaits DEF EnterFails, iterator
<1> QED
  BY <1>1, <1>3, <1>4, <1>5, <1>6, <1>7, <1>8 DEF NextWorks

(* Others touch only what readdir still has to give.                        *)
LEMMA OrderOthers == ASSUME OrderInv, Others PROVE OrderInv'
<1>1. ASSUME NEW d, NEW n, OthersRemove(d, n) PROVE OrderInv'
  <2>1. UNCHANGED <<log, pc, name>> /\ frames # <<>>
        /\ frames' = [i \in DOMAIN frames |->
                        IF frames[i].dir = d THEN [frames[i] EXCEPT !.due = @ \ {n}] ELSE frames[i]]
    BY <1>1 DEF OthersRemove
  <2>2. Stacked(frames') /\ Len(frames') = Len(frames)
    BY <2>1, StackSame DEF OrderInv
  <2>3. PICK m \in Nat : m = Len(frames) /\ m >= 1 /\ Last(frames) = frames[m] /\ DOMAIN frames = 1 .. m
    <3>1. Len(frames) \in Nat \ {0} /\ Last(frames) = frames[Len(frames)]
      BY <2>1, Tops DEF OrderInv
    <3>2. DOMAIN frames = 1 .. Len(frames)
      BY DEF OrderInv, Stacked
    <3>3. Len(frames) >= 1 /\ Len(frames) \in Nat
      BY <3>1
    <3> QED
      BY <3>1, <3>2, <3>3, Zenon
  <2>4. ASSUME NEW k \in 1 .. m
        PROVE  {"prefix", "left"} \subseteq DOMAIN frames'[k] /\ frames'[k].prefix = frames[k].prefix
               /\ frames'[k].left = frames[k].left
    <3>1. PICK f : f = frames[k] /\ {"prefix", "left"} \subseteq DOMAIN f
      BY <2>3, Zenon DEF OrderInv, Walked, Fields
    <3>2. frames'[k] = [f EXCEPT !.due = @ \ {n}] \/ frames'[k] = f
      BY <2>1, <2>3, <3>1, Zenon
    <3>3. PICK g : g = frames'[k]
      OBVIOUS
    <3>4. {"prefix", "left"} \subseteq DOMAIN g /\ g.prefix = f.prefix /\ g.left = f.left
      <4>1. CASE g = [f EXCEPT !.due = @ \ {n}]
        BY <3>1, <4>1
      <4>2. CASE g = f
        BY <3>1, <4>2
      <4> QED
        BY <3>2, <3>3, <4>1, <4>2
    <3> QED
      BY <3>1, <3>3, <3>4, Zenon
  <2>5. Walked(frames', log')
    BY <2>1, <2>2, <2>3, <2>4, Zenon DEF OrderInv, Walked, Fields
  <2>6. Last(frames').prefix = Last(frames).prefix /\ Last(frames').left = Last(frames).left /\ frames' # <<>>
    <3>1. PICK g : g = frames' /\ Len(g) = m /\ Stacked(g)
      BY <2>2, <2>3
    <3>2. Last(g) = g[m] /\ m \in 1 .. m /\ g # <<>>
      <4>1. g # <<>>
        BY <2>3, <3>1
      <4> QED
        BY <2>3, <3>1, <4>1 DEF Last
    <3> QED
      BY <2>3, <2>4, <3>1, <3>2, Zenon
  <2>7. Top'.left = Top.left /\ PathOf(name)' = PathOf(name)
    BY <2>1, <2>6, Zenon DEF Top, PathOf
  <2> QED
    BY <2>1, <2>2, <2>5, <2>6, <2>7, Zenon DEF OrderInv
<1>2. ASSUME NEW d, NEW n, NEW entry, OthersAdd(d, n, entry) PROVE OrderInv'
  BY <1>2, OrderStays DEF OthersAdd, iterator
<1> QED
  BY <1>1, <1>2 DEF Others

LEMMA OrderKept == ASSUME OrderInv, [Next]_vars PROVE OrderInv'
<1> USE OrderStays
<1>1. CASE CopyRefused
  BY <1>1 DEF CopyRefused, iteratorVars, iterator, histories
<1>2. CASE CopyWorks
  <2>1. CASE CopyBegins \/ CopyCannotBegin
    BY <2>1, OrderBegins DEF CopyBegins, CopyCannotBegin
  <2>2. CASE CopyCallsNext
    BY <2>2, OrderWaits DEF CopyCallsNext, CallNext, iterator, histories
  <2>3. CASE CopyEntry
    BY <2>3 DEF CopyEntry, iterator, histories
  <2>4. CASE CopyReachesEnd
    BY <2>4 DEF CopyReachesEnd, iteratorVars, iterator, histories
  <2>5. CASE CopyEnds
    BY <2>5, OrderStops DEF CopyEnds, iteratorVars, iterator, histories
  <2> QED
    BY <1>2, <2>1, <2>2, <2>3, <2>4, <2>5 DEF CopyWorks
<1>3. CASE Caller
  <2>1. CASE CallNext
    BY <2>1, OrderWaits DEF CallNext, iterator, histories
  <2> QED
    BY <1>3, <2>1, OrderBegins, OrderStops DEF Caller
<1>4. CASE UNCHANGED vars
  BY <1>4 DEF vars, iteratorVars, iterator, histories
<1>5. ASSUME NEW t \in Targets, Copy(t[1], t[2]) PROVE OrderInv'
  BY <1>5 DEF Copy, iterator, histories
<1> QED
  BY <1>1, <1>2, <1>3, <1>4, <1>5, OrderWorks, OrderOthers DEF Next

-----------------------------------------------------------------------------
(* Loads, writes and copies of a file.                                     *)

(* A call in which nothing has gone wrong yet.                              *)
Unfailed(code) == t_failed = {} /\ t_res = code /\ t_got = 0

(* Of a load into new memory or a write that failed: by what it is named.   *)
Is(what, code) == what \in t_failed /\ t_res = code
NamedLoad ==
  \/ Is("parameters", "BAD_PARAMETERS") \/ Is("open", "COULD_NOT_OPEN")
  \/ Is("stat", "COULD_NOT_GET_FILE_SIZE") \/ Is("memory", "COULD_NOT_GET_MEMORY")
  \/ Is("read", "READ_FAILED") \/ Is("close", "CLOSE_FAILED")
NamedWrite ==
  Is("open", "COULD_NOT_OPEN") \/ Is("write", "COULD_NOT_WRITE") \/ Is("close", "COULD_NOT_CLOSE")

(* Where a load of either kind stands.                                      *)
LoadSafe ==
  /\ t_pc \in {"open", "stat", "memory", "read"} =>
       Unfailed("SUCCESS") /\ t_offset = 0 /\ (t_call # "load" => t_pc # "memory")
  /\ t_pc \in {"open", "stat", "memory"} => t_block = "none"
  /\ t_pc \in {"memory", "read"} /\ ~t_changed => t_file_size = t_original
  /\ t_pc = "read" /\ t_call = "load" => t_block = IF t_file_size = 0 THEN "none" ELSE "held"
  /\ t_pc \in {"close", "idle"} /\ t_call = "load" =>
       /\ t_res = "SUCCESS" <=> t_failed = {}
       /\ t_failed # {} => NamedLoad
       /\ t_failed = {} /\ ~t_changed => t_got = Transfer!Least({t_original, TransferAsked.transfer})
       /\ t_block = "held" => "read" \in t_failed
       /\ t_got > 0 => t_block = "given"
  /\ t_pc \in {"close", "idle"} /\ t_call = "load_buffer" =>
       /\ t_failed = {} => t_res = "SUCCESS"
       /\ t_failed = {} /\ ~t_changed =>
            t_got = Transfer!Least({t_original, TransferAsked.room, TransferAsked.transfer})
       /\ t_got > 0 => t_failed \subseteq {"close"}

WriteSafe ==
  /\ t_pc \in {"open", "write"} => Unfailed("SUCCESS")
  /\ t_pc \in {"close", "idle"} =>
       /\ t_res = "SUCCESS" <=> t_failed = {}
       /\ t_failed \notin {{}, {"parameters"}} => NamedWrite
       /\ t_failed = {} => t_got = t_dst /\ t_got > 0

(* What a copy has read is in the destination or in its buffer.             *)
CopySafe ==
  /\ t_pc \in {"stat", "open", "open_dst", "read", "write"} =>
       t_failed = {} /\ t_res = "SOURCE_NOT_FOUND"
  /\ t_pc \in {"stat", "open", "open_dst"} => t_offset = 0
  /\ t_pc \in {"read", "write"} /\ ~t_changed /\ ~t_onto_itself => t_offset <= t_original
  /\ t_pc = "read" /\ ~t_onto_itself => t_dst = t_offset
  /\ t_pc = "write" => t_dst + t_pending = t_offset \/ t_onto_itself
  /\ t_pc \in {"close", "idle"} /\ t_res = "SUCCESS" =>
       t_failed \subseteq {"close"} /\ (~t_changed /\ ~t_onto_itself => t_dst = t_original)

Steps ==
  [none |-> {"idle"}, load |-> {"open", "stat", "memory", "read", "close", "idle"},
   load_buffer |-> {"open", "stat", "read", "close", "idle"},
   write |-> {"open", "write", "close", "idle"},
   copy |-> {"stat", "open", "open_dst", "read", "write", "close", "idle"}]

TransferInv ==
  /\ t_call \in Transfer!Calls \cup {"none"} /\ t_pc \in Steps[t_call]
  /\ {t_size, t_dst, t_offset, t_file_size, t_got, t_pending, t_original} \subseteq Nat
  /\ t_pc \in {"idle", "open"} \/ (t_pc = "stat" /\ t_call = "copy") => t_fds = {}
  /\ ~t_changed /\ t_pc # "idle" /\ (t_call = "copy" => t_pc \in {"stat", "open", "open_dst"} \/ ~t_onto_itself) =>
       t_size = t_original
  /\ t_call \in {"load", "load_buffer"} => LoadSafe
  /\ t_call = "write" => WriteSafe
  /\ t_call = "copy" => CopySafe

LEMMA TransferStarts == ASSUME Transfer!Init, Transfer!TransferArguments PROVE TransferInv
BY DEF Transfer!Init, TransferInv, Steps, Transfer!Calls, Transfer!Sizes, Transfer!TransferArguments

LEMMA NamesAre ==
  /\ Transfer!NameOf("parameters") = "BAD_PARAMETERS" /\ Transfer!NameOf("open") = "COULD_NOT_OPEN"
  /\ Transfer!NameOf("stat") = "COULD_NOT_GET_FILE_SIZE" /\ Transfer!NameOf("memory") = "COULD_NOT_GET_MEMORY"
  /\ Transfer!NameOf("read") = "READ_FAILED" /\ Transfer!NameOf("write") = "COULD_NOT_WRITE"
  /\ Transfer!NameOf("close") = IF t_call = "write" THEN "COULD_NOT_CLOSE" ELSE "CLOSE_FAILED"
BY DEF Transfer!NameOf

LEMMA TransferPromises ==
  ASSUME TransferInv
  PROVE  Transfer!LoadTruthful /\ Transfer!WriteTruthful /\ Transfer!CopyComplete /\ Transfer!DescriptorsClosed
<1>1. Transfer!FailureNamed("load")
  BY NamesAre DEF TransferInv, LoadSafe, NamedLoad, Is, Transfer!FailureNamed, Transfer!Returned
<1>2. t_failed # {"parameters"} => Transfer!FailureNamed("write")
  BY NamesAre DEF TransferInv, WriteSafe, NamedWrite, Is, Transfer!FailureNamed, Transfer!Returned
<1> QED
  BY <1>1, <1>2
     DEF TransferInv, LoadSafe, WriteSafe, CopySafe, Transfer!LoadTruthful, Transfer!WriteTruthful,
         Transfer!CopyComplete, Transfer!DescriptorsClosed, Transfer!Returned

(* What Least says of two and of three numbers.                             *)
IsLeast(x, S) == x \in S /\ \A y \in S : x <= y
LEMMA LeastIs ==
  ASSUME NEW a \in Nat, NEW b \in Nat, NEW c \in Nat
  PROVE  IsLeast(Transfer!Least({a, b, c}), {a, b, c})
<1>1. \E x \in {a, b, c} : \A y \in {a, b, c} : x <= y
  <2>1. CASE a <= b /\ a <= c
    BY <2>1
  <2>2. CASE b <= a /\ b <= c
    BY <2>2
  <2>3. CASE c <= b /\ c <= a
    BY <2>3
  <2> QED
    BY <2>1, <2>2, <2>3
<1> QED
  BY <1>1, Zenon DEF IsLeast, Transfer!Least

LEMMA LeastOfTwo ==
  ASSUME NEW a \in Nat, NEW b \in Nat
  PROVE  IsLeast(Transfer!Least({a, b}), {a, b})
<1>1. {a, b} = {a, b, b}
  OBVIOUS
<1> QED
  BY <1>1, LeastIs

(* There is one least number.                                               *)
LEMMA LeastOnce ==
  ASSUME NEW S, NEW x, NEW y, S \subseteq Nat, IsLeast(x, S), IsLeast(y, S)
  PROVE  x = y
<1>1. x \in Nat /\ y \in Nat /\ x <= y /\ y <= x
  BY DEF IsLeast
<1> QED
  BY <1>1

-----------------------------------------------------------------------------
LEMMA BeginTransfer ==
  ASSUME TransferInv, NEW c \in Transfer!Calls, NEW good \in BOOLEAN, NEW itself \in BOOLEAN,
         Transfer!Begin(c, good, itself)
  PROVE  TransferInv'
BY DEF Transfer!Begin, Transfer!Refused, Transfer!Calls, TransferInv, LoadSafe, WriteSafe, CopySafe,
       Unfailed, NamedLoad, NamedWrite, Is, Steps

LEMMA OthersTransfer ==
  ASSUME TransferInv, NEW n \in Transfer!Sizes, Transfer!OthersChange(n), Transfer!TransferArguments
  PROVE  TransferInv'
BY DEF Transfer!OthersChange, Transfer!work, Transfer!Sizes, Transfer!TransferArguments,
       TransferInv, LoadSafe, WriteSafe, CopySafe, Unfailed, NamedLoad, NamedWrite, Is, Steps
LEMMA OpenTransfer ==
  ASSUME TransferInv, Transfer!TransferArguments, Transfer!Open \/ Transfer!OpenFails
  PROVE  TransferInv'
<1>1. CASE Transfer!Open
  BY <1>1 DEF Transfer!Open, Transfer!Go, Transfer!Fail, Transfer!files, Transfer!work, Transfer!others,
       TransferInv, LoadSafe, WriteSafe, CopySafe, Unfailed, NamedLoad, NamedWrite, Is, Steps, Transfer!Calls, Transfer!OpenNext, Transfer!OpenFailure
<1>2. CASE Transfer!OpenFails
  BY <1>2 DEF Transfer!OpenFails, Transfer!Go, Transfer!Fail, Transfer!files, Transfer!work, Transfer!others,
       TransferInv, LoadSafe, WriteSafe, CopySafe, Unfailed, NamedLoad, NamedWrite, Is, Steps, Transfer!Calls, Transfer!OpenNext, Transfer!OpenFailure
<1> QED
  BY <1>1, <1>2

LEMMA StatTransfer ==
  ASSUME TransferInv, Transfer!TransferArguments, Transfer!Stat \/ Transfer!StatFails
  PROVE  TransferInv'
<1>1. CASE Transfer!Stat
  BY <1>1 DEF Transfer!Stat, Transfer!Go, Transfer!Fail, Transfer!files, Transfer!work, Transfer!others,
       TransferInv, LoadSafe, WriteSafe, CopySafe, Unfailed, NamedLoad, NamedWrite, Is, Steps, Transfer!Calls
<1>2. CASE Transfer!StatFails
  <2>1. CASE t_call = "load"
    <3>1. Transfer!Fail("stat", "COULD_NOT_GET_FILE_SIZE", "close") /\ t_pc = "stat"
      BY <1>2, <2>1, Zenon DEF Transfer!StatFails
    <3> QED
      BY <1>2, <2>1, <3>1 DEF Transfer!StatFails, Transfer!Go, Transfer!Fail, Transfer!files, Transfer!work, Transfer!others,
       TransferInv, LoadSafe, WriteSafe, CopySafe, Unfailed, NamedLoad, NamedWrite, Is, Steps, Transfer!Calls
  <2>2. CASE t_call = "load_buffer"
    <3>1. "load" # t_call
      BY <2>2
    <3>2. Transfer!Fail("stat", "READ_FAILED", "close") /\ t_pc = "stat"
      BY <1>2, <2>2, <3>1, Zenon DEF Transfer!StatFails
    <3> QED
      BY <1>2, <2>2, <3>2 DEF Transfer!StatFails, Transfer!Go, Transfer!Fail, Transfer!files, Transfer!work, Transfer!others,
       TransferInv, LoadSafe, WriteSafe, CopySafe, Unfailed, NamedLoad, NamedWrite, Is, Steps, Transfer!Calls
  <2>3. CASE t_call = "copy"
    <3>1. PICK code \in {"SOURCE_NOT_FOUND", "ERROR_UNKNOWN", "SOURCE_IS_DIRECTORY"} :
             Transfer!Fail("stat", code, "idle") /\ t_pc = "stat"
      BY <1>2, <2>3 DEF Transfer!StatFails
    <3>2. code # "SUCCESS"
      OBVIOUS
    <3> QED
      BY <1>2, <2>3, <3>1, <3>2 DEF Transfer!StatFails, Transfer!Go, Transfer!Fail, Transfer!files, Transfer!work, Transfer!others,
       TransferInv, LoadSafe, WriteSafe, CopySafe, Unfailed, NamedLoad, NamedWrite, Is, Steps, Transfer!Calls
  <2> QED
    BY <1>2, <2>1, <2>2, <2>3 DEF Transfer!StatFails, TransferInv, Steps, Transfer!Calls
<1> QED
  BY <1>1, <1>2

LEMMA MemoryTransfer ==
  ASSUME TransferInv, Transfer!TransferArguments, Transfer!Memory \/ Transfer!MemoryFails \/ Transfer!ReadFails
  PROVE  TransferInv'
<1>1. CASE Transfer!Memory
  BY <1>1 DEF Transfer!Memory, Transfer!Go, Transfer!Fail, Transfer!files, Transfer!work, Transfer!others,
       TransferInv, LoadSafe, WriteSafe, CopySafe, Unfailed, NamedLoad, NamedWrite, Is, Steps, Transfer!Calls
<1>2. CASE Transfer!MemoryFails
  BY <1>2 DEF Transfer!MemoryFails, Transfer!Go, Transfer!Fail, Transfer!files, Transfer!work, Transfer!others,
       TransferInv, LoadSafe, WriteSafe, CopySafe, Unfailed, NamedLoad, NamedWrite, Is, Steps, Transfer!Calls
<1>3. CASE Transfer!ReadFails
  BY <1>3 DEF Transfer!ReadFails, Transfer!Go, Transfer!Fail, Transfer!files, Transfer!work, Transfer!others,
       TransferInv, LoadSafe, WriteSafe, CopySafe, Unfailed, NamedLoad, NamedWrite, Is, Steps, Transfer!Calls
<1> QED
  BY <1>1, <1>2, <1>3

LEMMA WriteTransfer ==
  ASSUME TransferInv, Transfer!TransferArguments, Transfer!WriteContents \/ Transfer!WriteFails
  PROVE  TransferInv'
<1>1. CASE Transfer!WriteContents
  BY <1>1 DEF Transfer!WriteContents, Transfer!Go, Transfer!Fail, Transfer!files, Transfer!work, Transfer!others,
       TransferInv, LoadSafe, WriteSafe, CopySafe, Unfailed, NamedLoad, NamedWrite, Is, Steps, Transfer!Calls
<1>2. CASE Transfer!WriteFails
  BY <1>2 DEF Transfer!WriteFails, Transfer!Go, Transfer!Fail, Transfer!files, Transfer!work, Transfer!others,
       TransferInv, LoadSafe, WriteSafe, CopySafe, Unfailed, NamedLoad, NamedWrite, Is, Steps, Transfer!Calls
<1> QED
  BY <1>1, <1>2

LEMMA CopyTransfer ==
  ASSUME TransferInv, Transfer!TransferArguments, Transfer!OpenDst \/ Transfer!OpenDstFails \/ Transfer!CopyWrite \/ Transfer!CopyWriteFails
  PROVE  TransferInv'
<1>1. CASE Transfer!OpenDst
  BY <1>1 DEF Transfer!OpenDst, Transfer!Go, Transfer!Fail, Transfer!files, Transfer!work, Transfer!others,
       TransferInv, LoadSafe, WriteSafe, CopySafe, Unfailed, NamedLoad, NamedWrite, Is, Steps, Transfer!Calls, Transfer!Least
<1>2. CASE Transfer!OpenDstFails
  BY <1>2 DEF Transfer!OpenDstFails, Transfer!Go, Transfer!Fail, Transfer!files, Transfer!work, Transfer!others,
       TransferInv, LoadSafe, WriteSafe, CopySafe, Unfailed, NamedLoad, NamedWrite, Is, Steps, Transfer!Calls, Transfer!Least
<1>3. CASE Transfer!CopyWrite
  BY <1>3 DEF Transfer!CopyWrite, Transfer!Go, Transfer!Fail, Transfer!files, Transfer!work, Transfer!others,
       TransferInv, LoadSafe, WriteSafe, CopySafe, Unfailed, NamedLoad, NamedWrite, Is, Steps, Transfer!Calls, Transfer!Least
<1>4. CASE Transfer!CopyWriteFails
  <2>1. PICK n \in 0 .. t_pending - 1 : t_dst' = Transfer!Least({t_dst + n, TransferAsked.size})
    BY <1>4 DEF Transfer!CopyWriteFails
  <2>2. t_dst + n \in Nat /\ TransferAsked.size \in Nat
    BY DEF TransferInv, Transfer!TransferArguments
  <2>3. t_dst' \in Nat
    BY <2>1, <2>2, LeastOfTwo DEF IsLeast
  <2> QED
    BY <1>4, <2>3 DEF Transfer!CopyWriteFails, Transfer!Go, Transfer!Fail, Transfer!files, Transfer!work, Transfer!others,
       TransferInv, LoadSafe, WriteSafe, CopySafe, Unfailed, NamedLoad, NamedWrite, Is, Steps, Transfer!Calls
<1> QED
  BY <1>1, <1>2, <1>3, <1>4

LEMMA CloseTransfer ==
  ASSUME TransferInv, Transfer!TransferArguments, Transfer!Close(TRUE) \/ Transfer!Close(FALSE)
  PROVE  TransferInv'
<1>1. CASE Transfer!Close(TRUE)
  BY <1>1 DEF Transfer!Close, Transfer!Go, Transfer!Fail, Transfer!files, Transfer!work, Transfer!others,
       TransferInv, LoadSafe, WriteSafe, CopySafe, Unfailed, NamedLoad, NamedWrite, Is, Steps, Transfer!Calls, Transfer!CloseResult
<1>2. CASE Transfer!Close(FALSE)
  BY <1>2 DEF Transfer!Close, Transfer!Go, Transfer!Fail, Transfer!files, Transfer!work, Transfer!others,
       TransferInv, LoadSafe, WriteSafe, CopySafe, Unfailed, NamedLoad, NamedWrite, Is, Steps, Transfer!Calls, Transfer!CloseResult
<1> QED
  BY <1>1, <1>2

(* What a read moves: as much as was asked for, as the file has and as one  *)
(* read can.                                                                *)
LEMMA MovedIs ==
  ASSUME TransferInv, Transfer!TransferArguments, NEW w \in Nat, w = Transfer!Wanted
  PROVE  /\ Transfer!Moved \in Nat /\ Transfer!Left \in Nat
         /\ IsLeast(Transfer!Moved, {w, TransferAsked.transfer, Transfer!Left})
<1>1. Transfer!Left \in Nat /\ TransferAsked.transfer \in Nat
  BY DEF TransferInv, Transfer!Left, Transfer!TransferArguments
<1>2. IsLeast(Transfer!Moved, {w, TransferAsked.transfer, Transfer!Left})
  BY <1>1, LeastIs DEF Transfer!Moved
<1> QED
  BY <1>1, <1>2 DEF IsLeast

LEMMA LoadTransfer ==
  ASSUME TransferInv, Transfer!TransferArguments, Transfer!ReadContents
  PROVE  TransferInv'
<1>1. /\ {TransferAsked.size, TransferAsked.chunk, TransferAsked.transfer, TransferAsked.room} \subseteq Nat
      /\ {t_size, t_dst, t_offset, t_file_size, t_got, t_pending, t_original} \subseteq Nat
  BY DEF Transfer!TransferArguments, TransferInv
<1>2. PICK moved : moved = Transfer!Moved
  OBVIOUS
<1>3. PICK left : left = Transfer!Left
  OBVIOUS
<1>4. ~t_changed => left = t_original /\ t_file_size = t_original
  BY <1>1, <1>3 DEF Transfer!ReadContents, TransferInv, LoadSafe, Transfer!Left
<1>5. CASE t_call = "load"
  <2>1. Transfer!Wanted = t_file_size
    BY <1>5 DEF Transfer!Wanted
  <2>2. moved \in Nat /\ IsLeast(moved, {t_file_size, TransferAsked.transfer, left})
    BY <1>1, <1>2, <1>3, <2>1, MovedIs
  <2>3. ~t_changed => moved = Transfer!Least({t_original, TransferAsked.transfer})
    <3> SUFFICES ASSUME ~t_changed PROVE moved = Transfer!Least({t_original, TransferAsked.transfer})
      OBVIOUS
    <3>1. IsLeast(moved, {t_original, TransferAsked.transfer})
      BY <1>4, <2>2 DEF IsLeast
    <3>2. IsLeast(Transfer!Least({t_original, TransferAsked.transfer}), {t_original, TransferAsked.transfer})
      BY <1>1, LeastOfTwo
    <3> QED
      BY <1>1, <3>1, <3>2, LeastOnce
  <2>4. moved > 0 => t_file_size > 0
    BY <1>1, <2>2 DEF IsLeast
  <2>5. PICK got : got = t_got'
    OBVIOUS
  <2>6. got = moved /\ t_offset' = t_offset + moved
    BY <1>2, <2>5 DEF Transfer!ReadContents
  <2>7. t_offset + moved \in Nat
    BY <1>1, <2>2
  <2> QED
    BY <1>5, <2>2, <2>3, <2>4, <2>5, <2>6, <2>7
       DEF Transfer!ReadContents, Transfer!Go, Transfer!files, Transfer!others, TransferInv, LoadSafe, Unfailed, NamedLoad, NamedWrite, Is,
           Steps, Transfer!Calls
<1>6. CASE t_call = "load_buffer"
  <2>1. Transfer!Wanted = Transfer!Least({t_file_size, TransferAsked.room})
    BY <1>6 DEF Transfer!Wanted
  <2>2. PICK w : w = Transfer!Wanted
    OBVIOUS
  <2>3. w \in Nat /\ IsLeast(w, {t_file_size, TransferAsked.room})
    BY <1>1, <2>1, <2>2, LeastOfTwo DEF IsLeast
  <2>4. moved \in Nat /\ IsLeast(moved, {w, TransferAsked.transfer, left})
    BY <1>1, <1>2, <1>3, <2>2, <2>3, MovedIs
  <2>5. ~t_changed => moved = Transfer!Least({t_original, TransferAsked.room, TransferAsked.transfer})
    <3> SUFFICES ASSUME ~t_changed PROVE moved = Transfer!Least({t_original, TransferAsked.room, TransferAsked.transfer})
      OBVIOUS
    <3>1. IsLeast(moved, {t_original, TransferAsked.room, TransferAsked.transfer})
      BY <1>1, <1>4, <2>3, <2>4 DEF IsLeast
    <3>2. IsLeast(Transfer!Least({t_original, TransferAsked.room, TransferAsked.transfer}),
                  {t_original, TransferAsked.room, TransferAsked.transfer})
      BY <1>1, LeastIs
    <3> QED
      BY <1>1, <3>1, <3>2, LeastOnce
  <2>6. PICK got : got = t_got'
    OBVIOUS
  <2>7. got = moved /\ t_offset' = t_offset + moved
    BY <1>2, <2>6 DEF Transfer!ReadContents
  <2>8. t_offset + moved \in Nat
    BY <1>1, <2>4
  <2> QED
    BY <1>6, <2>4, <2>5, <2>6, <2>7, <2>8
       DEF Transfer!ReadContents, Transfer!Go, Transfer!files, Transfer!others, TransferInv, LoadSafe, Unfailed, NamedLoad, NamedWrite, Is,
           Steps, Transfer!Calls
<1> QED
  BY <1>5, <1>6 DEF Transfer!ReadContents

LEMMA CopyReadTransfer ==
  ASSUME TransferInv, Transfer!TransferArguments, Transfer!CopyRead \/ Transfer!CopyReachesEnd
  PROVE  TransferInv'
<1>1. /\ TransferAsked.chunk \in Nat \ {0} /\ TransferAsked.transfer \in Nat \ {0} /\ t_call = "copy"
      /\ {t_size, t_dst, t_offset, t_file_size, t_got, t_pending, t_original} \subseteq Nat
  BY DEF Transfer!TransferArguments, TransferInv, Transfer!CopyRead, Transfer!CopyReachesEnd
<1>2. PICK moved : moved = Transfer!Moved
  OBVIOUS
<1>3. PICK left : left = Transfer!Left
  OBVIOUS
<1>4. moved \in Nat /\ left \in Nat /\ IsLeast(moved, {TransferAsked.chunk, TransferAsked.transfer, left})
  <2>1. Transfer!Wanted = TransferAsked.chunk
    BY <1>1 DEF Transfer!Wanted
  <2> QED
    BY <1>1, <1>2, <1>3, <2>1, MovedIs
<1>5. left = IF t_offset < t_size THEN t_size - t_offset ELSE 0
  BY <1>3, Zenon DEF Transfer!Left
<1>6. CASE Transfer!CopyRead
  <2>1. PICK offset \in Nat : offset = t_offset + moved
    BY <1>1, <1>4
  <2>2. t_offset' = offset /\ t_pending' = moved
    BY <1>2, <1>6, <2>1, Zenon DEF Transfer!CopyRead
  <2>3. ~t_changed /\ ~t_onto_itself => offset <= t_original
    <3> SUFFICES ASSUME ~t_changed, ~t_onto_itself PROVE offset <= t_original
      OBVIOUS
    <3>1. t_size = t_original /\ t_offset <= t_original
      BY <1>1, <1>6 DEF Transfer!CopyRead, TransferInv, CopySafe
    <3> QED
      BY <1>1, <1>4, <1>5, <2>1, <3>1 DEF IsLeast
  <2>4. t_dst + moved = offset \/ t_onto_itself
    BY <1>1, <1>4, <1>6, <2>1 DEF Transfer!CopyRead, TransferInv, CopySafe
  <2> QED
    BY <1>4, <1>6, <2>1, <2>2, <2>3, <2>4
       DEF Transfer!CopyRead, Transfer!Go, Transfer!files, Transfer!others, TransferInv, CopySafe, Steps,
           Transfer!Calls
<1>7. CASE Transfer!CopyReachesEnd
  <2>1. left = 0
    BY <1>1, <1>2, <1>4, <1>7 DEF Transfer!CopyReachesEnd, IsLeast
  <2>2. ~t_changed /\ ~t_onto_itself => t_dst = t_original
    BY <1>1, <1>5, <1>7, <2>1 DEF Transfer!CopyReachesEnd, TransferInv, CopySafe
  <2> QED
    BY <1>7, <2>2
       DEF Transfer!CopyReachesEnd, Transfer!files, Transfer!work, Transfer!others, TransferInv, CopySafe, Steps,
           Transfer!Calls
<1> QED
  BY <1>6, <1>7

LEMMA TransferKept ==
  ASSUME TransferInv, Transfer!TransferArguments, [Transfer!Next]_(Transfer!vars)
  PROVE  TransferInv'
<1>1. CASE \E c \in Transfer!Calls, good, itself \in BOOLEAN : Transfer!Begin(c, good, itself)
  BY <1>1, BeginTransfer
<1>2. CASE Transfer!Works
  BY <1>2, OpenTransfer, StatTransfer, MemoryTransfer, LoadTransfer, WriteTransfer, CopyTransfer,
     CopyReadTransfer, CloseTransfer DEF Transfer!Works
<1>3. CASE Transfer!Fails
  BY <1>3, OpenTransfer, StatTransfer, MemoryTransfer, WriteTransfer, CopyTransfer, CloseTransfer
     DEF Transfer!Fails
<1>4. CASE \E n \in Transfer!Sizes : Transfer!OthersChange(n)
  BY <1>4, OthersTransfer
<1>5. CASE UNCHANGED Transfer!vars
  BY <1>5 DEF Transfer!vars, Transfer!files, Transfer!work, Transfer!others, TransferInv, LoadSafe, WriteSafe,
              CopySafe, Unfailed, NamedLoad, NamedWrite, Is
<1> QED
  BY <1>1, <1>2, <1>3, <1>4, <1>5 DEF Transfer!Next

-----------------------------------------------------------------------------
(* The calls on one entry.                                                  *)

(* What a call on an entry knows between its system calls: what is at the   *)
(* path has been there since it began, and nothing has been removed yet.    *)
EntryShape ==
  /\ e_entry \in [EntryAsked.paths -> Entry!Kinds]
  /\ e_call = "none" => e_pc = "idle"
  /\ e_call # "none" => e_path \in EntryAsked.paths
  /\ e_call = "rename" => e_to \in EntryAsked.paths /\ e_path # e_to
  /\ e_call = "none" \/ e_pc # "idle" => e_ours = {}
  /\ e_pc # "idle" /\ e_call \in {"type", "delete"} => e_entry[e_path] \in e_were
  /\ e_pc = "look" => e_call \in {"type", "delete"}
  /\ e_pc = "stat" => e_call = "type" /\ Entry!Windows
  /\ e_pc = "act" => e_call \in {"size", "make", "rename"}
  /\ e_pc = "remove" => e_call \in {"delete", "rename"}
  /\ e_pc = "remove" /\ e_call = "rename" => e_entry[e_to] = e_entry[e_path]

(* The answers, with the one entry that a deletion took.                    *)
TypeAnswer ==
  e_res # "UNKNOWN" =>
    \E k \in e_were : e_res = Entry!TypeName(k) \/ (Entry!Windows /\ e_res = Entry!TypeName(Entry!Target(k)))
DeleteAnswer ==
  /\ e_res = "NOT_FOUND" => "none" \in e_were
  /\ e_res = "IS_DIRECTORY" => \E k \in e_were : Entry!LooksLikeDirectory(k)
  /\ e_res = "SUCCESS" => \E k \in Entry!Kinds \ Entry!Directories : e_ours = {k}
  /\ e_res # "SUCCESS" => e_ours = {}

EntryInv ==
  /\ EntryShape
  /\ e_pc = "idle" /\ e_call = "type" => TypeAnswer
  /\ e_pc = "idle" /\ e_call = "delete" => DeleteAnswer
  /\ e_call # "delete" => e_ours = {}

(* What a rename may do to the entries.                                     *)
RenameStep ==
  e_call = "rename" /\ e_entry' # e_entry =>
    /\ e_entry'[e_to] = e_entry[e_path] \/ (e_entry'[e_path] = "none" /\ e_entry[e_to] = e_entry[e_path])
    /\ e_res' \in {"SUCCESS", e_res}

LEMMA EntryStarts == ASSUME Entry!Init PROVE EntryInv
BY DEF Entry!Init, EntryInv, EntryShape

LEMMA EntryPromises == ASSUME EntryInv PROVE Entry!AnswersTrue /\ Entry!NoDirectoryDeleted
<1>1. Entry!NoDirectoryDeleted
  BY DEF Entry!NoDirectoryDeleted, EntryInv, EntryShape, DeleteAnswer
<1>2. ASSUME Entry!Returned, e_call = "type", e_res # "UNKNOWN"
      PROVE  e_res \in {Entry!TypeName(k) : k \in e_were}
                       \cup (IF Entry!Windows THEN {Entry!TypeName(Entry!Target(k)) : k \in e_were} ELSE {})
  BY <1>2 DEF EntryInv, TypeAnswer, Entry!Returned
<1>3. ASSUME Entry!Returned, e_call = "delete" PROVE e_res = "SUCCESS" <=> Entry!Cardinality(e_ours) = 1
  <2>1. DeleteAnswer
    BY <1>3 DEF EntryInv, Entry!Returned
  <2>2. CASE e_res = "SUCCESS"
    <3>1. PICK k : e_ours = {k}
      BY <2>1, <2>2 DEF DeleteAnswer
    <3>2. Cardinality({k}) = 1
      BY FS_Singleton
    <3> QED
      BY <2>2, <3>1, <3>2 DEF Entry!Cardinality, Cardinality
  <2>3. CASE e_res # "SUCCESS"
    <3>1. e_ours = {}
      BY <2>1, <2>3 DEF DeleteAnswer
    <3>2. Cardinality({}) = 0
      BY FS_EmptySet
    <3> QED
      BY <2>3, <3>1, <3>2 DEF Entry!Cardinality, Cardinality
  <2> QED
    BY <2>2, <2>3
<1>4. Entry!Returned /\ e_call = "delete" => (e_res = "NOT_FOUND" => "none" \in e_were)
        /\ (e_res = "IS_DIRECTORY" => \E k \in e_were : Entry!LooksLikeDirectory(k))
  BY DEF EntryInv, DeleteAnswer, Entry!Returned
<1> QED
  BY <1>1, <1>2, <1>3, <1>4, Zenon DEF Entry!AnswersTrue

LEMMA EntryKept == ASSUME EntryInv, Entry!Next PROVE EntryInv' /\ RenameStep
<1> USE DEF EntryInv, EntryShape, RenameStep, Entry!Kept, Entry!Answer, Entry!arguments, Entry!It
<1>1. ASSUME NEW c \in {"type", "size", "make", "delete", "rename"}, NEW p \in EntryAsked.paths, NEW q,
             Entry!Begin(c, p, q), c = "rename" => q \in EntryAsked.paths /\ p # q
      PROVE  EntryInv' /\ RenameStep
  BY <1>1 DEF Entry!Begin, Entry!Windows
<1>2. CASE Entry!GetType
  BY <1>2 DEF Entry!GetType, TypeAnswer, Entry!Windows, Entry!TypeName
<1>3. CASE Entry!GetTypeByStat
  BY <1>3 DEF Entry!GetTypeByStat, TypeAnswer, Entry!Windows, Entry!TypeName, Entry!Target
<1>4. CASE Entry!GetSize
  BY <1>4 DEF Entry!GetSize, Entry!Windows
<1>5. CASE Entry!MakeDirectory
  BY <1>5 DEF Entry!MakeDirectory, Entry!Kinds, Entry!Directories, Entry!Windows
<1>6. CASE Entry!DeleteLooks
  BY <1>6 DEF Entry!DeleteLooks, DeleteAnswer, Entry!Windows, Entry!LooksLikeDirectory
<1>7. CASE Entry!DeleteRemoves
  BY <1>7 DEF Entry!DeleteRemoves, DeleteAnswer, Entry!Windows, Entry!LooksLikeDirectory, Entry!Kinds
<1>8. CASE Entry!Denied
  BY <1>8 DEF Entry!Denied, DeleteAnswer, Entry!Windows
<1>9. CASE Entry!Rename
  BY <1>9 DEF Entry!Rename, Entry!Windows, Entry!Kinds
<1>10. CASE Entry!RenameAcross
  BY <1>10 DEF Entry!RenameAcross, Entry!Windows, Entry!Kinds
<1>11. CASE Entry!RenameRemovesOriginal
  BY <1>11 DEF Entry!RenameRemovesOriginal, Entry!Windows, Entry!Kinds
<1>12. ASSUME NEW p \in EntryAsked.paths, NEW kind \in Entry!Kinds, Entry!OthersChange(p, kind)
       PROVE  EntryInv' /\ RenameStep
  BY <1>12 DEF Entry!OthersChange, Entry!Windows
<1> QED
  BY <1>1, <1>2, <1>3, <1>4, <1>5, <1>6, <1>7, <1>8, <1>9, <1>10, <1>11, <1>12 DEF Entry!Next

LEMMA EntryStill == ASSUME EntryInv, UNCHANGED Entry!vars PROVE EntryInv'
BY DEF EntryInv, EntryShape, TypeAnswer, DeleteAnswer, Entry!vars, Entry!arguments, Entry!Windows,
       Entry!LooksLikeDirectory

-----------------------------------------------------------------------------
(* The deletion of a directory.                                             *)

(* Sequences of frames that differ at the top.                              *)
Frames == [dir : DeleteAsked.dirs, in : DeleteAsked.dirs, name : Names, left : SUBSET Names,
           due : SUBSET Names, result : Delete!Results]
Replaced(fs, gs, x) ==
  /\ gs \in Seq(Frames) /\ Len(gs) = Len(fs) /\ gs[Len(fs)] = x
  /\ \A i \in 1 .. Len(fs) - 1 : gs[i] = fs[i]
Pushed(fs, gs, x) ==
  /\ gs \in Seq(Frames) /\ Len(gs) = Len(fs) + 1 /\ gs[Len(fs) + 1] = x
  /\ \A i \in 1 .. Len(fs) : gs[i] = fs[i]
Popped(fs, gs) ==
  /\ gs \in Seq(Frames) /\ Len(gs) = Len(fs) - 1
  /\ \A i \in 1 .. Len(fs) - 1 : gs[i] = fs[i]

LEMMA FrontPops == ASSUME NEW fs \in Seq(Frames), fs # <<>> PROVE Popped(fs, Front(fs)) /\ Len(fs) \in Nat \ {0}
<1>1. Len(fs) \in Nat \ {0}
  OBVIOUS
<1>2. PICK n \in Nat : n = Len(fs) /\ n >= 1
  BY <1>1
<1>3. Front(fs) = SubSeq(fs, 1, n - 1)
  BY <1>2, Zenon DEF Front
<1>4. PICK g : g = SubSeq(fs, 1, n - 1)
  OBVIOUS
<1>5. g \in Seq(Frames) /\ Len(g) = n - 1 /\ \A i \in 1 .. n - 1 : g[i] = fs[i]
  BY <1>2, <1>4
<1> QED
  BY <1>1, <1>2, <1>3, <1>4, <1>5, Zenon DEF Popped

LEMMA AppendPushes == ASSUME NEW fs \in Seq(Frames), NEW x \in Frames PROVE Pushed(fs, Append(fs, x), x)
BY DEF Pushed

LEMMA TopReplaced ==
  ASSUME NEW fs \in Seq(Frames), NEW x \in Frames, fs # <<>>
  PROVE  Replaced(fs, Append(Front(fs), x), x)
<1>1. PICK n \in Nat : n = Len(fs) /\ n >= 1
  BY FrontPops
<1>2. PICK g : g = Front(fs) /\ g \in Seq(Frames) /\ Len(g) = n - 1 /\ \A i \in 1 .. n - 1 : g[i] = fs[i]
  BY <1>1, FrontPops DEF Popped
<1>3. Append(g, x) \in Seq(Frames) /\ Len(Append(g, x)) = n /\ Append(g, x)[n] = x
      /\ \A i \in 1 .. n - 1 : Append(g, x)[i] = fs[i]
  BY <1>1, <1>2
<1> QED
  BY <1>1, <1>2, <1>3, Zenon DEF Replaced

(* The frames of a chain of directories: each is in the one below, under a  *)
(* name that led to it, and on POSIX no link was among these.               *)
FrameSound(w, t, f) ==
  /\ f \in Frames /\ f.dir # DeleteAsked.home
  /\ t[f.in][f.name].to = f.dir
  /\ t[f.in][f.name].kind \in IF w THEN {"dir", "link"} ELSE {"dir"}
  /\ ~w => f.dir \in Delete!Inside(t)
Chained(w, t, fs) ==
  /\ fs \in Seq(Frames)
  /\ \A i \in 1 .. Len(fs) : FrameSound(w, t, fs[i])
  /\ fs # <<>> => fs[1].in = DeleteAsked.home /\ fs[1].name = DeleteAsked.doomed
  /\ \A i \in 2 .. Len(fs) : fs[i].in = fs[i - 1].dir

(* The outermost failure is the first.                                      *)
FirstKept(fs, failures) ==
  IF failures = <<>> THEN \A i \in 1 .. Len(fs) : fs[i].result = "SUCCESS"
  ELSE /\ Head(failures) # "SUCCESS"
       /\ \E i \in 1 .. Len(fs) :
            fs[i].result = Head(failures) /\ \A j \in 1 .. i - 1 : fs[j].result = "SUCCESS"

Alike(f, g) == g \in Frames /\ g.dir = f.dir /\ g.in = f.in /\ g.name = f.name

LEMMA AlikeSound == ASSUME NEW w, NEW t, NEW f, NEW g, FrameSound(w, t, f), Alike(f, g) PROVE FrameSound(w, t, g)
BY DEF FrameSound, Alike

LEMMA ChainReplaced ==
  ASSUME NEW w, NEW t, NEW fs, NEW gs, NEW x, Chained(w, t, fs), fs # <<>>, Replaced(fs, gs, x), Alike(fs[Len(fs)], x)
  PROVE  Chained(w, t, gs) /\ gs # <<>>
<1>1. PICK n \in Nat : n = Len(fs) /\ n >= 1
  BY DEF Chained
<1>2. Len(gs) = n /\ gs[n] = x /\ (\A i \in 1 .. n - 1 : gs[i] = fs[i]) /\ gs \in Seq(Frames)
  BY <1>1, Zenon DEF Replaced
<1>3. \A i \in 1 .. n : fs[i] \in Frames /\ FrameSound(w, t, fs[i])
  BY <1>1 DEF Chained, FrameSound
<1>4. ASSUME NEW i \in 1 .. n PROVE Alike(fs[i], gs[i])
  <2>1. CASE i = n
    BY <1>1, <1>2, <2>1
  <2>2. CASE i \in 1 .. n - 1
    BY <1>2, <1>3, <2>2 DEF Alike
  <2> QED
    BY <1>1, <2>1, <2>2
<1>5. \A i \in 1 .. n : FrameSound(w, t, gs[i])
  BY <1>3, <1>4, AlikeSound
<1>6. gs[1].in = DeleteAsked.home /\ gs[1].name = DeleteAsked.doomed
  BY <1>1, <1>4 DEF Chained, Alike
<1>7. \A i \in 2 .. n : gs[i].in = gs[i - 1].dir
  BY <1>1, <1>4 DEF Chained, Alike
<1>8. gs # <<>>
  BY <1>1, <1>2
<1> QED
  BY <1>2, <1>5, <1>6, <1>7, <1>8 DEF Chained

LEMMA ChainPushed ==
  ASSUME NEW w, NEW t, NEW fs, NEW gs, NEW x, Chained(w, t, fs), Pushed(fs, gs, x), FrameSound(w, t, x),
         IF fs = <<>> THEN x.in = DeleteAsked.home /\ x.name = DeleteAsked.doomed ELSE x.in = fs[Len(fs)].dir
  PROVE  Chained(w, t, gs)
<1>1. PICK n \in Nat : n = Len(fs) /\ (fs = <<>> <=> n = 0)
  BY DEF Chained
<1>2. Len(gs) = n + 1 /\ gs[n + 1] = x /\ (\A i \in 1 .. n : gs[i] = fs[i]) /\ gs \in Seq(Frames)
  BY <1>1, Zenon DEF Pushed
<1>3. \A i \in 1 .. n + 1 : FrameSound(w, t, gs[i])
  BY <1>1, <1>2 DEF Chained
<1>4. gs[1].in = DeleteAsked.home /\ gs[1].name = DeleteAsked.doomed
  BY <1>1, <1>2 DEF Chained
<1>5. \A i \in 2 .. n + 1 : gs[i].in = gs[i - 1].dir
  BY <1>1, <1>2 DEF Chained
<1> QED
  BY <1>2, <1>3, <1>4, <1>5 DEF Chained

LEMMA ChainPopped ==
  ASSUME NEW w, NEW t, NEW fs, NEW gs, Chained(w, t, fs), fs # <<>>, Popped(fs, gs)
  PROVE  Chained(w, t, gs)
<1>1. PICK n \in Nat : n = Len(fs) /\ n >= 1
  BY DEF Chained
<1>2. Len(gs) = n - 1 /\ (\A i \in 1 .. n - 1 : gs[i] = fs[i]) /\ gs \in Seq(Frames)
  BY <1>1, Zenon DEF Popped
<1>3. gs # <<>> => n >= 2
  BY <1>1, <1>2
<1> QED
  BY <1>1, <1>2, <1>3 DEF Chained
(* What becomes of the first failure.                                       *)
LEMMA FirstReplaced ==
  ASSUME NEW fs, NEW gs, NEW x, NEW failures, fs \in Seq(Frames), fs # <<>>, FirstKept(fs, failures),
         Replaced(fs, gs, x), x.result = fs[Len(fs)].result
  PROVE  FirstKept(gs, failures)
BY DEF FirstKept, Replaced

LEMMA FirstPushed ==
  ASSUME NEW fs, NEW gs, NEW x, NEW failures, fs \in Seq(Frames), FirstKept(fs, failures), Pushed(fs, gs, x),
         x.result = "SUCCESS"
  PROVE  FirstKept(gs, failures)
BY DEF FirstKept, Pushed

LEMMA FirstPopped ==
  ASSUME NEW fs, NEW gs, NEW failures, fs \in Seq(Frames), fs # <<>>, FirstKept(fs, failures), Popped(fs, gs),
         fs[Len(fs)].result = "SUCCESS"
  PROVE  FirstKept(gs, failures)
BY DEF FirstKept, Popped

LEMMA HeadStays ==
  ASSUME NEW S, NEW s \in Seq(S), NEW e \in S
  PROVE  Append(s, e) # <<>> /\ Head(Append(s, e)) = IF s = <<>> THEN e ELSE Head(s)
<1>1. PICK t : t = Append(s, e)
  OBVIOUS
<1>2. PICK n \in Nat : n = Len(s) /\ (s = <<>> <=> n = 0)
  OBVIOUS
<1>3. t \in Seq(S) /\ Len(t) = n + 1 /\ t[n + 1] = e /\ \A i \in 1 .. n : t[i] = s[i]
  BY <1>1, <1>2
<1>4. t # <<>>
  BY <1>2, <1>3
<1>5. Head(t) = t[1] /\ (s # <<>> => Head(s) = s[1])
  BY <1>3, <1>4
<1>6. CASE s = <<>>
  BY <1>1, <1>2, <1>3, <1>4, <1>5, <1>6
<1>7. CASE s # <<>>
  BY <1>1, <1>2, <1>3, <1>4, <1>5, <1>7
<1> QED
  BY <1>6, <1>7

LEMMA FirstFails ==
  ASSUME NEW fs, NEW gs, NEW x, NEW failures \in Seq(Delete!Results), NEW code \in Delete!Results,
         fs \in Seq(Frames), fs # <<>>, FirstKept(fs, failures), Replaced(fs, gs, x), code # "SUCCESS",
         x.result = IF fs[Len(fs)].result = "SUCCESS" THEN code ELSE fs[Len(fs)].result
  PROVE  FirstKept(gs, Append(failures, code))
<1>1. PICK more : more = Append(failures, code)
  OBVIOUS
<1>2. more # <<>> /\ Head(more) = IF failures = <<>> THEN code ELSE Head(failures)
  BY <1>1, HeadStays
<1>3. PICK n \in Nat : n = Len(fs) /\ n >= 1
  OBVIOUS
<1>4. Len(gs) = n /\ gs[n] = x /\ \A i \in 1 .. n - 1 : gs[i] = fs[i]
  BY <1>3, Zenon DEF Replaced
<1>5. CASE failures = <<>>
  BY <1>2, <1>3, <1>4, <1>5, <1>1 DEF FirstKept
<1>6. CASE failures # <<>>
  <2>1. PICK i \in 1 .. n : fs[i].result = Head(failures) /\ \A j \in 1 .. i - 1 : fs[j].result = "SUCCESS"
    BY <1>3, <1>6 DEF FirstKept
  <2>2. Head(failures) # "SUCCESS"
    BY <1>6 DEF FirstKept
  <2>3. gs[i].result = Head(failures)
    BY <1>3, <1>4, <2>1, <2>2
  <2>4. \A j \in 1 .. i - 1 : gs[j].result = "SUCCESS"
    BY <1>3, <1>4, <2>1
  <2> QED
    BY <1>1, <1>2, <1>4, <1>6, <2>1, <2>2, <2>3, <2>4 DEF FirstKept
<1> QED
  BY <1>5, <1>6

LEMMA FirstLeft ==
  ASSUME NEW fs, NEW gs, NEW hs, NEW x, NEW failures,
         fs \in Seq(Frames), fs # <<>>, FirstKept(fs, failures), fs[Len(fs)].result # "SUCCESS",
         Popped(fs, gs), gs # <<>>, Replaced(gs, hs, x),
         x.result = IF gs[Len(gs)].result = "SUCCESS" THEN fs[Len(fs)].result ELSE gs[Len(gs)].result
  PROVE  FirstKept(hs, failures)
<1>1. PICK n \in Nat : n = Len(fs) /\ n >= 1
  OBVIOUS
<1>2. Len(gs) = n - 1 /\ (\A i \in 1 .. n - 1 : gs[i] = fs[i]) /\ gs \in Seq(Frames)
  BY <1>1, Zenon DEF Popped
<1>3. n >= 2
  BY <1>1, <1>2
<1>k. PICK k \in Nat : k = n - 1 /\ k = Len(gs)
  BY <1>2, <1>3
<1>l. Len(hs) = k /\ hs[k] = x /\ \A i \in 1 .. k - 1 : hs[i] = gs[i]
  BY <1>k, Zenon DEF Replaced
<1>4. Len(hs) = n - 1 /\ hs[n - 1] = x /\ \A i \in 1 .. n - 2 : hs[i] = fs[i]
  BY <1>2, <1>3, <1>k, <1>l
<1>m. x.result = IF fs[n - 1].result = "SUCCESS" THEN fs[n].result ELSE fs[n - 1].result
  BY <1>1, <1>2, <1>3, <1>k
<1>5. failures # <<>> /\ Head(failures) # "SUCCESS"
  BY <1>1 DEF FirstKept
<1>6. PICK i \in 1 .. n : fs[i].result = Head(failures) /\ \A j \in 1 .. i - 1 : fs[j].result = "SUCCESS"
  BY <1>1, <1>5 DEF FirstKept
<1>7. CASE i = n
  <2>1. hs[n - 1].result = Head(failures) /\ \A j \in 1 .. n - 2 : hs[j].result = "SUCCESS"
    BY <1>1, <1>2, <1>3, <1>4, <1>6, <1>7
  <2> QED
    BY <1>3, <1>4, <1>5, <2>1 DEF FirstKept
<1>8. CASE i <= n - 1
  <2>1. hs[i].result = Head(failures)
    <3>1. i \in 1 .. n /\ fs[i].result = Head(failures)
      BY <1>6
    <3>2. CASE i = n - 1
      BY <1>3, <1>4, <1>5, <1>m, <3>1, <3>2
    <3>3. CASE i \in 1 .. n - 2
      BY <1>4, <3>1, <3>3
    <3>4. i = n - 1 \/ i \in 1 .. n - 2
      BY <1>8, <3>1
    <3> QED
      BY <3>2, <3>3, <3>4, Zenon
  <2>2. ASSUME NEW j \in 1 .. i - 1 PROVE hs[j].result = "SUCCESS"
    <3>1. j \in 1 .. n - 2
      BY <1>8
    <3>2. hs[j] = fs[j] /\ fs[j].result = "SUCCESS"
      BY <1>4, <1>6, <3>1
    <3> QED
      BY <3>2
  <2> QED
    BY <1>3, <1>4, <1>5, <1>8, <2>1, <2>2 DEF FirstKept
<1> QED
  BY <1>7, <1>8

-----------------------------------------------------------------------------
(* The tree: a directory of it that has gone from its place was empty.      *)
Trees0 == [DeleteAsked.dirs -> [Names -> Delete!Entries]]
Empty(t, d) == \A n \in Names : t[d][n] = Delete!Absent
Proper(b) ==
  /\ b \in Trees0
  /\ \A d, e, x \in DeleteAsked.dirs, n, m \in Names :
       Delete!Leads(b, d, n, x) /\ Delete!Leads(b, e, m, x) => d = e /\ n = m
  /\ \A d \in DeleteAsked.dirs, n \in Names : b[d][n].to # DeleteAsked.home
Emptied(b, t) ==
  /\ Proper(b) /\ t \in Trees0
  /\ \A d \in DeleteAsked.dirs, n \in Names : t[d][n].kind \in {"dir", "link"} => t[d][n] = b[d][n]
  /\ \A d, x \in DeleteAsked.dirs, n \in Names : Delete!Leads(b, d, n, x) => Delete!Leads(t, d, n, x) \/ Empty(t, x)
Spared(w, b, t) ==
  ~w =>
    \A d \in DeleteAsked.dirs \ Delete!Inside(b), n \in Names :
      <<d, n>> # <<DeleteAsked.home, DeleteAsked.doomed>> /\ b[d][n] # Delete!Absent => t[d][n] = b[d][n]

LEMMA TreeLoses ==
  ASSUME NEW b, NEW t, NEW u, NEW d \in DeleteAsked.dirs, NEW n \in Names,
         Emptied(b, t), u = [t EXCEPT ![d][n] = Delete!Absent],
         \A x \in DeleteAsked.dirs : Delete!Leads(b, d, n, x) /\ Delete!Leads(t, d, n, x) => Empty(t, x)
  PROVE  Emptied(b, u)
<1>1. Delete!Absent \in Delete!Entries /\ Delete!Absent.kind = "none"
  BY DEF Delete!Absent, Delete!Entries
<1>2. t \in Trees0
  BY DEF Emptied
<1>3. u \in Trees0 /\ u[d][n] = Delete!Absent
  BY <1>1, <1>2 DEF Trees0
<1>4. \A e \in DeleteAsked.dirs, m \in Names : <<e, m>> # <<d, n>> => u[e][m] = t[e][m]
  BY <1>2 DEF Trees0
<1>5. \A x \in DeleteAsked.dirs : Empty(t, x) => Empty(u, x)
  BY <1>3, <1>4 DEF Empty
<1>6. \A e \in DeleteAsked.dirs, m \in Names : u[e][m].kind \in {"dir", "link"} => u[e][m] = b[e][m]
  BY <1>1, <1>3, <1>4 DEF Emptied
<1>7. ASSUME NEW e \in DeleteAsked.dirs, NEW x \in DeleteAsked.dirs, NEW m \in Names, Delete!Leads(b, e, m, x)
      PROVE  Delete!Leads(u, e, m, x) \/ Empty(u, x)
  <2>1. Delete!Leads(t, e, m, x) \/ Empty(t, x)
    BY <1>7 DEF Emptied
  <2>2. CASE <<e, m>> = <<d, n>>
    BY <1>5, <1>7, <2>1, <2>2
  <2>3. CASE <<e, m>> # <<d, n>>
    BY <1>4, <1>5, <2>1, <2>3 DEF Delete!Leads
  <2> QED
    BY <2>2, <2>3
<1> QED
  BY <1>3, <1>6, <1>7 DEF Emptied

Gained(t, u, d, n) == t[d][n] = Delete!Absent /\ u = [t EXCEPT ![d][n] = [kind |-> "reg", to |-> None]]

LEMMA TreeGains ==
  ASSUME NEW w, NEW b, NEW t, NEW u, NEW d \in DeleteAsked.dirs, NEW n \in Names,
         Emptied(b, t), Gained(t, u, d, n),
         NEW e \in DeleteAsked.dirs, NEW m \in Names, Delete!Leads(t, e, m, d)
  PROVE  Emptied(b, u) /\ (Spared(w, b, t) => Spared(w, b, u)) /\ <<d, n>> # <<DeleteAsked.home, DeleteAsked.doomed>>
         /\ u[DeleteAsked.home][DeleteAsked.doomed] = t[DeleteAsked.home][DeleteAsked.doomed]
<1> DEFINE new == [kind |-> "reg", to |-> None]
<1>1. new \in Delete!Entries /\ new.kind = "reg"
  BY DEF Delete!Entries
<1> HIDE DEF new
<1>2. t \in Trees0
  BY DEF Emptied
<1>3. u \in Trees0 /\ u[d][n] = new /\ t[d][n] = Delete!Absent
  BY <1>1, <1>2 DEF Trees0, new, Gained
<1>4. \A k \in DeleteAsked.dirs, l \in Names : <<k, l>> # <<d, n>> => u[k][l] = t[k][l]
  BY <1>2 DEF Trees0, Gained
<1>5. Delete!Leads(b, e, m, d)
  BY DEF Emptied, Delete!Leads
<1>6. d # DeleteAsked.home
  BY <1>5 DEF Emptied, Proper, Delete!Leads
<1>7. <<e, m>> # <<d, n>>
  BY <1>3 DEF Delete!Leads, Delete!Absent
<1>8. \A k \in DeleteAsked.dirs, l \in Names : u[k][l].kind \in {"dir", "link"} => u[k][l] = b[k][l]
  BY <1>1, <1>3, <1>4 DEF Emptied
<1>9. ASSUME NEW k \in DeleteAsked.dirs, NEW x \in DeleteAsked.dirs, NEW l \in Names, Delete!Leads(b, k, l, x)
      PROVE  Delete!Leads(u, k, l, x) \/ Empty(u, x)
  <2>1. Delete!Leads(t, k, l, x) \/ Empty(t, x)
    BY <1>9 DEF Emptied
  <2>2. CASE x = d
    <3>1. k = e /\ l = m
      BY <1>5, <1>9, <2>2 DEF Emptied, Proper
    <3> QED
      BY <1>4, <1>7, <2>2, <3>1 DEF Delete!Leads
  <2>3. CASE x # d
    <3>1. Empty(t, x) => Empty(u, x)
      BY <1>4, <2>3 DEF Empty
    <3>2. Delete!Leads(t, k, l, x) => Delete!Leads(u, k, l, x)
      BY <1>3, <1>4 DEF Delete!Leads, Delete!Absent
    <3> QED
      BY <2>1, <3>1, <3>2
  <2> QED
    BY <2>2, <2>3
<1>10. Emptied(b, u)
  BY <1>3, <1>8, <1>9 DEF Emptied
<1>11. Spared(w, b, t) => Spared(w, b, u)
  BY <1>3, <1>4 DEF Spared
<1>12. u[DeleteAsked.home][DeleteAsked.doomed] = t[DeleteAsked.home][DeleteAsked.doomed]
  BY <1>2, <1>6 DEF Trees0, Gained
<1> QED
  BY <1>6, <1>10, <1>11, <1>12
-----------------------------------------------------------------------------
(* What holds at every step of a deletion.                                  *)
HomeEntry(t) == t[DeleteAsked.home][DeleteAsked.doomed]
Resulted(t, b, r, failures) ==
  /\ r = IF failures = <<>> THEN "SUCCESS" ELSE Head(failures)
  /\ r = "SUCCESS" => HomeEntry(t) = Delete!Absent
  /\ r # "SUCCESS" => HomeEntry(t) = HomeEntry(b)
DeleteShape(w, t, b, p, fs, r, failures) ==
  /\ Emptied(b, t) /\ Spared(w, b, t) /\ Chained(w, b, fs)
  /\ failures \in Seq(Delete!Results)
  /\ p \in {"no", "walk", "done"} /\ (p # "walk" => fs = <<>>)
  /\ p # "done" => FirstKept(fs, failures) /\ HomeEntry(t) = HomeEntry(b) /\ (~w => failures = <<>>)
  /\ p = "done" => Resulted(t, b, r, failures)
DeleteInv == DeleteShape(Delete!Windows, x_tree, x_before, x_pc, x_frames, x_res, x_failures)

LEMMA DeleteBecomes ==
  ASSUME NEW t, NEW p, NEW fs, NEW r, NEW failures, UNCHANGED <<x_before, x_platform>>,
         x_tree' = t, x_pc' = p, x_frames' = fs, x_res' = r, x_failures' = failures,
         DeleteShape(Delete!Windows, t, x_before, p, fs, r, failures)
  PROVE  DeleteInv'
<1>1. Delete!Windows' = Delete!Windows
  BY DEF Delete!Windows
<1> QED
  BY <1>1, Zenon DEF DeleteInv

LEMMA NothingChained ==
  ASSUME NEW w, NEW t PROVE Chained(w, t, <<>>) /\ FirstKept(<<>>, <<>>) /\ <<>> \in Seq(Delete!Results)
BY DEF Chained, FirstKept

LEMMA DeleteStarts == ASSUME Delete!Init, Delete!TreeArguments PROVE DeleteInv
<1>1. Proper(x_tree) /\ x_before = x_tree
  BY DEF Delete!Init, Delete!TreeArguments, Proper, Trees0
<1>2. Emptied(x_before, x_tree) /\ Spared(Delete!Windows, x_before, x_tree)
  BY <1>1 DEF Emptied, Spared, Proper
<1> QED
  BY <1>1, <1>2, NothingChained DEF Delete!Init, DeleteInv, DeleteShape

(* The directories of what a call found.                                    *)
LEMMA InsideIs ==
  ASSUME NEW b, NEW d \in DeleteAsked.dirs, NEW x \in DeleteAsked.dirs, NEW n \in Names, Delete!Leads(b, d, n, x),
         d \in Delete!Inside(b) \/ <<d, n>> = <<DeleteAsked.home, DeleteAsked.doomed>>
  PROVE  x \in Delete!Inside(b)
BY DEF Delete!Inside

LEMMA NewFrame ==
  ASSUME DeleteInv, Delete!DeleteArguments, NEW d \in DeleteAsked.dirs, NEW n \in Names,
         x_tree[d][n].kind \in IF Delete!Windows THEN {"dir", "link"} ELSE {"dir"},
         Delete!Windows \/ d \in Delete!Inside(x_before) \/ <<d, n>> = <<DeleteAsked.home, DeleteAsked.doomed>>
  PROVE  /\ FrameSound(Delete!Windows, x_before, Delete!Frame(d, n))
         /\ Delete!Frame(d, n).in = d /\ Delete!Frame(d, n).name = n /\ Delete!Frame(d, n).result = "SUCCESS"
<1>1. Emptied(x_before, x_tree)
  BY DEF DeleteInv, DeleteShape
<1>2. x_tree[d][n] = x_before[d][n] /\ x_tree[d][n] \in Delete!Entries
  BY <1>1 DEF Emptied, Trees0
<1>3. PICK x \in DeleteAsked.dirs : x = x_tree[d][n].to
  BY <1>2 DEF Delete!Entries
<1>4. x # DeleteAsked.home
  BY <1>1, <1>2, <1>3 DEF Emptied, Proper
<1>5. ~Delete!Windows => x \in Delete!Inside(x_before)
  <2> SUFFICES ASSUME ~Delete!Windows PROVE x \in Delete!Inside(x_before)
    OBVIOUS
  <2>1. Delete!Leads(x_before, d, n, x)
    BY <1>2, <1>3 DEF Delete!Leads, Delete!Entries
  <2> QED
    BY <2>1, InsideIs
<1>6. Delete!Frame(d, n) \in Frames /\ Delete!Frame(d, n).dir = x /\ Delete!Frame(d, n).in = d
      /\ Delete!Frame(d, n).name = n /\ Delete!Frame(d, n).result = "SUCCESS"
  BY <1>3 DEF Delete!Frame, Frames, Delete!Present, Delete!Results
<1> QED
  BY <1>2, <1>3, <1>4, <1>5, <1>6 DEF FrameSound

LEMMA DirectoryOpened == ASSUME DeleteInv, Delete!DeleteArguments, Delete!DeleteDirectory PROVE DeleteInv'
<1>1. PICK x : x = Delete!Frame(DeleteAsked.home, DeleteAsked.doomed)
  OBVIOUS
<1>2. FrameSound(Delete!Windows, x_before, x) /\ x.in = DeleteAsked.home /\ x.name = DeleteAsked.doomed
      /\ x.result = "SUCCESS"
  BY <1>1, NewFrame DEF Delete!DeleteDirectory, Delete!Deletable, Delete!DeleteArguments
<1>3. PICK gs : gs = <<x>>
  OBVIOUS
<1>4. gs = Append(<<>>, x) /\ <<>> \in Seq(Frames) /\ x \in Frames
  BY <1>2, <1>3 DEF FrameSound
<1>5. Pushed(<<>>, gs, x)
  BY <1>4, AppendPushes
<1>6. Chained(Delete!Windows, x_before, gs)
  BY <1>2, <1>5, NothingChained, ChainPushed
<1>7. x_pc = "no" /\ x_frames = <<>> /\ FirstKept(<<>>, x_failures)
  BY DEF Delete!DeleteDirectory, DeleteInv, DeleteShape
<1>8. FirstKept(gs, x_failures)
  BY <1>2, <1>4, <1>5, <1>7, FirstPushed
<1>9. DeleteShape(Delete!Windows, x_tree, x_before, "walk", gs, x_res, x_failures)
  BY <1>6, <1>7, <1>8 DEF DeleteInv, DeleteShape
<1>10. /\ UNCHANGED <<x_before, x_platform>> /\ x_tree' = x_tree /\ x_pc' = "walk" /\ x_frames' = gs
       /\ x_res' = x_res /\ x_failures' = x_failures
  BY <1>1, <1>3 DEF Delete!DeleteDirectory
<1> QED
  BY <1>9, <1>10, DeleteBecomes

(* A call that ends before it has opened the directory.                     *)
LEMMA Unbegun ==
  ASSUME DeleteInv, x_pc = "no"
  PROVE  /\ x_frames = <<>> /\ x_failures = <<>> /\ HomeEntry(x_tree) = HomeEntry(x_before)
         /\ Emptied(x_before, x_tree) /\ Spared(Delete!Windows, x_before, x_tree)
BY DEF DeleteInv, DeleteShape, FirstKept

LEMMA Refused0 == ASSUME DeleteInv, Delete!Refuse \/ Delete!DeleteUnopened PROVE DeleteInv'
<1>1. x_pc = "no"
  BY DEF Delete!Refuse, Delete!DeleteUnopened
<1>2. PICK r \in Delete!Results \ {"SUCCESS"} : r = x_res'
  BY DEF Delete!Refuse, Delete!DeleteUnopened, Delete!OpenErrors, Delete!Denied, Delete!Results
<1>3. PICK more : more = Append(x_failures, r)
  OBVIOUS
<1>4. more \in Seq(Delete!Results) /\ more # <<>> /\ Head(more) = r
  BY <1>1, <1>2, <1>3, Unbegun, NothingChained, HeadStays
<1>5. Resulted(x_tree, x_before, r, more)
  BY <1>1, <1>2, <1>4, Unbegun DEF Resulted
<1>6. /\ UNCHANGED <<x_before, x_platform>> /\ x_tree' = x_tree /\ x_pc' = "done" /\ x_frames' = <<>>
      /\ x_res' = r /\ x_failures' = more
  BY <1>1, <1>2, <1>3, Unbegun DEF Delete!Refuse, Delete!DeleteUnopened
<1>7. DeleteShape(Delete!Windows, x_tree, x_before, "done", <<>>, r, more)
  BY <1>1, <1>4, <1>5, Unbegun, NothingChained DEF DeleteShape
<1> QED
  BY <1>6, <1>7, DeleteBecomes

(* The frame on top, and what a step does to it.                            *)
LEMMA SameFront == ASSUME NEW fs PROVE Delete!Front(fs) = Front(fs) /\ Delete!Last(fs) = Last(fs)
BY DEF Delete!Front, Delete!Last, Front, Last

LEMMA TopIs ==
  ASSUME DeleteInv, x_frames # <<>>
  PROVE  /\ x_frames \in Seq(Frames) /\ Len(x_frames) \in Nat \ {0} /\ Delete!Top = x_frames[Len(x_frames)]
         /\ Delete!Top \in Frames /\ FrameSound(Delete!Windows, x_before, Delete!Top)
         /\ x_pc = "walk" /\ FirstKept(x_frames, x_failures)
         /\ x_failures \in Seq(Delete!Results) /\ (~Delete!Windows => x_failures = <<>>)
<1>1. Chained(Delete!Windows, x_before, x_frames) /\ x_pc = "walk" /\ FirstKept(x_frames, x_failures)
      /\ x_failures \in Seq(Delete!Results) /\ (~Delete!Windows => x_failures = <<>>)
  BY DEF DeleteInv, DeleteShape
<1>2. x_frames \in Seq(Frames) /\ Len(x_frames) \in Nat \ {0}
  BY <1>1 DEF Chained
<1>3. Delete!Top = x_frames[Len(x_frames)]
  BY SameFront DEF Delete!Top, Last
<1>4. FrameSound(Delete!Windows, x_before, x_frames[Len(x_frames)])
  BY <1>1, <1>2 DEF Chained
<1> QED
  BY <1>1, <1>2, <1>3, <1>4 DEF FrameSound

LEMMA TakenIs ==
  ASSUME DeleteInv, x_frames # <<>>, NEW n
  PROVE  Alike(Delete!Top, Delete!Taken(n)) /\ Delete!Taken(n).result = Delete!Top.result
<1>1. PICK f \in Frames : f = Delete!Top
  BY TopIs
<1>2. Delete!Taken(n) = [f EXCEPT !.left = @ \ {n}, !.due = @ \ {n}]
  BY <1>1, Zenon DEF Delete!Taken
<1>3. Alike(f, Delete!Taken(n)) /\ Delete!Taken(n).result = f.result
  BY <1>2 DEF Frames, Alike
<1> QED
  BY <1>1, <1>3

(* The top is replaced by a frame like it, with its result.                 *)
LEMMA TopChanges ==
  ASSUME DeleteInv, x_frames # <<>>, NEW x, Alike(Delete!Top, x), x.result = Delete!Top.result,
         NEW gs, gs = Append(Front(x_frames), x)
  PROVE  /\ Chained(Delete!Windows, x_before, gs) /\ FirstKept(gs, x_failures) /\ gs # <<>>
         /\ gs \in Seq(Frames) /\ gs[Len(gs)] = x
<1>1. x \in Frames
  BY DEF Alike
<1>2. Replaced(x_frames, gs, x)
  BY <1>1, TopIs, TopReplaced
<1>3. Chained(Delete!Windows, x_before, x_frames)
  BY DEF DeleteInv, DeleteShape
<1>4. Chained(Delete!Windows, x_before, gs) /\ gs # <<>>
  BY <1>2, <1>3, TopIs, ChainReplaced
<1>5. FirstKept(gs, x_failures)
  BY <1>2, TopIs, FirstReplaced
<1> QED
  BY <1>2, <1>4, <1>5 DEF Replaced

(* A failed call in the directory on top.                                   *)
LEMMA Failed ==
  ASSUME DeleteInv, x_frames # <<>>, NEW frame, Alike(Delete!Top, frame), frame.result = Delete!Top.result,
         NEW code \in Delete!Results \ {"SUCCESS"}, Delete!FailWith(frame, code),
         UNCHANGED <<x_tree, x_before, x_platform>>
  PROVE  DeleteInv'
<1>1. code \in Delete!Results /\ code # "SUCCESS"
  BY DEF Delete!Results
<1>2. PICK more : more = Append(x_failures, code)
  OBVIOUS
<1>3. more \in Seq(Delete!Results) /\ more # <<>> /\ Head(more) = IF x_failures = <<>> THEN code ELSE Head(x_failures)
  BY <1>1, <1>2, TopIs, HeadStays
<1>4. CASE Delete!Windows
  <2>1. PICK x : x = Delete!FirstFailure(frame, code)
    OBVIOUS
  <2>2. Alike(Delete!Top, x) /\ x.result = IF Delete!Top.result = "SUCCESS" THEN code ELSE Delete!Top.result
    BY <1>1, <2>1 DEF Delete!FirstFailure, Alike, Frames
  <2>3. PICK gs : gs = Append(Front(x_frames), x)
    OBVIOUS
  <2>4. Replaced(x_frames, gs, x)
    BY <2>2, <2>3, TopIs, TopReplaced DEF Alike
  <2>5. Chained(Delete!Windows, x_before, gs)
    BY <2>2, <2>4, TopIs, ChainReplaced DEF DeleteInv, DeleteShape
  <2>6. FirstKept(gs, more)
    BY <1>1, <1>2, <2>2, <2>4, TopIs, FirstFails
  <2>7. DeleteShape(Delete!Windows, x_tree, x_before, "walk", gs, x_res, more)
    BY <1>3, <1>4, <2>5, <2>6, TopIs DEF DeleteInv, DeleteShape
  <2>8. /\ x_tree' = x_tree /\ x_pc' = "walk" /\ x_frames' = gs /\ x_res' = x_res /\ x_failures' = more
    BY <1>2, <1>4, <2>1, <2>3, TopIs, SameFront DEF Delete!FailWith
  <2> QED
    BY <2>7, <2>8, DeleteBecomes
<1>5. CASE ~Delete!Windows
  <2>1. Head(more) = code
    BY <1>3, <1>5, TopIs
  <2>2. Resulted(x_tree, x_before, code, more)
    BY <1>1, <1>3, <2>1, TopIs DEF DeleteInv, DeleteShape, Resulted
  <2>3. DeleteShape(Delete!Windows, x_tree, x_before, "done", <<>>, code, more)
    BY <1>3, <2>2, NothingChained DEF DeleteInv, DeleteShape
  <2>4. /\ x_tree' = x_tree /\ x_pc' = "done" /\ x_frames' = <<>> /\ x_res' = code /\ x_failures' = more
    BY <1>2, <1>5 DEF Delete!FailWith
  <2> QED
    BY <2>3, <2>4, DeleteBecomes
<1> QED
  BY <1>4, <1>5

LEMMA NameFails ==
  ASSUME DeleteInv, NEW n \in Names, Delete!DescendFails(n) \/ Delete!UnlinkFails(n) PROVE DeleteInv'
<1>1. x_frames # <<>> /\ UNCHANGED <<x_tree, x_before, x_platform>>
  BY DEF Delete!DescendFails, Delete!UnlinkFails, Delete!Found
<1>2. PICK code \in Delete!Results \ {"SUCCESS"} : Delete!FailWith(Delete!Taken(n), code)
  BY DEF Delete!DescendFails, Delete!UnlinkFails, Delete!OpenErrors, Delete!Denied, Delete!Results
<1> QED
  BY <1>1, <1>2, TakenIs, Failed

(* readdir stops early.                                                     *)
LEMMA Stopped == ASSUME DeleteInv, Delete!ReadStops PROVE DeleteInv'
<1>1. x_frames # <<>>
  BY DEF Delete!ReadStops
<1>2. PICK f \in Frames : f = Delete!Top
  BY <1>1, TopIs
<1>3. PICK x : x = [f EXCEPT !.left = {}, !.due = {}]
  OBVIOUS
<1>4. Alike(f, x) /\ x.result = f.result
  BY <1>3 DEF Frames, Alike
<1>5. PICK gs : gs = Append(Front(x_frames), x)
  OBVIOUS
<1>6. Chained(Delete!Windows, x_before, gs) /\ FirstKept(gs, x_failures)
  BY <1>1, <1>2, <1>4, <1>5, TopChanges
<1>7. DeleteShape(Delete!Windows, x_tree, x_before, "walk", gs, x_res, x_failures)
  BY <1>1, <1>6, TopIs DEF DeleteInv, DeleteShape
<1>8. /\ x_tree' = x_tree /\ x_pc' = "walk" /\ x_frames' = gs /\ x_res' = x_res /\ x_failures' = x_failures
      /\ UNCHANGED <<x_before, x_platform>>
  BY <1>1, <1>2, <1>3, <1>5, TopIs, SameFront, Zenon DEF Delete!ReadStops
<1> QED
  BY <1>7, <1>8, DeleteBecomes

LEMMA Descended ==
  ASSUME DeleteInv, Delete!DeleteArguments, NEW n \in Names, Delete!Descend(n) PROVE DeleteInv'
<1>1. x_frames # <<>>
  BY DEF Delete!Descend, Delete!Found
<1>2. PICK gs : gs = Append(Front(x_frames), Delete!Taken(n))
  OBVIOUS
<1>3. /\ Chained(Delete!Windows, x_before, gs) /\ FirstKept(gs, x_failures) /\ gs # <<>>
      /\ gs \in Seq(Frames) /\ gs[Len(gs)].dir = Delete!Top.dir
  <2>1. PICK f : f = Delete!Taken(n)
    OBVIOUS
  <2>2. Alike(Delete!Top, f) /\ f.result = Delete!Top.result
    BY <1>1, <2>1, TakenIs, Zenon
  <2>3. gs = Append(Front(x_frames), f)
    BY <1>2, <2>1, Zenon
  <2> QED
    BY <1>1, <2>2, <2>3, TopChanges DEF Alike
<1>4. PICK d \in DeleteAsked.dirs : d = Delete!Top.dir /\ (~Delete!Windows => d \in Delete!Inside(x_before))
  BY <1>1, TopIs DEF FrameSound, Frames
<1>5. x_tree[d][n].kind \in IF Delete!Windows THEN {"dir", "link"} ELSE {"dir"}
  BY <1>4 DEF Delete!Descend, Delete!Recurses
<1>6. PICK x : x = Delete!Frame(d, n)
  OBVIOUS
<1>7. FrameSound(Delete!Windows, x_before, x) /\ x.in = d /\ x.result = "SUCCESS" /\ x \in Frames
  BY <1>4, <1>5, <1>6, NewFrame DEF FrameSound
<1>8. PICK hs : hs = Append(gs, x)
  OBVIOUS
<1>9. Pushed(gs, hs, x)
  BY <1>3, <1>7, <1>8, AppendPushes
<1>10. Chained(Delete!Windows, x_before, hs)
  BY <1>3, <1>4, <1>7, <1>9, ChainPushed
<1>11. FirstKept(hs, x_failures)
  BY <1>3, <1>7, <1>9, FirstPushed
<1>12. DeleteShape(Delete!Windows, x_tree, x_before, "walk", hs, x_res, x_failures)
  BY <1>1, <1>10, <1>11, TopIs DEF DeleteInv, DeleteShape
<1>13. /\ x_tree' = x_tree /\ x_pc' = "walk" /\ x_frames' = hs /\ x_res' = x_res /\ x_failures' = x_failures
       /\ UNCHANGED <<x_before, x_platform>>
  BY <1>1, <1>2, <1>4, <1>6, <1>8, TopIs, SameFront DEF Delete!Descend
<1> QED
  BY <1>12, <1>13, DeleteBecomes

(* An entry goes that is not outside.                                       *)
LEMMA EntryGoes ==
  ASSUME DeleteInv, NEW d \in DeleteAsked.dirs, NEW n \in Names, NEW u,
         u = [x_tree EXCEPT ![d][n] = Delete!Absent],
         \A x \in DeleteAsked.dirs :
           Delete!Leads(x_before, d, n, x) /\ Delete!Leads(x_tree, d, n, x) => Empty(x_tree, x),
         Delete!Windows \/ d \in Delete!Inside(x_before) \/ <<d, n>> = <<DeleteAsked.home, DeleteAsked.doomed>>
  PROVE  /\ Emptied(x_before, u) /\ Spared(Delete!Windows, x_before, u)
         /\ d # DeleteAsked.home => HomeEntry(u) = HomeEntry(x_tree)
         /\ <<d, n>> = <<DeleteAsked.home, DeleteAsked.doomed>> => HomeEntry(u) = Delete!Absent
<1>1. Emptied(x_before, x_tree) /\ Spared(Delete!Windows, x_before, x_tree)
  BY DEF DeleteInv, DeleteShape
<1>2. Emptied(x_before, u)
  BY <1>1, TreeLoses
<1>3. x_tree \in Trees0
  BY <1>1 DEF Emptied
<1>4. /\ u[d][n] = Delete!Absent
      /\ \A e \in DeleteAsked.dirs, m \in Names : <<e, m>> # <<d, n>> => u[e][m] = x_tree[e][m]
      /\ d # DeleteAsked.home => u[DeleteAsked.home] = x_tree[DeleteAsked.home]
  BY <1>3 DEF Trees0
<1>5. Spared(Delete!Windows, x_before, u)
  BY <1>1, <1>4 DEF Spared
<1> QED
  BY <1>2, <1>4, <1>5 DEF HomeEntry

(* A directory that cannot be read and is empty goes as a file does.        *)
LEMMA Unlinked ==
  ASSUME DeleteInv, NEW n \in Names, Delete!Unlink(n) \/ Delete!RemoveUnread(n) PROVE DeleteInv'
<1>1. x_frames # <<>>
  BY DEF Delete!Unlink, Delete!RemoveUnread, Delete!Found
<1>2. PICK gs : gs = Append(Front(x_frames), Delete!Taken(n))
  OBVIOUS
<1>3. Chained(Delete!Windows, x_before, gs) /\ FirstKept(gs, x_failures) /\ gs # <<>>
  BY <1>1, <1>2, TakenIs, TopChanges
<1>4. PICK d \in DeleteAsked.dirs :
        d = Delete!Top.dir /\ (~Delete!Windows => d \in Delete!Inside(x_before)) /\ d # DeleteAsked.home
  BY <1>1, TopIs DEF FrameSound, Frames
<1>5. PICK u : u = [x_tree EXCEPT ![d][n] = Delete!Absent]
  OBVIOUS
<1>6. ASSUME NEW x \in DeleteAsked.dirs, Delete!Leads(x_tree, d, n, x) PROVE Empty(x_tree, x)
  <2>1. x_tree[d][n].kind = "dir" /\ x_tree[d][n].to = x
    BY <1>6 DEF Delete!Leads
  <2>2. Delete!RemoveUnread(n)
    BY <1>4, <2>1 DEF Delete!Unlink, Delete!Recurses
  <2>3. Delete!Present(x) = {}
    BY <1>4, <2>1, <2>2 DEF Delete!RemoveUnread
  <2> QED
    BY <2>3 DEF Delete!Present, Empty
<1>7. Emptied(x_before, u) /\ Spared(Delete!Windows, x_before, u) /\ HomeEntry(u) = HomeEntry(x_tree)
  BY <1>4, <1>5, <1>6, EntryGoes
<1>8. DeleteShape(Delete!Windows, u, x_before, "walk", gs, x_res, x_failures)
  BY <1>1, <1>3, <1>7, TopIs DEF DeleteInv, DeleteShape
<1>9. /\ x_tree' = u /\ x_pc' = "walk" /\ x_frames' = gs /\ x_res' = x_res /\ x_failures' = x_failures
      /\ UNCHANGED <<x_before, x_platform>>
  BY <1>1, <1>2, <1>4, <1>5, TopIs, SameFront DEF Delete!Unlink, Delete!RemoveUnread
<1> QED
  BY <1>8, <1>9, DeleteBecomes

(* And so does the one the call is for.                                     *)
LEMMA UnreadGone == ASSUME DeleteInv, Delete!DeleteArguments, Delete!DeleteUnread PROVE DeleteInv'
<1>1. x_pc = "no"
  BY DEF Delete!DeleteUnread
<1>2. DeleteAsked.home \in DeleteAsked.dirs /\ DeleteAsked.doomed \in Names
  BY DEF Delete!DeleteArguments
<1>3. PICK u : u = [x_tree EXCEPT ![DeleteAsked.home][DeleteAsked.doomed] = Delete!Absent]
  OBVIOUS
<1>4. ASSUME NEW x \in DeleteAsked.dirs, Delete!Leads(x_tree, DeleteAsked.home, DeleteAsked.doomed, x)
      PROVE  Empty(x_tree, x)
  BY <1>4 DEF Delete!Leads, Delete!DeleteUnread, Delete!Present, Empty
<1>5. Emptied(x_before, u) /\ Spared(Delete!Windows, x_before, u) /\ HomeEntry(u) = Delete!Absent
  BY <1>2, <1>3, <1>4, EntryGoes
<1>6. Resulted(u, x_before, "SUCCESS", <<>>)
  BY <1>5 DEF Resulted
<1>7. DeleteShape(Delete!Windows, u, x_before, "done", <<>>, "SUCCESS", <<>>)
  BY <1>5, <1>6, NothingChained DEF DeleteShape
<1>8. /\ UNCHANGED <<x_before, x_platform>> /\ x_tree' = u /\ x_pc' = "done" /\ x_frames' = <<>>
      /\ x_res' = "SUCCESS" /\ x_failures' = <<>>
  BY <1>1, <1>3, Unbegun DEF Delete!DeleteUnread
<1> QED
  BY <1>7, <1>8, DeleteBecomes

-----------------------------------------------------------------------------
(* Back from a directory that is read to its end.                           *)
LEMMA Outermost ==
  ASSUME DeleteInv, x_frames # <<>>, Len(x_frames) = 1
  PROVE  /\ Delete!Top.in = DeleteAsked.home /\ Delete!Top.name = DeleteAsked.doomed
         /\ Delete!Top.result = "SUCCESS" => x_failures = <<>>
         /\ Delete!Top.result # "SUCCESS" => x_failures # <<>> /\ Head(x_failures) = Delete!Top.result
<1>1. PICK f : f = x_frames[1] /\ f = Delete!Top
  BY TopIs
<1>2. Chained(Delete!Windows, x_before, x_frames)
  BY DEF DeleteInv, DeleteShape
<1>3. f.in = DeleteAsked.home /\ f.name = DeleteAsked.doomed
  BY <1>1, <1>2 DEF Chained
<1>o. 1 \in 1 .. 1 /\ \A i \in 1 .. 1 : i = 1
  OBVIOUS
<1>4. FirstKept(x_frames, x_failures)
  BY TopIs
<1>5. CASE x_failures = <<>>
  <2>1. f.result = "SUCCESS"
    BY <1>1, <1>o, <1>4, <1>5, Zenon DEF FirstKept
  <2> QED
    BY <1>1, <1>3, <1>5, <2>1
<1>6. CASE x_failures # <<>>
  <2>1. Head(x_failures) # "SUCCESS" /\ f.result = Head(x_failures)
    BY <1>1, <1>o, <1>4, <1>6, Zenon DEF FirstKept
  <2> QED
    BY <1>1, <1>3, <1>6, <2>1
<1> QED
  BY <1>5, <1>6

LEMMA DoneShape ==
  ASSUME DeleteInv, NEW u, Emptied(x_before, u), Spared(Delete!Windows, x_before, u),
         NEW code, NEW more \in Seq(Delete!Results), Resulted(u, x_before, code, more)
  PROVE  DeleteShape(Delete!Windows, u, x_before, "done", <<>>, code, more)
BY NothingChained DEF DeleteShape

(* The frames fs without the last, the one above with its result for code.  *)
Back(fs, hs, gs, x, code) ==
  /\ Popped(fs, gs) /\ gs # <<>> /\ Replaced(gs, hs, x) /\ Alike(gs[Len(gs)], x)
  /\ x.result = IF gs[Len(gs)].result = "SUCCESS" THEN code ELSE gs[Len(gs)].result
AboveOf(fs, code) ==
  IF code = "SUCCESS" THEN fs[Len(fs) - 1] ELSE Delete!FirstFailure(fs[Len(fs) - 1], code)

LEMMA AboveIs ==
  ASSUME NEW fs \in Seq(Frames), fs # <<>>, Len(fs) # 1, NEW code \in Delete!Results, NEW hs,
         hs = Append(SubSeq(fs, 1, Len(fs) - 2), AboveOf(fs, code))
  PROVE  \E gs, x : Back(fs, hs, gs, x, code) /\ gs[Len(gs)] = fs[Len(fs) - 1]
<1>1. PICK n \in Nat : n = Len(fs) /\ n >= 2
  <2>1. PICK n \in Nat : n = Len(fs) /\ n >= 1
    BY FrontPops
  <2>2. n # 1
    BY <2>1, Zenon
  <2> QED
    BY <2>1, <2>2
<1>2. PICK k \in Nat : k = n - 1 /\ k >= 1 /\ n - 2 = k - 1
  <2>1. PICK k : k = n - 1
    OBVIOUS
  <2> QED
    BY <1>1, <2>1
<1>3. PICK g : g = SubSeq(fs, 1, k)
  OBVIOUS
<1>4. g \in Seq(Frames) /\ Len(g) = k /\ g # <<>> /\ \A i \in 1 .. k : g[i] = fs[i]
  BY <1>1, <1>2, <1>3
<1>5. Popped(fs, g)
  BY <1>1, <1>2, <1>4 DEF Popped
<1>6. PICK r : r = SubSeq(fs, 1, k - 1)
  OBVIOUS
<1>7. r \in Seq(Frames) /\ Len(r) = k - 1 /\ \A i \in 1 .. k - 1 : r[i] = fs[i]
  BY <1>1, <1>2, <1>6
<1>8. PICK f \in Frames : f = fs[k]
  BY <1>1, <1>2
<1>9. PICK x : x = AboveOf(fs, code)
  OBVIOUS
<1>10. x = IF code = "SUCCESS" THEN f ELSE Delete!FirstFailure(f, code)
  BY <1>1, <1>2, <1>8, <1>9 DEF AboveOf
<1>11. Alike(f, x) /\ x.result = IF f.result = "SUCCESS" THEN code ELSE f.result
  BY <1>10 DEF Alike, Frames, Delete!FirstFailure
<1>12. hs = Append(r, x)
  BY <1>1, <1>2, <1>6, <1>9
<1>13. hs \in Seq(Frames) /\ Len(hs) = k /\ hs[k] = x /\ \A i \in 1 .. k - 1 : hs[i] = r[i]
  BY <1>2, <1>7, <1>11, <1>12 DEF Alike
<1>14. Replaced(g, hs, x)
  BY <1>2, <1>4, <1>7, <1>13 DEF Replaced
<1>15. g[Len(g)] = f
  BY <1>2, <1>4, <1>8
<1>16. Back(fs, hs, g, x, code)
  BY <1>4, <1>5, <1>11, <1>14, <1>15, Zenon DEF Back
<1>17. g[Len(g)] = fs[Len(fs) - 1]
  BY <1>1, <1>2, <1>8, <1>15
<1> QED
  BY <1>16, <1>17, Zenon

LEMMA BackChained ==
  ASSUME DeleteInv, x_frames # <<>>, NEW hs, NEW gs, NEW x, NEW code, Back(x_frames, hs, gs, x, code)
  PROVE  /\ Chained(Delete!Windows, x_before, hs) /\ hs # <<>> /\ gs \in Seq(Frames)
         /\ Delete!Top.in = gs[Len(gs)].dir /\ FrameSound(Delete!Windows, x_before, gs[Len(gs)])
<1>1. Chained(Delete!Windows, x_before, x_frames)
  BY DEF DeleteInv, DeleteShape
<1>2. Popped(x_frames, gs) /\ gs # <<>> /\ Replaced(gs, hs, x) /\ Alike(gs[Len(gs)], x)
  BY Zenon DEF Back
<1>3. Chained(Delete!Windows, x_before, gs)
  BY <1>1, <1>2, ChainPopped
<1>4. Chained(Delete!Windows, x_before, hs) /\ hs # <<>>
  BY <1>2, <1>3, ChainReplaced
<1>5. gs \in Seq(Frames)
  BY <1>3 DEF Chained
<1>6. PICK n \in Nat : n = Len(x_frames) /\ n >= 1 /\ Delete!Top = x_frames[n] /\ x_frames \in Seq(Frames)
  BY TopIs
<1>7. Len(gs) = n - 1 /\ n >= 2 /\ \A i \in 1 .. n - 1 : gs[i] = x_frames[i]
  BY <1>2, <1>5, <1>6 DEF Popped
<1>8. PICK k \in Nat : k = n - 1 /\ k >= 1 /\ k = Len(gs)
  BY <1>7
<1>9. x_frames[n].in = x_frames[n - 1].dir
  BY <1>1, <1>6, <1>7 DEF Chained
<1>10. Delete!Top.in = gs[k].dir
  BY <1>6, <1>7, <1>8, <1>9
<1>11. FrameSound(Delete!Windows, x_before, gs[k])
  BY <1>3, <1>8 DEF Chained
<1> QED
  BY <1>4, <1>5, <1>8, <1>10, <1>11

LEMMA ReturnIs ==
  ASSUME NEW code, Delete!Return(code)
  PROVE  /\ Len(x_frames) = 1 => x_frames' = <<>> /\ x_pc' = "done" /\ x_res' = code
         /\ Len(x_frames) # 1 =>
              /\ x_frames' = Append(SubSeq(x_frames, 1, Len(x_frames) - 2), AboveOf(x_frames, code))
              /\ UNCHANGED <<x_pc, x_res>>
BY DEF Delete!Return, AboveOf

(* A step that returns code with the tree u, when nothing failed in the     *)
(* directory on top, and more failures than before.                         *)
LEMMA Backs ==
  ASSUME DeleteInv, x_frames # <<>>, NEW code \in Delete!Results, Delete!Return(code), Len(x_frames) # 1,
         UNCHANGED <<x_before, x_platform>>, NEW u, x_tree' = u, NEW more \in Seq(Delete!Results), x_failures' = more,
         Emptied(x_before, u), Spared(Delete!Windows, x_before, u), HomeEntry(u) = HomeEntry(x_before),
         ~Delete!Windows => more = <<>>,
         \A gs, hs, x : gs \in Seq(Frames) /\ Back(x_frames, hs, gs, x, code) => FirstKept(hs, more)
  PROVE  DeleteInv'
<1>1. PICK hs : hs = Append(SubSeq(x_frames, 1, Len(x_frames) - 2), AboveOf(x_frames, code))
  OBVIOUS
<1>2. x_frames' = hs /\ UNCHANGED <<x_pc, x_res>>
  BY <1>1, ReturnIs, Zenon
<1>3. x_frames \in Seq(Frames) /\ x_pc = "walk"
  BY TopIs
<1>4. PICK gs, x : Back(x_frames, hs, gs, x, code)
  BY <1>1, <1>3, AboveIs
<1>5. Chained(Delete!Windows, x_before, hs) /\ gs \in Seq(Frames)
  BY <1>4, BackChained
<1>6. FirstKept(hs, more)
  BY <1>4, <1>5, Zenon
<1>7. DeleteShape(Delete!Windows, u, x_before, "walk", hs, x_res, more)
  BY <1>5, <1>6 DEF DeleteShape
<1> QED
  BY <1>2, <1>3, <1>7, DeleteBecomes

LEMMA Ends ==
  ASSUME DeleteInv, x_frames' = <<>>, x_pc' = "done", NEW code, x_res' = code,
         UNCHANGED <<x_before, x_platform>>, NEW u, x_tree' = u, NEW more \in Seq(Delete!Results), x_failures' = more,
         Emptied(x_before, u), Spared(Delete!Windows, x_before, u), Resulted(u, x_before, code, more)
  PROVE  DeleteInv'
<1>1. DeleteShape(Delete!Windows, u, x_before, "done", <<>>, code, more)
  BY DoneShape
<1> QED
  BY <1>1, DeleteBecomes

LEMMA TreeStays ==
  ASSUME DeleteInv, x_pc = "walk"
  PROVE  Emptied(x_before, x_tree) /\ Spared(Delete!Windows, x_before, x_tree) /\ HomeEntry(x_tree) = HomeEntry(x_before)
BY DEF DeleteInv, DeleteShape

(* The place of a directory read to its end, as it goes.                    *)
LEMMA PlaceGoes ==
  ASSUME DeleteInv, x_frames # <<>>, Delete!RemoveEmptied, NEW u,
         u = [x_tree EXCEPT ![Delete!Top.in][Delete!Top.name] = Delete!Absent]
  PROVE  /\ Emptied(x_before, u) /\ Spared(Delete!Windows, x_before, u)
         /\ Len(x_frames) = 1 => HomeEntry(u) = Delete!Absent
         /\ Len(x_frames) # 1 => HomeEntry(u) = HomeEntry(x_before)
<1>1. PICK f \in Frames : f = Delete!Top /\ FrameSound(Delete!Windows, x_before, f)
  BY TopIs
<1>2. f.in \in DeleteAsked.dirs /\ f.name \in Names /\ f.dir \in DeleteAsked.dirs
  BY <1>1 DEF Frames
<1>3. u = [x_tree EXCEPT ![f.in][f.name] = Delete!Absent]
  BY <1>1, Zenon
<1>4. ASSUME NEW x \in DeleteAsked.dirs,
             Delete!Leads(x_before, f.in, f.name, x), Delete!Leads(x_tree, f.in, f.name, x)
      PROVE  Empty(x_tree, x)
  <2>1. x = f.dir
    BY <1>1, <1>4 DEF FrameSound, Delete!Leads
  <2>2. x_tree[f.in][f.name].kind # "link"
    BY <1>4 DEF Delete!Leads
  <2>3. Delete!Present(f.dir) = {}
    BY <1>1, <2>2 DEF Delete!RemoveEmptied
  <2> QED
    BY <2>1, <2>3 DEF Delete!Present, Empty
<1>5. Len(x_frames) = 1 => <<f.in, f.name>> = <<DeleteAsked.home, DeleteAsked.doomed>>
  BY <1>1, Outermost
<1>6. Len(x_frames) # 1 => f.in # DeleteAsked.home /\ (Delete!Windows \/ f.in \in Delete!Inside(x_before))
  <2> SUFFICES ASSUME Len(x_frames) # 1
               PROVE  f.in # DeleteAsked.home /\ (Delete!Windows \/ f.in \in Delete!Inside(x_before))
    OBVIOUS
  <2>1. "SUCCESS" \in Delete!Results /\ x_frames \in Seq(Frames)
    BY TopIs DEF Delete!Results
  <2>2. PICK hs : hs = Append(SubSeq(x_frames, 1, Len(x_frames) - 2), AboveOf(x_frames, "SUCCESS"))
    OBVIOUS
  <2>3. PICK gs, x : Back(x_frames, hs, gs, x, "SUCCESS")
    BY <2>1, <2>2, AboveIs
  <2>4. f.in = gs[Len(gs)].dir /\ FrameSound(Delete!Windows, x_before, gs[Len(gs)])
    BY <1>1, <2>3, BackChained
  <2> QED
    BY <2>4 DEF FrameSound
<1>7. x_pc = "walk"
  BY TopIs
<1>8. HomeEntry(x_tree) = HomeEntry(x_before)
  BY <1>7, TreeStays
<1>9. Delete!Windows \/ f.in \in Delete!Inside(x_before) \/ <<f.in, f.name>> = <<DeleteAsked.home, DeleteAsked.doomed>>
  BY <1>5, <1>6
<1>10. /\ Emptied(x_before, u) /\ Spared(Delete!Windows, x_before, u)
       /\ f.in # DeleteAsked.home => HomeEntry(u) = HomeEntry(x_tree)
       /\ <<f.in, f.name>> = <<DeleteAsked.home, DeleteAsked.doomed>> => HomeEntry(u) = Delete!Absent
  BY <1>2, <1>3, <1>4, <1>9, EntryGoes
<1> QED
  BY <1>5, <1>6, <1>8, <1>10

LEMMA Removed == ASSUME DeleteInv, Delete!RemoveEmptied PROVE DeleteInv'
<1>1. x_frames # <<>> /\ Delete!Top.result = "SUCCESS" /\ Delete!Return("SUCCESS")
      /\ UNCHANGED <<x_before, x_platform>> /\ x_failures' = x_failures
  BY DEF Delete!RemoveEmptied, Delete!AtEnd
<1>2. PICK u : u = [x_tree EXCEPT ![Delete!Top.in][Delete!Top.name] = Delete!Absent]
  OBVIOUS
<1>3. x_tree' = u
  BY <1>2 DEF Delete!RemoveEmptied
<1>4. /\ Emptied(x_before, u) /\ Spared(Delete!Windows, x_before, u)
      /\ Len(x_frames) = 1 => HomeEntry(u) = Delete!Absent
      /\ Len(x_frames) # 1 => HomeEntry(u) = HomeEntry(x_before)
  BY <1>1, <1>2, PlaceGoes
<1>5. /\ x_frames \in Seq(Frames) /\ Delete!Top = x_frames[Len(x_frames)] /\ FirstKept(x_frames, x_failures)
      /\ x_failures \in Seq(Delete!Results) /\ (~Delete!Windows => x_failures = <<>>)
  BY <1>1, TopIs
<1>6. "SUCCESS" \in Delete!Results
  BY DEF Delete!Results
<1>7. CASE Len(x_frames) = 1
  <2>1. x_failures = <<>>
    BY <1>1, <1>7, Outermost
  <2>2. Resulted(u, x_before, "SUCCESS", x_failures)
    BY <1>4, <1>7, <2>1 DEF Resulted
  <2>3. x_frames' = <<>> /\ x_pc' = "done" /\ x_res' = "SUCCESS"
    BY <1>1, <1>7, ReturnIs
  <2> QED
    BY <1>1, <1>3, <1>4, <1>5, <2>2, <2>3, Ends
<1>8. CASE Len(x_frames) # 1
  <2>1. ASSUME NEW gs, NEW hs, NEW x, gs \in Seq(Frames), Back(x_frames, hs, gs, x, "SUCCESS")
        PROVE  FirstKept(hs, x_failures)
    <3>1. Popped(x_frames, gs) /\ gs # <<>> /\ Replaced(gs, hs, x) /\ x.result = gs[Len(gs)].result
      BY <2>1, Zenon DEF Back
    <3>2. FirstKept(gs, x_failures)
      BY <1>1, <1>5, <3>1, FirstPopped
    <3> QED
      BY <2>1, <3>1, <3>2, FirstReplaced
  <2> QED
    BY <1>1, <1>3, <1>4, <1>5, <1>6, <1>8, <2>1, Backs
<1> QED
  BY <1>7, <1>8

LEMMA Left == ASSUME DeleteInv, Delete!Leave PROVE DeleteInv'
<1>1. x_frames # <<>> /\ Delete!Top.result # "SUCCESS" /\ Delete!Return(Delete!Top.result)
      /\ UNCHANGED <<x_before, x_platform>> /\ x_failures' = x_failures /\ x_tree' = x_tree
  BY DEF Delete!Leave, Delete!AtEnd
<1>2. /\ x_frames \in Seq(Frames) /\ Delete!Top = x_frames[Len(x_frames)] /\ FirstKept(x_frames, x_failures)
      /\ x_failures \in Seq(Delete!Results) /\ (~Delete!Windows => x_failures = <<>>) /\ x_pc = "walk"
  BY <1>1, TopIs
<1>3. PICK code \in Delete!Results : code = Delete!Top.result
  BY <1>1, TopIs DEF Frames
<1>4. Delete!Return(code) /\ code # "SUCCESS"
  BY <1>1, <1>3, Zenon
<1>5. Emptied(x_before, x_tree) /\ Spared(Delete!Windows, x_before, x_tree) /\ HomeEntry(x_tree) = HomeEntry(x_before)
  BY <1>2, TreeStays
<1>6. CASE Len(x_frames) = 1
  <2>1. x_failures # <<>> /\ Head(x_failures) = code
    BY <1>1, <1>3, <1>6, Outermost
  <2>2. Resulted(x_tree, x_before, code, x_failures)
    BY <1>4, <1>5, <2>1 DEF Resulted
  <2>3. x_frames' = <<>> /\ x_pc' = "done" /\ x_res' = code
    BY <1>4, <1>6, ReturnIs
  <2> QED
    BY <1>1, <1>2, <1>5, <2>2, <2>3, Ends
<1>7. CASE Len(x_frames) # 1
  <2>1. ASSUME NEW gs, NEW hs, NEW x, gs \in Seq(Frames), Back(x_frames, hs, gs, x, code)
        PROVE  FirstKept(hs, x_failures)
    <3>1. /\ Popped(x_frames, gs) /\ gs # <<>> /\ Replaced(gs, hs, x)
          /\ x.result = IF gs[Len(gs)].result = "SUCCESS" THEN code ELSE gs[Len(gs)].result
      BY <2>1, Zenon DEF Back
    <3>2. code = x_frames[Len(x_frames)].result
      BY <1>2, <1>3, Zenon
    <3>3. x_frames[Len(x_frames)].result # "SUCCESS"
      BY <1>4, <3>2
    <3> QED
      BY <1>1, <1>2, <3>1, <3>2, <3>3, FirstLeft
  <2> QED
    BY <1>1, <1>2, <1>4, <1>5, <1>7, <2>1, Backs
<1> QED
  BY <1>6, <1>7

LEMMA RemovalFails == ASSUME DeleteInv, Delete!RemoveFails PROVE DeleteInv'
<1>1. x_frames # <<>> /\ Delete!Top.result = "SUCCESS" /\ UNCHANGED <<x_before, x_platform>> /\ x_tree' = x_tree
  BY DEF Delete!RemoveFails, Delete!AtEnd
<1>2. PICK code \in {"PERMISSION_DENIED", "ERROR_UNKNOWN"} :
        /\ x_failures' = Append(x_failures, code)
        /\ IF Delete!Windows THEN Delete!Return(code) ELSE x_frames' = <<>> /\ x_pc' = "done" /\ x_res' = code
  BY DEF Delete!RemoveFails, Delete!Denied
<1>3. code \in Delete!Results /\ code # "SUCCESS"
  BY DEF Delete!Results
<1>4. /\ x_frames \in Seq(Frames) /\ Delete!Top = x_frames[Len(x_frames)] /\ FirstKept(x_frames, x_failures)
      /\ x_failures \in Seq(Delete!Results) /\ (~Delete!Windows => x_failures = <<>>) /\ x_pc = "walk"
  BY <1>1, TopIs
<1>5. Emptied(x_before, x_tree) /\ Spared(Delete!Windows, x_before, x_tree) /\ HomeEntry(x_tree) = HomeEntry(x_before)
  BY <1>4, TreeStays
<1>6. PICK more : more = Append(x_failures, code)
  OBVIOUS
<1>7. more \in Seq(Delete!Results) /\ more # <<>> /\ Head(more) = IF x_failures = <<>> THEN code ELSE Head(x_failures)
  BY <1>3, <1>4, <1>6, HeadStays
<1>8. CASE ~Delete!Windows \/ Len(x_frames) = 1
  <2>1. x_failures = <<>>
    BY <1>1, <1>4, <1>8, Outermost
  <2>2. Resulted(x_tree, x_before, code, more)
    BY <1>3, <1>5, <1>7, <2>1 DEF Resulted
  <2>3. x_frames' = <<>> /\ x_pc' = "done" /\ x_res' = code
    BY <1>2, <1>8, ReturnIs
  <2>4. x_failures' = more
    BY <1>2, <1>6
  <2> QED
    BY <1>1, <1>5, <1>7, <2>2, <2>3, <2>4, Ends
<1>9. CASE Delete!Windows /\ Len(x_frames) # 1
  <2>1. ASSUME NEW gs, NEW hs, NEW x, gs \in Seq(Frames), Back(x_frames, hs, gs, x, code)
        PROVE  FirstKept(hs, more)
    <3>1. /\ Popped(x_frames, gs) /\ gs # <<>> /\ Replaced(gs, hs, x)
          /\ x.result = IF gs[Len(gs)].result = "SUCCESS" THEN code ELSE gs[Len(gs)].result
      BY <2>1, Zenon DEF Back
    <3>2. FirstKept(gs, x_failures)
      BY <1>1, <1>4, <3>1, FirstPopped
    <3> QED
      BY <1>3, <1>4, <1>6, <2>1, <3>1, <3>2, FirstFails
  <2>2. x_failures' = more /\ Delete!Return(code)
    BY <1>2, <1>6, <1>9
  <2> QED
    BY <1>1, <1>3, <1>5, <1>7, <1>9, <2>1, <2>2, Backs
<1> QED
  BY <1>8, <1>9

LEMMA Arrived ==
  ASSUME DeleteInv, NEW d \in DeleteAsked.dirs, NEW n \in Names, Delete!OthersAdd(d, n) PROVE DeleteInv'
<1>1. PICK e \in DeleteAsked.dirs, m \in Names : x_tree[e][m] = [kind |-> "dir", to |-> d]
  BY DEF Delete!OthersAdd
<1>2. Delete!Leads(x_tree, e, m, d) /\ x_tree[d][n] = Delete!Absent /\ x_pc = "walk"
  BY <1>1 DEF Delete!Leads, Delete!OthersAdd
<1>3. PICK u : u = [x_tree EXCEPT ![d][n] = [kind |-> "reg", to |-> None]]
  OBVIOUS
<1>4. Emptied(x_before, x_tree) /\ Spared(Delete!Windows, x_before, x_tree) /\ HomeEntry(x_tree) = HomeEntry(x_before)
  BY <1>2, TreeStays
<1>5. Emptied(x_before, u) /\ Spared(Delete!Windows, x_before, u)
      /\ u[DeleteAsked.home][DeleteAsked.doomed] = x_tree[DeleteAsked.home][DeleteAsked.doomed]
  <2>1. PICK w \in BOOLEAN : w <=> Delete!Windows
    BY Zenon
  <2>2. Spared(w, x_before, x_tree)
    BY <1>4, <2>1 DEF Spared
  <2>3. Emptied(x_before, u) /\ Spared(w, x_before, u)
        /\ u[DeleteAsked.home][DeleteAsked.doomed] = x_tree[DeleteAsked.home][DeleteAsked.doomed]
    <3>1. Gained(x_tree, u, d, n)
      BY <1>2, <1>3, Zenon DEF Gained
    <3> QED
      BY <1>2, <1>4, <2>2, <3>1, TreeGains
  <2> QED
    BY <2>1, <2>3 DEF Spared
<1>6. DeleteShape(Delete!Windows, u, x_before, x_pc, x_frames, x_res, x_failures)
  BY <1>2, <1>4, <1>5 DEF DeleteInv, DeleteShape, HomeEntry
<1>7. /\ UNCHANGED <<x_before, x_platform>> /\ x_tree' = u /\ x_pc' = x_pc /\ x_frames' = x_frames /\ x_res' = x_res
      /\ x_failures' = x_failures
  BY <1>3 DEF Delete!OthersAdd
<1> QED
  BY <1>6, <1>7, DeleteBecomes

LEMMA DeleteKept ==
  ASSUME DeleteInv, Delete!DeleteArguments, Delete!TreeArguments, [Delete!DeleteNext]_(Delete!deleteVars)
  PROVE  DeleteInv'
<1>1. CASE Delete!DeleteWorks
  BY <1>1, DirectoryOpened, Refused0, UnreadGone, Descended, NameFails, Unlinked, Stopped, Removed,
     RemovalFails, Left
  DEF Delete!DeleteWorks
<1>2. CASE \E slot \in DeleteAsked.arrivals : Delete!OthersAdd(slot[1], slot[2])
  <2>1. PICK slot \in DeleteAsked.arrivals : Delete!OthersAdd(slot[1], slot[2])
    BY <1>2
  <2>2. slot[1] \in DeleteAsked.dirs /\ slot[2] \in Names
    BY DEF Delete!TreeArguments
  <2> QED
    BY <2>1, <2>2, Arrived
<1>3. CASE UNCHANGED Delete!deleteVars
  <2>1. UNCHANGED <<x_before, x_platform, x_tree, x_pc, x_frames, x_res, x_failures>>
    BY <1>3 DEF Delete!deleteVars
  <2>2. DeleteShape(Delete!Windows, x_tree, x_before, x_pc, x_frames, x_res, x_failures)
    BY DEF DeleteInv
  <2> QED
    BY <2>1, <2>2, DeleteBecomes
<1> QED
  BY <1>1, <1>2, <1>3 DEF Delete!DeleteNext

-----------------------------------------------------------------------------
LEMMA GoneMeansEmpty ==
  ASSUME NEW b, NEW t, Emptied(b, t), HomeEntry(t) = Delete!Absent, NEW d \in Delete!Inside(b),
         Delete!DeleteArguments
  PROVE  Empty(t, d)
<1> DEFINE S == {x \in DeleteAsked.dirs : Empty(t, x)}
<1>1. S \in SUBSET DeleteAsked.dirs
  OBVIOUS
<1>2. DeleteAsked.home \in DeleteAsked.dirs /\ DeleteAsked.doomed \in Names
  BY DEF Delete!DeleteArguments
<1>3. \A y \in DeleteAsked.dirs : ~Delete!Leads(t, DeleteAsked.home, DeleteAsked.doomed, y)
  BY DEF HomeEntry, Delete!Leads, Delete!Absent
<1>4. \A y \in DeleteAsked.dirs : Delete!Leads(b, DeleteAsked.home, DeleteAsked.doomed, y) => y \in S
  BY <1>2, <1>3 DEF Emptied
<1>5. \A x \in S, n \in Names, y \in DeleteAsked.dirs : ~Delete!Leads(t, x, n, y)
  BY DEF Empty, Delete!Leads, Delete!Absent
<1>6. \A x \in S, n \in Names, y \in DeleteAsked.dirs : Delete!Leads(b, x, n, y) => y \in S
  BY <1>1, <1>5 DEF Emptied
<1>7. d \in S
  BY <1>1, <1>4, <1>6 DEF Delete!Inside
<1> QED
  BY <1>7

LEMMA DeletePromises ==
  ASSUME DeleteInv, Delete!DeleteArguments
  PROVE  Delete!DeleteComplete /\ Delete!FirstFailureReturned /\ Delete!OutsideSpared
<1>1. Emptied(x_before, x_tree) /\ Spared(Delete!Windows, x_before, x_tree)
      /\ (x_pc = "done" => Resulted(x_tree, x_before, x_res, x_failures))
  BY DEF DeleteInv, DeleteShape
<1>2. Delete!DeleteComplete
  <2> SUFFICES ASSUME x_pc = "done"
               PROVE  /\ x_res = "SUCCESS" => /\ x_tree[DeleteAsked.home][DeleteAsked.doomed] = Delete!Absent
                                              /\ \A d \in Delete!Inside(x_before) : Delete!Present(d) = {}
                      /\ x_res # "SUCCESS" =>
                           x_tree[DeleteAsked.home][DeleteAsked.doomed] = x_before[DeleteAsked.home][DeleteAsked.doomed]
    BY DEF Delete!DeleteComplete
  <2>1. ASSUME x_res = "SUCCESS", NEW d \in Delete!Inside(x_before) PROVE Delete!Present(d) = {}
    <3>1. HomeEntry(x_tree) = Delete!Absent
      BY <1>1, <2>1 DEF Resulted
    <3>2. Empty(x_tree, d)
      BY <1>1, <2>1, <3>1, GoneMeansEmpty
    <3> QED
      BY <3>2 DEF Empty, Delete!Present
  <2> QED
    BY <1>1, <2>1 DEF Resulted, HomeEntry
<1>3. Delete!FirstFailureReturned
  BY <1>1 DEF Delete!FirstFailureReturned, Resulted
<1>4. Delete!OutsideSpared
  BY <1>1 DEF Delete!OutsideSpared, Delete!SparedOutside, Delete!Windows, Spared
<1> QED
  BY <1>2, <1>3, <1>4

-----------------------------------------------------------------------------
(* Each part in a run of MCFiles: while another runs, it stands still.       *)
WalkPart == WalkInv /\ OrderInv
TransferPart == running = "transfer" => TransferInv
EntryPart == running = "entry" => EntryInv
DeletePart == running = "delete" => DeleteInv

LEMMA PartsStart == ASSUME InitAny PROVE WalkPart /\ TransferPart /\ EntryPart /\ DeletePart
BY WalkStarts, OrderStarts, TransferStarts, EntryStarts, DeleteStarts, DeleteArguments, TransferArguments
   DEF InitAny, WalkPart, TransferPart, EntryPart, DeletePart

LEMMA WalkPartKept == ASSUME WalkPart, [NextAny]_allVars PROVE WalkPart'
<1>1. [Next]_vars
  BY Zenon DEF NextAny, allVars
<1> QED
  BY <1>1, WalkKept, OrderKept, Zenon DEF WalkPart

LEMMA TransferPartKept == ASSUME TransferPart, [NextAny]_allVars PROVE TransferPart'
<1>1. running' = running /\ (running = "transfer" => Transfer!Next \/ UNCHANGED transferVars)
  BY Zenon DEF NextAny, allVars
<1>2. UNCHANGED transferVars => UNCHANGED Transfer!vars
  BY DEF transferVars, Transfer!vars, Transfer!files, Transfer!work, Transfer!others
<1>3. CASE running = "transfer"
  <2>1. TransferInv /\ [Transfer!Next]_(Transfer!vars)
    BY <1>1, <1>2, <1>3, Zenon DEF TransferPart
  <2>2. TransferInv'
    BY <2>1, TransferKept, TransferArguments, Zenon
  <2> QED
    BY <2>2, Zenon DEF TransferPart
<1> QED
  BY <1>1, <1>3, Zenon DEF TransferPart

LEMMA DeletePartKept == ASSUME DeletePart, [NextAny]_allVars PROVE DeletePart'
<1>1. running' = running /\ (running = "delete" => Delete!DeleteNext \/ UNCHANGED deleteVars)
  BY Zenon DEF NextAny, allVars
<1>2. UNCHANGED deleteVars => UNCHANGED Delete!deleteVars
  BY DEF deleteVars, Delete!deleteVars
<1>3. CASE running = "delete"
  <2>1. DeleteInv /\ [Delete!DeleteNext]_(Delete!deleteVars)
    BY <1>1, <1>2, <1>3, Zenon DEF DeletePart
  <2>2. DeleteInv'
    BY <2>1, DeleteKept, DeleteArguments, Zenon
  <2> QED
    BY <2>2, Zenon DEF DeletePart
<1> QED
  BY <1>1, <1>3, Zenon DEF DeletePart

LEMMA EntryPartKept ==
  ASSUME EntryPart, [NextAny]_allVars PROVE EntryPart' /\ [RenameStep]_(Entry!vars)
<1>1. running' = running /\ (running = "entry" => Entry!Next \/ UNCHANGED entryVars)
      /\ (running # "entry" => UNCHANGED entryVars)
  BY Zenon DEF NextAny, allVars
<1>2. UNCHANGED entryVars => UNCHANGED Entry!vars
  BY DEF entryVars, Entry!vars, Entry!arguments
<1>3. CASE running = "entry" /\ Entry!Next
  <2>1. EntryInv' /\ RenameStep
    BY <1>3, EntryKept, Zenon DEF EntryPart
  <2> QED
    BY <2>1, Zenon DEF EntryPart
<1>4. CASE running = "entry" /\ UNCHANGED entryVars
  <2>1. UNCHANGED Entry!vars
    BY <1>2, <1>4
  <2>2. EntryInv'
    BY <1>4, <2>1, EntryStill, Zenon DEF EntryPart
  <2> QED
    BY <2>1, <2>2, Zenon DEF EntryPart
<1>5. CASE running # "entry"
  <2>1. UNCHANGED Entry!vars
    BY <1>1, <1>2, <1>5
  <2> QED
    BY <1>1, <1>5, <2>1, Zenon DEF EntryPart
<1> QED
  BY <1>1, <1>3, <1>4, <1>5, Zenon

-----------------------------------------------------------------------------
(* Whatever is walked, copied, loaded or written, and whatever fails: as    *)
(* many directories are open as the walk is in, none once it has ended, and *)
(* no file is open after a transfer.                                        *)
THEOREM FilesNothingLeftOpen == SpecAny => []NothingLeftOpen
<1>1. WalkPart /\ TransferPart => NothingLeftOpen
  BY TransferPromises DEF WalkPart, WalkInv, TransferPart, NothingLeftOpen
<1> QED
  BY <1>1, PartsStart, WalkPartKept, TransferPartKept, PTL DEF SpecAny

(* However many directories, links and names a tree has, however deep the   *)
(* iterator may go, and whatever others and a copy in the making change of  *)
(* it meanwhile: a walk reports no path twice, and every directory before   *)
(* what is in it.                                                           *)
THEOREM FilesWalkOrdered == SpecAny => []PreOrder
<1>1. WalkPart => PreOrder
  BY OrderPromises DEF WalkPart
<1> QED
  BY <1>1, PartsStart, WalkPartKept, PTL DEF SpecAny

(* For a file and a buffer of any size, read in chunks of any size: the     *)
(* bytes a load or a write tells of are there, a load into new memory and a *)
(* write that began name what failed, and SUCCESS of a load into new memory *)
(* or a copy means all bytes.  SUCCESS of a write may be of a part of them, *)
(* and the result of a load into a buffer hides a failed fstat or read.     *)
THEOREM FilesTransfersTruthful == SpecAny => []TransfersTruthful
<1>1. TransferPart => TransfersTruthful
  BY TransferPromises DEF TransferPart, TransfersTruthful
<1> QED
  BY <1>1, PartsStart, TransferPartKept, PTL DEF SpecAny

(* At any paths and however often others change them: an answer was true of *)
(* the path during the call, no directory is unlinked as a file, and a      *)
(* rename never leaves the entry at neither path.                           *)
THEOREM FilesEntriesSound == SpecAny => EntriesSound
<1>1. EntryPart => (running = "entry" => Entry!AnswersTrue /\ Entry!NoDirectoryDeleted)
  BY EntryPromises DEF EntryPart
<1>2. EntryPart /\ [NextAny]_allVars => EntryPart' /\ [RenameStep]_(Entry!vars)
  BY EntryPartKept
<1>3. SpecAny => [](running = "entry" => Entry!AnswersTrue /\ Entry!NoDirectoryDeleted) /\ [][RenameStep]_(Entry!vars)
  BY <1>1, <1>2, PartsStart, PTL DEF SpecAny
<1> QED
  BY <1>3 DEF EntriesSound, Entry!RenameKeepsEntries, RenameStep

(* In any tree in which a directory has one place, on either platform and   *)
(* with any number of failures and of files others add: SUCCESS means that  *)
(* the directory is gone with all that was in it, another result is that of *)
(* the first failure and leaves it, and on POSIX nothing outside is touched. *)
THEOREM FilesDeleteSound == SpecAny => []DeleteSound
<1>1. DeletePart => DeleteSound
  BY DeletePromises, DeleteArguments DEF DeletePart, DeleteSound
<1> QED
  BY <1>1, PartsStart, DeletePartKept, PTL DEF SpecAny
=============================================================================
