---------------------------- MODULE DirectoryDelete ----------------------------
(***************************************************************************)
(* jsl_delete_directory of os.c: on POSIX nftw() with a callback that      *)
(* unlinks and removes in post-order and stops at the first error; on      *)
(* Windows a recursion of its own, which goes on after an error and        *)
(* returns the first.  A directory is a node, an entry a name with a kind  *)
(* and the node it leads to; a junction is a link to a directory.  Other   *)
(* programs may make entries meanwhile, and every system call may fail.    *)
(***************************************************************************)
EXTENDS Integers, FiniteSets, SequencesExt

CONSTANTS
  Dirs, Names, None,
  Home, Doomed,      \* the entry Home/Doomed is what the call is for
  Trees,             \* the trees it may find
  Platforms,         \* of "posix", "windows"
  MaxLevels,         \* levels for which the search pattern fits on Windows
  LongNames,         \* those that do not fit behind the path on the last level
  Arrivals,          \* entries others may make
  MaxFaults          \* bound: failed system calls and changes by others

DeleteArguments == Home \in Dirs /\ Doomed \in Names /\ None \notin Dirs

VARIABLES
  tree, platform,
  pc,                \* "no", "walk", "done"
  frames,            \* directories being emptied, with the result of each
  res,
  before,            \* history: the tree when the call began
  failures,          \* history: what the failed calls should lead to, in order
  faults

deleteVars == <<tree, platform, pc, frames, res, before, failures, faults>>

Absent == [kind |-> "none", to |-> None]
Entries == [kind : {"none", "reg"}, to : {None}] \cup [kind : {"dir", "link"}, to : Dirs]
Results == {"NONE", "SUCCESS", "NOT_FOUND", "NOT_A_DIRECTORY", "PERMISSION_DENIED",
            "ERROR_UNKNOWN", "PATH_TOO_LONG"}
Present(d) == {n \in Names : tree[d][n] # Absent}
Windows == platform = "windows"

(* A directory is in one other, and no link leads to the one above Doomed.  *)
Leads(t, d, n, x) == t[d][n] = [kind |-> "dir", to |-> x]
TreeArguments ==
  /\ \A t \in Trees :
       /\ t \in [Dirs -> [Names -> Entries]]
       /\ \A d, e, x \in Dirs, n, m \in Names :
            Leads(t, d, n, x) /\ Leads(t, e, m, x) => d = e /\ n = m
       /\ \A d \in Dirs, n \in Names : t[d][n].to # Home
  /\ Arrivals \subseteq Dirs \X Names

TypeOK ==
  /\ tree \in [Dirs -> [Names -> Entries]] /\ before \in [Dirs -> [Names -> Entries]]
  /\ platform \in Platforms /\ pc \in {"no", "walk", "done"} /\ res \in Results
  /\ frames \in Seq([dir : Dirs, in : Dirs, name : Names, left : SUBSET Names,
                     due : SUBSET Names, result : Results])
  /\ (Windows => Len(frames) <= MaxLevels) /\ failures \in Seq(Results \ {"SUCCESS"}) /\ faults \in 0 .. MaxFaults

Init ==
  /\ tree \in Trees /\ platform \in Platforms
  /\ pc = "no" /\ frames = <<>> /\ res = "NONE" /\ before = tree
  /\ failures = <<>> /\ faults = 0

Top == Last(frames)
Frame(d, n) ==
  LET dir == tree[d][n].to
  IN  [dir |-> dir, in |-> d, name |-> n, left |-> Names, due |-> Present(dir), result |-> "SUCCESS"]
Fault == faults < MaxFaults /\ faults' = faults + 1
Denied == {"PERMISSION_DENIED", "ERROR_UNKNOWN"}
(* What a directory that cannot be opened leads to.                         *)
OpenErrors == IF Windows THEN {"NOT_FOUND", "ERROR_UNKNOWN"} ELSE Denied

-----------------------------------------------------------------------------
(* lstat or GetFileAttributes on the path: a junction is a directory to the *)
(* second and not to the first.                                             *)
Deletable == tree[Home][Doomed].kind \in IF Windows THEN {"dir", "link"} ELSE {"dir"}

DeleteDirectory ==
  /\ pc = "no" /\ Deletable
  /\ pc' = "walk" /\ frames' = <<Frame(Home, Doomed)>>
  /\ UNCHANGED <<tree, platform, res, before, failures, faults>>

(* It is not a directory, or its attributes cannot be had.                  *)
Refuse ==
  /\ pc = "no" /\ pc' = "done"
  /\ \/ ~Deletable /\ UNCHANGED faults
        /\ res' = IF tree[Home][Doomed] = Absent THEN "NOT_FOUND" ELSE "NOT_A_DIRECTORY"
     \/ Fault /\ res' = "ERROR_UNKNOWN"
  /\ failures' = Append(failures, res')
  /\ UNCHANGED <<tree, platform, frames, before>>

(* It cannot be opened, or the path has no room for the search pattern.     *)
DeleteUnopened ==
  /\ pc = "no" /\ Deletable /\ Fault /\ pc' = "done"
  /\ res' \in OpenErrors \cup {IF Windows THEN "PATH_TOO_LONG" ELSE "ERROR_UNKNOWN"}
  /\ failures' = Append(failures, res')
  /\ UNCHANGED <<tree, platform, frames, before>>

(* nftw calls back for a directory it cannot read as well, and rmdir takes  *)
(* an empty one.                                                            *)
DeleteUnread ==
  /\ pc = "no" /\ ~Windows /\ Deletable /\ Present(tree[Home][Doomed].to) = {} /\ Fault
  /\ pc' = "done" /\ res' = "SUCCESS"
  /\ tree' = [tree EXCEPT ![Home][Doomed] = Absent]
  /\ UNCHANGED <<platform, frames, before, failures>>

(* The first failure in a directory is its result.                          *)
FirstFailure(frame, code) ==
  [frame EXCEPT !.result = IF @ = "SUCCESS" THEN code ELSE @]

(* The frame with the next name n taken.                                    *)
Taken(n) == [Top EXCEPT !.left = @ \ {n}, !.due = @ \ {n}]
Found(n) == pc = "walk" /\ frames # <<>> /\ n \in Top.left /\ tree[Top.dir][n] # Absent

(* Nothing more is done on POSIX once the callback has failed.              *)
FailWith(frame, code) ==
  /\ failures' = Append(failures, code)
  /\ IF Windows THEN frames' = Append(Front(frames), FirstFailure(frame, code)) /\ UNCHANGED <<pc, res>>
     ELSE frames' = <<>> /\ pc' = "done" /\ res' = code

-----------------------------------------------------------------------------
(* Mutant: links are followed on POSIX too.                                 *)
RecursesIntoLinks(n) == tree[Top.dir][n].kind \in {"dir", "link"}

Recurses(n) == tree[Top.dir][n].kind = "dir" \/ (Windows /\ tree[Top.dir][n].kind = "link")

(* Mutant: the length of the search pattern is not looked at.               *)
DescendWithoutLimit(n) ==
  /\ Found(n) /\ Recurses(n)
  /\ frames' = Append(Append(Front(frames), Taken(n)), Frame(Top.dir, n))
  /\ UNCHANGED <<tree, platform, pc, res, before, failures, faults>>

(* Into a directory; nftw has no limit, the recursion on Windows that of    *)
(* the search pattern.                                                      *)
Descend(n) ==
  /\ Found(n) /\ Recurses(n) /\ (Len(frames) < MaxLevels \/ ~Windows)
  /\ frames' = Append(Append(Front(frames), Taken(n)), Frame(Top.dir, n))
  /\ UNCHANGED <<tree, platform, pc, res, before, failures, faults>>

(* FindFirstFile fails or the pattern does not fit; on POSIX the callback   *)
(* is called for an unreadable directory, which rmdir then refuses.         *)
DescendFails(n) ==
  /\ Found(n) /\ Recurses(n)
  /\ IF Windows /\ Len(frames) >= MaxLevels
     THEN FailWith(Taken(n), "PATH_TOO_LONG") /\ UNCHANGED faults
     ELSE \E code \in OpenErrors : FailWith(Taken(n), code) /\ Fault
  /\ UNCHANGED <<tree, platform, before>>

(* Or takes, if it is empty.                                                *)
RemoveUnread(n) ==
  /\ Found(n) /\ ~Windows /\ Recurses(n) /\ Present(tree[Top.dir][n].to) = {} /\ Fault
  /\ tree' = [tree EXCEPT ![Top.dir][n] = Absent]
  /\ frames' = Append(Front(frames), Taken(n))
  /\ UNCHANGED <<platform, pc, res, before, failures>>

Fits(n) == ~Windows \/ Len(frames) < MaxLevels \/ n \notin LongNames

Unlink(n) ==
  /\ Found(n) /\ ~Recurses(n) /\ Fits(n)
  /\ tree' = [tree EXCEPT ![Top.dir][n] = Absent]
  /\ frames' = Append(Front(frames), Taken(n))
  /\ UNCHANGED <<platform, pc, res, before, failures, faults>>

UnlinkFails(n) ==
  /\ Found(n) /\ ~Recurses(n)
  /\ IF Fits(n) THEN Fault /\ \E code \in Denied : FailWith(Taken(n), code)
     ELSE FailWith(Taken(n), "PATH_TOO_LONG") /\ UNCHANGED faults
  /\ UNCHANGED <<tree, platform, before>>

-----------------------------------------------------------------------------
(* The directory is read to its end: it is removed if nothing in it failed. *)
AtEnd == pc = "walk" /\ frames # <<>> /\ Top.due \cap Present(Top.dir) = {}

(* An error of readdir or FindNextFile looks like the end.                  *)
ReadStops ==
  /\ pc = "walk" /\ frames # <<>> /\ Top.due # {} /\ Fault
  /\ frames' = Append(Front(frames), [Top EXCEPT !.left = {}, !.due = {}])
  /\ UNCHANGED <<tree, platform, pc, res, before, failures>>

(* Back to the directory above, with the result for it.                     *)
Return(code) ==
  IF Len(frames) = 1
  THEN frames' = <<>> /\ pc' = "done" /\ res' = code
  ELSE LET above == frames[Len(frames) - 1]
           rest == SubSeq(frames, 1, Len(frames) - 2)
       IN  /\ frames' = Append(rest, IF code = "SUCCESS" THEN above ELSE FirstFailure(above, code))
           /\ UNCHANGED <<pc, res>>

(* rmdir takes an empty directory; RemoveDirectory also a junction, without *)
(* what it leads to.                                                        *)
RemoveEmptied ==
  /\ AtEnd /\ Top.result = "SUCCESS"
  /\ Present(Top.dir) = {} \/ tree[Top.in][Top.name].kind = "link"
  /\ tree' = [tree EXCEPT ![Top.in][Top.name] = Absent]
  /\ Return("SUCCESS")
  /\ UNCHANGED <<platform, before, failures, faults>>

RemoveFails ==
  /\ AtEnd /\ Top.result = "SUCCESS"
  /\ IF Present(Top.dir) = {} THEN Fault ELSE UNCHANGED faults
  /\ \E code \in Denied :
       /\ failures' = Append(failures, code)
       /\ IF Windows THEN Return(code)
          ELSE frames' = <<>> /\ pc' = "done" /\ res' = code
  /\ UNCHANGED <<tree, platform, before>>

Leave ==
  /\ AtEnd /\ Top.result # "SUCCESS"
  /\ Return(Top.result)
  /\ UNCHANGED <<tree, platform, before, failures, faults>>

(* Another program makes a file in a directory that is still there.         *)
OthersAdd(d, n) ==
  /\ \E e \in Dirs, m \in Names : tree[e][m] = [kind |-> "dir", to |-> d]
  /\ pc = "walk" /\ tree[d][n] = Absent /\ Fault
  /\ tree' = [tree EXCEPT ![d][n] = [kind |-> "reg", to |-> None]]
  /\ UNCHANGED <<platform, pc, frames, res, before, failures>>

-----------------------------------------------------------------------------
DeleteWorks ==
  \/ DeleteDirectory \/ Refuse \/ DeleteUnopened \/ DeleteUnread
  \/ \E n \in Names :
       Descend(n) \/ DescendFails(n) \/ RemoveUnread(n) \/ Unlink(n) \/ UnlinkFails(n)
  \/ ReadStops \/ RemoveEmptied \/ RemoveFails \/ Leave

DeleteNext == DeleteWorks \/ \E slot \in Arrivals : OthersAdd(slot[1], slot[2])

Spec == Init /\ [][DeleteNext]_deleteVars /\ WF_deleteVars(DeleteWorks)

-----------------------------------------------------------------------------
(* The directories in Doomed and below, not through links: those in every   *)
(* set that has Doomed and with a directory the directories in it.          *)
Inside(t) ==
  {x \in Dirs : \A S \in SUBSET Dirs :
     (\A y \in Dirs : Leads(t, Home, Doomed, y) => y \in S)
     /\ (\A d \in S, n \in Names, y \in Dirs : Leads(t, d, n, y) => y \in S)
     => x \in S}

(* SUCCESS means the directory is gone, with everything that was in it; any *)
(* other result leaves it, so that the call can be repeated.                *)
DeleteComplete ==
  pc = "done" =>
    /\ res = "SUCCESS" => tree[Home][Doomed] = Absent /\ \A d \in Inside(before) : Present(d) = {}
    /\ res # "SUCCESS" => tree[Home][Doomed] = before[Home][Doomed]

(* The result is that of the first call that failed, and SUCCESS only when  *)
(* none did.                                                                *)
FirstFailureReturned ==
  pc = "done" => res = IF failures = <<>> THEN "SUCCESS" ELSE Head(failures)

(* What is not inside the directory keeps its entries on POSIX.             *)
SparedOutside(p) ==
  platform = p =>
    \A d \in Dirs \ Inside(before), n \in Names :
      <<d, n>> # <<Home, Doomed>> /\ before[d][n] # Absent => tree[d][n] = before[d][n]
OutsideSpared == SparedOutside("posix")

(* os.h says it of every platform: "Symlinks inside the directory are       *)
(* unlinked without following them."                                        *)
LinksNotFollowed == before[Home][Doomed].kind = "dir" => SparedOutside("windows")

DeleteEnds == <>(pc = "done")
=============================================================================
