----------------------------- MODULE DirectoryCopy -----------------------------
(***************************************************************************)
(* jsl_copy_directory of os.c: makes the destination, walks the source     *)
(* with a directory iterator and copies what each call of next reports.    *)
(* The destination may lie in the source.  A caller that walks a tree for  *)
(* itself takes turns with the copies.                                     *)
(***************************************************************************)
EXTENDS DirectoryIterator

CONSTANTS
  Targets,       \* directory and name of the destinations
  TargetWidth,   \* length of the destination's path
  CopyMaxPath    \* FILENAME_MAX

VARIABLES
  copying,       \* where the copy stands
  target,        \* the directory that was made
  within,        \* the destination lies in the source
  res,
  source         \* history: the tree when the copy began

copyVars == <<copying, target, within, res, source>>
vars == <<iteratorVars, copyVars>>

CopyTypeOK ==
  /\ TypeOK
  /\ copying \in {"no", "init", "next", "entry", "end"}
  /\ target \in Dirs \cup {None} /\ within \in BOOLEAN
  /\ res \in {"NONE", "SUCCESS", "DEST_ALREADY_EXISTS", "PERMISSION_DENIED", "COULD_NOT_CREATE_DEST",
              "SOURCE_NOT_FOUND", "SOURCE_NOT_A_DIRECTORY", "COULD_NOT_OPEN_SOURCE",
              "PATH_TOO_LONG", "ERROR_UNKNOWN", "MAKE_SUBDIR_FAILED", "COPY_FILE_FAILED"}

Init ==
  /\ IteratorInit
  /\ copying = "no" /\ target = None /\ within = FALSE /\ res = "NONE" /\ source = tree

(* Neither above a destination nor a directory an entry leads to.           *)
Unused ==
  {d \in Dirs \ ({Root} \cup {t[1] : t \in Targets}) :
     \A e \in Dirs, n \in Names : tree[e][n].to # d}
Below(start) == {DirAt(start, path) : path \in Paths} \ {None}

-----------------------------------------------------------------------------
(* mkdir makes an empty directory.                                          *)
Mkdir(d, n) ==
  LET new == CHOOSE u \in Unused : TRUE IN
    /\ tree[d][n] = Absent
    /\ tree' = [tree EXCEPT ![d][n] = [kind |-> "dir", to |-> new], ![new] = [m \in Names |-> Absent]]

(* The source is a directory; the destination is made before it is opened.  *)
Copy(d, n) ==
  /\ copying = "no" /\ pc = "idle" /\ frames = <<>> /\ walks < MaxWalks /\ Unused # {}
  /\ source' = tree /\ within' = (d \in Below(Root))
  /\ IF tree[d][n] = Absent
     THEN /\ Mkdir(d, n) /\ target' = tree'[d][n].to /\ copying' = "init"
          /\ UNCHANGED res
     ELSE res' = "DEST_ALREADY_EXISTS" /\ UNCHANGED <<tree, target, copying>>
  /\ UNCHANGED <<windows, iterator, pc, name, seen, result, histories, faults, walks>>

CopyRefused ==
  /\ copying = "no" /\ pc = "idle" /\ frames = <<>>
  /\ res' \in {"SOURCE_NOT_FOUND", "SOURCE_NOT_A_DIRECTORY", "PERMISSION_DENIED",
               "COULD_NOT_CREATE_DEST"}
  /\ UNCHANGED <<iteratorVars, copying, target, within, source>>

CopyBegins ==
  /\ copying = "init" /\ Begin(FALSE)
  /\ copying' = "next" /\ res' = "SUCCESS"
  /\ UNCHANGED <<target, within, source>>

CopyCannotBegin ==
  /\ copying = "init" /\ BeginFails(FALSE)
  /\ copying' = "end"
  /\ res' \in {"SOURCE_NOT_FOUND", "SOURCE_NOT_A_DIRECTORY", "COULD_NOT_OPEN_SOURCE"}
  /\ UNCHANGED <<target, within, source>>

CopyCallsNext ==
  /\ copying = "next" /\ CallNext
  /\ copying' = "entry"
  /\ UNCHANGED <<target, within, res, source>>

-----------------------------------------------------------------------------
TooLong == TargetWidth + PrefixLength(result.path) >= CopyMaxPath
IterError == result.status \notin {"OK", "PARTIAL"}
Parent == DirAt(target, Front(result.path))
Stop(code) == copying' = "end" /\ res' = code

(* Mutant: an entry the iterator could not enter is passed over.            *)
GoesOn == UNCHANGED tree /\ copying' = "next" /\ UNCHANGED res

(* What cannot be copied, because next says so or its name does not fit,    *)
(* ends the copy; what was copied stays.                                    *)
Reject == UNCHANGED tree /\ Stop(IF TooLong THEN "PATH_TOO_LONG" ELSE "ERROR_UNKNOWN")

MakeSubdirectory ==
  \/ /\ Parent # None /\ Unused # {} /\ Mkdir(Parent, Last(result.path))
     /\ copying' = "next" /\ UNCHANGED res
  \/ /\ Parent # None => tree[Parent][Last(result.path)] # Absent
     /\ UNCHANGED tree /\ Stop("MAKE_SUBDIR_FAILED")
  \/ UNCHANGED tree /\ Stop("PERMISSION_DENIED")

(* jsl_copy_file opens the source by its path and replaces what is there.   *)
CopyFile ==
  \/ /\ Parent # None /\ tree[Parent][Last(result.path)].kind \in {"none", "reg"}
     /\ EntryAt(Root, result.path).kind = "reg"
     /\ tree' = [tree EXCEPT ![Parent][Last(result.path)] = [kind |-> "reg", to |-> None]]
     /\ copying' = "next" /\ UNCHANGED res
  \/ UNCHANGED tree /\ Stop("COPY_FILE_FAILED")
  \/ UNCHANGED tree /\ Stop("PERMISSION_DENIED")

CopyEntry ==
  /\ copying = "entry" /\ pc = "idle" /\ result.produced
  /\ IF result.path = <<>> \/ TooLong \/ IterError THEN Reject
     ELSE IF result.type = "dir" THEN MakeSubdirectory
     ELSE IF result.type = "reg" THEN CopyFile
     ELSE GoesOn
  /\ UNCHANGED <<windows, iterator, pc, name, seen, result, histories, faults, walks, target, within, source>>

CopyReachesEnd ==
  /\ copying = "entry" /\ pc = "idle" /\ ~result.produced
  /\ copying' = "end"
  /\ UNCHANGED <<iteratorVars, target, within, res, source>>

(* The iterator is ended however the loop was left.                         *)
CopyEnds ==
  /\ copying = "end" /\ copying' = "no"
  /\ IF sentinel THEN End ELSE UNCHANGED iteratorVars
  /\ target' = None /\ within' = FALSE /\ source' = tree
  /\ UNCHANGED res

-----------------------------------------------------------------------------
CopyWorks ==
  \/ CopyBegins \/ CopyCannotBegin \/ CopyCallsNext \/ CopyEntry \/ CopyReachesEnd \/ CopyEnds

Caller ==
  /\ copying = "no"
  /\ (\E follow \in BOOLEAN : Begin(follow) \/ BeginFails(follow)) \/ CallNext \/ End
  /\ UNCHANGED copyVars

Next ==
  \/ \E t \in Targets : Copy(t[1], t[2])
  \/ CopyRefused \/ CopyWorks \/ Caller
  \/ (NextWorks \/ Others) /\ UNCHANGED copyVars

(* A caller drains its iterator, as os.h asks for, or ends it.              *)
Spec ==
  /\ Init /\ [][Next]_vars
  /\ WF_vars(NextWorks /\ UNCHANGED copyVars) /\ WF_vars(CopyWorks)
  /\ WF_vars(CallNext /\ copying = "no" /\ UNCHANGED copyVars)

-----------------------------------------------------------------------------
(* The kinds of what a tree has at a path.                                  *)
KindIn(t, start, path) ==
  LET In(d, n) == IF d = None \/ t[d][n].kind = "link" THEN None ELSE t[d][n].to
      d == FoldLeft(In, start, Front(path))
  IN  IF d = None THEN "none" ELSE t[d][Last(path)].kind

(* A copy that returns SUCCESS has made the same files and directories as   *)
(* the source has, and nothing else, unless others changed the source, a    *)
(* directory of it could not be read or it contains the destination: what   *)
(* readdir shows of a directory in the making is open then.                 *)
CopyFaithful ==
  copying = "end" /\ res = "SUCCESS" /\ missing = {} /\ faults = 0 /\ ~within =>
    \A path \in Paths \ {<<>>} :
      LET kind == KindIn(source, Root, path)
      IN  KindIn(tree, target, path) = IF kind = "link" THEN "none" ELSE kind

(* Every walk ends, through loops of links and through copies in the making *)
(* too, and so does every copy.                                             *)
WalksEnd == frames # <<>> ~> frames = <<>>
CopiesEnd == copying # "no" ~> copying = "no"
=============================================================================
