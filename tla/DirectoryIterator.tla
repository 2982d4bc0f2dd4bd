--------------------------- MODULE DirectoryIterator ---------------------------
(***************************************************************************)
(* jsl_directory_iterator_init, _next and _end of os.c: a depth-first walk *)
(* over a tree that other programs change meanwhile.  A directory is a     *)
(* node, an entry of it a name with a kind and the node it leads to, so a  *)
(* symbolic link can close a loop.  A call of next is taken apart at its   *)
(* system calls: readdir, lstat (with stat for a link), opendir.           *)
(***************************************************************************)
EXTENDS Integers, FiniteSets, SequencesExt

CONSTANTS
  Dirs, Root,        \* directories; the one the walk begins in
  Names,             \* of entries
  Width,             \* the length of every name
  MaxDepth,          \* JSL_DIRECTORY_ITERATOR_MAX_DEPTH
  MaxPath,           \* FILENAME_MAX, less the base path
  Trees,             \* the trees a walk may find
  Losses,            \* directory and name of the entries others may remove
  Arrivals,          \* and of those they may make, with what
  MaxFaults,         \* bound: failed system calls and changes by others
  MaxWalks,          \* bound: walks
  None

ASSUME IteratorArguments ==
  /\ Root \in Dirs /\ None \notin Dirs
  /\ Width \in [Names -> Nat \ {0}] /\ {MaxDepth, MaxPath} \subseteq Nat \ {0}

VARIABLES
  tree,              \* the entries of every directory
  windows,           \* which of the two branches is compiled
  sentinel, exhausted, follow_symlinks,
  frames,            \* directories the walk is in
  pc,                \* where next stands
  name, seen,        \* the entry it has read, and the kind that came with it
  result,            \* of the last call of next
  handles,           \* directories open in the system
  log,               \* history: the paths reported
  missing,           \* history: why the walk may not have seen everything
  faults, walks

external == <<tree, windows, faults, walks>>
iterator == <<sentinel, exhausted, follow_symlinks, frames>>
histories == <<handles, log, missing>>
iteratorVars == <<external, iterator, pc, name, seen, result, histories>>

Absent == [kind |-> "none", to |-> None]
Entries == [kind : {"none", "reg"}, to : {None}] \cup [kind : {"dir", "link"}, to : Dirs]
Statuses == {"OK", "PARTIAL", "COULD_NOT_OPEN", "PATH_TOO_LONG", "MAX_DEPTH_EXCEEDED"}
Paths == UNION {[1 .. k -> Names] : k \in 0 .. MaxDepth}

(* The directory a path leads to, through links too, or None.               *)
Under(d, n) == IF d = None THEN None ELSE tree[d][n].to
DirAt(start, path) == FoldLeft(Under, start, path)
EntryAt(start, path) ==
  LET d == DirAt(start, Front(path)) IN IF d = None THEN Absent ELSE tree[d][Last(path)]

Present(d) == {n \in Names : tree[d][n] # Absent}

-----------------------------------------------------------------------------
(* prefix is the path from the root, which ends in a separator; left are    *)
(* the names readdir may still give and due those it will: they were there  *)
(* when the directory was opened and nobody has taken them away since.      *)
Frame(d, prefix) == [dir |-> d, prefix |-> prefix, left |-> Names, due |-> Present(d)]
Top == Last(frames)
PrefixLength(prefix) == FoldLeft(LAMBDA length, n : length + Width[n] + 1, 0, prefix)
EntryLength(n) == PrefixLength(Top.prefix) + Width[n]
Answer(path, type, status) ==
  [produced |-> TRUE, path |-> path, type |-> type, depth |-> Len(frames) - 1, status |-> status]
NoAnswer == [produced |-> FALSE, path |-> <<>>, type |-> "none", depth |-> 0, status |-> "OK"]

TypeOK ==
  /\ tree \in [Dirs -> [Names -> Entries]] /\ faults \in 0 .. MaxFaults /\ walks \in 0 .. MaxWalks
  /\ {windows, sentinel, exhausted, follow_symlinks} \subseteq BOOLEAN
  /\ frames \in Seq([dir : Dirs, prefix : Paths, left : SUBSET Names, due : SUBSET Names])
  /\ Len(frames) <= MaxDepth
  /\ pc \in {"idle", "read", "stat", "open"}
  /\ name \in Names \cup {None} /\ (pc \in {"stat", "open"} => name # None /\ frames # <<>>)
  /\ result.status \in Statuses /\ result.type \in {"none", "reg", "dir", "link", "unknown"}
  /\ handles \in Nat /\ missing \subseteq {"init", "readdir", "stat", "open", "others"}

IteratorInit ==
  /\ tree \in Trees /\ windows \in BOOLEAN /\ faults = 0 /\ walks = 0
  /\ sentinel = FALSE /\ exhausted = TRUE /\ follow_symlinks = FALSE /\ frames = <<>>
  /\ pc = "idle" /\ name = None /\ seen = Absent /\ result = NoAnswer
  /\ handles = 0 /\ log = <<>> /\ missing = {}

-----------------------------------------------------------------------------
(* jsl_directory_iterator_init.  A walk that is not over is not begun anew. *)
Begin(follow) ==
  /\ pc = "idle" /\ frames = <<>> /\ walks < MaxWalks
  /\ walks' = walks + 1
  /\ follow_symlinks' = follow /\ sentinel' = TRUE /\ exhausted' = FALSE
  /\ frames' = <<Frame(Root, <<>>)>>
  /\ handles' = handles + 1 /\ log' = <<>> /\ missing' = {}
  /\ UNCHANGED <<tree, windows, faults, pc, name, seen, result>>

(* realpath or opendir fails: the iterator yields nothing.                  *)
BeginFails(follow) ==
  /\ pc = "idle" /\ frames = <<>>
  /\ follow_symlinks' = follow /\ exhausted' = TRUE /\ log' = <<>> /\ missing' = {"init"}
  /\ UNCHANGED <<external, sentinel, frames, pc, name, seen, result, handles>>

(* jsl_directory_iterator_end.                                              *)
End ==
  /\ pc = "idle" /\ sentinel
  /\ handles' = handles - Len(frames) /\ frames' = <<>>
  /\ sentinel' = FALSE /\ exhausted' = TRUE /\ log' = <<>> /\ missing' = {}
  /\ UNCHANGED <<external, follow_symlinks, pc, name, seen, result>>

(* jsl_directory_iterator_next, up to its loop.                             *)
CallNext ==
  /\ pc = "idle" /\ sentinel /\ ~exhausted
  /\ pc' = "read"
  /\ UNCHANGED <<external, iterator, name, seen, result, histories>>

-----------------------------------------------------------------------------
(* readdir gives an entry.  What is too long to be written behind the       *)
(* prefix is reported without a path.                                       *)
Read(n) ==
  /\ pc = "read" /\ frames # <<>> /\ n \in Top.left
  /\ n \in Top.due \/ tree[Top.dir][n] # Absent
  /\ frames' = Append(Front(frames), [Top EXCEPT !.left = @ \ {n}, !.due = @ \ {n}])
  /\ IF EntryLength(n) > MaxPath
     THEN /\ pc' = "idle"
          /\ result' = Answer(<<>>, "unknown", "PATH_TOO_LONG")
          /\ UNCHANGED <<name, seen>>
     ELSE /\ pc' = "stat" /\ name' = n /\ seen' = tree[Top.dir][n]
          /\ UNCHANGED result
  /\ UNCHANGED <<external, sentinel, exhausted, follow_symlinks, histories>>

Pop == frames' = Front(frames) /\ handles' = handles - 1

(* There are no more entries, and the walk goes on in the directory above.  *)
ReadEnds ==
  /\ pc = "read" /\ frames # <<>> /\ Top.due = {}
  /\ Pop
  /\ UNCHANGED <<external, sentinel, exhausted, follow_symlinks, pc, name, seen, result, log, missing>>

(* An error of readdir looks like the end: errno is not looked at.          *)
ReadFails ==
  /\ pc = "read" /\ frames # <<>> /\ Top.due # {} /\ faults < MaxFaults
  /\ Pop /\ missing' = missing \cup {"readdir"} /\ faults' = faults + 1
  /\ UNCHANGED <<tree, windows, walks, sentinel, exhausted, follow_symlinks, pc, name, seen, result, log>>

Drained ==
  /\ pc = "read" /\ frames = <<>>
  /\ pc' = "idle" /\ exhausted' = TRUE /\ result' = [result EXCEPT !.produced = FALSE]
  /\ UNCHANGED <<external, sentinel, follow_symlinks, frames, name, seen, histories>>

-----------------------------------------------------------------------------
PathOf(n) == Append(Top.prefix, n)
(* lstat and stat go by the path; FindFirstFile brought the kind with the   *)
(* name, and only a link's target is asked for then.                        *)
Kind ==
  LET entry == IF windows THEN seen ELSE EntryAt(Root, PathOf(name))
      target == EntryAt(Root, PathOf(name))
  IN  IF entry.kind = "link" /\ follow_symlinks /\ target.to # None THEN "dir" ELSE entry.kind

TypeAndStatus ==
  IF Kind = "none" THEN <<"unknown", "PARTIAL">>
  ELSE IF Kind # "dir" THEN <<Kind, "OK">>
  ELSE IF Len(frames) >= MaxDepth THEN <<"dir", "MAX_DEPTH_EXCEEDED">>
  ELSE IF EntryLength(name) + 1 > MaxPath THEN <<"dir", "PATH_TOO_LONG">>
  ELSE <<"dir", "OK">>

(* The entry is a local variable of next.                                   *)
Forget == name' = None /\ seen' = Absent

Stat ==
  /\ pc = "stat"
  /\ result' = Answer(PathOf(name), TypeAndStatus[1], TypeAndStatus[2])
  /\ log' = Append(log, PathOf(name))
  /\ pc' = IF TypeAndStatus = <<"dir", "OK">> THEN "open" ELSE "idle"
  /\ missing' = IF TypeAndStatus[2] = "PARTIAL" THEN missing \cup {"stat"} ELSE missing
  /\ IF pc' = "idle" THEN Forget ELSE UNCHANGED <<name, seen>>
  /\ UNCHANGED <<external, iterator, handles>>

(* Mutant: the new frame has the prefix of the one above.                   *)
EnterKeepsPrefix ==
  /\ pc = "open" /\ pc' = "idle"
  /\ DirAt(Root, PathOf(name)) # None
  /\ frames' = Append(frames, Frame(DirAt(Root, PathOf(name)), Top.prefix))
  /\ handles' = handles + 1 /\ Forget
  /\ UNCHANGED <<external, sentinel, exhausted, follow_symlinks, result, log, missing>>

(* opendir goes by the path once more.                                      *)
Enter ==
  /\ pc = "open" /\ pc' = "idle"
  /\ DirAt(Root, PathOf(name)) # None
  /\ frames' = Append(frames, Frame(DirAt(Root, PathOf(name)), PathOf(name)))
  /\ handles' = handles + 1 /\ Forget
  /\ UNCHANGED <<external, sentinel, exhausted, follow_symlinks, result, log, missing>>

EnterFails ==
  /\ pc = "open" /\ pc' = "idle"
  /\ IF DirAt(Root, PathOf(name)) = None THEN UNCHANGED faults
     ELSE faults < MaxFaults /\ faults' = faults + 1
  /\ result' = [result EXCEPT !.status = "COULD_NOT_OPEN"]
  /\ missing' = missing \cup {"open"} /\ Forget
  /\ UNCHANGED <<tree, windows, walks, iterator, handles, log>>

-----------------------------------------------------------------------------
(* Another program removes or makes an entry.                               *)
OthersRemove(d, n) ==
  /\ faults < MaxFaults /\ frames # <<>> /\ tree[d][n] # Absent
  /\ tree' = [tree EXCEPT ![d][n] = Absent]
  /\ frames' = [i \in DOMAIN frames |->
                  IF frames[i].dir = d THEN [frames[i] EXCEPT !.due = @ \ {n}] ELSE frames[i]]
  /\ faults' = faults + 1 /\ missing' = missing \cup {"others"}
  /\ UNCHANGED <<windows, walks, sentinel, exhausted, follow_symlinks, pc, name, seen, result,
                 handles, log>>

OthersAdd(d, n, entry) ==
  /\ faults < MaxFaults /\ frames # <<>> /\ tree[d][n] = Absent
  /\ tree' = [tree EXCEPT ![d][n] = entry]
  /\ faults' = faults + 1
  /\ UNCHANGED <<windows, walks, iterator, pc, name, seen, result, handles, log, missing>>

NextWorks ==
  (\E n \in Names : Read(n)) \/ ReadEnds \/ ReadFails \/ Drained \/ Stat \/ Enter \/ EnterFails

Others ==
  \/ \E slot \in Losses : OthersRemove(slot[1], slot[2])
  \/ \E slot \in Arrivals : OthersAdd(slot[1], slot[2], slot[3])

-----------------------------------------------------------------------------
(* Directories stay open exactly as long as the walk is in them; after the  *)
(* last entry and after end there is none.                                  *)
HandlesReleased ==
  /\ handles = Len(frames)
  /\ exhausted => frames = <<>>

(* Nothing is reported twice, and every directory before what is in it.     *)
PreOrder ==
  \A i, j \in DOMAIN log :
    /\ i # j => log[i] # log[j]
    /\ Len(log[i]) > 1 => \E k \in 1 .. i - 1 : log[k] = Front(log[i])

(* Every path of the tree that the depth and the length of paths allow, if  *)
(* links are followed those through links too.                              *)
Enterable(path) ==
  \A k \in 1 .. Len(path) - 1 :
    LET entry == EntryAt(Root, SubSeq(path, 1, k))
    IN  entry.kind = "dir" \/ (entry.kind = "link" /\ follow_symlinks)
Reachable ==
  {path \in Paths \ {<<>>} :
     /\ EntryAt(Root, path) # Absent /\ Enterable(path)
     /\ PrefixLength(path) - 1 <= MaxPath}

(* When next returns false the whole tree has been reported, unless a       *)
(* directory could not be read or entered, or others took something away.   *)
WalkComplete ==
  sentinel /\ exhausted /\ pc = "idle" /\ missing = {} /\ faults = 0 => ToSet(log) = Reachable
=============================================================================
