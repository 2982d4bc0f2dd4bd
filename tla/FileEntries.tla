------------------------------ MODULE FileEntries ------------------------------
(***************************************************************************)
(* The calls of os.c on the entry at a path: jsl_get_file_type,            *)
(* jsl_get_file_size, jsl_make_directory, jsl_delete_file and              *)
(* jsl_rename_file, at their system calls.  Other programs make, remove    *)
(* and replace entries between two of them.                                *)
(***************************************************************************)
EXTENDS Integers, FiniteSets

CONSTANTS
  Paths,          \* that the calls are given
  MaxOthers,      \* bound: changes by other programs
  None

VARIABLES
  entry,          \* of every path
  platform,       \* the branch that is compiled
  far,            \* two paths are on different volumes
  pc,             \* "idle", or the system call that comes next
  call, path, to, \* the call and its paths
  res,
  were,           \* history: what has been at the path since the call began
  ours,           \* history: what the call has removed
  others

arguments == <<call, path, to>>
vars == <<entry, platform, far, pc, arguments, res, were, ours, others>>

Files == {"reg", "link"}                 \* a link leads to a regular file
Directories == {"dir", "full"}           \* without and with entries
Kinds == Files \cup Directories \cup {"none", "dirlink"}
Codes ==
  [type |-> {"UNKNOWN", "NOT_FOUND", "REG", "DIR", "SYMLINK"},
   size |-> {"OK", "NOT_FOUND", "NOT_REGULAR_FILE"},
   make |-> {"SUCCESS", "ALREADY_EXISTS", "PERMISSION_DENIED"},
   delete |-> {"SUCCESS", "NOT_FOUND", "IS_DIRECTORY", "PERMISSION_DENIED", "ERROR_UNKNOWN"},
   rename |-> {"SUCCESS", "SOURCE_NOT_FOUND", "DEST_ALREADY_EXISTS", "CROSS_DEVICE",
               "PERMISSION_DENIED", "ERROR_UNKNOWN"}]

TypeOK ==
  /\ entry \in [Paths -> Kinds] /\ platform \in {"posix", "windows"} /\ far \in BOOLEAN
  /\ pc \in {"idle", "look", "stat", "act", "remove"}
  /\ call \in DOMAIN Codes \cup {"none"}
  /\ res \in IF pc = "idle" /\ call # "none" THEN Codes[call] ELSE {"NONE"}
  /\ path \in Paths \cup {None} /\ to \in Paths \cup {None}
  /\ were \subseteq Kinds /\ ours \subseteq Kinds /\ others \in 0 .. MaxOthers

Init ==
  /\ entry \in [Paths -> Kinds] /\ platform \in {"posix", "windows"} /\ far \in BOOLEAN
  /\ pc = "idle" /\ call = "none" /\ path = None /\ to = None /\ res = "NONE"
  /\ were = {} /\ ours = {} /\ others = 0

Begin(c, p, q) ==
  /\ pc = "idle" /\ call = "none"
  /\ call' = c /\ path' = p /\ to' = q
  /\ pc' = IF c \in {"type", "delete"} THEN "look" ELSE "act"
  /\ were' = {entry[p]}
  /\ UNCHANGED <<entry, platform, far, res, ours, others>>

Answer(code) == pc' = "idle" /\ res' = code
Kept == UNCHANGED <<entry, platform, far, arguments, were, ours, others>>
Windows == platform = "windows"
It == entry[path]

(* What lstat, or GetFileAttributes, says of a kind; stat follows a link.   *)
TypeName(kind) ==
  CASE kind = "none" -> "NOT_FOUND" [] kind = "reg" -> "REG" [] kind \in Directories -> "DIR"
    [] OTHER -> "SYMLINK"
Target(kind) == IF kind = "link" THEN "reg" ELSE IF kind = "dirlink" THEN "dir" ELSE kind

-----------------------------------------------------------------------------
(* jsl_get_file_type: on Windows what is no link is asked for a second      *)
(* time.                                                                    *)
GetType ==
  /\ pc = "look" /\ call = "type" /\ Kept
  /\ IF Windows /\ It \notin {"none", "link", "dirlink"} THEN pc' = "stat" /\ UNCHANGED res
     ELSE Answer(TypeName(It))

GetTypeByStat ==
  /\ pc = "stat" /\ Kept
  /\ Answer(IF It = "none" THEN "UNKNOWN" ELSE TypeName(Target(It)))

(* jsl_get_file_size goes through links.                                    *)
GetSize ==
  /\ pc = "act" /\ call = "size" /\ Kept
  /\ Answer(IF It = "none" THEN "NOT_FOUND"
            ELSE IF Target(It) = "reg" THEN "OK" ELSE "NOT_REGULAR_FILE")

MakeDirectory ==
  /\ pc = "act" /\ call = "make"
  /\ entry' = IF It = "none" THEN [entry EXCEPT ![path] = "dir"] ELSE entry
  /\ Answer(IF It = "none" THEN "SUCCESS" ELSE "ALREADY_EXISTS")
  /\ UNCHANGED <<platform, far, arguments, were, ours, others>>

-----------------------------------------------------------------------------
(* jsl_delete_file looks first and removes then.  To Windows a link to a    *)
(* directory is a directory.                                                *)
LooksLikeDirectory(kind) == kind \in Directories \/ (Windows /\ kind = "dirlink")

DeleteLooks ==
  /\ pc = "look" /\ call = "delete" /\ Kept
  /\ IF It = "none" THEN Answer("NOT_FOUND")
     ELSE IF LooksLikeDirectory(It) THEN Answer("IS_DIRECTORY")
     ELSE pc' = "remove" /\ UNCHANGED res

(* Mutant: remove() instead of unlink(), which takes empty directories too. *)
DeleteRemovesAny ==
  /\ pc = "remove" /\ call = "delete"
  /\ entry' = [entry EXCEPT ![path] = "none"] /\ ours' = ours \cup ({It} \ {"none"})
  /\ Answer(IF It = "none" THEN "NOT_FOUND" ELSE "SUCCESS")
  /\ UNCHANGED <<platform, far, arguments, were, others>>

(* unlink and DeleteFile refuse a directory that has taken the place.       *)
DeleteRemoves ==
  /\ pc = "remove" /\ call = "delete"
  /\ IF It = "none" THEN Answer("NOT_FOUND") /\ UNCHANGED <<entry, ours>>
     ELSE IF LooksLikeDirectory(It)
     THEN Answer(IF Windows THEN "PERMISSION_DENIED" ELSE "ERROR_UNKNOWN") /\ UNCHANGED <<entry, ours>>
     ELSE /\ entry' = [entry EXCEPT ![path] = "none"] /\ ours' = ours \cup {It}
          /\ Answer("SUCCESS")
  /\ UNCHANGED <<platform, far, arguments, were, others>>

(* Denied by the system whatever is there; the second half of a move across *)
(* volumes is none of the caller's calls.                                   *)
Denied ==
  /\ call = "delete" \/ (pc = "act" /\ call \in {"make", "rename"})
  /\ pc # "idle" /\ Kept
  /\ Answer("PERMISSION_DENIED")

-----------------------------------------------------------------------------
(* What rename, or MoveFileEx with MOVEFILE_REPLACE_EXISTING, does about    *)
(* the entry that is at the destination.                                    *)
Replaceable(kind, old) ==
  \/ old = "none"
  \/ kind \notin Directories /\ ~LooksLikeDirectory(old)
  \/ kind \in Directories /\ old = "dir" /\ ~Windows
RenameCode(kind, old) ==
  IF kind = "none" THEN "SOURCE_NOT_FOUND"
  ELSE IF Replaceable(kind, old) THEN "SUCCESS"
  ELSE IF Windows THEN "PERMISSION_DENIED"
  ELSE IF kind \in Directories /\ old = "full" THEN "DEST_ALREADY_EXISTS" ELSE "ERROR_UNKNOWN"

Rename ==
  /\ pc = "act" /\ call = "rename" /\ ~far
  /\ entry' = IF RenameCode(It, entry[to]) = "SUCCESS" THEN [entry EXCEPT ![to] = It, ![path] = "none"]
              ELSE entry
  /\ Answer(RenameCode(It, entry[to]))
  /\ UNCHANGED <<platform, far, arguments, were, ours, others>>

(* Across volumes POSIX refuses; MOVEFILE_COPY_ALLOWED copies a file and    *)
(* removes the original after.                                              *)
RenameAcross ==
  /\ pc = "act" /\ call = "rename" /\ far
  /\ IF Windows /\ It \in Files /\ Replaceable(It, entry[to])
     THEN entry' = [entry EXCEPT ![to] = It] /\ pc' = "remove" /\ UNCHANGED res
     ELSE /\ UNCHANGED entry
          /\ Answer(IF It = "none" THEN "SOURCE_NOT_FOUND"
                    ELSE IF Windows THEN "PERMISSION_DENIED" ELSE "CROSS_DEVICE")
  /\ UNCHANGED <<platform, far, arguments, were, ours, others>>

(* Removing the original may fail, and the move then counts as done.        *)
RenameRemovesOriginal ==
  /\ pc = "remove" /\ call = "rename"
  /\ \E left \in BOOLEAN : entry' = IF left THEN entry ELSE [entry EXCEPT ![path] = "none"]
  /\ Answer("SUCCESS")
  /\ UNCHANGED <<platform, far, arguments, were, ours, others>>

-----------------------------------------------------------------------------
OthersChange(p, kind) ==
  /\ pc # "idle" /\ others < MaxOthers /\ entry[p] # kind
  /\ call \in {"type", "delete"}
  /\ entry' = [entry EXCEPT ![p] = kind] /\ others' = others + 1
  /\ were' = IF p = path THEN were \cup {kind} ELSE were
  /\ UNCHANGED <<platform, far, pc, arguments, res, ours>>

Next ==
  \/ \E c \in {"type", "size", "make", "delete"}, p \in Paths : Begin(c, p, None)
  \/ \E p, q \in Paths : p # q /\ Begin("rename", p, q)
  \/ GetType \/ GetTypeByStat \/ GetSize \/ MakeDirectory
  \/ DeleteLooks \/ DeleteRemoves \/ Denied
  \/ Rename \/ RenameAcross \/ RenameRemovesOriginal
  \/ \E p \in Paths, kind \in Kinds : OthersChange(p, kind)

Spec == Init /\ [][Next]_vars

-----------------------------------------------------------------------------
Returned == pc = "idle" /\ call # "none"

(* An answer about an entry was true at a moment of the call: of the entry, *)
(* or on Windows, where a link may come between the two questions, of what  *)
(* it leads to.                                                             *)
AnswersTrue ==
  Returned =>
    /\ call = "type" /\ res # "UNKNOWN" =>
         res \in {TypeName(k) : k \in were}
                 \cup (IF Windows THEN {TypeName(Target(k)) : k \in were} ELSE {})
    /\ call = "delete" /\ res = "NOT_FOUND" => "none" \in were
    /\ call = "delete" /\ res = "IS_DIRECTORY" => \E k \in were : LooksLikeDirectory(k)
    /\ call = "delete" => (res = "SUCCESS" <=> Cardinality(ours) = 1)

(* jsl_delete_file never takes a directory, also when one appears between   *)
(* its two system calls.                                                    *)
NoDirectoryDeleted == ours \cap Directories = {}

(* A rename that returns SUCCESS has put the entry at the destination, any  *)
(* other has changed neither; at no moment is the entry at neither place.   *)
RenameKeepsEntries ==
  [][call = "rename" /\ entry' # entry =>
       /\ entry'[to] = entry[path] \/ (entry'[path] = "none" /\ entry[to] = entry[path])
       /\ res' \in {"SUCCESS", res}]_vars
=============================================================================
