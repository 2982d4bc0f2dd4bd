-------------------------------- MODULE MCFiles --------------------------------
(* The file system part of os.c, and the configuration of a subprocess: one *)
(* of the components runs while the others stand still in one state.        *)
EXTENDS DirectoryCopy

CONSTANTS
  Parts,         \* the components of this run
  DeleteAsked, EntryAsked, TransferAsked   \* what is asked of each

VARIABLES
  x_tree, x_platform, x_pc, x_frames, x_res, x_before, x_failures, x_faults,
  e_entry, e_platform, e_far, e_pc, e_call, e_path, e_to, e_res, e_were, e_ours, e_others,
  t_call, t_pc, t_size, t_dst, t_onto_itself, t_fds, t_offset, t_file_size, t_block, t_got,
  t_pending, t_res, t_failed, t_original, t_changes, t_changed,
  c_ready, c_mem, c_executable, c_args_at, c_args_capacity, c_args, c_env_at, c_env_capacity,
  c_env_vars, c_working_directory, c_stdin, c_output, c_told, c_abandoned

VARIABLE running

No == Absent
File == [kind |-> "reg", to |-> None]
Dir(d) == [kind |-> "dir", to |-> d]
Link(d) == [kind |-> "link", to |-> d]
Two(a, b) == "a" :> a @@ "long" :> b

-----------------------------------------------------------------------------
(* One that fits, with a loop closed by a link, and one too deep.  Outside  *)
(* of both 6 has the destination, and the others are empty.                 *)
Otherwise(t) == t @@ [d \in 1 .. 8 |-> Two(No, No)]
WalkedTrees == {
  Otherwise(1 :> Two(Dir(2), File) @@ 2 :> Two(File, Link(1))),
  Otherwise(1 :> Two(Dir(2), No) @@ 2 :> Two(Dir(7), File) @@ 7 :> Two(Dir(8), File)) }
NameWidths == "a" :> 1 @@ "long" :> 3
(* In the source and outside of it.                                         *)
CopyTargets == {<<1, "long">>, <<6, "a">>}
WalkLosses == {<<2, "a">>}
WalkArrivals == {<<1, "long", Link(1)>>, <<3, "a", File>>}

(* 0 is the directory above, 3 one outside; a link to either side, one in   *)
(* the place of what is to be deleted, and empty directories.               *)
DoomedTrees == {
  0 :> Two(Dir(1), Dir(3)) @@ 1 :> Two(File, Dir(2)) @@ 2 :> Two(File, Link(3)) @@ 3 :> Two(File, No),
  0 :> Two(Dir(1), Dir(3)) @@ 1 :> Two(Dir(2), File) @@ 2 :> Two(File, Link(1)) @@ 3 :> Two(File, No),
  0 :> Two(Link(3), Dir(3)) @@ 1 :> Two(Dir(2), File) @@ 2 :> Two(File, Link(1)) @@ 3 :> Two(File, No),
  0 :> Two(Dir(1), No) @@ 1 :> Two(Dir(2), Dir(3)) @@ [d \in 2 .. 3 |-> Two(No, No)],
  0 :> Two(Dir(1), No) @@ [d \in 1 .. 3 |-> Two(No, No)] }

FourDirectories ==
  [dirs |-> 0 .. 3, home |-> 0, doomed |-> "a", trees |-> DoomedTrees,
   platforms |-> {"posix", "windows"}, levels |-> 3, long |-> {"long"},
   arrivals |-> {<<1, "a">>, <<2, "long">>, <<3, "long">>}, faults |-> 3]
Delete == INSTANCE DirectoryDelete
  WITH Dirs <- DeleteAsked.dirs, Home <- DeleteAsked.home, Doomed <- DeleteAsked.doomed,
       Trees <- DeleteAsked.trees, Platforms <- DeleteAsked.platforms,
       MaxLevels <- DeleteAsked.levels, LongNames <- DeleteAsked.long, Arrivals <- DeleteAsked.arrivals,
       MaxFaults <- DeleteAsked.faults,
       tree <- x_tree, platform <- x_platform, pc <- x_pc, frames <- x_frames, res <- x_res,
       before <- x_before, failures <- x_failures, faults <- x_faults

TwoPaths == [paths |-> {"p", "q"}, others |-> 1]
Entry == INSTANCE FileEntries
  WITH Paths <- EntryAsked.paths, MaxOthers <- EntryAsked.others,
       entry <- e_entry, platform <- e_platform, far <- e_far, pc <- e_pc, call <- e_call,
       path <- e_path, to <- e_to, res <- e_res, were <- e_were, ours <- e_ours,
       others <- e_others

(* A file of two reads, the second of them short.                           *)
TwoReads == [size |-> 3, chunk |-> 2, transfer |-> 3, room |-> 2, changes |-> 1]
Transfer == INSTANCE FileTransfer
  WITH MaxSize <- TransferAsked.size, Chunk <- TransferAsked.chunk,
       MaxTransfer <- TransferAsked.transfer, Room <- TransferAsked.room,
       MaxChanges <- TransferAsked.changes,
       call <- t_call, pc <- t_pc, size <- t_size, dst <- t_dst,
       onto_itself <- t_onto_itself, fds <- t_fds, offset <- t_offset,
       file_size <- t_file_size, block <- t_block, got <- t_got, pending <- t_pending,
       res <- t_res, failed <- t_failed, original <- t_original, changes <- t_changes,
       changed <- t_changed

(* The arrays grow with the second element, and memory runs out.            *)
Config == INSTANCE SubprocessConfig
  WITH Blocks <- 1 .. 7, Keys <- {"a", "b"}, Values <- {"v", "w"}, Empty <- "w",
       Outputs <- {"stdout"}, Capacity <- 1, MaxArgs <- 3,
       ready <- c_ready, mem <- c_mem, executable <- c_executable, args_at <- c_args_at,
       args_capacity <- c_args_capacity, args <- c_args, env_at <- c_env_at,
       env_capacity <- c_env_capacity, env_vars <- c_env_vars,
       working_directory <- c_working_directory, stdin <- c_stdin, output <- c_output,
       told <- c_told, abandoned <- c_abandoned

ASSUME DeleteArguments == Delete!DeleteArguments /\ Delete!TreeArguments
ASSUME TransferArguments == Transfer!TransferArguments
ASSUME ConfigArguments == Config!ConfigArguments

-----------------------------------------------------------------------------
deleteVars == <<x_tree, x_platform, x_pc, x_frames, x_res, x_before, x_failures, x_faults>>
entryVars ==
  <<e_entry, e_platform, e_far, e_pc, e_call, e_path, e_to, e_res, e_were, e_ours, e_others>>
transferVars ==
  <<t_call, t_pc, t_size, t_dst, t_onto_itself, t_fds, t_offset, t_file_size, t_block, t_got,
    t_pending, t_res, t_failed, t_original, t_changes, t_changed>>
configVars ==
  <<c_ready, c_mem, c_executable, c_args_at, c_args_capacity, c_args, c_env_at, c_env_capacity,
    c_env_vars, c_working_directory, c_stdin, c_output, c_told, c_abandoned>>
allVars == <<running, vars, deleteVars, entryVars, transferVars, configVars>>

InitAny ==
  /\ running \in Parts
  /\ Init /\ Delete!Init /\ Entry!Init /\ Transfer!Init /\ Config!Init
  /\ running # "copy" => windows /\ tree = CHOOSE t \in Trees : TRUE
  /\ running # "delete" => x_platform = "posix" /\ x_tree = CHOOSE t \in DeleteAsked.trees : TRUE
  /\ running # "entry" => e_entry = [p \in EntryAsked.paths |-> "none"] /\ e_platform = "posix" /\ e_far
  /\ running # "transfer" => t_size = 0

(* One part of the configuration at a time, and one block lost: the calls   *)
(* for the parts share nothing but the allocator.                           *)
ConfiguredParts ==
  {part \in {"args", "env", "streams"} :
     CASE part = "args" -> c_args # <<>>
       [] part = "env" -> c_env_vars # <<>>
       [] part = "streams" -> \/ c_stdin # Config!NoStdin \/ c_working_directory # None
                              \/ c_output # [o \in {"stdout"} |-> Config!NoOutput]}
FewAtOnce == Cardinality(ConfiguredParts) <= 1 /\ Cardinality(c_abandoned) <= 1

NextAny ==
  /\ UNCHANGED running
  /\ \/ running = "copy" /\ Next /\ UNCHANGED <<deleteVars, entryVars, transferVars, configVars>>
     \/ running = "delete" /\ Delete!DeleteNext /\ UNCHANGED <<vars, entryVars, transferVars, configVars>>
     \/ running = "entry" /\ Entry!Next /\ UNCHANGED <<vars, deleteVars, transferVars, configVars>>
     \/ running = "transfer" /\ Transfer!Next /\ UNCHANGED <<vars, deleteVars, entryVars, configVars>>
     \/ running = "config" /\ Config!Next /\ UNCHANGED <<vars, deleteVars, entryVars, transferVars>>

(* The fairness of DirectoryCopy, DirectoryDelete and FileTransfer, each    *)
(* for a behaviour in which it runs.                                        *)
SpecAny ==
  /\ InitAny /\ [][NextAny]_allVars
  /\ WF_vars(NextWorks /\ UNCHANGED copyVars) /\ WF_vars(CopyWorks)
  /\ WF_vars(CallNext /\ copying = "no" /\ UNCHANGED copyVars)
  /\ WF_deleteVars(running = "delete" /\ Delete!DeleteWorks)
  /\ WF_transferVars(Transfer!Works)

(* Of a walk and a copy everywhere, of the others where they run.           *)
TypesOK ==
  /\ CopyTypeOK
  /\ running = "delete" => Delete!TypeOK
  /\ running = "entry" => Entry!TypeOK
  /\ running = "transfer" => Transfer!TypeOK
  /\ running = "config" => Config!TypeOK

(* However a walk or a call ended, and whatever failed in it, no directory  *)
(* and no file is still open.                                               *)
NothingLeftOpen == HandlesReleased /\ (running = "transfer" => Transfer!DescriptorsClosed)

(* A walk reports every path of the tree exactly once, parents first; what  *)
(* a copy makes inside its own source it may report or not.                 *)
WalkExact == PreOrder /\ (~within => WalkComplete)

(* SUCCESS means that the directory is gone, another result is that of the  *)
(* first failure and leaves it; nothing outside is touched on POSIX.        *)
DeleteSound ==
  running = "delete" =>
    Delete!DeleteComplete /\ Delete!FirstFailureReturned /\ Delete!OutsideSpared
LinksNotFollowed == running = "delete" => Delete!LinksNotFollowed

(* Whatever others put at the path between two system calls: an answer was  *)
(* true of it, no directory is unlinked as a file, and a rename that fails  *)
(* leaves both entries.                                                     *)
EntriesSound ==
  /\ [](running = "entry" => Entry!AnswersTrue /\ Entry!NoDirectoryDeleted)
  /\ Entry!RenameKeepsEntries

(* The bytes a load or a write tells of are there, a load into new memory   *)
(* and a write that began name what failed, and SUCCESS of a load into new  *)
(* memory and of a copy means all bytes.                                    *)
TransfersTruthful ==
  running = "transfer" =>
    Transfer!LoadTruthful /\ Transfer!WriteTruthful /\ Transfer!CopyComplete

(* What os.h says of the results of a load into a buffer and of a write.    *)
TransfersAsDocumented == running = "transfer" => Transfer!AsDocumented

(* Whatever allocation failed: nothing the handle points to was given back, *)
(* the last successful call for a key wins, and a stream has only the       *)
(* fields of its kind.                                                      *)
ConfigurationSound ==
  running = "config" =>
    Config!MemoryAccounted /\ Config!LastCallWins /\ Config!StreamsSound

(* Walks, copies, deletions and transfers come to an end.                   *)
CallsEnd ==
  /\ WalksEnd /\ CopiesEnd
  /\ running = "delete" => Delete!DeleteEnds
  /\ Transfer!CallsReturn
=============================================================================
