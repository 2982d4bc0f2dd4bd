----------------------------- MODULE FileTransfer -----------------------------
(***************************************************************************)
(* The calls of os.c that move the contents of a file:                     *)
(* jsl_load_file_contents, jsl_load_file_contents_buffer,                  *)
(* jsl_write_file_contents and jsl_copy_file on POSIX, one system call at  *)
(* a time.  Every system call may fail, and other programs may change the  *)
(* size of the source between two of them.  Contents are counted in units. *)
(***************************************************************************)
EXTENDS Integers, FiniteSets

CONSTANTS
  MaxSize,       \* bound: units in a file
  Chunk,         \* sizeof copy_buf
  MaxTransfer,   \* the most one read or write moves
  Room,          \* length of the caller's buffer, and of contents
  MaxChanges     \* bound: changes by others

TransferArguments == {MaxSize, Chunk, MaxTransfer, Room} \subseteq Nat \ {0}

VARIABLES
  call, pc,
  size, dst,      \* the source and the destination
  onto_itself,    \* the two paths of a copy lead to one file
  fds,            \* descriptors the call has open
  offset,         \* of the source
  file_size,      \* what fstat said
  block,          \* memory for the contents: "none", "held", "given" to the caller
  got,            \* bytes the caller has been told of
  pending,        \* bytes in copy_buf
  res,
  failed,         \* history: what went wrong in this call
  original,       \* history: the size when the call began
  changes, changed

files == <<size, dst, onto_itself>>
work == <<fds, offset, file_size, block, got, pending>>
others == <<original, changes, changed>>
vars == <<call, pc, files, work, res, failed, others>>

Calls == {"load", "load_buffer", "write", "copy"}
Least(S) == CHOOSE x \in S : \A y \in S : x <= y
Sizes == 0 .. MaxSize

TypeOK ==
  /\ call \in Calls \cup {"none"}
  /\ pc \in {"idle", "open", "stat", "memory", "read", "write", "open_dst", "close"}
  /\ size \in Sizes /\ dst \in Sizes /\ onto_itself \in BOOLEAN
  /\ fds \subseteq {"src", "dst"}
  /\ offset \in Sizes /\ file_size \in Sizes /\ got \in Sizes /\ pending \in 0 .. Chunk
  /\ block \in {"none", "held", "given"}
  /\ changes \in 0 .. MaxChanges

Init ==
  /\ call = "none" /\ pc = "idle"
  /\ size \in Sizes /\ dst = 0 /\ onto_itself = FALSE
  /\ fds = {} /\ offset = 0 /\ file_size = 0 /\ block = "none" /\ got = 0 /\ pending = 0
  /\ res = "NONE" /\ failed = {}
  /\ original = size /\ changes = 0 /\ changed = FALSE

Go(to) == pc' = to /\ UNCHANGED <<call, res, failed>>
Fail(what, code, to) ==
  /\ pc' = to /\ res' = code
  /\ failed' = failed \cup {what}
  /\ UNCHANGED call

-----------------------------------------------------------------------------
(* A call with arguments it refuses ends at once: load_buffer and write run *)
(* through the code below with nothing open, which overwrites               *)
(* BAD_PARAMETERS.                                                          *)
Refused(c) ==
  IF c = "load_buffer" THEN "READ_FAILED" ELSE IF c = "write" THEN "COULD_NOT_OPEN" ELSE "BAD_PARAMETERS"

Begin(c, good, itself) ==
  /\ pc = "idle" /\ (itself => c = "copy")
  /\ call' = c /\ onto_itself' = itself
  /\ fds' = {} /\ offset' = 0 /\ file_size' = 0 /\ block' = "none" /\ got' = 0 /\ pending' = 0
  /\ original' = size /\ changed' = FALSE
  /\ failed' = IF good THEN {} ELSE {"parameters"}
  /\ pc' = IF ~good THEN "idle" ELSE IF c = "copy" THEN "stat" ELSE "open"
  /\ res' = IF ~good THEN Refused(c) ELSE IF c = "copy" THEN "SOURCE_NOT_FOUND" ELSE "SUCCESS"
  /\ UNCHANGED <<size, dst, changes>>

(* open of the only file, or of the source of a copy.                       *)
OpenNext == IF call \in {"load", "load_buffer"} THEN "stat" ELSE IF call = "write" THEN "write" ELSE "open_dst"
Open ==
  /\ pc = "open" /\ Go(OpenNext)
  /\ fds' = {IF call = "write" THEN "dst" ELSE "src"}
  /\ dst' = IF call = "write" THEN 0 ELSE dst
  /\ UNCHANGED <<size, onto_itself, offset, file_size, block, got, pending, others>>

(* Without a descriptor load_buffer goes on to overwrite its result twice.  *)
OpenFailure ==
  CASE call = "load_buffer" -> "READ_FAILED"
    [] call = "copy" -> "COULD_NOT_OPEN_SOURCE"
    [] OTHER -> "COULD_NOT_OPEN"
OpenFails ==
  /\ pc = "open" /\ Fail("open", OpenFailure, "idle")
  /\ UNCHANGED <<files, work, others>>

(* jsl__get_file_size_from_fileno, or the lstat of a copy.                  *)
Stat ==
  /\ pc = "stat"
  /\ Go(CASE call = "load" -> "memory" [] call = "load_buffer" -> "read" [] call = "copy" -> "open")
  /\ file_size' = size
  /\ UNCHANGED <<files, fds, offset, block, got, pending, others>>

StatFails ==
  /\ pc = "stat"
  /\ CASE call = "load" -> Fail("stat", "COULD_NOT_GET_FILE_SIZE", "close")
       [] call = "load_buffer" -> Fail("stat", "READ_FAILED", "close")
       [] call = "copy" -> \E code \in {"SOURCE_NOT_FOUND", "ERROR_UNKNOWN", "SOURCE_IS_DIRECTORY"} :
                             Fail("stat", code, "idle")
  /\ UNCHANGED <<files, work, others>>

(* The memory for the contents; an empty file needs none.                   *)
Memory ==
  /\ pc = "memory" /\ Go("read")
  /\ block' = IF file_size = 0 THEN "none" ELSE "held"
  /\ UNCHANGED <<files, fds, offset, file_size, got, pending, others>>

MemoryFails ==
  /\ pc = "memory" /\ file_size > 0
  /\ Fail("memory", "COULD_NOT_GET_MEMORY", "close")
  /\ UNCHANGED <<files, work, others>>

-----------------------------------------------------------------------------
(* read moves what is asked for as far as the file goes; write may also be  *)
(* cut short by the room on the device.                                     *)
Left == IF offset < size THEN size - offset ELSE 0
Wanted ==
  CASE call = "load" -> file_size
    [] call = "load_buffer" -> Least({file_size, Room})
    [] call = "copy" -> Chunk
Moved == Least({Wanted, MaxTransfer, Left})

ReadContents ==
  /\ pc = "read" /\ call \in {"load", "load_buffer"}
  /\ Go("close")
  /\ got' = Moved /\ offset' = offset + Moved
  /\ block' = IF block = "held" THEN "given" ELSE block
  /\ UNCHANGED <<files, fds, file_size, pending, others>>

(* The memory of a load is neither given to the caller nor freed.           *)
ReadFails ==
  /\ pc = "read" /\ (call = "load" => file_size > 0)
  /\ Fail("read", "READ_FAILED", "close")
  /\ UNCHANGED <<files, work, others>>

WriteContents ==
  /\ pc = "write" /\ call = "write"
  /\ \E n \in 1 .. Least({Room, MaxTransfer, MaxSize}) : dst' = n /\ got' = n
  /\ Go("close")
  /\ UNCHANGED <<size, onto_itself, fds, offset, file_size, block, pending, others>>

WriteFails ==
  /\ pc = "write" /\ call = "write"
  /\ Fail("write", "COULD_NOT_WRITE", "close")
  /\ UNCHANGED <<files, work, others>>

-----------------------------------------------------------------------------
(* open of the destination of a copy truncates it, the source too when they *)
(* are one file.                                                            *)
OpenDst ==
  /\ pc = "open_dst" /\ Go("read")
  /\ fds' = fds \cup {"dst"} /\ dst' = 0
  /\ size' = IF onto_itself THEN 0 ELSE size
  /\ UNCHANGED <<onto_itself, offset, file_size, block, got, pending, others>>

OpenDstFails ==
  /\ pc = "open_dst" /\ Fail("open_dst", "COULD_NOT_OPEN_DEST", "close")
  /\ UNCHANGED <<files, work, others>>

CopyRead ==
  /\ pc = "read" /\ call = "copy" /\ Moved > 0
  /\ Go("write")
  /\ pending' = Moved /\ offset' = offset + Moved
  /\ UNCHANGED <<files, fds, file_size, block, got, others>>

(* Mutant: a read of no bytes is tried again.                               *)
CopyRetriesAtEnd ==
  /\ pc = "read" /\ call = "copy" /\ Moved = 0
  /\ UNCHANGED vars

CopyReachesEnd ==
  /\ pc = "read" /\ call = "copy" /\ Moved = 0
  /\ pc' = "close" /\ res' = "SUCCESS"
  /\ UNCHANGED <<call, failed, files, work, others>>

(* Mutant: the bytes a short write left out are skipped.                    *)
CopyWriteSkips ==
  /\ pc = "write" /\ call = "copy"
  /\ Go("read") /\ pending' = 0
  /\ \E n \in 0 .. pending : dst' = Least({dst + n, MaxSize})
  /\ UNCHANGED <<size, onto_itself, fds, offset, file_size, block, got, others>>

CopyWrite ==
  /\ pc = "write" /\ call = "copy" /\ dst + pending <= MaxSize
  /\ Go("read") /\ pending' = 0
  /\ dst' = dst + pending
  /\ UNCHANGED <<size, onto_itself, fds, offset, file_size, block, got, others>>

CopyWriteFails ==
  /\ pc = "write" /\ call = "copy"
  /\ \E n \in 0 .. pending - 1 : dst' = Least({dst + n, MaxSize})
  /\ Fail("write", "WRITE_FAILED", "close")
  /\ UNCHANGED <<size, onto_itself, work, others>>

-----------------------------------------------------------------------------
(* close gives the descriptor back also when it reports an error.           *)
CloseResult(ok) ==
  CASE call = "load" -> IF res = "SUCCESS" /\ ~ok THEN "CLOSE_FAILED" ELSE res
    [] call = "load_buffer" -> IF ok THEN "SUCCESS" ELSE "CLOSE_FAILED"
    [] call = "write" -> IF ok THEN res ELSE "COULD_NOT_CLOSE"
    [] call = "copy" -> res

(* Mutant: a copy that stops early leaves its source open.                  *)
CloseForgetsSource(ok) ==
  /\ pc = "close" /\ pc' = "idle"
  /\ fds' = IF call = "copy" /\ res # "SUCCESS" THEN fds \ {"dst"} ELSE {}
  /\ res' = CloseResult(ok) /\ failed' = IF ok THEN failed ELSE failed \cup {"close"}
  /\ UNCHANGED <<call, files, offset, file_size, block, got, pending, others>>

Close(ok) ==
  /\ pc = "close" /\ pc' = "idle"
  /\ fds' = {}
  /\ res' = CloseResult(ok) /\ failed' = IF ok THEN failed ELSE failed \cup {"close"}
  /\ UNCHANGED <<call, files, offset, file_size, block, got, pending, others>>

(* Another program makes the source longer or shorter.                      *)
OthersChange(n) ==
  /\ changes < MaxChanges
  /\ size' = n /\ changed' = TRUE /\ changes' = changes + 1
  /\ UNCHANGED <<call, pc, dst, onto_itself, work, res, failed, original>>

Works ==
  \/ Open \/ Stat \/ Memory \/ ReadContents \/ WriteContents
  \/ OpenDst \/ CopyRead \/ CopyReachesEnd \/ CopyWrite \/ Close(TRUE)

Fails ==
  \/ OpenFails \/ StatFails \/ MemoryFails \/ ReadFails \/ WriteFails
  \/ OpenDstFails \/ CopyWriteFails \/ Close(FALSE)

Next ==
  \/ \E c \in Calls, good, itself \in BOOLEAN : Begin(c, good, itself)
  \/ Works \/ Fails
  \/ \E n \in Sizes : OthersChange(n)

(* A call is carried on by its thread; no system call is assumed to fail.   *)
Spec == Init /\ [][Next]_vars /\ WF_vars(Works)

-----------------------------------------------------------------------------
Returned == pc = "idle" /\ call # "none"

(* Whatever failed, no call returns with a descriptor open.                 *)
DescriptorsClosed == Returned => fds = {}

(* What os.h calls the result of a load or a write of which a part failed.  *)
NameOf(what) ==
  CASE what = "parameters" -> "BAD_PARAMETERS"
    [] what = "open" -> "COULD_NOT_OPEN"
    [] what = "stat" -> "COULD_NOT_GET_FILE_SIZE"
    [] what = "memory" -> "COULD_NOT_GET_MEMORY"
    [] what = "read" -> "READ_FAILED"
    [] what = "write" -> "COULD_NOT_WRITE"
    [] what = "close" -> IF call = "write" THEN "COULD_NOT_CLOSE" ELSE "CLOSE_FAILED"
FailureNamed(c) ==
  Returned /\ call = c /\ failed # {} => \E what \in failed : res = NameOf(what)
WrittenWhole == Returned /\ call = "write" /\ res = "SUCCESS" => dst = Room

(* A load into new memory names what failed; its SUCCESS has given the      *)
(* caller as much as the file had, unless the file changed meanwhile or is  *)
(* larger than one read; only a failed read leaves memory that nobody has.  *)
(* Of a load into a buffer only the bytes it tells of can be trusted, its   *)
(* result cannot: it may be SUCCESS after a failed fstat or read.           *)
LoadTruthful ==
  /\ FailureNamed("load")
  /\ Returned /\ call = "load" =>
       /\ failed = {} => res = "SUCCESS" /\ (~changed => got = Least({original, MaxTransfer}))
       /\ block = "held" => "read" \in failed
       /\ got > 0 => block = "given"
  /\ Returned /\ call = "load_buffer" =>
       /\ failed = {} => res = "SUCCESS" /\ (~changed => got = Least({original, Room, MaxTransfer}))
       /\ got > 0 => failed \subseteq {"close"}

(* A write that began names what failed; its SUCCESS means that the file    *)
(* has the bytes the caller is told of, not that these are all it asked for.*)
WriteTruthful ==
  /\ failed # {"parameters"} => FailureNamed("write")
  /\ Returned /\ call = "write" /\ failed = {} => res = "SUCCESS" /\ got = dst /\ got > 0

(* A copy that returns SUCCESS has reproduced the whole source, unless      *)
(* others changed it or source and destination are one file.                *)
CopyComplete ==
  Returned /\ call = "copy" =>
    /\ res = "SUCCESS" => failed \subseteq {"close"}
    /\ res = "SUCCESS" /\ ~changed /\ ~onto_itself => dst = original

(* os.h of the results: each names what failed, also of a load into a       *)
(* buffer and for invalid arguments, and after SUCCESS of a write its input *)
(* "was written to disk".                                                   *)
AsDocumented == FailureNamed("load_buffer") /\ FailureNamed("write") /\ WrittenWhole

(* Every call returns, the loop of a copy too, once others leave the source *)
(* alone.                                                                   *)
CallsReturn == pc # "idle" ~> pc = "idle"
=============================================================================
