# Models and proofs of jacks_standard_library

TLA+ specifications of the parts of the Jack's Standard Library whose
correctness depends on *histories*: several processes or threads, other programs
that change the file system meanwhile, or a long sequence of calls on a linked or
hashed structure while allocations fail. TLC checks them on small instances, and
TLAPS proves the central invariants for every value of the constants. All paths
below are relative to the repository's `src/` (`jsl/os.c`, `tools/...`).

## 1. Inventory

The library is C11 without a runtime of its own: no background threads, no event
loop. Whatever runs concurrently with it is a child process, the kernel, the
SIGCHLD handler, another program on the same files, or another thread of the host
program.

| Component | Code | State it keeps | Operations | What is hard |
|---|---|---|---|---|
| SIGCHLD self-pipe | `os.c` 3897-4052 | process globals: the pipe's fds, the saved `sigaction`; the signal mask and disposition | handler, `ensure_installed`, `drain`, `reap_nohang` | signals coalesce and arrive between any two instructions; the globals are shared by threads; the host may have a handler of its own |
| Blocking batch | `os.c` 5473-6254 | `status`, fds, offsets per proc; `live_count`, `next_to_spawn`, deadline | `run_blocking`, `run_blocking_options` | N children interleave with the pump loop; pipes fill; a parallelism cap; deadline; kill waves |
| Background API | `os.c` 6277-7477 | the same per handle, `pid`, `is_background`, `sentinel` | `background_start`, `send_stdin`, `receive_output`, `poll`, `kill`, `wait`, `cleanup` | any calls in any order; the child changes state inside a call; pid lifetime; three results of a wait; on Windows, operations in flight that own a buffer |
| Subprocess configuration | `os.c` 2393-3030 | duplicated strings, arrays of args and environment, descriptions of three streams | `init`, `arg`, `set_env`, `unset_env`, `set_stdin_*`, `set_stdout_*`, ... | ownership of duplicates, allocation failures half way, setters called twice |
| Files | `os.c` 70-2390 | none but the system's: entries, open descriptors, the frames of a walk | type, size, load, write, copy, rename, delete, make; iterator; copy and delete of a directory | another program between two system calls; each of them failing; link loops; a destination inside the source |
| Pool allocator | `allocator_pool.c` | a free list and a checked-out list through chunk headers | `init2`, `allocate`, `free`, `free_all` | double free, foreign pointers, unlinking through `prev_next`, layout arithmetic at the end of the memory |
| Arena, infinite arena | `allocator_arena.c`, `allocator_infinite_arena.c` | a bump pointer; a reserved and a committed range; restore points | allocate, reallocate, reset, save, load, release | which block is the last one, alignment at the end of the memory, a commit that is refused |
| Libc allocator | `allocator_libc.c` | a doubly linked list of headers | allocate, reallocate, free, free_all, children | a list that is freed while it is walked, children in blocks of their parent |
| String set | `str_set.c` | a lookup table of entries, empties and tombstones, a free list, counters, a generation | `init2`, `insert`, `has`, `delete`, `clear`, iterator, set operations | probe chains after deletions, rehash, iterators over a changing set, failed copies |
| String map, multimap | `str_to_str_map.c`, `str_to_str_multimap.c` | the same, with values, lists of values and two counts | insert, get, has, delete, clear, iterators | the same, and lookups that write the table |
| Generated hash map | `tools/generate_hash_map` | parallel arrays of a fixed length | insert, get, delete, iterator | a deletion that shifts what is behind it back |
| Generated array, string builder | `tools/generate_array`, `string_builder.c` | a block, length and capacity | insert, insert_at, delete_at, append, clear | growth that fails, moves inside the block |
| Command line | `cmd_line.c` | flags, values, commands, the list of the rest | parse, parse_wide, has, pop | which argument a flag takes, an allocation that fails in the middle, malformed text |
| Core | `core.c` | none | searches, counts, numbers, powers of two; comparison, stripping, formatting | five search algorithms chosen by build and lengths, with shifts and blocks; limits of the types |

How they interact. Every container takes an *allocator interface* (function
pointers) and calls it for entries, tables and copies; the pool, the arenas and
the libc allocator implement it. A subprocess handle owns copies made through its
allocator, kernel pipes, and a pid. The batch runner and `background_wait` share
the pumps, the self-pipe and `reap_nohang`; the self-pipe is where their threads
and the handler meet. The copy of a directory drives the iterator and copies a file
for each entry it reports. The command line keeps its flags in the set and in the
multimap. Output goes to *sinks* (callbacks; the string builder is one).

What makes each correct, beyond its types:

* **self-pipe**: a thread never sleeps in `poll()` while a child of its own is
  dead and nothing will wake it; chaining never reaches our own handler; a wait
  that returns has collected all its children;
* **batch**: `live_count` is the number of children; no output and no input is lost
  whatever the order of exits and pumps; the call returns; the result means what
  `os.h` says;
* **background**: a pid in a handle is its own child's; cleanup leaves nothing; on Windows a
  buffer the kernel owns is let alone;
  output that was written can be had after the exit; the wait's result means what
  `os.h` says; the calls return;
* **configuration**: whatever allocation failed, the handle points to no memory that
  was given back, and the last successful call for a variable or a stream holds;
* **files**: a walk reports every path once, parents first, and misses none unless it
  could not be read; a copy that succeeds is complete, a deletion that succeeds
  leaves nothing and touches nothing outside; SUCCESS is never told of bytes that
  are not there; nothing stays open; everything ends;
* **allocators**: blocks in use never overlap; the lists are exactly what is in use;
  a free succeeds exactly for an outstanding chunk; what is handed out is backed;
* **containers**: they are the set, map, multimap or sequence they stand for, whatever
  the collisions, tombstones, rehashes and failed allocations; their counters count;
  an iteration over an unchanged container gives each element once;
* **searches and numbers**: whichever algorithm is chosen, the first occurrence is found; a
  number is read exactly up to the limits of its type;
* **command line**: each argument ends up where the grammar puts it, exactly the
  faulty lists are refused, and a refusal leaves nothing behind.

The hazards of the code, each with its line and the properties that watch it, are
listed in `PROJECT.json`.

## 2. Plan

In order of importance. Written, checked and described in section 3: the self-pipe,
the batch runner, the background API, both on POSIX and on Windows, and the configuration; the pool, both arenas and
the libc allocator; the string set and its operations, the map, the multimap, the
generated map and array, the string builder; the command line; the file system calls; the
searches and the numbers of the core.
Proved: the self-pipe, the batch runner, the background API on POSIX, all of the Windows
code, all the allocators, the string set and its operations, the generated map and array, the
string builder, the searches; of
the file system what stays open, the order of a walk, the deletion, the calls on one path and
the transfers.

To come:

1. Proofs: the map and the multimap, along the lines of that of the set; that a walk misses
   nothing and `CopyFaithful`, which need an induction over the tree.
2. A second captured stream in `SubprocessWindows`.
3. An abstract `BatchLifecycle` that the batch runner refines: a proc goes from not
   started to running to terminal, at most `MaxParallel` at a time.
4. A small module for the window in which SIGPIPE is ignored by one thread while
   another saves the disposition.

Runs stay under five minutes each on two workers. Components that work alone
share a run (section 3.11), so that the project can be rerun as a whole. A module one
wants to prove about has no RECURSIVE operator; there is none in the project.


## 3. Modules

Names follow the code: a variable is the field or local of that name, an action the
function or the part of it between two system calls. `PROJECT.json` gives for every
definition the lines it stands for. Abstract specifications are called `Abstract*`,
proofs `*Proofs`, instances for TLC `MC*`. An operator whose comment begins with
*Mutant:* is no part of the model: it is the definition after it with a plausible
bug, and shows that the property it is meant for can fail.

### 3.1 `SigchldSelfPipe`

Threads start children and wait for them; the pipe, the saved action and the
disposition are globals. A child is unborn, running, a zombie, reaped, or stolen by the
host's handler. SIGCHLD is one pending bit, as the kernel keeps it. There is one
action per system call or shared access of `ensure_installed`, `background_wait` and
`reap_nohang`, so that `Exit` and `Deliver` (the whole handler with its chain) come
between any two. A handler that runs in a thread inside `poll()` makes it return
EINTR: the thread then looks at the globals again, which is `polled` changing.

### 3.2 `SubprocessBatch`

One call of `run_blocking_options` on POSIX. Its `pc` goes round fill, poll, pump, reap,
check, and from there to finish, killpoll and close. One pass of a `for` loop over the
procs is one action per index: children run between any two indices. `holders` says
which processes hold the write end of a stdin pipe: pipes are not close-on-exec, so
every child spawned while the end is open has a copy. `Poll` returns when a
descriptor is ready, the self-pipe has a byte or time is up, with what is ready then; a
child that was sent SIGKILL dies in a step of its own; a spawn may fail.
The self-pipe is one bit here; 3.1 says why that is enough for one thread.

### 3.3 `SubprocessBackground`

N handles, one client thread, any call on any handle at any time. `start`, `send_stdin`,
`receive_output` and `kill` are one action: they block on nothing. `poll`, `wait` and
`cleanup` go through `pc` with children moving between their steps. The program around may collect a
child itself (`HostCollects`): then `poll` fails and keeps the pid, and cleanup finds no child. The one
`waitpid` of cleanup may be cut short by a signal (`CleanupInterrupted`); its result is ignored. The procs of a wait are
an array in the code and `slots` here, `waiting` those not terminal yet, `ioFailed` what
decides between the three results. A pid is a boolean, since what matters is whether
the handle has one and whose it is.

### 3.4 `SubprocessWindows`

`run_blocking_options` and the background calls on Windows. An overlapped operation is a state
(`writeOp`, `readOp`) that the library sets in flight and the kernel moves, completes, breaks, fails
or aborts in steps of its own, in any order with the end of the process; a cancelled one is in
flight until it is aborted, or completes after all. What the handle believes (`writePending`,
`readPending`) is apart from that. The functions of the library call one another in
several places, so a call is a list of tasks `todo`: a pump, the finalizer, an index of a
`for` loop, or what is recorded after them, each between two points at which the kernel can
intervene. `WaitForMultipleObjectsEx` is `Wakes`, with the lowest signalled handle of the
group, or `RunWakes`, after which the whole table is gone through (`Scan`). The scratch buffers
have a capacity in chunks, doubled up to a limit. `client` is chosen at the start and
says which calls are made, which handles are fed and captured, which
timeouts are used, and whether the system may refuse what it is asked.

### 3.5 `SubprocessConfig`

A handle before the spawn: what it points to are numbered blocks, of which the
allocator gives the smallest that is free, or none. `Reserve`, `Owned`, `Overlay` are the
growth of an array, the copies of a key and a value and the swap-delete. `told` is a
history: the last value each successful call set; `abandoned` are blocks whose only
pointer was overwritten, which the code accepts when a setter is called twice. Copies of a
text of no bytes fail (`Empty`), as `jsl_duplicate` does.

### 3.6 Pool: `AbstractPool`, `PoolAllocator`, `PoolLayout`

`AbstractPool` is a set of free chunks and a set of chunks in use. `PoolAllocator` has the two
intrusive lists with `next` and `prev_next`, a pointer that may point to a list head; one
iteration of `free_all` is one action. It refines `AbstractPool` (`KeepsPromise`).
`PoolLayout` is the loop of `init2` over addresses in bytes, from which the other takes
which chunks lie in the memory.

### 3.7 `BumpLayout`, `Arena`, `InfiniteArena`, `LibcAllocator`

`BumpLayout` is the arithmetic both arenas share. The arenas keep the bump pointer, the
saved point and, as a history, the blocks their users hold with the size each was
promised; a user gives up what a reset, a rewind or a move took from it. `InfiniteArena`
adds the committed range, on Windows committed in granules by a call that may be refused, and
`release`. `LibcAllocator` is the doubly linked list in headers, where the state of a child
allocator lies in a block of its parent; `free_all` is one action per node.

### 3.8 Containers

`StrSet`, `StrToStrMap`, `StrToStrMultimap` and `FixedHashMap` keep the table slot by slot, with
tombstones, counters, the free list and the generation an iterator compares. `Probe` is the
loop over slots as a set of places; in the map it writes. `Insert` is the whole function: the
rehash it may begin with, the entry from the free list or the allocator, the copies. An
allocation fails in an action of its own wherever the code looks at its result, and
where it does not (`jsl_duplicate` in the set and the maps) the string is lost, and the last call
names it; the table that `init2` does not check is NULL (`NoTable`), and no step is left for
a call that would follow it. Each implements an
abstract container: a set, a function, a function to bags, one of limited size. These promise
what the headers say but for named exceptions, each an action of its own: an insertion that lost
a string, and a full generated map that refuses a new value. `FixedHashMap` keeps of every
string the memory it lies in and its lifetime, which a backshift does not move.
`SetOperations` works on sets as values, because `StrSet` has shown them to be that, and follows
the two iterators and the generation. `DynamicArray` and `StringBuilder` implement the
same `AbstractSequence`; growth is to a power of two, and of 1 the helper is undefined.

### 3.9 `CmdLine`, `Unicode`, `StringSearch`, `Numbers`

`CmdLine` takes one argument, or a flag with its value, per step; an argument is what the
parser tells apart (`Kinds`). `Unicode` is the validation of an argument, character by
character, and the conversion from `wchar_t` in two passes. Its properties compare
both with a definition of well-formed text as ranges of code points.

`StringSearch` has a record for the build: how many positions a vector holds, from which
length vectors are used. A block of positions is one step, since the mask is computed at once
and its bits are taken from the lowest; so are a byte of the backward scan of a bit-parallel
window, where `D` is the set of the bits that are 1, and a shift of the search by
the byte behind the window. `Numbers` reads a number character by character and smears bits
shift by shift, over types of `Bits` bits; the builtin that counts leading zeros is the other
build of the same functions.

### 3.10 Files: `DirectoryIterator`, `DirectoryCopy`, `DirectoryDelete`, `FileEntries`, `FileTransfer`

A directory is a node, an entry a name with a kind and the node it leads to; a path is a
sequence of names, and its width the length the code compares with FILENAME_MAX. The walk
has a stack of frames; `next` is taken apart at readdir, lstat and opendir. `DirectoryCopy`
extends it and adds to the very tree it walks. `DirectoryDelete` has both platforms: nftw() in
post-order, and the recursion of Windows; a directory of it may be unreadable, which `rmdir`
takes if it is empty, and a failed readdir or FindNextFile looks like its end. `FileEntries` has the calls on one path, with a
change by others possible between any two system calls, `FileTransfer` those that move
contents, counted in units, with short reads and writes.

### 3.11 Modules that put several together

The subsystems share no state except through calls, and are checked apart. To have them
in few runs, `MCLibrary`, `MCFiles`, `MCMaps`, `MCPosixRuns` and `MCSubprocessBackground` choose in the
initial state which part runs; the others stand still, with no fairness that would ask
them to move. A property of such a run is a conjunction of those of its parts, named in
the module. The runs that expect a violation let one part run alone, without the fairness
of the others; `Pool_layout_overrun` has no MC module, its instance being in the cfg.
What the two calls of `MCPosixRuns` ask are the constants `Asked` and `AskedOfWaves`, so that
`PosixRunsProofs` speaks of any two calls; the cfg gives them `TwoProcs` and `ThreeInWaves`.
So are `Paired` and `Windows` of `MCSubprocessBackground`, with `TwoInArrays` and `TwoOnWindows`, and
for `LibraryProofs` the arguments of the allocators, the searches and the containers of `MCLibrary`:
`LayoutAsked`, `ArenaAsked`, `GrowingAsked`, `LibcNodes`, `SearchAsked`, `SetAsked`, `SetsAsked`, `FixedAsked`,
`ArrayAsked` and `BuilderAsked`; for `FilesProofs` `DeleteAsked`, `EntryAsked` and `TransferAsked` of `MCFiles`, beside the
constants of the walk and the copy, which `MCFiles` extends.

## 4. Runs

Every run takes less than five minutes on two workers. Those that expect a violation show
a difference between the code and what the repository says of it; section 6 has them.

| Run | What it asks | Instance |
|---|---|---|
| `Posix` | No wake-up lost, chain, every exit observed; slots, streams, results, return of the blocking call | one thread, three children, install may fail; or two procs, one fed, one captured on stdout, streams of 2 chunks through pipes of 1, with failing reads and writes, no timeout or one; or three procs in waves of two, timeout 0 |
| `Background` | pids, cleanup, drains, results and return of every background call, and on Windows of the blocking one; no buffer touched under an operation | one handle with streams of 3 chunks through pipes of 2, failures, a program that collects the child, a signal in cleanup; or two handles in overlapping arrays; or Windows, with one of eight clients: one handle captured, fed or both, two in groups of one, runs of two |
| `Files` | Walks, copies, deletions, one-path calls, transfers, configuration | see below |
| `Maps` | Map and multimap behave as such; only a string whose copy was refused is lost | tables of 4 (rehash to 8), load factor 99, two keys and values, one of each copied, two copies, tombstones up to 2 |
| `Library` | The allocators, the other containers, the command line, the searches, the numbers | see below |
| `SelfPipe_two_threads` | `NoLostWakeup` fails | two threads with a child each |
| `Batch_inherited_stdin` | `FedChildSeesEof` fails | two procs, the first fed, the second need not finish |
| `Pool_layout_overrun` | `EveryChunkFreeable` fails | a few memories and sizes |
| `Map_lost_copy` | `MapTrueMeansDone` fails | the map of `Maps` |
| `Files_transfer_results` | `TransfersAsDocumented` fails | the transfers of `Files` |
| `Files_junction` | `LinksNotFollowed` fails | the deletion of a directory with a link in it |
| `IndexOf_reverse` | `LastFound` fails | the strings of `Library`: 0, 1, 2 or 7 letters, vectors of 4 and 2 |

**Bounds and why they are enough.** A pipe needs two states between empty and full to tell
"some" from "all"; streams are longer than their pipe, so that both sides block. Two procs show
every interference the loops allow (a slot, an inherited descriptor, a wake-up); three are
needed where a wave must follow another. On Windows a group has one handle for 16, so that two handles are
two groups; buffers go from 1 chunk to 2 for 4 KB to 1 MB, so that a stream of 2 is met by a buffer that
grows and by one that has grown, and a write is larger than its pipe. A table of 4 slots with two colliding keys gets
full, wraps around, and is rehashed; more keys repeat the same cases. The set has two entries and three tombstones, one of its values is copied; the
generated map has 4 slots for 2 items, some of its strings copied and some the caller's. A pool of four chunks
and a stranger has a head, a tail and two in the middle. The arena has 72 bytes from an aligned and an
unaligned address: two blocks and not a third. The infinite arena has two granules. Three nodes
of the libc allocator are an allocator, a child and a block, or three neighbours of a list.
Of the two trees of `Files` one fits all limits, with a link that leads back up, so that a copy of it
succeeds, and the other has a branch one level deeper than
`MaxDepth` = 3; names have lengths 1 and 3 and a path at most 7 (9 in the destination), so that both limits
are met. A copy goes into its source or beside it, to directories enough for both trees. One system call may
fail, or one change come from another program; in a
deletion, of five trees with up to three levels, three of those. A transfer has 3 units, blocks of 2 and a buffer of 2: less than,
exactly and more than a block. The configuration has 7 blocks, arrays that grow with the second
element (`Capacity` = 1); the constraint `FewAtOnce` follows one part of a handle at a
time, because the setters of different parts share only the allocator, and one abandoned
block. A command line is any list of three of eleven arguments that the parser tells apart,
then one of four lists into the same container. Texts are bytes or units on both sides of
each boundary of the encodings, up to four bytes, three 16-bit units or two 32-bit ones. A search
is over two letters in strings shorter and longer than a vector, for substrings up to one byte longer
than a word (`WordBits` = 4 for 64), with vectors of 4 and 2 in place of 64, 32 and 16: each
algorithm is chosen, ends inside and behind its last block, and shifts by every distance. Types of 6
bits have all their powers of two, and limits of two digits.

**Fairness.** Weak fairness of the steps of a call (a thread that can run does), of time and
of the delivery of signals. None of the client: it need not call anything. None of
failures and none of other programs. A child that was sent SIGKILL dies. For the rest of what a
child does: `SubprocessBatch` names by timeout the cooperative ones, all with an infinite
timeout (without it the call need not return), none with a deadline, where the call returns
whatever they do. `SubprocessBackground` assumes that children finish, because a wait without
timeout is a wait for that; its `CallsReturn` leaves out a poll with an infinite timeout,
which pumps nothing while its child may be waiting for a reader (`os.h` says so), and a wait without
timeout for a child that the program around has collected, which never ends; `Background` checks it for the two
handles, in whose instance no such program runs.
`SubprocessWindows` assumes the same, and that the kernel completes what can complete, and what was
cancelled; it does not assume that TerminateProcess succeeds where the system may refuse.

**Deadlock** is checked, except in `Files`, `Files_junction`, `Files_transfer_results`, `Library`, `IndexOf_reverse`,
`Background` and `Pool_layout_overrun`: their computations end, and nothing has to follow a
deletion, a parse, a search, the layout of a pool or, in the Windows clients, a run after which no
handle is left to start. That no call hangs is `AllCallsReturn`.

## 5. Proofs

Checked by TLAPS for every value of the constants that meets the named assumptions.

* `SubprocessBackgroundProofs`: `TypeCorrect`, `PidsSafe`, `CleanupSafe`, `WaitSafe`, `DrainSafe`, for any
  number of handles and sizes, with or without a program that collects children and signals in cleanup.
  `PidInv` ties the pid to the state of the child and of the handle,
  `CallInv` says which handles the call under way works on, `SlotsInv` what `slots`, `waiting` and
  `ioFailed` have recorded of the handles; `WaitSafe` follows where a wait ends. For `DrainSafe`,
  `StreamInv` says that what a child wrote is in its sink or its pipe unless a read failed, and that
  only an empty pipe of a handle in use is closed; `DrainInv` that a terminal handle has an empty
  pipe or an error, except a slot that the drain at the beginning of a wait has not come to.
* `SubprocessBatchProofs`: `BatchTypeCorrect`, `SlotsSafe`, `OutputSafe`, `InputSafe`, `ReturnSafe`, `KillsSafe`,
  for every call that `Configuration` allows. None of these properties is inductive. `BatchInv` adds
  what the code keeps in two places: `StatusInv` relates a status to the state of the child,
  `SlotInv` the counters to the set of children not waited for, `InputInv` and `StreamInv` the
  offsets and sinks to what is in the pipes, `ReadyInv` what `poll` reported to what is still open,
  `CallInv` the flags of the call to the statuses that `ReturnContract` speaks of.
* `PosixRunsProofs`: of the self-pipe `TypeCorrect`; `WakeupSafe` and `ChainSafe` for one thread; `ReapSafe` for
  any number. `NoLostWakeup` is not inductive: `WakeupInv` adds, for each place of the loop,
  where the news of a dead child is (the pending signal, the byte, or a waitpid pass still to
  come that covers it). `InstallInv` orders the three globals during an
  installation, `ReapInv` relates `waiting` and the current pass to the states of the
  children. With two threads the first statement is false, which is the run
  `SelfPipe_two_threads`. Then the properties of the run `Posix`, for the
  self-pipe beside any two calls, with the step lemma of `SubprocessBatchProofs`: a part that does not
  run stands where nothing was started.
* `SubprocessWindowsProofs`: `WindowsTypeCorrect`, `WindowsOutputSafe`, `WindowsInputSafe`, `WindowsCleanupSafe`,
  `WindowsReturnSafe`, `WindowsBuffersSafe`, under `WindowsArguments` (at least one of everything that is
  counted, an initial buffer no longer than the maximum, a client of known calls). Their
  invariant `WindowsInv` has thirteen parts. `TaskInv` says which task may lie on which, so that whoever
  asked for a pump is known when it returns. `WriteInv` and `ReadInv` say what a pending flag knows
  of the operation: without it, an operation in flight is one that was cancelled, and a pump
  that is about to reuse the buffer has none. `InputInv` and `OutputInv` find every chunk in the
  memory, the operation, the pipe or the child, also after a piece moved only in part.
  `DrainInv` and `DrainHarvested` say that a handle reported terminal whose output is still open
  is about to be finalized, which is why a late completion is not lost. `CallInv`, `WaitInv` and
  `RunInv` tie the locals of a call to the handles, and `ResultInv` keeps what the last result
  said true until the next call. There is a lemma for each action.
* `BackgroundRunsProofs`: `WaitContracts`, `WindowsSound` and `BuffersHeldForKernel` of the run `Background`, for
  any two configurations of its instances, from the step lemmas of the two modules about them. A part that does not
  run stands at its beginning, where its invariant holds.
* `AllocatorProofs`, each theorem under the named assumption on the constants of its module:
  - `ArenaBlocksApart`, `InfiniteArenaBlocksApart`. The invariants (`ArenaInv`, `GrowingInv`) say that the blocks
    lie apart between the beginning and the bump pointer, and that those of the restore point do
    so before the saved one; the lemmas say what one more block, the last one resized and fewer
    do to that. Of the rounding only `AlignedPast` is needed: it goes forwards, by less than
    the alignment.
  - `InfiniteArenaCommitted`: `CommitInv` says that `committed_bytes` is what the system has committed, in whole
    granules, and that every block of a Windows build ends in it. A reallocation in place
    moves the bump pointer before it commits and does not move it back, so the theorem
    assumes that no reallocation is refused memory (`NeverRefused`) and that the reservation ends with a
    granule (`WholeGranules`). The refusal that no assumption removes, that of 0 bytes, is
    shown to come only where nothing was to be committed (`RefusalIsOfNothing`).
  - `LibcTouchesNothingFreed`, `LibcFreesAll`, `LibcListsSound`. `LibcInv` has for each allocator in use a sequence
    of the headers it has from malloc, oldest first, with the pointers between neighbours; during a walk
    of free_all, for the one that is freed, what is left of it. Linking and unlinking are proved to
    append to its own sequence and to remove from it, and to touch no other. `ListsSound` follows
    the pointers a number of times; that this runs through the sequence is an
    induction, made by a least counterexample (`LeastOf`, from the well-foundedness of
    the strict subset order of the library). It assumes finitely many headers.
  - `PoolChunksApart`: `LayoutInv` orders the chunks of the loop of `jsl_pool_init2`.
* `LibraryProofs`, first the pool: `PoolTypeCorrect`, `PoolListsSound`, and `PoolKeepsPromise`, the refinement of
  `AbstractPool`. `ListsSound` is inductive with the types. It says of each list that its chunks are
  closed under `next`, that no two pointers are equal, and that they are the least such
  set: lemmas say what a push, a pop and an unlinking do to that. The refinement
  assumes that every chunk starts inside the memory (`ChunksFit`), which
  `Pool_layout_overrun` shows the code does not always give.
  Then `LibraryBlocksSound`, for any instances of the allocators, the array and the builder
  (`OneOf` gives those that stand still some argument), of the allocators from the step lemmas of
  `AllocatorProofs`. Of the infinite arena it keeps the two assumptions (`GrowingAssumption`), of the libc
  allocator the finitely many headers.
  `LibraryArrayKeepsPromise` and `LibraryBuilderKeepsPromise`: the generated array and the string builder
  implement `AbstractSequence`, for any capacity and any elements (`ArrayArguments`, `BuilderArguments`). `ArrayInv`
  says that the elements are the first `length` cells of the block, which has `capacity` of them;
  the lemmas give, cell by cell, what the two `memmove`s of an insertion and a deletion leave, and
  that the abstract insertion and deletion are the same sequences. They are the two conjuncts of
  `ContainersKeepPromise` about these parts.
  `LibraryContainersSound` and `LibraryContainersKeepPromise`, for any values, any hash of them, any load
  factor and any lengths (`SizesAssumption`, `ValuesAssumption`, `Sizes`):
  - The generated map. `FixedInv` says of every entry that all slots from its home to its own are in use, which
    is why a probe may stop at a free slot. The backshift of a deletion breaks that for one slot at
    a time: `Shifting` says that only the hole is missing on a path, that it is not on the path of
    any entry already passed, and that the other entries are still there; `Shifted` says that the path
    of every entry is whole when the walk has met a free slot, which it does because at most three
    quarters of the slots are used (`SlotsCounted`).
  - The string set. `Placed` says that an entry is in at most one slot or in the free list, as its state says, that a
    value is set once and no slot before it on its path is empty; a tombstone keeps the path.
    `Rehash` carries that over from the old table to one twice as long, slot by slot (`Migrated`), and
    shows that a new table is never full. Of the tombstone counter only this is true and
    needed: it is at least their number, since a probe counts those it passes again.
  - Union, intersection and difference: `LoopsOver` says what an iteration has still to return, `Collected` that everything
    wanted is in `out` or still to come, unless an insertion failed or lost its copy. Where `out` is
    one of the two that are read, an insertion ends the iteration, and then everything is there.

  Copies may fail in both: the abstract set and map have an insertion that loses a string as an
  action of their own, taken only by a call whose copy was refused, and the theorem about the
  promises has no assumption on the allocator. Of the generated map it says no more than
  `AbstractFixedMap`, which lets a full map refuse an update; `LibraryContainersSound` adds that the lifetimes
  tell the copies from the caller's strings until a deletion moves an entry (`LifetimesKept`). The recursive functions of the two tables (`Backshift`, the rehash, the entries freed by
  a clear) run up to the length of a table, so that what they compute is shown step by step up to
  it (`UpTo`, `Recursive`, again by a least counterexample), not for all numbers.
  `LibraryFirstFound`, under `SearchArguments` (strings over the alphabet, vectors of any width): `SearchInv`
  says for each place of each algorithm that no occurrence begins before `pos`, and in the scan of
  a bit-parallel window that the bits of `D` are the places of the substring at which what was
  scanned fits, and that no shift below `last` leads to an occurrence (`ScanInv`). The shift of
  `jsl__sunday_search` is safe because the last place of the byte behind the window is the
  nearest it can be moved to.
* `FilesProofs`, about any run of `MCFiles`:
  - `FilesNothingLeftOpen`: `WalkInv` says that a directory is open exactly as long as its frame is there; a
    frame comes and goes only with its handle, also where a copy gives up in the middle of a
    walk. The transfers have the same in `Steps`, which says what is open at each place.
  - `FilesTransfersTruthful`, for any size of file, chunk and buffer: `LoadSafe`, `WriteSafe` and `CopySafe` say what has
    arrived by each read or write as long as nothing failed and the file was not changed. The property vouches
    for no more than the code does: a write may have been cut short, and of a load into a
    buffer only the bytes it tells of count; `Files_transfer_results` is about the rest.
  - `FilesEntriesSound`, an invariant and an action property: `EntryShape` says that what is at the path is among
    what has been there since the call began, and that nothing is removed before the last
    system call.
  - `FilesDeleteSound`, under `TreeArguments` (a directory has one place in a tree and nothing leads to the one
    above). Three things hold at every step. `Emptied`: whatever directory or link is there was there at
    the beginning, and a directory that has gone from its place is empty; it stays so because others
    add only to directories that are still in one. `Chained`: the frames are a chain of directories, each
    under its name in the one below, on POSIX all of them inside. `FirstKept`: the outermost frame
    with a failure has the first one, since a failure is passed up only to a frame without. At SUCCESS the
    empty directories are then a set closed under containment with the doomed one in it, and so have
    all that is inside (`GoneMeansEmpty`): no induction over the depth is needed.
  - `FilesWalkOrdered`: a walk reports no path twice, and every directory before what is in it. `OrderInv` says
    that each frame is a directory one level below that of the frame before and was itself reported,
    and that what was reported of an open directory is not left in its frame.

Only model-checked: everything about liveness and ENABLED, which the prover cannot
do (`CallsReturn`, `AllCallsReturn`, `CallsEnd`). The map and the multimap of
strings (the properties of `MCMaps`), whose tables are probed and rehashed like that of the set but have their
own pools of entries and keys. What would need induction over data: that a walk misses no path, the other half of
`WalkExact`, and what a copy leaves (`CopyFaithful`); the memory of a configuration, a sequence flattened out of a set
(`ConfigurationSound`); the parser and the conversions (`ParserSound`, `ConversionsExact`). The types of these and of
the others are in `TypesOK` of `MCLibrary`, `MCMaps` and `MCFiles`, which stay with TLC.

## 6. Where the code and its documentation differ

The models follow the code. Seven differences have a run whose counterexample shows them:

* `SelfPipe_two_threads`: one self-pipe for all threads, so one thread drains the
  wake-up of another, which then sleeps for ever (`os.c` 3995, `os.h` 1868).
* `Batch_inherited_stdin`: pipes are not close-on-exec; a child fed by the batch does not
  read end-of-file while a later sibling lives (`os.c` 3444, `os.h` 1261).
* `Pool_layout_overrun`: the last chunk may begin past the memory and is then never
  accepted back (`allocator_pool.c` 106, `allocator_pool.h` 164).
* `Map_lost_copy`: `insert` returns true when the copy of a key or a value found no memory
  (`str_to_str_map.c` 252, 312; `str_to_str_map.h` 276).
* `Files_transfer_results`: the results of transfers are not what `os.h` says of them, in three ways. Refused
  parameters, and a file that cannot be opened, end in a load into a buffer as READ_FAILED, the parameters of a
  write as COULD_NOT_OPEN (`os.c` 385, 408, 420, 512; `os.h` 132, 136, 157). A load into a buffer returns SUCCESS over a
  failed fstat or read (441; `os.h` 134, 138, 142). A write cut short returns SUCCESS (517; `os.h` 159). TLC stops at the first; each of the
  other two alone makes the property fail as well, two steps later.
* `Files_junction`: the Windows deletion enters directory links (`os.c` 885, `os.h` 356).
* `IndexOf_reverse`: with AVX2 the reverse search returns the lowest match of a block for the last,
  and does not look at up to 31 bytes before its last block (`core.c` 1145, `core.h` 1836).

Others were met while reading and are in the models as they are, without a run:

* `ensure_installed` is not atomic: two first calls at once may save the library's own
  handler as the one to chain to (`os.c` 3937-3975). A host handler that reaps makes
  waitpid() fail with ECHILD, which counts as still running (`os.c` 4032): the wait
  does not end. `poll` then fails and leaves the pid in the handle (3859), so that a kill could
  reach whoever has the pid next: `PidNamesOwnChild` says that this is the only case. The one waitpid of
  cleanup is not repeated after a signal and its result is not looked at (7431): `CleanupLeavesNothing` excepts
  a child whose collection a signal cut short.
* On Windows a wait with timeout 0 finds its deadline passed before it looks at a process,
  so a client that polls with 0 never sees an exit (`os.c` 7121, 7273; `os.h` 1853).
* A read error in the drain after an exit, and a stdin error in a wait, do not reach the result
  (`os.c` 5752, 5782, 6847; `os.h` 1597, 1844). `receive_output` reads until the pipe is empty,
  however fast the child writes (`os.c` 3733, `os.h` 1791). SIGPIPE is ignored and restored around
  a write, for the whole process (`os.c` 3671).
* `has` and `delete` of absent values change the number of tombstones (`str_set.c` 309).
  The map's lookups turn free slots into tombstones. An insertion without a rehash meets an empty slot, which it
  may fill: the table can be full until the next one (`CountsSound`).
* `insert` into the set returns true when the copy of a value found no memory (`str_set.c` 419, `str_set.h` 255). `init2` of
  the set and of the map return true when there is no memory for the table (`str_set.c` 58-70, `str_to_str_map.c` 106-114;
  `str_set.h` 216, `str_to_str_map.h` 214, 237), and most calls then follow NULL. The update of a value in the map overwrites a
  duplicate without giving it back, although free is said to give back everything (`str_to_str_map.h` 392):
  `MemoryAccounted` counts these apart.
* One read moves at most 2 GB (`os.c` 288). A copy of a file onto itself empties it
  (`os.c` 1973). With refused parameters the end of `jsl_copy_directory` ends an
  iterator that was never initialised (`os.c` 2254).
* A sign without digits is read as the number 0 of one character (`core.c` 1579). The loop over
  leading zeros looks at the byte behind the string before it compares the index (1553).
* An argument or value of no bytes is reported as a failed allocation (`core.c` 1358).
* A deletion of a directory on Windows returns NOT_FOUND when FindFirstFile fails with that for a directory in
  it, although the path exists (`os.c` 853-854, `os.h` 361-363). A readdir or FindNextFile that fails looks like the end
  (1514, 911); the walk then misses entries and says nothing. `WalkExact` is stated for walks in which no
  call failed, so it does not catch that. A move across volumes on Windows succeeds by a copy (2297), where `os.h` 712 says
  CROSS_DEVICE.
* The generated map. The backshift moves hashes, keys and values and leaves the lifetimes
  (`generate_hash_map.h` 723), so that an update frees by a lifetime that is another entry's (800-803),
  the caller's string or none. A full map refuses a new value for a key it has (758), which
  `fixed_hash_map_header.txt` 136 says is overwritten. A copy that found no memory is stored as NULL and `insert` returns
  true (772). `delete` frees no string (900-905), and `free` of a map of strings to strings gives back the keys only (927). `insert` of a generated array returns the
  address behind the item (`generate_array.h` 461; 281 says of the item).
* The infinite arena asks for a commit of 0 bytes when a block ends where the committed memory
  does, which Windows refuses (`allocator_infinite_arena.c` 321). The next power of two of 1
  is computed from `clz(0)` (`core.c` 111).
* A reallocation in place that the system refuses to commit leaves header and bump pointer moved; a
  retry returns memory that is not committed (`allocator_infinite_arena.c` 457, `allocator.h` 89).
  `InfiniteArena` shows it as a violation of `BlocksCommitted` when `RefusedIn` has "reallocate".
* On Windows the groups of a wait rotate only when a slice passes without an event, so a first group
  that keeps writing holds the others up, where the comment says that none starves (`os.c` 6924,
  7236). The teardown of `run_blocking` cancels operations and does not wait for them, so the
  cleanup after it can free a buffer under one, where the comment says that none is in flight (`os.c`
  6200, 7448): `BuffersHeldForKernel` makes exactly that exception. A kill of a process that is gone
  and was not polled returns WAIT_FAILED (`os.c` 6529, `os.h` 1813). A read of no bytes is taken for
  the end (`os.c` 5136).
* The values of a flag are popped last first; `cmd_line.h` 655 warns that their order is not guaranteed, and
  the example behind it (664-668) shows that of the command line. `ValuesOnce` states what the code does.
* Union, intersection and difference into one of their inputs stop early and report
  success (`str_set.c` 732).

## 7. Not modelled

* Of the Windows subprocess code: the command line and the environment block, the second captured
  stream, the allocation of wait slots, the limit of 1024 turns of the finalizer, grandchildren that
  hold an end of a pipe. The deletion, the rename and the infinite arena have their Windows branch
  modelled.
* Of `core.c` and `core.h`: the port of a printf, comparison, stripping and copying. Pure functions of
  bytes in one pass, without a choice to get wrong; a model would be the program again. What the
  others need of them (alignment, power of two, duplication) is in the modules that need it.
* The terminal part of `cmd_line.c`: it writes formatted escape sequences.
* The dynamic hash map template: an older copy, which names fields its struct does not have and
  is not generated by the tests.
* `tools/` but for the templates, the build scripts, `vendor/`.
* On POSIX, a kill that the system refuses (EPERM, `os.c` 6517). That the path given to the Windows deletion has no room
  for the search pattern counts as one of the failed calls (`DeleteUnopened`).
* Everywhere: the text of messages, errno values beyond "failed", exit codes, and
  bytes where only their number or identity matters.
* Threads other than in `SigchldSelfPipe`. The library asks that an object be used by one
  thread at a time, and has no state of its own but the self-pipe and SIGPIPE's disposition.
