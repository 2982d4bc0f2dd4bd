---------------------------- MODULE SubprocessConfig ----------------------------
(***************************************************************************)
(* The configuration of a JSLSubprocess in os.c: jsl_subprocess_init and   *)
(* the calls that come before a spawn.  Everything the caller passes is    *)
(* duplicated with the allocator of the handle, which may refuse at each   *)
(* of the allocations a call makes.  A block is a number; the allocator    *)
(* gives the smallest that is not in use.                                  *)
(***************************************************************************)
EXTENDS Integers, FiniteSets, SequencesExt

CONSTANTS
  Blocks,      \* of the allocator: 1 .. n
  Keys,        \* names of environment variables
  Values,      \* of variables and arguments
  Empty,       \* the value of no bytes, which jsl_duplicate cannot duplicate
  Outputs,     \* stdout and stderr, whose setters are the same code twice
  Capacity,    \* JSL__SUBPROCESS_INITIAL_CAPACITY
  MaxArgs,     \* bound on the arguments of a handle
  None         \* a null pointer, -1 for a descriptor

ConfigArguments ==
  /\ Blocks \subseteq Nat /\ None \notin Nat
  /\ Empty \in Values /\ Capacity \in Nat \ {0}

VARIABLES
  ready,            \* the sentinel is in place
  mem,              \* blocks in use
  executable,
  args_at, args_capacity, args,   \* the array, and the block of every argument
  env_at, env_capacity, env_vars,
  working_directory,
  stdin,            \* kind, memory, fd, file_name
  output,           \* of stdout and of stderr: kind, fd, sink, file_name
  told,             \* history: the last successful set or unset of every key
  abandoned         \* history: blocks the handle pointed to once

argVars == <<args_at, args_capacity, args>>
envVars == <<env_at, env_capacity, env_vars>>
streams == <<stdin, output>>
vars == <<ready, mem, executable, argVars, envVars, working_directory, streams, told, abandoned>>

Pointers == Blocks \cup {None}
Said == Values \cup {"unset", "nothing"}
Descriptors == {3, None}

TypeOK ==
  /\ ready \in BOOLEAN /\ mem \subseteq Blocks /\ abandoned \subseteq mem
  /\ {executable, args_at, env_at, working_directory} \subseteq Pointers
  /\ args_capacity \in Nat /\ args \in Seq(Blocks) /\ Len(args) <= args_capacity
  /\ env_capacity \in Nat /\ Len(env_vars) <= env_capacity
  /\ env_vars \in Seq([name : Keys, key : Blocks, value : Pointers, said : Values \cup {"unset"}])
  /\ stdin \in [kind : {"inherit", "memory", "fd", "null", "file"}, memory : Pointers,
                fd : Descriptors, file_name : Pointers]
  /\ output \in [Outputs -> [kind : {"inherit", "sink", "fd", "null", "file"},
                             fd : Descriptors, sink : BOOLEAN, file_name : Pointers]]
  /\ told \in [Keys -> Said]

NoStdin == [kind |-> "inherit", memory |-> None, fd |-> None, file_name |-> None]
NoOutput == [kind |-> "inherit", fd |-> None, sink |-> FALSE, file_name |-> None]

Init ==
  /\ ready = FALSE /\ mem = {} /\ executable = None
  /\ args_at = None /\ args_capacity = 0 /\ args = <<>>
  /\ env_at = None /\ env_capacity = 0 /\ env_vars = <<>>
  /\ working_directory = None
  /\ stdin = NoStdin /\ output = [o \in Outputs |-> NoOutput]
  /\ told = [k \in Keys |-> "nothing"] /\ abandoned = {}

(* The k smallest blocks not in use, in order; fewer when there are fewer.  *)
Fresh(k) ==
  LET free == Blocks \ mem
      found == IF k < Cardinality(free) THEN k ELSE Cardinality(free)
  IN  [i \in 1 .. found |-> CHOOSE b \in free : Cardinality({c \in free : c < b}) = i - 1]
Room(k) == Len(Fresh(k)) = k

-----------------------------------------------------------------------------
(* jsl_subprocess_init.                                                     *)
Create ==
  /\ ~ready /\ Room(3)
  /\ LET new == Fresh(3) IN
       /\ mem' = mem \cup ToSet(new)
       /\ executable' = new[1] /\ args_at' = new[2] /\ env_at' = new[3]
  /\ ready' = TRUE
  /\ args_capacity' = Capacity /\ env_capacity' = Capacity
  /\ UNCHANGED <<args, env_vars, working_directory, streams, told, abandoned>>

(* The k-th allocation failed; those before it are not given back.          *)
CreateFails(k) ==
  /\ ~ready /\ Room(k - 1)
  /\ mem' = mem \cup ToSet(Fresh(k - 1))
  /\ abandoned' = abandoned \cup ToSet(Fresh(k - 1))
  /\ UNCHANGED <<ready, executable, argVars, envVars, working_directory, streams, told>>

-----------------------------------------------------------------------------
(* Capacities are doubled until there is room.                              *)
Doubled(capacity, needed) ==
  CHOOSE c \in {capacity * 2^i : i \in 0 .. needed} :
    c >= needed /\ (c = capacity \/ c \div 2 < needed)

(* jsl_subprocess_args, of which the first k arguments could be duplicated. *)
(* When the array cannot grow nothing changes.                              *)
Args(list, k) ==
  LET needed == Len(args) + Len(list)
      grows == needed > args_capacity
      new == Fresh(IF grows THEN k + 1 ELSE k)
      dups == IF grows THEN Tail(new) ELSE new
  IN  /\ ready /\ needed <= MaxArgs
      /\ Len(new) = IF grows THEN k + 1 ELSE k
      /\ \A i \in 1 .. k : list[i] # Empty
      /\ args' = args \o dups
      /\ args_capacity' = Doubled(args_capacity, needed)
      /\ args_at' = IF grows THEN new[1] ELSE args_at
      /\ mem' = (mem \ IF grows THEN {args_at} ELSE {}) \cup ToSet(new)
      /\ UNCHANGED <<ready, executable, envVars, working_directory, streams, told, abandoned>>

(* jsl__subprocess_args_va and its C string twin pass their arguments on    *)
(* one by one until one fails.                                              *)
VariadicArg(value) == \E k \in 0 .. 1 : Args(<<value>>, k)

-----------------------------------------------------------------------------
Owned(e) == {e.key, e.value} \ {None}

(* jsl__subprocess_drop_env_entry_for_key: the last entry takes the place   *)
(* of the one that goes.                                                    *)
WithoutKey(k) ==
  IF \E i \in DOMAIN env_vars : env_vars[i].name = k
  THEN LET i == CHOOSE i \in DOMAIN env_vars : env_vars[i].name = k
       IN  Front([env_vars EXCEPT ![i] = Last(env_vars)])
  ELSE env_vars

OwnedFor(k) == UNION {Owned(env_vars[i]) : i \in {j \in DOMAIN env_vars : env_vars[j].name = k}}

(* jsl__subprocess_env_reserve_one comes first and stays done when one of   *)
(* the duplicates fails, in which case the overlay is what it was.          *)
Reserves == Len(env_vars) >= env_capacity
Reserve(new) ==
  IF Reserves
  THEN env_at' = new[1] /\ env_capacity' = env_capacity * 2
  ELSE UNCHANGED <<env_at, env_capacity>>
MovedFrom == IF Reserves THEN {env_at} ELSE {}

(* Mutant: the duplicate of the key is not freed when the value fails.      *)
EnvFailsKeepsKey(unset) ==
  /\ ready
  /\ \E duplicates \in 0 .. (IF unset THEN 0 ELSE 1) :
       LET new == Fresh((IF Reserves THEN 1 ELSE 0) + duplicates) IN
         /\ Len(new) = (IF Reserves THEN 1 ELSE 0) + duplicates
         /\ Reserve(new)
         /\ mem' = (mem \ MovedFrom) \cup ToSet(new)
  /\ UNCHANGED <<ready, executable, argVars, env_vars, working_directory, streams, told, abandoned>>

EnvFails(unset) ==
  /\ ready
  /\ LET new == Fresh(IF Reserves THEN 1 ELSE 0) IN
       /\ Len(new) = IF Reserves THEN 1 ELSE 0
       /\ Reserve(new)
       /\ mem' = (mem \ MovedFrom) \cup ToSet(new)
  /\ UNCHANGED <<ready, executable, argVars, env_vars, working_directory, streams, told, abandoned>>

(* jsl_subprocess_set_env and jsl_subprocess_unset_env.                     *)
Overlay(k, said, duplicates) ==
  LET reserved == IF Reserves THEN 1 ELSE 0
      new == Fresh(reserved + duplicates)
  IN  /\ ready
      /\ Len(new) = reserved + duplicates
      /\ Reserve(new)
      /\ env_vars' = Append(WithoutKey(k),
           [name |-> k, key |-> new[reserved + 1],
            value |-> IF duplicates = 2 THEN new[reserved + 2] ELSE None, said |-> said])
      /\ mem' = (mem \ (MovedFrom \cup OwnedFor(k))) \cup ToSet(new)
      /\ told' = [told EXCEPT ![k] = said]
      /\ UNCHANGED <<ready, executable, argVars, working_directory, streams, abandoned>>

SetEnv(k, value) == value # Empty /\ Overlay(k, value, 2)
UnsetEnv(k) == Overlay(k, "unset", 1)

-----------------------------------------------------------------------------
(* A field of the handle gets a duplicate; what it held before is dropped.  *)
Duplicate(old) ==
  /\ ready /\ Room(1)
  /\ mem' = mem \cup ToSet(Fresh(1))
  /\ abandoned' = abandoned \cup ({old} \ {None})
Drop(old) ==
  /\ ready
  /\ abandoned' = abandoned \cup ({old} \ {None})
  /\ UNCHANGED mem
setup == <<ready, executable, argVars, envVars, told>>

ChangeWorkingDirectory ==
  /\ Duplicate(working_directory)
  /\ working_directory' = Head(Fresh(1))
  /\ UNCHANGED <<setup, streams>>

(* Memory of no bytes is not duplicated.                                    *)
SetStdinMemory(data) ==
  /\ IF data = Empty THEN Drop(stdin.memory) ELSE Duplicate(stdin.memory)
  /\ stdin' = [stdin EXCEPT !.kind = "memory", !.fd = None,
                            !.memory = IF data = Empty THEN None ELSE Head(Fresh(1))]
  /\ UNCHANGED <<setup, working_directory, output>>

SetStdinFd(fd) ==
  /\ Drop(stdin.memory)
  /\ stdin' = [stdin EXCEPT !.kind = "fd", !.fd = fd, !.memory = None]
  /\ UNCHANGED <<setup, working_directory, output>>

SetStdinNull ==
  /\ Drop(stdin.memory)
  /\ stdin' = [stdin EXCEPT !.kind = "null", !.fd = None, !.memory = None]
  /\ UNCHANGED <<setup, working_directory, output>>

SetStdinFileName ==
  /\ ready /\ Room(1)
  /\ mem' = mem \cup ToSet(Fresh(1))
  /\ abandoned' = abandoned \cup ({stdin.file_name, stdin.memory} \ {None})
  /\ stdin' = [kind |-> "file", fd |-> None, memory |-> None, file_name |-> Head(Fresh(1))]
  /\ UNCHANGED <<setup, working_directory, output>>

SetOutputFd(o, fd) ==
  /\ ready
  /\ output' = [output EXCEPT ![o].kind = "fd", ![o].fd = fd, ![o].sink = FALSE]
  /\ UNCHANGED <<setup, mem, abandoned, working_directory, stdin>>

SetOutputSink(o) ==
  /\ ready
  /\ output' = [output EXCEPT ![o].kind = "sink", ![o].fd = None, ![o].sink = TRUE]
  /\ UNCHANGED <<setup, mem, abandoned, working_directory, stdin>>

SetOutputNull(o) ==
  /\ ready
  /\ output' = [output EXCEPT ![o].kind = "null", ![o].fd = None, ![o].sink = FALSE]
  /\ UNCHANGED <<setup, mem, abandoned, working_directory, stdin>>

SetOutputFileName(o) ==
  /\ Duplicate(output[o].file_name)
  /\ output' = [output EXCEPT ![o] = [kind |-> "file", fd |-> None, sink |-> FALSE,
                                      file_name |-> Head(Fresh(1))]]
  /\ UNCHANGED <<setup, working_directory, stdin>>

-----------------------------------------------------------------------------
Next ==
  \/ Create \/ \E k \in 1 .. 3 : CreateFails(k)
  \/ \E v, w \in Values, k \in 0 .. 2 : Args(<<v, w>>, k)
  \/ \E v \in Values : VariadicArg(v)
  \/ \E k \in Keys : UnsetEnv(k) \/ \E v \in Values : SetEnv(k, v)
  \/ \E unset \in BOOLEAN : EnvFails(unset)
  \/ ChangeWorkingDirectory
  \/ \E v \in Values : SetStdinMemory(v)
  \/ SetStdinFd(3) \/ SetStdinNull \/ SetStdinFileName
  \/ \E o \in Outputs : SetOutputFd(o, 3) \/ SetOutputSink(o) \/ SetOutputNull(o) \/ SetOutputFileName(o)

Spec == Init /\ [][Next]_vars

-----------------------------------------------------------------------------
(* The blocks the handle points to, with how many of its pointers.          *)
FileNames == LET os == SetToSeq(Outputs) IN [i \in DOMAIN os |-> output[os[i]].file_name]
Fields ==
  <<executable, args_at, env_at, working_directory, stdin.memory, stdin.file_name>>
  \o FileNames \o args
  \o FlattenSeq([i \in DOMAIN env_vars |-> <<env_vars[i].key, env_vars[i].value>>])
Held == ToSet(Fields) \ {None}

(* Whatever call fails at whichever allocation, every block in use has one  *)
(* pointer in the handle or was dropped by init, by a second call of one of *)
(* the setters that duplicate, or by another choice of stdin; no pointer    *)
(* leads to a block given back, and the environment never loses one.        *)
MemoryAccounted ==
  LET fields == Fields IN
    /\ mem = Held \cup abandoned /\ Held \cap abandoned = {}
    /\ \A i, j \in DOMAIN fields : i # j /\ fields[i] = fields[j] => fields[i] = None

(* The overlay holds for every key exactly what the last successful call    *)
(* for it said, once, through failures and swap-deletes (os.h: "keeps only  *)
(* the most recent call").                                                  *)
LastCallWins ==
  /\ \A k \in Keys :
       {env_vars[i].said : i \in {j \in DOMAIN env_vars : env_vars[j].name = k}}
         = {told[k]} \ {"nothing"}
  /\ \A i, j \in DOMAIN env_vars : env_vars[i].name = env_vars[j].name => i = j

(* The kind of a stream and the field it selects agree, and the fields of   *)
(* the choices before are cleared, which a spawn relies on.                 *)
StreamsSound ==
  /\ stdin.kind = "fd" <=> stdin.fd # None
  /\ stdin.memory # None => stdin.kind = "memory"
  /\ stdin.kind = "file" => stdin.file_name # None
  /\ \A o \in Outputs :
       /\ output[o].kind = "fd" <=> output[o].fd # None
       /\ output[o].kind = "sink" <=> output[o].sink
       /\ output[o].kind = "file" => output[o].file_name # None
=============================================================================
