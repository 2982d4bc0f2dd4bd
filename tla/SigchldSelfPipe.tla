--------------------------- MODULE SigchldSelfPipe ---------------------------
(***************************************************************************)
(* The SIGCHLD self-pipe that wakes the POSIX wait loops of os.c when a    *)
(* child exits.  Each thread starts its own background children            *)
(* (jsl_subprocess_background_start) and then waits for all of them with   *)
(* an infinite timeout (jsl_subprocess_background_wait).  The pipe, the    *)
(* saved signal action and the `installed` flag are globals of the process *)
(* and so are shared by the threads; everything else is per call.          *)
(*                                                                         *)
(* The data carried by the children's own pipes is left to module          *)
(* SubprocessBatch: here such a pipe only makes poll() return early.       *)
(***************************************************************************)
EXTENDS FiniteSets

CONSTANTS
  Threads,     \* threads that call the subprocess API
  Children,    \* child processes, each started by one thread
  Owner,       \* the thread that starts and waits for a child
  HostReaps,   \* the host's own SIGCHLD handler calls waitpid(-1, WNOHANG)
  NoPipe,      \* value of the global pipe before it is published
  Preinstalled \* the pipe an earlier call of the process left, or NoPipe

ASSUME OwnerAssumption == Owner \in [Children -> Threads]
ASSUME HostReapsAssumption == HostReaps \in BOOLEAN
ASSUME NoPipeAssumption == NoPipe \notin Threads
ASSUME PreinstalledAssumption == Preinstalled \in Threads \cup {NoPipe}

VARIABLES
  child,        \* kernel state of each child
  pending,      \* a SIGCHLD is pending; standard signals do not queue
  disposition,  \* whose handler SIGCHLD runs: "host" or "jsl"
  prevAction,   \* jsl__sigchld_prev_action: "none", "host" or "jsl"
  pipe,         \* jsl__sigchld_pipe; a pipe is named after its creator
  byte,         \* the pipe of a thread holds unread bytes
  pc,           \* where each thread is
  phase,        \* the call a thread is in: "start" or "wait"
  waiting,      \* slots[i].still_waiting of the thread's current wait
  sweep,        \* children the current waitpid pass has still to look at
  polled        \* the pipe a thread put into its pollfd array

kernel == <<child, pending, disposition>>
globals == <<prevAction, pipe, byte>>
locals == <<pc, phase, waiting, sweep, polled>>
vars == <<kernel, globals, locals>>

ChildStates == {"unborn", "running", "zombie", "reaped", "stolen"}
WaitLocations == {"reap", "poll", "drain"}
Locations == {"idle", "check", "sigaction", "publish", "spawn", "done", "failed"}
               \cup WaitLocations

Owned(t) == {c \in Children : Owner[c] = t}
Unborn(t) == {c \in Owned(t) : child[c] = "unborn"}

TypeOK ==
  /\ child \in [Children -> ChildStates]
  /\ pending \in BOOLEAN
  /\ disposition \in {"host", "jsl"}
  /\ prevAction \in {"none", "host", "jsl"}
  /\ pipe \in Threads \cup {NoPipe}
  /\ byte \in [Threads -> BOOLEAN]
  /\ pc \in [Threads -> Locations]
  /\ phase \in [Threads -> {"start", "wait"}]
  /\ waiting \in [Threads -> SUBSET Children]
  /\ sweep \in [Threads -> SUBSET Children]
  /\ polled \in [Threads -> Threads \cup {NoPipe}]

(* Mutant: the global pipe fds start as 0 instead of -1.                    *)
InitPipeZero ==
  /\ child = [c \in Children |-> "unborn"]
  /\ pending = FALSE
  /\ pipe = 0
  /\ disposition = "host"
  /\ prevAction = "none"
  /\ byte = [t \in Threads |-> FALSE]
  /\ pc = [t \in Threads |-> "idle"]
  /\ phase = [t \in Threads |-> "start"]
  /\ waiting = [t \in Threads |-> {}]
  /\ sweep = [t \in Threads |-> {}]
  /\ polled = [t \in Threads |-> NoPipe]

Init ==
  /\ child = [c \in Children |-> "unborn"]
  /\ pending = FALSE
  /\ pipe = Preinstalled
  /\ disposition = IF pipe = NoPipe THEN "host" ELSE "jsl"
  /\ prevAction = IF pipe = NoPipe THEN "none" ELSE "host"
  /\ byte = [t \in Threads |-> FALSE]
  /\ pc = [t \in Threads |-> "idle"]
  /\ phase = [t \in Threads |-> "start"]
  /\ waiting = [t \in Threads |-> {}]
  /\ sweep = [t \in Threads |-> {}]
  /\ polled = [t \in Threads |-> NoPipe]

Goto(t, location) == pc' = [pc EXCEPT ![t] = location]

-----------------------------------------------------------------------------
(* The kernel: a child exits, and SIGCHLD is delivered to some thread.     *)

Exit(c) ==
  /\ child[c] = "running"
  /\ child' = [child EXCEPT ![c] = "zombie"]
  /\ pending' = TRUE
  /\ UNCHANGED <<disposition, globals, locals>>

(* jsl__sigchld_handler: a byte if the pipe is published, then the chain to *)
(* the saved action.  A handler whose poll() it interrupts sees EINTR, so   *)
(* that thread rebuilds its pollfd array.  The host's handler runs either   *)
(* through the chain or, before the installation, on its own.               *)
HostHandlerRuns == disposition = "host" \/ prevAction = "host"

Deliver(t) ==
  /\ pending
  /\ pending' = FALSE
  /\ byte' = IF disposition = "jsl" /\ pipe # NoPipe
             THEN [byte EXCEPT ![pipe] = TRUE] ELSE byte
  /\ child' = IF HostReaps /\ HostHandlerRuns
              THEN [c \in Children |-> IF child[c] = "zombie" THEN "stolen" ELSE child[c]]
              ELSE child
  /\ polled' = IF pc[t] = "poll" THEN [polled EXCEPT ![t] = pipe] ELSE polled
  /\ UNCHANGED <<disposition, prevAction, pipe, pc, phase, waiting, sweep>>

-----------------------------------------------------------------------------
(* jsl__sigchld_ensure_installed, called by both API functions.  In "start" *)
(* its failure is ignored, in "wait" it fails the call.                     *)

AfterEnsure(t) == IF phase[t] = "start" THEN "spawn" ELSE "reap"

(* Mutant: no pre-reap, the first waitpid pass is empty.                    *)
EnterWithoutPreReap(t) ==
  /\ waiting' = IF phase[t] = "wait"
                THEN [waiting EXCEPT ![t] = {c \in Owned(t) : child[c] # "unborn"}]
                ELSE waiting
  /\ sweep' = sweep

(* The first waitpid pass of a wait looks at every running proc.            *)
EnterReap(t) ==
  /\ waiting' = IF phase[t] = "wait"
                THEN [waiting EXCEPT ![t] = {c \in Owned(t) : child[c] # "unborn"}]
                ELSE waiting
  /\ sweep' = IF phase[t] = "wait" THEN [sweep EXCEPT ![t] = waiting'[t]] ELSE sweep

EnsureAlreadyInstalled(t) ==
  /\ pc[t] = "check"
  /\ pipe # NoPipe
  /\ Goto(t, AfterEnsure(t))
  /\ EnterReap(t)
  /\ UNCHANGED <<kernel, globals, phase, polled>>

(* Mutant: the `installed` flag is not looked at.                           *)
EnsureInstallsAgain(t) ==
  /\ pc[t] = "check"
  /\ Goto(t, "sigaction")
  /\ UNCHANGED <<kernel, globals, phase, waiting, sweep, polled>>

EnsurePipeCreated(t) ==
  /\ pc[t] = "check"
  /\ pipe = NoPipe
  /\ Goto(t, "sigaction")
  /\ UNCHANGED <<kernel, globals, phase, waiting, sweep, polled>>

EnsureFails(t) ==
  /\ \/ pc[t] = "check" /\ pipe = NoPipe
     \/ pc[t] = "sigaction"
  /\ Goto(t, IF phase[t] = "start" THEN "spawn" ELSE "failed")
  /\ UNCHANGED <<kernel, globals, phase, waiting, sweep, polled>>

EnsureSigaction(t) ==
  /\ pc[t] = "sigaction"
  /\ prevAction' = disposition
  /\ disposition' = "jsl"
  /\ Goto(t, "publish")
  /\ UNCHANGED <<child, pending, pipe, byte, phase, waiting, sweep, polled>>

EnsurePublish(t) ==
  /\ pc[t] = "publish"
  /\ pipe' = t
  /\ byte' = [byte EXCEPT ![t] = FALSE]
  /\ Goto(t, AfterEnsure(t))
  /\ EnterReap(t)
  /\ UNCHANGED <<kernel, prevAction, phase, polled>>

-----------------------------------------------------------------------------
(* jsl_subprocess_background_start: install, then posix_spawnp.             *)

BackgroundStart(t) ==
  /\ pc[t] = "idle"
  /\ Unborn(t) # {}
  /\ phase' = [phase EXCEPT ![t] = "start"]
  /\ Goto(t, "check")
  /\ UNCHANGED <<kernel, globals, waiting, sweep, polled>>

Spawn(t, c) ==
  /\ pc[t] = "spawn"
  /\ c \in Unborn(t)
  /\ child' = [child EXCEPT ![c] = "running"]
  /\ Goto(t, "idle")
  /\ UNCHANGED <<pending, disposition, globals, phase, waiting, sweep, polled>>

-----------------------------------------------------------------------------
(* jsl_subprocess_background_wait, timeout_ms < 0.                          *)

BackgroundWait(t) ==
  /\ pc[t] = "idle"
  /\ Unborn(t) = {}
  /\ phase' = [phase EXCEPT ![t] = "wait"]
  /\ Goto(t, "check")
  /\ UNCHANGED <<kernel, globals, waiting, sweep, polled>>

(* Mutant: reap_nohang returns true also when waitpid collected nothing.    *)
ReapAnything(t, c) ==
  /\ pc[t] = "reap"
  /\ c \in sweep[t]
  /\ sweep' = [sweep EXCEPT ![t] = @ \ {c}]
  /\ child' = IF child[c] = "zombie" THEN [child EXCEPT ![c] = "reaped"] ELSE child
  /\ waiting' = [waiting EXCEPT ![t] = @ \ {c}]
  /\ UNCHANGED <<pending, disposition, globals, pc, phase, polled>>

(* jsl__subprocess_posix_reap_nohang: waitpid(pid, WNOHANG) on one child.   *)
(* A child someone else reaped gives ECHILD, read as "still running".       *)
ReapNohang(t, c) ==
  /\ pc[t] = "reap"
  /\ c \in sweep[t]
  /\ sweep' = [sweep EXCEPT ![t] = @ \ {c}]
  /\ IF child[c] = "zombie"
     THEN /\ child' = [child EXCEPT ![c] = "reaped"]
          /\ waiting' = [waiting EXCEPT ![t] = @ \ {c}]
     ELSE UNCHANGED <<child, waiting>>
  /\ UNCHANGED <<pending, disposition, globals, pc, phase, polled>>

(* Mutant: the self-pipe is drained after the waitpid pass.                 *)
LoopAgainDrains(t) ==
  /\ pc[t] = "reap"
  /\ sweep[t] = {}
  /\ Goto(t, IF waiting[t] = {} THEN "done" ELSE "poll")
  /\ polled' = [polled EXCEPT ![t] = pipe]
  /\ byte' = [byte EXCEPT ![pipe] = FALSE]
  /\ UNCHANGED <<kernel, prevAction, pipe, phase, waiting, sweep>>

(* End of a waitpid pass: return, or build the pollfd array and block.      *)
LoopAgain(t) ==
  /\ pc[t] = "reap"
  /\ sweep[t] = {}
  /\ Goto(t, IF waiting[t] = {} THEN "done" ELSE "poll")
  /\ polled' = [polled EXCEPT ![t] = pipe]
  /\ UNCHANGED <<kernel, globals, phase, waiting, sweep>>

PollSelfPipe(t) ==
  /\ pc[t] = "poll"
  /\ polled[t] # NoPipe
  /\ byte[polled[t]]
  /\ Goto(t, "drain")
  /\ UNCHANGED <<kernel, globals, phase, waiting, sweep, polled>>

(* A child's stdout, stderr or stdin pipe is ready: no byte is drained.     *)
PollOtherFd(t) ==
  /\ pc[t] = "poll"
  /\ polled[t] # NoPipe => ~byte[polled[t]]
  /\ Goto(t, "reap")
  /\ sweep' = [sweep EXCEPT ![t] = waiting[t]]
  /\ UNCHANGED <<kernel, globals, phase, waiting, polled>>

(* jsl__sigchld_drain reads the global pipe, and the waitpid pass follows.  *)
Drain(t) ==
  /\ pc[t] = "drain"
  /\ byte' = [byte EXCEPT ![pipe] = FALSE]
  /\ Goto(t, "reap")
  /\ sweep' = [sweep EXCEPT ![t] = waiting[t]]
  /\ UNCHANGED <<kernel, prevAction, pipe, phase, waiting, polled>>

-----------------------------------------------------------------------------
Ensure(t) ==
  \/ EnsureAlreadyInstalled(t)
  \/ EnsurePipeCreated(t)
  \/ EnsureSigaction(t)
  \/ EnsurePublish(t)

WaitStep(t) ==
  \/ \E c \in Children : ReapNohang(t, c)
  \/ LoopAgain(t)
  \/ PollSelfPipe(t)
  \/ Drain(t)

ThreadStep(t) ==
  \/ Ensure(t)
  \/ BackgroundStart(t)
  \/ \E c \in Children : Spawn(t, c)
  \/ BackgroundWait(t)
  \/ WaitStep(t)

(* Every thread has returned from its wait.                                 *)
Terminated ==
  /\ \A t \in Threads : pc[t] \in {"done", "failed"}
  /\ UNCHANGED vars

Next ==
  \/ \E c \in Children : Exit(c)
  \/ \E t \in Threads : Deliver(t)
  \/ \E t \in Threads : EnsureFails(t)
  \/ \E t \in Threads : PollOtherFd(t)
  \/ \E t \in Threads : ThreadStep(t)
  \/ Terminated

(* A runnable thread is scheduled, and the kernel delivers a pending signal. *)
(* Nothing is assumed of the children, nor of failures or of other fds.      *)
Fairness ==
  /\ \A t \in Threads : WF_vars(ThreadStep(t))
  /\ WF_vars(\E t \in Threads : Deliver(t))

Spec == Init /\ [][Next]_vars /\ Fairness

-----------------------------------------------------------------------------
(* A thread blocked in poll() with a dead child still on its list has a     *)
(* wake-up coming: a byte in the pipe it polls, or a signal not yet         *)
(* delivered.  It rests on the pre-reap, on draining before the waitpid     *)
(* pass, and on installing before publishing.                               *)
NoLostWakeup ==
  \A t \in Threads : \A c \in waiting[t] :
    pc[t] = "poll" /\ child[c] = "zombie"
      => pending \/ (polled[t] # NoPipe /\ byte[polled[t]])

(* The saved action is never our own handler: chaining to it would recurse  *)
(* without end.  It is what "idempotent" means for ensure_installed.        *)
ChainReachesHost == prevAction # "jsl"

(* A wait that returns has collected every child it was given.              *)
DoneMeansReaped ==
  \A t \in Threads : pc[t] = "done" => \A c \in Owned(t) : child[c] = "reaped"

(* An exit that jsl_subprocess_background_wait has still to observe.        *)
Unobserved(c) ==
  child[c] = "zombie" /\ pc[Owner[c]] \in WaitLocations /\ c \in waiting[Owner[c]]
=============================================================================
