------------------------------ MODULE Sandbox ------------------------------
(***************************************************************************)
(* The processes LocalSubprocessSandboxProvider starts: background ones of *)
(* process.start, commands an activity waits for, and commands in an       *)
(* ephemeral workspace.  The provider tracks them in the memory of the     *)
(* worker and records them in sandbox_commands.  Processes are detached:   *)
(* they survive the worker.                                                *)
(*                                                                         *)
(* SQLite is synchronous in the worker: a statement and what follows it up *)
(* to the next await of a timer, a process or a file is one step.          *)
(*                                                                         *)
(* Abstracted: process ids (the system may give the id of a process that   *)
(* ended to any other); output, files and exit codes.                      *)
(***************************************************************************)
EXTENDS Naturals

CONSTANTS
  Background,    \* processes of process.start
  Commands,      \* commands of shell.exec and the like
  Ephemeral,     \* commands of runEphemeralSandboxCommand
  Others,        \* those of all of these that belong to another session
  MaxCrashes     \* bound: times the worker is lost

Processes == Background \cup Commands \cup Ephemeral
Mine == Processes \ Others

ASSUME SandboxAssumption ==
  MaxCrashes \in Nat /\ Background \cap (Commands \cup Ephemeral) = {}

VARIABLES
  os,            \* the process itself
  row,           \* sandbox_commands.status
  tracked,       \* trackedProcesses
  listening,     \* processes whose close event has a handler
  killed,        \* tracked.killed
  timedOut,      \* tracked.timedOut
  timers,        \* tracked.forceKillTimer
  waiting,       \* commands whose activity waits for their result
  directories,   \* temporary workspaces
  cancelled,     \* history: processes there when their session was cancelled
  astray,        \* history: tracked processes sent a signal not meant for them
  signalled,     \* history: processes this worker tracks and sent a signal
  orphans,       \* history: processes running when the worker was lost
  crashes        \* counter of the bound MaxCrashes

memory == <<tracked, listening, killed, timedOut, timers, waiting>>
processHistory == <<cancelled, astray, signalled, orphans, crashes>>
sandboxVars == <<os, row, memory, directories, processHistory>>

Running(p) == os[p] = "running"

SandboxInit ==
  /\ os = [p \in Processes |-> "none"]
  /\ row = [p \in Processes |-> "none"]
  /\ tracked = {} /\ listening = {} /\ killed = {} /\ timedOut = {} /\ timers = {}
  /\ waiting = {} /\ directories = {}
  /\ cancelled = {} /\ astray = {} /\ signalled = {} /\ orphans = {} /\ crashes = 0

-----------------------------------------------------------------------------
(* Starting. *)

(* recordCommand, an upsert by the id of the process. *)
Recorded(p, status) == row' = [row EXCEPT ![p] = status]

(* spawn: the child runs, or its 'error' and 'close' events are on the way and it
   has no process id. *)
Spawn(p) ==
  /\ os[p] = "none"
  /\ tracked' = tracked \cup {p}
  /\ \E next \in {"running", "failed"} : os' = [os EXCEPT ![p] = next]

StartProcess(p) ==
  /\ p \in Background
  /\ Spawn(p)
  /\ Recorded(p, "running")
  /\ listening' = listening \cup {p}
  /\ UNCHANGED <<killed, timedOut, timers, waiting, directories, processHistory>>

(* recordCommand throws: the child runs, is tracked, and has no handlers. *)
StartUnrecorded(p) ==
  /\ p \in Background
  /\ Spawn(p) /\ os'[p] = "running"
  /\ UNCHANGED <<row, listening, killed, timedOut, timers, waiting, directories, processHistory>>

RunCommand(p) ==
  /\ p \in Commands \cup Ephemeral
  /\ Spawn(p)
  /\ Recorded(p, "running")
  /\ listening' = listening \cup {p}
  /\ waiting' = waiting \cup {p}
  /\ directories' = directories \cup ({p} \cap Ephemeral)
  /\ UNCHANGED <<killed, timedOut, timers, processHistory>>

Exit(p) ==
  /\ Running(p)
  /\ os' = [os EXCEPT ![p] = "ended"]
  /\ UNCHANGED <<row, memory, directories, processHistory>>

-----------------------------------------------------------------------------
(* Killing. *)

(* A process may ignore a signal. *)
SignalAll(S) ==
  \E D \in SUBSET S : os' = [p \in Processes |-> IF p \in D THEN "ended" ELSE os[p]]

(* killTrackedProcess for each of K, of which M are meant: a signal to those that
   have a process id, and a timer. *)
KillTracked(K, M) ==
  LET S == {p \in K : os[p] # "failed"}
  IN /\ killed' = killed \cup K
     /\ signalled' = signalled \cup S
     /\ astray' = astray \cup (S \ M)
     /\ timers' = timers \cup S
     /\ SignalAll(S)

(* Cancellation of the activity that runs a command. *)
Abort(p) ==
  /\ p \in waiting \cap Commands /\ p \in tracked
  /\ KillTracked({p}, {p})
  /\ UNCHANGED <<row, tracked, listening, timedOut, waiting, directories, cancelled,
                 orphans, crashes>>

FlagOnly(p) ==
  /\ p \in waiting \cap tracked /\ p \notin timedOut
  /\ timedOut' = timedOut \cup {p}
  /\ UNCHANGED <<os, row, tracked, listening, killed, timers, waiting, directories, processHistory>>

Timeout(p) ==
  /\ p \in waiting \cap tracked /\ p \notin timedOut
  /\ timedOut' = timedOut \cup {p}
  /\ KillTracked({p}, {p})
  /\ UNCHANGED <<row, tracked, listening, waiting, directories, cancelled, orphans, crashes>>

OnlyTheFirst(p) == p \in timers \cap tracked \cap waiting

StillTracked(p) == p \in timers \cap tracked

(* It is set once for a process, whatever the number of kills. *)
ForceKill(p) ==
  /\ StillTracked(p) /\ Running(p)
  /\ os' = [os EXCEPT ![p] = "ended"]
  /\ UNCHANGED <<row, memory, directories, processHistory>>

MarkKilled(p) == IF row[p] = "none" THEN row ELSE [row EXCEPT ![p] = "killed"]

(* killProcess of a process this worker tracks. *)
KillProcess(p) ==
  /\ p \in tracked
  /\ KillTracked({p}, {p})
  /\ row' = MarkKilled(p)
  /\ UNCHANGED <<tracked, listening, timedOut, waiting, directories, cancelled, orphans, crashes>>

(* Only process.start records the process group. *)
Persisted(p) == p \in Background /\ row[p] # "none" /\ os[p] # "failed"

(* killProcess of one it does not: whatever runs under the recorded group gets
   the signal, p or, once p ended, any other. *)
KillPersisted(p) ==
  /\ p \notin tracked /\ Persisted(p)
  /\ \E q \in Processes :
       /\ Running(q) /\ (Running(p) => q = p)
       /\ \E last \in {"ended", "running"} : os' = [os EXCEPT ![q] = last]
  /\ row' = MarkKilled(p)
  /\ UNCHANGED <<memory, directories, processHistory>>

OfSession == tracked \cap Mine

(* cancelSession, at the end of every run of the session. *)
CancelSession ==
  /\ KillTracked(OfSession, Mine)
  /\ cancelled' = cancelled \cup {p \in Mine : os[p] # "none"}
  /\ UNCHANGED <<row, tracked, listening, timedOut, waiting, directories, orphans, crashes>>

-----------------------------------------------------------------------------
(* Ending. *)

StatusIgnoringKill(p) ==
  IF p \in timedOut THEN {"timeout"} ELSE {"complete", "failed"}

ClosingStatus(p) ==
  IF p \in timedOut THEN {"timeout"}
  ELSE IF p \in killed THEN {"killed"}
  ELSE IF os[p] = "failed" THEN {"failed"} ELSE {"complete", "failed"}

(* The close event: the row gets its last status and the activity its result. *)
Close(p) ==
  /\ os[p] \in {"ended", "failed"} /\ p \in listening
  /\ listening' = listening \ {p}
  /\ tracked' = tracked \ {p}
  /\ timers' = timers \ {p}
  /\ killed' = killed \ {p} /\ timedOut' = timedOut \ {p}
  /\ waiting' = waiting \ {p}
  /\ \E s \in ClosingStatus(p) : Recorded(p, s)
  /\ UNCHANGED <<os, directories, processHistory>>

(* `return await sandbox.runCommand(input)`. *)
Finished(p) == p \notin waiting

(* terminate, in the finally block; the temporary workspace is removed. *)
Terminate(p) ==
  /\ p \in directories /\ Finished(p) /\ p \notin orphans
  /\ directories' = directories \ {p}
  /\ KillTracked(tracked \cap {p}, {p})
  /\ UNCHANGED <<row, tracked, listening, timedOut, waiting, cancelled, orphans, crashes>>

(* The worker is lost and another one starts.  Activities that waited fail. *)
Crash ==
  /\ crashes < MaxCrashes
  /\ crashes' = crashes + 1
  /\ orphans' = orphans \cup {p \in Processes : os[p] # "none" /\ p \in tracked}
  /\ tracked' = {} /\ listening' = {} /\ killed' = {} /\ timedOut' = {} /\ timers' = {}
  /\ waiting' = {} /\ signalled' = {}
  /\ UNCHANGED <<os, row, directories, cancelled, astray>>

SandboxNext ==
  \/ \E p \in Processes :
       \/ StartProcess(p) \/ StartUnrecorded(p) \/ RunCommand(p) \/ Exit(p)
       \/ Abort(p) \/ Timeout(p) \/ ForceKill(p) \/ KillProcess(p) \/ KillPersisted(p)
       \/ Close(p) \/ Terminate(p)
  \/ CancelSession \/ Crash

SandboxSpec == SandboxInit /\ [][SandboxNext]_sandboxVars

(* Timers fire and the events of ended processes are delivered.  A process may
   run for ever if nobody ends it. *)
SandboxFairSpec ==
  /\ SandboxSpec
  /\ \A p \in Processes : WF_sandboxVars(Timeout(p) \/ ForceKill(p) \/ Close(p))

-----------------------------------------------------------------------------
SandboxTypeOK ==
  /\ os \in [Processes -> {"none", "running", "ended", "failed"}]
  /\ row \in [Processes -> {"none", "running", "complete", "failed", "killed", "timeout"}]
  /\ \A S \in {tracked, listening, killed, timedOut, timers, waiting, cancelled, astray,
               signalled, orphans} : S \subseteq Processes
  /\ directories \subseteq Ephemeral
  /\ crashes \in 0..MaxCrashes

(* Cancelling a command, ending a workspace or a session signals no process but
   those meant.  A kill of a process this worker does not track goes to whatever
   runs under its recorded group, which may be another's by now. *)
KillsAreScoped == astray = {}

(* A row that says a process ran to its end says so of one that did, and that
   this worker did not kill; a row that says it was killed says so of one
   that ended, or is ending, unless a worker was lost over it. *)
RowsAreTrue ==
  \A p \in Processes :
    /\ row[p] = "complete" => os[p] = "ended"
    /\ row[p] \in {"complete", "failed"} => ~Running(p) /\ p \notin signalled
    /\ row[p] = "timeout" => ~Running(p)
    /\ row[p] = "killed" /\ Running(p) => p \in timers \cup orphans

(* As long as the worker lives, a process is tracked exactly until its row has its
   last status, so that no kill comes to nothing. *)
TrackedUntilClosed ==
  \A p \in Processes \ orphans :
    p \in listening => p \in tracked /\ row[p] \in {"running", "killed"}

(* A temporary workspace is not removed under a running command. *)
WorkspaceOutlivesCommand == \A p \in Ephemeral : Running(p) => p \in directories

(* Every process a session had when it was cancelled ends, also one that ignores
   the first signal or was never recorded, unless its worker is lost. *)
CancelReaps == \A p \in Processes : p \in cancelled ~> ~Running(p) \/ p \in orphans

(* An activity that waits for a command is answered, within the command's time. *)
CommandsReturn == \A p \in Processes : p \in waiting ~> p \notin waiting

(* The rows, the tracking maps and the processes themselves agree, and a signal goes
   only to those it is meant for. *)
ProcessesAccounted ==
  SandboxTypeOK /\ KillsAreScoped /\ RowsAreTrue /\ TrackedUntilClosed /\ WorkspaceOutlivesCommand
=============================================================================
