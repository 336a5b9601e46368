---------------------------- MODULE AgentSession ----------------------------
(***************************************************************************)
(* agentSessionWorkflow: the durable actor behind a session key.  It       *)
(* queues turns, runs them one at a time as child workflows, routes        *)
(* interrupts, steering and approvals to the active run, and hands itself  *)
(* over to a fresh execution (continue-as-new) between runs.               *)
(*                                                                         *)
(* A step is what the workflow does between two awaits.  A handler that    *)
(* awaits has two steps, and the main loop and other handlers move between *)
(* them: that is where the hard behaviours are.                            *)
(*                                                                         *)
(* Abstracted: the text of turns and the tool manifest; memoryRefs and     *)
(* memoryCursor (the loop never branches on them); a steering message and  *)
(* a forwarded approval are the same step here, as neither writes a field  *)
(* of the session.  History length is a free choice between runs.          *)
(***************************************************************************)
EXTENDS Naturals, Sequences, FiniteSets

CONSTANTS
  Clients,        \* senders of updates and signals, one call each at a time
  MaxTurns,       \* bound: turns accepted by one session
  MaxExecutions,  \* bound: executions of one session (continue-as-new)
  MaxSessions     \* bound: sessions started under this key

ASSUME SessionAssumption ==
  /\ MaxTurns \in Nat
  /\ MaxExecutions \in Nat
  /\ MaxSessions \in Nat

VARIABLES
  loop,                \* where the main loop is suspended
  queue,               \* turns waiting, by number
  activeRunId,         \* the run handlers route to
  activeRunScope,      \* the turn whose cancellation scope is current
  scopeCancelled,      \* that scope was cancelled
  completedRunCount,
  submittedTurnCount,
  cancelled,           \* cancelRun was received by this execution
  handler,             \* the call of each client that is suspended in an await
  openRuns,            \* agent-run workflows that are open
  outcome,             \* how the awaited child closed, "none" while it is open
  executions,          \* executions of this session so far
  sessions,            \* sessions started so far under this key
  taken,               \* history: turns shifted off the queue by this session
  launched             \* history: turns whose run this session launched

lane == <<queue, submittedTurnCount, taken>>
scope == <<activeRunId, activeRunScope, scopeCancelled>>
child == <<openRuns, outcome, launched>>
epoch == <<executions, sessions>>

vars == <<loop, lane, scope, completedRunCount, cancelled, handler, child, epoch>>

NoRun == 0
NoCall == [kind |-> "none", run |-> NoRun, replacement |-> FALSE]
Calls == [kind : {"none", "forward", "interrupt", "cancel"},
          run : Nat, replacement : BOOLEAN]

Positions == {"waiting", "fetching", "running", "compacting", "handoff",
              "finalizing", "closed"}

(* Update and signal handlers that have not finished: allHandlersFinished is
   InFlight = {}. *)
InFlight == {c \in Clients : handler[c] # NoCall}

(* Turns accepted, and replacements an interrupt in flight will still push. *)
Claimed ==
  submittedTurnCount
    + Cardinality({c \in Clients : handler[c].replacement})

Init ==
  /\ loop = "waiting"
  /\ queue = <<>>
  /\ activeRunId = NoRun
  /\ activeRunScope = NoRun
  /\ scopeCancelled = FALSE
  /\ completedRunCount = 0
  /\ submittedTurnCount = 0
  /\ cancelled = FALSE
  /\ handler = [c \in Clients |-> NoCall]
  /\ openRuns = {}
  /\ outcome = "none"
  /\ executions = 1
  /\ sessions = 1
  /\ taken = 0
  /\ launched = {}

-----------------------------------------------------------------------------
(* Handlers. *)

(* The next run id, pushed at the back of the queue. *)
PushTurn ==
  /\ submittedTurnCount' = submittedTurnCount + 1
  /\ queue' = Append(queue, submittedTurnCount + 1)
  /\ UNCHANGED taken

SubmitTurn ==
  /\ loop # "closed"
  /\ Claimed < MaxTurns
  /\ PushTurn
  /\ UNCHANGED <<loop, scope, completedRunCount, cancelled, handler, child, epoch>>

(* submitSteering and resolveApproval: refused without an active run, otherwise
   suspended on the signal or on the forwarding activity. *)
BeginForward(c) ==
  /\ loop # "closed"
  /\ handler[c] = NoCall
  /\ activeRunId # NoRun
  /\ handler' = [handler EXCEPT
       ![c] = [kind |-> "forward", run |-> activeRunId, replacement |-> FALSE]]
  /\ UNCHANGED <<loop, lane, scope, completedRunCount, cancelled, child, epoch>>

(* The signal or the activity succeeded or failed; either ends the call. *)
EndForward(c) ==
  /\ handler[c].kind = "forward"
  /\ handler' = [handler EXCEPT ![c] = NoCall]
  /\ UNCHANGED <<loop, lane, scope, completedRunCount, cancelled, child, epoch>>

(* interruptRun up to its await: the interrupt signal is on its way to the run. *)
BeginInterrupt(c, replacement) ==
  /\ loop # "closed"
  /\ handler[c] = NoCall
  /\ activeRunId # NoRun
  /\ replacement => Claimed < MaxTurns
  /\ handler' = [handler EXCEPT
       ![c] = [kind |-> "interrupt", run |-> activeRunId, replacement |-> replacement]]
  /\ UNCHANGED <<loop, lane, scope, completedRunCount, cancelled, child, epoch>>

HardCancelWhenActive ==
  scopeCancelled' = (scopeCancelled \/ activeRunId # NoRun)

(* activeRunScope?.cancel() *)
HardCancel ==
  scopeCancelled' = (scopeCancelled \/ activeRunScope # NoRun)

(* interruptRun after its await: it reads activeRunScope only now. *)
EndInterrupt(c) ==
  /\ handler[c].kind = "interrupt"
  /\ HardCancel
  /\ IF handler[c].replacement THEN PushTurn ELSE UNCHANGED lane
  /\ handler' = [handler EXCEPT ![c] = NoCall]
  /\ UNCHANGED <<loop, activeRunId, activeRunScope, completedRunCount, cancelled,
                 child, epoch>>

(* cancelRun: with an active run the hard cancel waits for the interrupt signal. *)
CancelRun(c) ==
  /\ loop # "closed"
  /\ handler[c] = NoCall
  /\ cancelled' = TRUE
  /\ IF activeRunId # NoRun
     THEN /\ handler' = [handler EXCEPT
               ![c] = [kind |-> "cancel", run |-> activeRunId, replacement |-> FALSE]]
          /\ UNCHANGED scopeCancelled
     ELSE HardCancel /\ UNCHANGED handler
  /\ UNCHANGED <<loop, lane, activeRunId, activeRunScope, completedRunCount, child,
                 epoch>>

EndCancelRun(c) ==
  /\ handler[c].kind = "cancel"
  /\ HardCancel
  /\ handler' = [handler EXCEPT ![c] = NoCall]
  /\ UNCHANGED <<loop, lane, activeRunId, activeRunScope, completedRunCount, cancelled,
                 child, epoch>>

-----------------------------------------------------------------------------
(* The main loop. *)

TakeNewestTurn ==
  /\ queue # <<>>
  /\ activeRunScope' = queue[Len(queue)]
  /\ queue' = SubSeq(queue, 1, Len(queue) - 1)
  /\ taken' = taken + 1
  /\ loop' = "fetching"

(* queue.shift(), then a cancellation scope whose first await is the manifest. *)
TakeTurn ==
  /\ queue # <<>>
  /\ activeRunScope' = Head(queue)
  /\ queue' = Tail(queue)
  /\ taken' = taken + 1
  /\ loop' = "fetching"

(* Past the loop: complete at once, or after the handlers in flight. *)
LeaveLoop ==
  /\ loop' = IF InFlight = {} THEN "closed" ELSE "finalizing"
  /\ activeRunScope' = NoRun
  /\ UNCHANGED <<queue, taken>>

HandoffWheneverEmpty == queue = <<>>

(* Continue-as-new is considered only here, and only when ... *)
HandoffAllowed == ~cancelled /\ queue = <<>>

(* What follows the catch and finally blocks without an await: compaction
   before a handoff, the next queued turn, the idle wait, or the exit. *)
NextTurn ==
  /\ activeRunId' = NoRun
  /\ scopeCancelled' = FALSE
  /\ \/ /\ HandoffAllowed
        /\ executions < MaxExecutions
        /\ loop' = "compacting"
        /\ activeRunScope' = NoRun
        /\ UNCHANGED <<queue, taken>>
     \/ /\ ~cancelled
        /\ TakeTurn
     \/ /\ ~cancelled
        /\ queue = <<>>
        /\ loop' = "waiting"
        /\ activeRunScope' = NoRun
        /\ UNCHANGED <<queue, taken>>
     \/ /\ cancelled
        /\ LeaveLoop
  /\ UNCHANGED submittedTurnCount

WakeOnCancelOnly == cancelled

WakeCondition == queue # <<>> \/ cancelled

(* The idle wait resolved. *)
Wake ==
  /\ loop = "waiting"
  /\ WakeCondition
  /\ IF cancelled THEN LeaveLoop ELSE TakeTurn
  /\ UNCHANGED <<activeRunId, scopeCancelled, submittedTurnCount, completedRunCount,
                 cancelled, handler, child, epoch>>

(* SESSION_IDLE_TTL_MS passed with nothing to do. *)
IdleTimeout ==
  /\ loop = "waiting"
  /\ queue = <<>>
  /\ ~cancelled
  /\ LeaveLoop
  /\ UNCHANGED <<activeRunId, scopeCancelled, submittedTurnCount, completedRunCount,
                 cancelled, handler, child, epoch>>

(* The manifest arrived: the run becomes active and its workflow is started. *)
ManifestFetched ==
  /\ loop = "fetching"
  /\ ~scopeCancelled
  /\ loop' = "running"
  /\ activeRunId' = activeRunScope
  /\ openRuns' = openRuns \cup {activeRunScope}
  /\ outcome' = "none"
  /\ launched' = launched \cup {activeRunScope}
  /\ UNCHANGED <<lane, activeRunScope, scopeCancelled, completedRunCount, cancelled,
                 handler, epoch>>

CountedOnFailure == completedRunCount + 1

(* listToolManifest failed all its attempts: the error takes the branch written
   for a failed run. *)
ManifestFailed ==
  /\ loop = "fetching"
  /\ ~scopeCancelled
  /\ completedRunCount' = CountedOnFailure
  /\ NextTurn
  /\ UNCHANGED <<cancelled, handler, child, epoch>>

(* The scope was cancelled during the fetch: no run is started, nothing counted. *)
FetchCancelled ==
  /\ loop = "fetching"
  /\ scopeCancelled
  /\ NextTurn
  /\ UNCHANGED <<completedRunCount, cancelled, handler, child, epoch>>

(* The run workflow closes.  Only a cancelled scope can make it close as
   cancelled; a run that ends gracefully after an interrupt returns. *)
RunCloses(r, how) ==
  /\ r \in openRuns
  /\ how = "cancelled" => scopeCancelled
  /\ openRuns' = openRuns \ {r}
  /\ outcome' = how
  /\ UNCHANGED <<loop, lane, scope, completedRunCount, cancelled, handler, launched,
                 epoch>>

(* executeChild waits for the child to close even when its scope is cancelled. *)
ChildSettled == outcome # "none"

(* The loop resumes from executeChild: a run that returned or failed counts, a
   cancelled one does not. *)
RunEnded ==
  /\ loop = "running"
  /\ ChildSettled
  /\ completedRunCount' =
       CASE outcome = "returned"  -> completedRunCount + 1
         [] outcome = "failed"    -> CountedOnFailure
         [] OTHER                 -> completedRunCount
  /\ NextTurn
  /\ outcome' = "none"
  /\ UNCHANGED <<cancelled, handler, openRuns, launched, epoch>>

-----------------------------------------------------------------------------
(* Handoff and exit. *)

DroppedQueue == <<>>

CarriedQueue == queue

(* The next execution is built from its input; `cancelled` is not part of it.
   Calls still in flight end with the old execution. *)
ContinueAsNew ==
  /\ loop' = "waiting"
  /\ queue' = CarriedQueue
  /\ cancelled' = FALSE
  /\ handler' = [c \in Clients |-> NoCall]
  /\ executions' = executions + 1
  /\ UNCHANGED <<submittedTurnCount, taken, scope, completedRunCount, child, sessions>>

(* The compaction workflow returned; the handlers are drained before the handoff. *)
CompactionDone ==
  /\ loop = "compacting"
  /\ IF InFlight = {}
     THEN ContinueAsNew
     ELSE /\ loop' = "handoff"
          /\ UNCHANGED <<lane, scope, completedRunCount, cancelled, handler, child,
                         epoch>>

(* A failed compaction fails the session. *)
CompactionFailed ==
  /\ loop = "compacting"
  /\ loop' = "closed"
  /\ handler' = [c \in Clients |-> NoCall]
  /\ UNCHANGED <<lane, scope, completedRunCount, cancelled, child, epoch>>

(* All handlers finished, or HANDLER_FINISH_TIMEOUT_MS passed. *)
HandoffDrained ==
  /\ loop = "handoff"
  /\ ContinueAsNew

FinalDrained ==
  /\ loop = "finalizing"
  /\ loop' = "closed"
  /\ handler' = [c \in Clients |-> NoCall]
  /\ UNCHANGED <<lane, scope, completedRunCount, cancelled, child, epoch>>

(* A client's start with USE_EXISTING finds no open session: a new one begins
   from { sessionKey } alone. *)
StartSession ==
  /\ loop = "closed"
  /\ sessions < MaxSessions
  /\ sessions' = sessions + 1
  /\ loop' = "waiting"
  /\ queue' = <<>>
  /\ submittedTurnCount' = 0
  /\ completedRunCount' = 0
  /\ cancelled' = FALSE
  /\ executions' = 1
  /\ taken' = 0
  /\ launched' = {}
  /\ UNCHANGED <<scope, handler, openRuns, outcome>>

-----------------------------------------------------------------------------
Ends == {"returned", "failed", "cancelled"}

Call(c) ==
  \/ BeginForward(c)
  \/ \E replacement \in BOOLEAN : BeginInterrupt(c, replacement)
  \/ CancelRun(c)

Resume(c) == EndForward(c) \/ EndInterrupt(c) \/ EndCancelRun(c)

Loop ==
  \/ Wake
  \/ ManifestFetched \/ ManifestFailed \/ FetchCancelled
  \/ RunEnded
  \/ CompactionDone \/ CompactionFailed
  \/ HandoffDrained \/ FinalDrained

Next ==
  \/ SubmitTurn
  \/ \E c \in Clients : Call(c)
  \/ \E c \in Clients : Resume(c)
  \/ Loop
  \/ IdleTimeout
  \/ \E r \in openRuns, how \in Ends : RunCloses(r, how)
  \/ StartSession

Spec == Init /\ [][Next]_vars

(* Temporal schedules every workflow task and answers every signal; an activity
   and the compaction end by their timeouts; a run ends because its budgets and
   its approval wait are bounded.  Clients owe nothing, the idle timer is free. *)
Fairness ==
  /\ WF_vars(Loop)
  /\ WF_vars(\E r \in openRuns, how \in Ends : RunCloses(r, how))
  /\ \A c \in Clients : WF_vars(Resume(c))

FairSpec == Spec /\ Fairness

-----------------------------------------------------------------------------
TypeOK ==
  /\ loop \in Positions
  /\ queue \in Seq(Nat)
  /\ activeRunId \in Nat
  /\ activeRunScope \in Nat
  /\ scopeCancelled \in BOOLEAN
  /\ completedRunCount \in Nat
  /\ submittedTurnCount \in Nat
  /\ cancelled \in BOOLEAN
  /\ handler \in [Clients -> Calls]
  /\ openRuns \in SUBSET Nat
  /\ outcome \in Ends \cup {"none"}
  /\ executions \in Nat
  /\ sessions \in Nat
  /\ taken \in Nat
  /\ launched \in SUBSET Nat

(* No turn is lost, repeated or overtaken while the session is open, through
   interrupts with replacements, failed runs and handoffs: the queue holds
   exactly the accepted turns not yet taken, in the order they were accepted. *)
LaneInOrder ==
  /\ taken + Len(queue) = submittedTurnCount
  /\ \A i \in DOMAIN queue : queue[i] = taken + i

(* The session serialises turns: an agent-run workflow is open only while the
   loop awaits it, under the id handlers route to, and never across an idle
   wait, a compaction, a handoff or the end of the session. *)
OneRunAtATime ==
  \A r \in openRuns : loop = "running" /\ activeRunId = r /\ outcome = "none"

(* A handler suspended on a signal or on the forwarding activity addresses a run
   whose workflow exists: activeRunId names a run from the moment executeChild
   starts it, never a turn whose manifest is still being fetched, and a turn in
   a later execution of the session is no exception. *)
CallsReachRuns ==
  \A c \in InFlight : handler[c].run \in launched

(* Once an execution has received cancelRun it starts no run, wherever the
   signal found the loop: before, during or after a manifest fetch, in a run. *)
NoLaunchAfterCancel ==
  [][cancelled /\ cancelled' => launched' = launched]_vars

(* The session implements the lane it promises; a fetched turn is taken. *)
Lane == INSTANCE TurnLane WITH
  open <- loop # "closed",
  accepted <- submittedTurnCount,
  begun <- launched,
  active <- activeRunId

LanePromise == Lane!Spec

(* No accepted turn waits for ever: it leaves the queue or the session ends. *)
TurnsTaken ==
  \A n \in 1..MaxTurns :
    (\E i \in DOMAIN queue : queue[i] = n)
      ~> (loop = "closed" \/ taken >= n \/ submittedTurnCount < n)

(* A cancelRun received outside a compaction or handoff ends the session. *)
CancelSettles ==
  (cancelled /\ loop \notin {"compacting", "handoff"}) ~> (loop = "closed")

(* What agentSessionWorkflow never gives up: its types, the order of its turns, one
   run at a time, and handlers that address runs it has started. *)
SerialTurns == TypeOK /\ LaneInOrder /\ OneRunAtATime /\ CallsReachRuns
=============================================================================
