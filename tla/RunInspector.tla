---------------------------- MODULE RunInspector ----------------------------
(***************************************************************************)
(* The run inspector: readRunInspectorProjection and the adapters of the   *)
(* run pane, over the tables a run leaves while it asks for an approval    *)
(* (Approvals), executes the call, or delegates it to subagents.           *)
(*                                                                         *)
(* The row of the run is read first, then the transcript, then the other   *)
(* tables; a run writes on in between.  A view is what was read; the other *)
(* tables are taken as they are when the view is looked at.                *)
(*                                                                         *)
(* Abstracted: labels, hrefs, payloads, the counters that are lengths of   *)
(* tables, schedules and memory candidates, which a run does not change,   *)
(* and the history of Temporal itself, which takes the place of the one    *)
(* made from the tables when it can be fetched.                            *)
(***************************************************************************)
EXTENDS Approvals, FiniteSets

CONSTANTS
  Children,     \* subagents of the delegate call
  MaxRetries    \* bound: times a recordSubagentStarted is tried again

VARIABLES
  phase,        \* of the approved call
  invocation,   \* tool_invocations.status, by call
  entry,        \* idempotency_ledger.status, by call
  result,       \* the tool_result row of a call: "none", or whether it is an error
  executions,   \* workflow_executions.status, by child
  told,         \* time of a subagent event in a table, 0 where there is none
  clock,        \* `now` of the latest activity
  now, retries, \* `now` of the activity about a child, and its further attempts
  seen          \* what the inspector has read: the run, the transcript

Tables == {"transcript", "stream"}
Events == {"start", "complete"}

execution == <<phase, invocation, entry, result>>
lanes == <<executions, told, clock, now, retries>>
inspected == <<vars, execution, lanes, seen>>

ASSUME InspectorAssumption == MaxRetries \in Nat

NotTold == [child \in Children |-> 0]
NotCalled == [n \in Calls |-> "none"]
Nothing == [at |-> "none", run |-> "none", approvals |-> {}, result |-> NotCalled,
            told |-> [event \in Events |-> NotTold]]

InspectorInit ==
  /\ Init
  /\ phase = "none" /\ invocation = NotCalled /\ entry = NotCalled /\ result = NotCalled
  /\ executions = [child \in Children |-> "none"]
  /\ told = [table \in Tables |-> [event \in Events |-> NotTold]]
  /\ clock = 0 /\ now = NotTold /\ retries = 0
  /\ seen = Nothing

-----------------------------------------------------------------------------
(* What is done with a call that was approved, by handleToolCall. *)

Free == stage = "running" /\ (call = 0 \/ phase = "done")

Approving ==
  /\ \/ Free /\ (AskForApproval \/ Complete)
     \/ stage = "refused" /\ Complete
     \/ Resolve \/ Expire
     \/ \E p \in Attempts : Step(p) \/ Abandon(p)
  /\ phase' = IF call' # call THEN "none" ELSE phase
  /\ UNCHANGED <<invocation, entry, result, lanes, seen>>

Approved == stage = "running" /\ call > 0

(* Bound: an attempt that was given up is not followed further. *)
Forget ==
  /\ at' = [p \in Attempts |-> "gone"] /\ knew' = {}
  /\ UNCHANGED <<workflow, tables, notified, abandoned>>

Execute ==
  /\ Approved /\ phase = "none"
  /\ phase' = "tool" /\ invocation' = [invocation EXCEPT ![call] = "running"] /\ Forget
  /\ UNCHANGED <<entry, result, lanes, seen>>

ReserveKey ==
  /\ phase = "tool" /\ entry[call] = "none"
  /\ entry' = [entry EXCEPT ![call] = "pending"]
  /\ UNCHANGED <<vars, phase, invocation, result, lanes, seen>>

SettleKey ==
  /\ phase = "tool" /\ entry[call] = "pending"
  /\ \E status \in {"complete", "failed"} : entry' = [entry EXCEPT ![call] = status]
  /\ UNCHANGED <<vars, phase, invocation, result, lanes, seen>>

(* A tool without a key has no entry, and one that throws leaves it pending. *)
Settlements ==
  CASE entry[call] = "none" -> {"complete", "failed"}
    [] entry[call] = "pending" -> {"failed"}
    [] entry[call] \in {"complete", "failed"} -> {entry[call]}

SettleInvocation ==
  /\ phase = "tool"
  /\ \E status \in Settlements : invocation' = [invocation EXCEPT ![call] = status]
  /\ phase' = "result"
  /\ UNCHANGED <<vars, entry, result, lanes, seen>>

PersistToolResult ==
  /\ phase = "result"
  /\ result' = [result EXCEPT ![call] = IF invocation[call] = "failed" THEN "error" ELSE "ok"]
  /\ phase' = "done"
  /\ UNCHANGED <<vars, invocation, entry, lanes, seen>>

(* An activity or a child fails, and the run with it. *)
FailRun ==
  /\ Approved /\ phase \notin {"none", "done"}
  /\ stage' = "ended" /\ runStatus' = "failed"
  /\ UNCHANGED <<call, attempt, decision, answer, row, audit, transcript, cards, at, knew, notified,
                 abandoned, execution, lanes, seen>>

-----------------------------------------------------------------------------
(* Subagents: recordSubagentStarted of all, the children, then
   recordSubagentCompleted of all.  Bound: one call delegates. *)

Begun(children) ==
  /\ clock' = clock + 1
  /\ now' = [child \in Children |-> IF child \in children THEN clock + 1 ELSE now[child]]

Fork ==
  /\ Approved /\ phase = "none" /\ Children # {} /\ clock = 0
  /\ phase' = "start" /\ Begun(Children) /\ Forget
  /\ UNCHANGED <<invocation, entry, result, executions, told, retries, seen>>

RecordExecution(child) ==
  /\ \/ /\ phase = "start" /\ executions[child] = "none"
        /\ executions' = [executions EXCEPT ![child] = "running"]
     \/ /\ phase = "complete" /\ executions[child] = "running"
        /\ \E status \in {"completed", "failed"} :
             executions' = [executions EXCEPT ![child] = status]
  /\ UNCHANGED <<vars, execution, told, clock, now, retries, seen>>

ExecutionRecorded(child) ==
  executions[child] # "none" /\ (phase = "complete" => executions[child] # "running")

(* An attempt after a crash writes what is missing, with its own time. *)
RecordEvent(child, table) ==
  /\ phase \in Events /\ ExecutionRecorded(child)
  /\ told[table][phase][child] = 0
  /\ table = "stream" => told["transcript"][phase][child] # 0
  /\ told' = [told EXCEPT ![table][phase][child] = now[child]]
  /\ UNCHANGED <<vars, execution, executions, clock, now, retries, seen>>

Retry(child) ==
  /\ phase \in Events /\ retries < MaxRetries
  /\ told["stream"][phase][child] = 0
  /\ retries' = retries + 1 /\ Begun({child})
  /\ UNCHANGED <<vars, execution, executions, told, seen>>

AllTold == \A child \in Children : told["stream"][phase][child] # 0

ChildrenReturn ==
  /\ phase = "start" /\ AllTold
  /\ phase' = "complete" /\ Begun(Children)
  /\ UNCHANGED <<vars, invocation, entry, result, executions, told, retries, seen>>

Join ==
  /\ phase = "complete" /\ AllTold
  /\ phase' = "result"
  /\ UNCHANGED <<vars, invocation, entry, result, lanes, seen>>

(* The end of recordRunCompleted. *)
Trim ==
  /\ stage = "ended" /\ runStatus = "complete"
  /\ told' = [told EXCEPT !["stream"] = [event \in Events |-> NotTold]]
  /\ UNCHANGED <<vars, execution, executions, clock, now, retries, seen>>

-----------------------------------------------------------------------------
(* readRunInspectorProjection. *)

ReadRun ==
  /\ seen.at = "none"
  /\ seen' = [seen EXCEPT !.at = "run", !.run = runStatus]
  /\ UNCHANGED <<vars, execution, lanes>>

ReadTranscript ==
  /\ seen.at = "run"
  /\ seen' = [seen EXCEPT !.at = "transcript", !.approvals = transcript, !.result = result,
                          !.told = told["transcript"]]
  /\ UNCHANGED <<vars, execution, lanes>>

(* The rows of both tables, those of the transcript first, sorted by time; the
   last one of a child decides its lane. *)
SubagentRows(child) ==
  {r \in [table : Tables, event : Events, time : 1..clock] :
     r.time = (IF r.table = "transcript" THEN seen.told ELSE told["stream"])[r.event][child]}

Rank(table) == IF table = "transcript" THEN 0 ELSE 1

InTableOrder(a, b) == Rank(a.table) < Rank(b.table) \/ (a.table = b.table /\ a.time < b.time)

Before(a, b) == a.time < b.time \/ (a.time = b.time /\ Rank(a.table) < Rank(b.table))

Outcome(child) == IF executions[child] = "failed" THEN "failed" ELSE "complete"

(* buildTimelineLanes. *)
Lane(child) ==
  IF SubagentRows(child) = {} THEN "none"
  ELSE LET last == CHOOSE a \in SubagentRows(child) : \A b \in SubagentRows(child) \ {a} : Before(b, a)
       IN  IF last.event = "start" THEN "running" ELSE Outcome(child)

Invoked == {n \in Calls : invocation[n] # "none"}

Tools == {invocation[n] : n \in Invoked}

Statuses == {row[n].status : n \in {m \in Calls : Recorded(m)}}

(* buildTemporalConcepts, without what they say of the run itself.  There is a
   timer while there is a request pending. *)
Concepts ==
  {<<"activity", s>> : s \in Tools}
  \cup {<<"update", s>> : s \in Statuses}
  \cup {<<"timer", s>> : s \in Statuses \cap {"pending"}}
  \cup {<<"child-workflow", executions[child]>> : child \in {c \in Children : executions[c] # "none"}}
  \cup {<<"retry", "used">> : n \in {m \in Calls : entry[m] # "none"}}

(* buildFallbackHistoryEvents, what a reader sees when Temporal itself cannot
   be asked. *)
History ==
  {<<"workflow", executions[child]>> : child \in {c \in Children : executions[c] # "none"}}
  \cup {<<"activity", s>> : s \in Tools}
  \cup {<<"update", s>> : s \in Statuses}
  \cup {<<"timer", s>> : s \in Statuses \cap {"pending"}}
  \cup {<<"child-workflow", r.event>> : r \in UNION {SubagentRows(child) : child \in Children}}

(* buildDurabilityEvidence, of which only the waits can contradict the rest. *)
approvalWaitCount == Cardinality({n \in Calls : row[n].status = "pending"})

(* buildCapabilityEvidence: of the invocations so many are complete, and so
   many failed. *)
Evidence == [count |-> Cardinality(Invoked),
             complete |-> Cardinality({n \in Calls : invocation[n] = "complete"}),
             failed |-> Cardinality({n \in Calls : invocation[n] = "failed"})]

isRunning == seen.run \in {"running", "waiting_approval"}

(* transcriptToRunSteps, the step of a call. *)
StepOfCall(n) ==
  CASE seen.result[n] = "error" -> "failed"
    [] seen.result[n] = "ok" -> "succeeded"
    [] seen.result[n] = "none" -> IF isRunning THEN "running" ELSE "pending"

-----------------------------------------------------------------------------
Working ==
  \/ Execute \/ ReserveKey \/ SettleKey \/ SettleInvocation \/ PersistToolResult
  \/ Fork \/ ChildrenReturn \/ Join
  \/ \E child \in Children :
       RecordExecution(child) \/ \E table \in Tables : RecordEvent(child, table)

InspectorNext ==
  \/ Approving \/ Working \/ FailRun \/ Trim
  \/ \E child \in Children : Retry(child)
  \/ ReadRun \/ ReadTranscript

InspectorSpec == InspectorInit /\ [][InspectorNext]_inspected

(* As in Approvals; activities that are waited for go on. *)
InspectorFairSpec ==
  /\ InspectorSpec
  /\ WF_inspected((\E p \in Attempts : Awaited(p) /\ Step(p)) /\ Approving)
  /\ WF_inspected(Expire /\ Approving)
  /\ WF_inspected(Working)
  /\ WF_inspected(Free /\ Approving)

-----------------------------------------------------------------------------
(* The type of the variables this module adds. *)
InspectorTypeOK ==
  /\ phase \in {"none", "tool", "start", "complete", "result", "done"}
  /\ invocation \in [Calls -> {"none", "running", "complete", "failed"}]
  /\ entry \in [Calls -> {"none", "pending", "complete", "failed"}]
  /\ result \in [Calls -> {"none", "ok", "error"}]
  /\ executions \in [Children -> {"none", "running", "completed", "failed"}]
  /\ told \in [Tables -> [Events -> [Children -> 0..clock]]]
  /\ now \in [Children -> 0..clock] /\ retries \in 0..MaxRetries
  /\ seen.at \in {"none", "run", "transcript"}

Viewed == seen.at = "transcript"

(* Whatever is written between the reads, an inspector that says the run is
   complete shows nothing of it as going on: no lane, no step of a call that
   was approved, no activity, child, timer or approval. *)
CompleteViewIsWhole ==
  Viewed /\ seen.run = "complete" =>
    /\ \A child \in Children : Lane(child) # "running"
    /\ \A shown \in Concepts \cup History : shown[2] \notin {"running", "pending"}
    /\ approvalWaitCount = 0
    /\ Evidence.count = Evidence.complete + Evidence.failed
    /\ \A n \in Calls :
         answer[n] # None /\ answer[n].state = "approved" => StepOfCall(n) \in {"succeeded", "failed"}

(* The lane of a child is there once the start of the child is in either
   table, runs until its end is in either, and then shows how it ended: rows
   that a retry wrote later and a stream that is behind or trimmed do not
   bring it back. *)
LanesFollowChildren ==
  Viewed =>
    \A child \in Children :
      LET Told(event) == seen.told[event][child] # 0 \/ told["stream"][event][child] # 0
      IN  Lane(child) = CASE Told("complete") -> Outcome(child)
                          [] ~Told("complete") /\ Told("start") -> "running"
                          [] ~Told("complete") /\ ~Told("start") -> "none"

(* The evidence of an activity and the step of its call, which come from two
   tables, do not contradict each other. *)
EvidenceAgreesWithSteps ==
  Viewed =>
    \A n \in Invoked : seen.result[n] # "none" =>
      /\ invocation[n] \in {"complete", "failed"}
      /\ StepOfCall(n) = "failed" <=> invocation[n] = "failed"

(* An inspector that says the run waits for an approval can show which: the
   request is in its transcript and among its approvals. *)
WaitingViewShowsRequest ==
  Viewed /\ seen.run = "waiting_approval" =>
    \E n \in Calls : <<n, "request">> \in seen.approvals /\ Recorded(n)

(* What the inspector shows is so: nothing goes on in a complete run, the lanes follow
   the children, the numbers follow the steps, and a waiting run shows its request. *)
InspectorShowsTheRun ==
  InspectorTypeOK /\ CompleteViewIsWhole /\ LanesFollowChildren /\ EvidenceAgreesWithSteps
    /\ WaitingViewShowsRequest
=============================================================================
