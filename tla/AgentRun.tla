------------------------------ MODULE AgentRun ------------------------------
(***************************************************************************)
(* agentRunWorkflow: one turn of a session.  It alternates model calls and *)
(* tool calls under a budget, parks on human approvals, answers the update *)
(* handlers that resolve them, and ends by recording the run and killing   *)
(* the session's sandbox processes.                                        *)
(*                                                                         *)
(* A step is what the workflow does between two awaits.  Every await is an *)
(* activity, a child workflow or a condition; while it is suspended the    *)
(* signal and update handlers run, and a cancellation may strike.  An      *)
(* activity that fails or is cancelled may or may not have written to the  *)
(* database before.                                                        *)
(*                                                                         *)
(* Abstracted: prompts, arguments and answers; token, cost and wall-clock  *)
(* budgets (a free choice at the model boundary); the budget ledger of the *)
(* subagents; steering (it changes only the prompt); the queried status,   *)
(* which repeats pc and result.  Tool calls are numbered by toolCallCount, *)
(* which also names their approvals.                                       *)
(***************************************************************************)
EXTENDS Naturals, FiniteSets

CONSTANTS
  Resolvers,          \* calls of resolveApproval, one each
  MaxModelCalls,      \* budget.maxModelCalls
  MaxToolCalls,       \* budget.maxToolCalls
  MaxActions,         \* budget.maxActions
  MaxChildWorkflows,  \* budget.maxChildWorkflows
  MaxBatch,           \* bound: tool calls in one model response
  MaxTasks            \* tasks of one delegate.parallel call (3 in the code)

ASSUME RunAssumption ==
  /\ {MaxModelCalls, MaxToolCalls, MaxActions, MaxChildWorkflows} \subseteq Nat
  /\ MaxBatch \in Nat
  /\ MaxTasks \in Nat \ {0}

VARIABLES
  pc,                  \* the await the main function is suspended on
  interrupted,         \* interruptRunSignal was received
  cancelRequested,     \* the workflow was cancelled
  delegateSubagents,   \* input.delegateSubagents
  modelCallCount, toolCallCount, actionsCount, childWorkflowCount,
  launched,            \* history: child workflows started
  remaining,           \* tool calls of this model response still to handle
  kind,                \* the tool of the current call
  cut,                 \* its timer.wait ended early
  persisted,           \* history: calls whose result was persisted
  pendingApproval,     \* call whose approval resolvers may address, 0 for null
  approvalResolution,  \* action of the last accepted resolver, "none" for null
  chosen,              \* action sent with recordApprovalResolution
  recorded,            \* recordedApprovalResolution: terminal state or "none"
  approvals,           \* approval_requests rows, by call
  resolver,            \* the call of each resolver
  record,              \* runs.status in the database
  result,              \* status to be recorded, "none" while undecided
  completion,          \* the recordRunCompleted call that is returned unawaited
  exit                 \* how the workflow ends or ended

counters == <<modelCallCount, toolCallCount, actionsCount, childWorkflowCount,
              launched>>
call == <<remaining, kind, cut, persisted>>
approval == <<pendingApproval, approvalResolution, chosen, recorded, approvals,
              resolver>>
ending == <<result, completion, exit>>
input == <<interrupted, cancelRequested, delegateSubagents>>

vars == <<pc, input, counters, call, approval, record, ending>>

Kinds == {"tool", "wait", "delegate", "parallel"}
UserActions == {"approve", "deny", "remember", "cancel"}
TerminalStates == {"approved", "denied", "remembered", "cancelled", "expired"}

(* approve_with_edits differs from approve in the arguments only. *)
terminalStateForAction ==
  [approve |-> "approved", deny |-> "denied", remember |-> "remembered",
   cancel |-> "cancelled", expire |-> "expired"]

Idle == [phase |-> "idle", id |-> 0, action |-> "none", answer |-> "none"]

Waiting == {c \in Resolvers : resolver[c].phase = "waiting"}

Init ==
  /\ pc = "starting"
  /\ interrupted = FALSE
  /\ cancelRequested = FALSE
  /\ delegateSubagents \in BOOLEAN
  /\ modelCallCount = 0
  /\ toolCallCount = 0
  /\ actionsCount = 0
  /\ childWorkflowCount = 0
  /\ launched = 0
  /\ remaining = 0
  /\ kind = "tool"
  /\ cut = FALSE
  /\ persisted = {}
  /\ pendingApproval = 0
  /\ approvalResolution = "none"
  /\ chosen = "none"
  /\ recorded = "none"
  /\ approvals = [i \in 1..MaxToolCalls |-> "none"]
  /\ resolver = [c \in Resolvers |-> Idle]
  /\ record = "absent"
  /\ result = "none"
  /\ completion = "none"
  /\ exit = "none"

-----------------------------------------------------------------------------
(* Where the loop goes.  Each operator fixes pc', the counters and remaining,
   kind and recorded. *)

FanOutOverFullBudget(actions, children) ==
  delegateSubagents /\ 3 <= MaxChildWorkflows /\ actions + 3 <= MaxActions

(* The fan-out is all three subagents or none. *)
FanOutAllowed(actions, children) ==
  delegateSubagents /\ children + 3 <= MaxChildWorkflows /\ actions + 3 <= MaxActions

(* Past the loop: the fan-out of subagents, then the memory summary. *)
LeaveLoop(actions) ==
  /\ actionsCount' = actions
  /\ IF FanOutAllowed(actions, childWorkflowCount)
     THEN pc' = "fanout" /\ launched' = launched + 3
     ELSE pc' = "summarising" /\ UNCHANGED launched
  /\ remaining' = 0
  /\ UNCHANGED <<childWorkflowCount, kind, recorded>>

ModelBudgetLeft(modelCalls) == modelCalls < MaxModelCalls

(* The top of the loop; the cost, token and wall-clock budgets may end it too. *)
NextModelCall(modelCalls, actions) ==
  /\ modelCallCount' = modelCalls
  /\ UNCHANGED toolCallCount
  /\ \/ LeaveLoop(actions)
     \/ /\ ModelBudgetLeft(modelCalls)
        /\ pc' = "searching"
        /\ actionsCount' = actions
        /\ remaining' = 0
        /\ UNCHANGED <<childWorkflowCount, launched, kind, recorded>>

IsDelegate(k) == k \in {"delegate", "parallel"}

(* The checks before a tool call; a call that passes goes to the policy. *)
NextToolCall(left, modelCalls, actions) ==
  /\ modelCallCount' = modelCalls
  /\ IF toolCallCount >= MaxToolCalls \/ actions >= MaxActions
     THEN LeaveLoop(actions) /\ UNCHANGED toolCallCount
     ELSE /\ toolCallCount' = toolCallCount + 1
          /\ \E k \in Kinds :
               IF /\ IsDelegate(k)
                  /\ \/ childWorkflowCount >= MaxChildWorkflows
                     \/ actions + 1 >= MaxActions
               THEN LeaveLoop(actions + 1)
               ELSE /\ pc' = "deciding"
                    /\ kind' = k
                    /\ actionsCount' = actions + 1
                    /\ remaining' = left - 1
                    /\ recorded' = "none"
                    /\ UNCHANGED <<childWorkflowCount, launched>>

(* After handleToolCall: a remembered decision becomes a memory candidate, then
   the result is persisted or, for a terminal outcome, the handlers drain. *)
AfterToolCall(status) ==
  /\ result' = status
  /\ \/ recorded' # "none" /\ pc' = "remembering"
     \/ pc' = IF status = "none" THEN "persisting" ELSE "draining"

-----------------------------------------------------------------------------
(* The model boundary. *)

RunStarted ==
  /\ pc = "starting"
  /\ record' = "running"
  /\ NextModelCall(0, 0)
  /\ UNCHANGED <<input, cut, persisted, pendingApproval, approvalResolution, chosen,
                 approvals, resolver, ending>>

(* recordRunStarted is outside the try block: no record, no cleanup. *)
StartFailed ==
  /\ pc = "starting"
  /\ record' \in {"absent", "running"}
  /\ pc' = "closed"
  /\ exit' = "failed"
  /\ UNCHANGED <<input, counters, call, approval, result, completion>>

(* A failed search is an empty one. *)
MemorySearched ==
  /\ pc = "searching"
  /\ pc' = "calling"
  /\ UNCHANGED <<input, counters, call, approval, record, ending>>

ModelAnswered ==
  /\ pc = "calling"
  /\ \/ modelCallCount' = modelCallCount + 1 /\ LeaveLoop(actionsCount)
        /\ UNCHANGED toolCallCount
     \/ \E n \in 1..MaxBatch : NextToolCall(n, modelCallCount + 1, actionsCount)
  /\ UNCHANGED <<input, cut, persisted, pendingApproval, approvalResolution, chosen,
                 approvals, resolver, record, ending>>

-----------------------------------------------------------------------------
(* One tool call. *)

(* Denied, allowed, or parked until the approval request is recorded. *)
PolicyDenied ==
  /\ pc = "deciding"
  /\ pc' = "draining"
  /\ result' = "failed"
  /\ UNCHANGED <<input, counters, call, approval, record, completion, exit>>

PolicyAllowed ==
  /\ pc = "deciding"
  /\ \/ kind = "tool" /\ pc' = "executing" /\ UNCHANGED cut
     \/ /\ kind = "wait"
        /\ cut' = interrupted
        /\ pc' = IF interrupted THEN "persisting" ELSE "timer"
  /\ UNCHANGED <<input, counters, remaining, kind, persisted, approval, record, ending>>

KeptResolution == approvalResolution

ClearedResolution == "none"

ApprovalRequired ==
  /\ pc = "deciding"
  /\ kind # "wait"
  /\ pc' = "requesting"
  /\ approvalResolution' = ClearedResolution
  /\ UNCHANGED <<input, counters, call, pendingApproval, chosen, recorded, approvals,
                 resolver, record, ending>>

TimerFired ==
  /\ pc = "timer"
  /\ pc' = "persisting"
  /\ UNCHANGED <<input, counters, call, approval, record, ending>>

(* condition() sees the interrupt signal first: the partial wait is a result. *)
TimerInterrupted ==
  /\ pc = "timer"
  /\ interrupted
  /\ pc' = "persisting"
  /\ cut' = TRUE
  /\ UNCHANGED <<input, counters, remaining, kind, persisted, approval, record, ending>>

(* executeTool returned, also with an error outcome. *)
ToolExecuted ==
  /\ pc = "executing"
  /\ recorded' = recorded
  /\ AfterToolCall("none")
  /\ UNCHANGED <<input, counters, call, pendingApproval, approvalResolution, chosen,
                 approvals, resolver, record, completion, exit>>

(* The delegated subagents returned: they count as children now. *)
SubagentsReturned ==
  /\ pc = "delegating"
  /\ childWorkflowCount' = launched
  /\ recorded' = recorded
  /\ AfterToolCall("none")
  /\ UNCHANGED <<input, modelCallCount, toolCallCount, actionsCount, launched, call,
                 pendingApproval, approvalResolution, chosen, approvals, resolver,
                 record, completion, exit>>

(* writeMemoryCandidate succeeded or failed: a failure is only reported. *)
Remembered ==
  /\ pc = "remembering"
  /\ pc' = IF result = "none" THEN "persisting" ELSE "draining"
  /\ UNCHANGED <<input, counters, call, approval, record, ending>>

(* A single delegate counts a second action, a delegate.parallel none. *)
ToolResultPersisted ==
  /\ pc = "persisting"
  /\ persisted' = persisted \cup {toolCallCount}
  /\ LET actions == actionsCount + (IF kind = "delegate" THEN 1 ELSE 0) IN
     IF cut
     THEN /\ pc' = "draining"
          /\ result' = "cancelled"
          /\ UNCHANGED <<counters, remaining, kind, recorded>>
     ELSE /\ UNCHANGED result
          /\ IF remaining > 0
             THEN NextToolCall(remaining, modelCallCount, actions)
             ELSE NextModelCall(modelCallCount, actions)
  /\ UNCHANGED <<input, cut, pendingApproval, approvalResolution, chosen, approvals,
                 resolver, record, completion, exit>>

-----------------------------------------------------------------------------
(* Approvals. *)

(* The approval_requests row and runs.status; a retry that finds the row leaves
   runs.status as the first attempt left it. *)
RequestWritten ==
  /\ pc = "requesting"
  /\ approvals[toolCallCount] = "none"
  /\ approvals' = [approvals EXCEPT ![toolCallCount] = "pending"]
  /\ record' \in {record, "waiting_approval"}
  /\ UNCHANGED <<pc, input, counters, call, pendingApproval, approvalResolution, chosen,
                 recorded, resolver, ending>>

(* Only now can a resolver address the approval, though its row, its card and
   its stream event have been visible since RequestWritten. *)
ApprovalParked ==
  /\ pc = "requesting"
  /\ approvals[toolCallCount] = "pending"
  /\ pc' = "parked"
  /\ pendingApproval' = toolCallCount
  /\ UNCHANGED <<input, counters, call, approvalResolution, chosen, recorded, approvals,
                 resolver, record, ending>>

RecordedAnswer(c, state) == state

Answered(c, state) ==
  [resolver[c] EXCEPT !.phase = "answered", !.answer = RecordedAnswer(c, state)]

(* resolveApproval, accepted: it overwrites the resolution and waits until one is
   recorded for its approval, which may be the case already. *)
ResolveApproval(c, action) ==
  /\ pc # "closed"
  /\ pendingApproval # 0
  /\ resolver[c].phase = "idle"
  /\ approvalResolution' = action
  /\ resolver' = [resolver EXCEPT ![c] =
       [phase |-> IF recorded = "none" THEN "waiting" ELSE "answered",
        id |-> pendingApproval, action |-> action, answer |-> recorded]]
  /\ UNCHANGED <<pc, input, counters, call, pendingApproval, chosen, recorded, approvals,
                 record, ending>>

(* The wait saw a resolution, the last one accepted so far. *)
ResolutionChosen ==
  /\ pc = "parked"
  /\ approvalResolution # "none"
  /\ pc' = "recording"
  /\ chosen' = approvalResolution
  /\ UNCHANGED <<input, counters, call, pendingApproval, approvalResolution, recorded,
                 approvals, resolver, record, ending>>

WaitsForever == FALSE

NobodyResolved == approvalResolution = "none"

(* approvalTtlMs passed without a resolution. *)
ApprovalExpires ==
  /\ pc = "parked"
  /\ NobodyResolved
  /\ pc' = "expiring"
  /\ chosen' = "expire"
  /\ UNCHANGED <<input, counters, call, pendingApproval, approvalResolution, recorded,
                 approvals, resolver, record, ending>>

(* recordApprovalResolution writes the row once; an approval also restores
   runs.status, unless an attempt was lost in between. *)
ResolutionWritten ==
  /\ pc \in {"recording", "expiring"}
  /\ approvals[toolCallCount] = "pending"
  /\ approvals' = [approvals EXCEPT ![toolCallCount] = terminalStateForAction[chosen]]
  /\ record' \in {record} \cup (IF chosen = "approve" THEN {"running"} ELSE {})
  /\ UNCHANGED <<pc, input, counters, call, pendingApproval, approvalResolution, chosen,
                 recorded, resolver, ending>>

(* An expiry answers no resolver: those that came in the meantime wait on. *)
ExpiryRecorded ==
  /\ pc = "expiring"
  /\ approvals[toolCallCount] # "pending"
  /\ pc' = "draining"
  /\ result' = "complete"
  /\ UNCHANGED <<input, counters, call, approval, record, completion, exit>>

NotRefused(state) == state \notin {"denied", "cancelled"}

MayExecute(state) == state = "approved"

(* The approved call: executed, delegated, or stopped by the child budget. *)
Approved ==
  /\ pendingApproval' = 0
  /\ \/ /\ ~IsDelegate(kind)
        /\ pc' = "executing"
        /\ UNCHANGED <<launched, result>>
     \/ /\ IsDelegate(kind)
        /\ \E tasks \in 1..(IF kind = "parallel" THEN MaxTasks ELSE 1) :
             IF childWorkflowCount + tasks > MaxChildWorkflows
             THEN AfterToolCall("complete") /\ UNCHANGED launched
             ELSE /\ pc' = "delegating"
                  /\ launched' = launched + tasks
                  /\ UNCHANGED result

OnlyTheChosen == {c \in Waiting : resolver[c].action = chosen}

ToAnswer == Waiting

(* The recorded resolution answers every resolver of this approval, the last
   one and those it overwrote; then the outcome follows the recorded state. *)
ResolutionRecorded ==
  /\ pc = "recording"
  /\ LET state == approvals[toolCallCount] IN
     /\ state # "pending"
     /\ recorded' = state
     /\ resolver' = [c \in Resolvers |->
          IF c \in ToAnswer /\ resolver[c].id = toolCallCount
          THEN Answered(c, state) ELSE resolver[c]]
     /\ IF MayExecute(state)
        THEN Approved
        ELSE /\ AfterToolCall(IF state = "cancelled" THEN "cancelled" ELSE "complete")
             /\ UNCHANGED <<pendingApproval, launched>>
  /\ UNCHANGED <<input, modelCallCount, toolCallCount, actionsCount, childWorkflowCount,
                 call, approvalResolution, chosen, approvals, record, completion, exit>>

-----------------------------------------------------------------------------
(* The end of the run. *)

SubagentsFannedIn ==
  /\ pc = "fanout"
  /\ pc' = "summarising"
  /\ UNCHANGED <<input, counters, call, approval, record, ending>>

(* The session memory candidate was written, or its failure noted. *)
RunSummarised ==
  /\ pc = "summarising"
  /\ pc' = "draining"
  /\ result' = "complete"
  /\ UNCHANGED <<input, counters, call, approval, record, completion, exit>>

(* All handlers finished, or HANDLER_FINISH_TIMEOUT_MS passed.  completeRun is
   returned without an await: the finally block runs beside it. *)
HandlersDrained ==
  /\ pc = "draining"
  /\ pc' = "cleanup"
  /\ completion' = "inflight"
  /\ exit' = "returned"
  /\ UNCHANGED <<input, counters, call, approval, record, result>>

(* The activity may still be running when the workflow is closed. *)
CompletionEnds(how) ==
  /\ completion = "inflight"
  /\ completion' = how
  /\ record' \in IF how = "done" THEN {result} ELSE {record, result}
  /\ UNCHANGED <<pc, input, counters, call, approval, result, exit>>

(* finally: cancelSandboxSession, one attempt; its error replaces the outcome. *)
CleanupEnds(succeeded) ==
  /\ pc = "cleanup"
  /\ pc' = IF succeeded /\ exit = "returned" THEN "settling" ELSE "closed"
  /\ exit' = IF succeeded THEN exit ELSE "failed"
  /\ UNCHANGED <<input, counters, call, approval, record, result, completion>>

CompletionSettled == pc = "settling" /\ completion # "inflight"

(* The workflow takes the outcome of the promise it returned. *)
RunReturns ==
  /\ CompletionSettled
  /\ pc' = "closed"
  /\ exit' = CASE completion = "failed" -> "failed"
               [] completion = "cancelled" -> "cancelled"
               [] OTHER -> "returned"
  /\ UNCHANGED <<input, counters, call, approval, record, result, completion>>

(* What a failed or cancelled activity may have written before it ended. *)
MayHaveWritten ==
  \/ UNCHANGED <<approvals, record>>
  \/ /\ pc = "requesting"
     /\ approvals[toolCallCount] = "none"
     /\ approvals' = [approvals EXCEPT ![toolCallCount] = "pending"]
     /\ record' \in {record, "waiting_approval"}
  \/ /\ pc \in {"recording", "expiring"}
     /\ approvals[toolCallCount] = "pending"
     /\ approvals' = [approvals EXCEPT ![toolCallCount] = terminalStateForAction[chosen]]
     /\ record' \in {record} \cup (IF chosen = "approve" THEN {"running"} ELSE {})

(* An activity or a subagent failed past its attempts: the catch block. *)
ActivityFailed ==
  /\ pc \in {"calling", "deciding", "requesting", "recording", "expiring", "executing",
             "delegating", "persisting", "fanout"}
  /\ MayHaveWritten
  /\ pc' = "failing"
  /\ result' = "failed"
  /\ UNCHANGED <<input, counters, call, pendingApproval, approvalResolution, chosen,
                 recorded, resolver, completion, exit>>

(* recordRunCompleted('failed'), shielded from cancellation, succeeded or not. *)
FailureRecorded ==
  /\ pc = "failing"
  /\ pc' = "cleanup"
  /\ exit' = "failed"
  /\ record' \in {record, "failed"}
  /\ UNCHANGED <<input, counters, call, approval, result, completion>>

-----------------------------------------------------------------------------
(* Signals and cancellation. *)

Interrupt ==
  /\ pc # "closed"
  /\ ~interrupted
  /\ interrupted' = TRUE
  /\ UNCHANGED <<pc, cancelRequested, delegateSubagents, counters, call, approval, record,
                 ending>>

(* The session cancels the scope of the run.  Every await but the shielded ones
   is rejected; the catch block rethrows and nothing is recorded. *)
Cancel ==
  /\ pc # "closed"
  /\ ~cancelRequested
  /\ cancelRequested' = TRUE
  /\ CASE pc = "starting" ->
            /\ record' \in {"absent", "running"}
            /\ pc' = "closed"
            /\ exit' = "cancelled"
            /\ UNCHANGED <<approvals, completion>>
       [] pc \in {"cleanup", "settling"} /\ completion = "inflight" ->
            /\ record' \in {record, result}
            /\ completion' = "cancelled"
            /\ UNCHANGED <<pc, exit, approvals>>
       [] pc = "failing" \/ (pc \in {"cleanup", "settling"} /\ completion # "inflight") ->
            UNCHANGED <<pc, exit, record, approvals, completion>>
       [] OTHER ->
            /\ MayHaveWritten
            /\ pc' = "cleanup"
            /\ exit' = "cancelled"
            /\ UNCHANGED completion
  /\ UNCHANGED <<interrupted, delegateSubagents, counters, call, pendingApproval,
                 approvalResolution, chosen, recorded, resolver, result>>

-----------------------------------------------------------------------------
Start == RunStarted \/ StartFailed

ModelStep == MemorySearched \/ ModelAnswered

ToolStep ==
  \/ PolicyDenied \/ PolicyAllowed \/ ApprovalRequired
  \/ TimerFired \/ TimerInterrupted
  \/ ToolExecuted \/ SubagentsReturned
  \/ Remembered \/ ToolResultPersisted

ApprovalStep ==
  \/ RequestWritten \/ ApprovalParked
  \/ ResolutionChosen \/ ApprovalExpires
  \/ ResolutionWritten \/ ExpiryRecorded \/ ResolutionRecorded

EndStep ==
  \/ SubagentsFannedIn \/ RunSummarised \/ HandlersDrained
  \/ \E how \in {"done", "failed"} : CompletionEnds(how)
  \/ \E succeeded \in BOOLEAN : CleanupEnds(succeeded)
  \/ RunReturns
  \/ ActivityFailed \/ FailureRecorded

RunStep == Start \/ ModelStep \/ ToolStep \/ ApprovalStep \/ EndStep

Next ==
  \/ RunStep
  \/ \E c \in Resolvers, action \in UserActions : ResolveApproval(c, action)
  \/ Interrupt
  \/ Cancel

Spec == Init /\ [][Next]_vars

(* Temporal schedules every workflow task; activities, timers, the approval wait
   and the handler drain are bounded by timeouts.  Users owe the run nothing. *)
FairSpec == Spec /\ WF_vars(RunStep)

-----------------------------------------------------------------------------
Positions ==
  {"starting", "searching", "calling", "deciding", "executing", "timer", "requesting",
   "parked", "recording", "expiring", "delegating", "remembering", "persisting",
   "fanout", "summarising", "draining", "cleanup", "settling", "failing", "closed"}

Outcomes == {"complete", "failed", "cancelled"}

TypeOK ==
  /\ pc \in Positions
  /\ {interrupted, cancelRequested, delegateSubagents} \subseteq BOOLEAN
  /\ modelCallCount \in 0..MaxModelCalls
  /\ toolCallCount \in 0..MaxToolCalls
  /\ actionsCount \in Nat
  /\ childWorkflowCount \in Nat
  /\ launched \in Nat
  /\ remaining \in Nat
  /\ kind \in Kinds
  /\ cut \in BOOLEAN
  /\ persisted \subseteq 1..MaxToolCalls
  /\ pendingApproval \in 0..MaxToolCalls
  /\ approvalResolution \in UserActions \cup {"none"}
  /\ chosen \in UserActions \cup {"none", "expire"}
  /\ recorded \in TerminalStates \cup {"none"}
  /\ approvals \in [1..MaxToolCalls -> TerminalStates \cup {"none", "pending"}]
  /\ resolver \in [Resolvers -> [phase : {"idle", "waiting", "answered"},
                                 id : 0..MaxToolCalls,
                                 action : UserActions \cup {"none"},
                                 answer : TerminalStates \cup {"none"}]]
  /\ record \in Outcomes \cup {"absent", "running", "waiting_approval"}
  /\ result \in Outcomes \cup {"none"}
  /\ completion \in {"none", "inflight", "done", "failed", "cancelled"}
  /\ exit \in {"none", "returned", "failed", "cancelled"}

(* A call that was put to the user runs, and its result is kept, only if the
   row of its approval says approved; subagents are delegated in no other way. *)
ApprovalGate ==
  /\ pc \in {"executing", "delegating"} =>
       approvals[toolCallCount] \in
         {"approved"} \cup (IF IsDelegate(kind) THEN {} ELSE {"none"})
  /\ \A i \in persisted : approvals[i] \in {"none", "approved"}

(* An approval is granted by a resolver who addressed that very call, never by
   a resolution left over from an earlier one. *)
OwnResolver ==
  \A i \in 1..MaxToolCalls :
    approvals[i] = "approved" =>
      \E c \in Resolvers : resolver[c].id = i /\ resolver[c].action = "approve"

(* Every resolver who gets an answer gets the one that was recorded, also when
   another resolver overwrote its resolution. *)
AnswersAgree ==
  \A c \in Resolvers :
    resolver[c].phase = "answered" => resolver[c].answer = approvals[resolver[c].id]

(* A resolver the run accepted is left without an answer only by a run that
   failed or was cancelled, or by an expiry that was being recorded. *)
NoResolverDropped ==
  pc = "closed" /\ exit = "returned" =>
    \A c \in Waiting : approvals[resolver[c].id] = "expired"

(* All ways of starting subagents together stay within the child budget. *)
ChildBudget == launched <= MaxChildWorkflows

(* A run recorded as cancelled because its wait was cut short has persisted
   the partial result first. *)
PartialWaitPersisted ==
  record = "cancelled" /\ cut => toolCallCount \in persisted

(* A workflow that returns has recorded the status it returns. *)
ReturnedRunsAreRecorded ==
  pc = "closed" /\ exit = "returned" => record = result

(* The run ends, whatever its tools, its users and its activities do. *)
RunEnds == <>(pc = "closed")

(* Nothing runs without a user's yes: the gate, and a yes meant for that very call. *)
OnlyApprovedRuns == ApprovalGate /\ OwnResolver

(* Users who resolve an approval are served: with one answer, the recorded one, and
   by every run that returns. *)
ResolversServed == AnswersAgree /\ NoResolverDropped

(* The books of agentRunWorkflow: its counters and budgets, the results it persisted
   and the status it recorded. *)
RunAccounted == TypeOK /\ ChildBudget /\ PartialWaitPersisted /\ ReturnedRunsAreRecorded
=============================================================================
