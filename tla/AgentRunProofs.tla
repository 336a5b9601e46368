--------------------------- MODULE AgentRunProofs ---------------------------
(***************************************************************************)
(* The safety properties of a run for any resolvers and any budget.        *)
(* They rest on one inductive invariant in four parts, each proved with    *)
(* the help of the parts before it: the counters, the approval rows, the   *)
(* resolvers, and the end of the run.                                      *)
(* The second half of the module is about ModelTurn: what a session's      *)
(* runs tell the model, for any budget, any subagents and any late answer. *)
(***************************************************************************)
EXTENDS AgentRun, ModelTurn, FiniteSetTheorems, WellFoundedInduction, TLAPS

ModelPositions == {"searching", "calling"}

WaitPositions == {"parked", "recording", "expiring"}

(* The awaits of handleToolCall, and those that use its outcome. *)
CallPositions ==
  WaitPositions \cup {"deciding", "executing", "timer", "requesting", "delegating",
                      "remembering", "persisting"}

(* The counters: a call has a number, a call of the model is still paid for,
   and every subagent started is counted once its call is over. *)
Counts ==
  /\ pc = "starting" => modelCallCount = 0
  /\ pc \in ModelPositions => modelCallCount < MaxModelCalls
  /\ pc \in CallPositions => toolCallCount >= 1
  /\ launched <= MaxChildWorkflows
  /\ pc \in {"starting"} \cup ModelPositions \cup (CallPositions \ {"delegating"})
       => childWorkflowCount = launched

(* What a stage of the run needs was set before it: a row to resolve, an action
   to record, a status to report. *)
Stages ==
  /\ pc \in WaitPositions => approvals[toolCallCount] # "none"
  /\ pc \in {"recording", "expiring"} => chosen # "none"
  /\ pc = "draining" \/ completion # "none" => result # "none"
  /\ pc \notin {"cleanup", "settling", "closed"} => completion = "none" /\ exit = "none"
  /\ pc = "settling" => exit = "returned"

(* Nothing is decided about the run while it is in its loop. *)
Undecided ==
  pc \in {"starting", "fanout", "summarising"} \cup ModelPositions
           \cup (CallPositions \ {"remembering"})
    => result = "none"

(* The approval rows: rows of later calls do not exist, and the row of the
   current call is as far as the position says. *)
Rows ==
  /\ \A i \in 1..MaxToolCalls : i > toolCallCount => approvals[i] = "none"
  /\ pc \in {"deciding", "timer"} => approvals[toolCallCount] = "none"
  /\ pc = "requesting" => approvals[toolCallCount] \in {"none", "pending"}
  /\ pc = "parked" => approvals[toolCallCount] = "pending"
  /\ pc = "recording" => approvals[toolCallCount] \in {"pending"} \cup TerminalStates
  /\ pc = "expiring" => approvals[toolCallCount] \in {"pending", "expired"}
  /\ pc = "expiring" => chosen = "expire"
  /\ pc = "persisting" \/ (pc = "remembering" /\ result = "none")
       => approvals[toolCallCount] \in {"none", "approved"}
  /\ \A i \in persisted : i <= toolCallCount
  /\ pc \in CallPositions => toolCallCount \notin persisted

(* The approval resolvers may address is that of the current call, from the
   moment it is parked; only a terminal outcome leaves it addressable. *)
Pending ==
  /\ pendingApproval \in {0, toolCallCount}
  /\ pc \in WaitPositions => pendingApproval = toolCallCount
  /\ pendingApproval # 0 =>
       \/ pc \in WaitPositions
       \/ pc = "remembering" /\ result # "none"
       \/ pc \in {"draining", "cleanup", "settling", "failing", "closed"}
  /\ pendingApproval # 0 /\ recorded # "none" =>
       recorded \in TerminalStates /\ recorded = approvals[toolCallCount]
  /\ pc \in WaitPositions \cup {"deciding", "requesting"} => recorded = "none"
  /\ pendingApproval # 0 /\ recorded = "none" =>
       \/ pc \in WaitPositions
       \/ approvals[toolCallCount] = "expired"
       \/ pc = "failing" \/ exit \in {"failed", "cancelled"}

(* The resolution that is chosen comes from a resolver of this call. *)
Chosen ==
  /\ pc = "requesting" => approvalResolution = "none" /\ pendingApproval = 0
  /\ pc = "parked" /\ approvalResolution # "none" =>
       \E c \in Resolvers :
         resolver[c].id = toolCallCount /\ resolver[c].action = approvalResolution
  /\ pc = "recording" =>
       \E c \in Resolvers :
         resolver[c].id = toolCallCount /\ resolver[c].action = chosen

(* What each resolver has, by the phase of its call. *)
Calls ==
  \A c \in Resolvers :
    /\ resolver[c].phase = "idle" => resolver[c].id = 0
    /\ resolver[c].phase # "idle" => resolver[c].id \in 1..toolCallCount
    /\ resolver[c].phase = "answered" =>
         /\ resolver[c].answer \in TerminalStates
         /\ resolver[c].answer = approvals[resolver[c].id]
    /\ resolver[c].phase = "waiting" =>
         \/ pc \in WaitPositions /\ resolver[c].id = toolCallCount
         \/ approvals[resolver[c].id] = "expired"
         \/ pc = "failing" \/ exit \in {"failed", "cancelled"}

(* The end: what the completion in flight will write, and what was written. *)
Ending ==
  /\ pc \in {"cleanup", "settling"} => exit # "none"
  /\ exit = "returned" => completion # "none"
  /\ pc = "closed" /\ exit = "returned" => completion = "done"
  /\ completion = "done" => record = result
  /\ pc = "remembering" /\ result = "cancelled" => ~cut
  /\ completion = "none" => record # "cancelled"
  /\ record = "cancelled" => result = "cancelled"
  /\ cut => pc \in {"persisting", "draining", "cleanup", "settling", "failing", "closed"}
  /\ cut /\ result = "cancelled" => toolCallCount \in persisted

RunInv ==
  /\ TypeOK /\ Counts /\ Stages
  /\ Undecided /\ Rows /\ ApprovalGate
  /\ Pending /\ Chosen /\ Calls /\ OwnResolver
  /\ Ending

-----------------------------------------------------------------------------
(* Types and counters. *)

CountInv == TypeOK /\ Counts /\ Stages

LEMMA CountInit == Init => CountInv
<1> SUFFICES ASSUME Init PROVE CountInv
  OBVIOUS
<1>1. MaxModelCalls \in Nat /\ MaxToolCalls \in Nat /\ MaxChildWorkflows \in Nat
  BY RunAssumption
<1>2. approvals \in [1..MaxToolCalls -> TerminalStates \cup {"none", "pending"}]
  BY DEF Init
<1>3. Idle \in [phase : {"idle", "waiting", "answered"}, id : 0..MaxToolCalls,
                action : UserActions \cup {"none"}, answer : TerminalStates \cup {"none"}]
  BY <1>1 DEF Idle
<1>4. resolver \in [Resolvers -> [phase : {"idle", "waiting", "answered"},
                                  id : 0..MaxToolCalls,
                                  action : UserActions \cup {"none"},
                                  answer : TerminalStates \cup {"none"}]]
  BY <1>3 DEF Init
<1>5. {interrupted, cancelRequested, delegateSubagents} \subseteq BOOLEAN
  BY DEF Init
<1>6. Counts /\ Stages
  BY <1>1 DEF Init, Counts, Stages, ModelPositions, CallPositions, WaitPositions
<1>7. /\ modelCallCount \in 0..MaxModelCalls /\ toolCallCount \in 0..MaxToolCalls
      /\ pendingApproval \in 0..MaxToolCalls
  BY <1>1 DEF Init
<1> QED BY <1>2, <1>4, <1>5, <1>6, <1>7 DEF Init, CountInv, TypeOK, Positions, Kinds

(* The control operators move to positions of the loop or past it, and keep the
   counters within the budget. *)
LEMMA LeaveLoopCounts ==
  ASSUME CountInv, NEW a \in Nat, LeaveLoop(a), childWorkflowCount = launched
  PROVE  /\ pc' \in {"fanout", "summarising"}
         /\ actionsCount' \in Nat
         /\ launched' \in Nat /\ launched' <= MaxChildWorkflows
         /\ remaining' = 0
         /\ UNCHANGED <<childWorkflowCount, kind, recorded>>
BY RunAssumption DEF CountInv, TypeOK, Counts, LeaveLoop, FanOutAllowed

(* Where both loops of the run go next. *)
LoopMoves ==
  /\ pc' \in {"fanout", "summarising", "searching", "deciding"}
  /\ modelCallCount' \in 0..MaxModelCalls
  /\ pc' = "searching" =>
       modelCallCount' < MaxModelCalls /\ launched' = launched /\ toolCallCount' = toolCallCount
  /\ pc' = "deciding" =>
       toolCallCount' = toolCallCount + 1 /\ launched' = launched /\ recorded' = "none"
  /\ toolCallCount' \in 0..MaxToolCalls
  /\ toolCallCount' \in {toolCallCount, toolCallCount + 1}
  /\ actionsCount' \in Nat
  /\ launched' \in Nat /\ launched' <= MaxChildWorkflows
  /\ remaining' \in Nat
  /\ kind' \in Kinds
  /\ recorded' \in {recorded, "none"}
  /\ childWorkflowCount' = childWorkflowCount

LEMMA NextModelCallMoves ==
  ASSUME CountInv, NEW m \in 0..MaxModelCalls, NEW a \in Nat, NextModelCall(m, a),
         childWorkflowCount = launched
  PROVE  LoopMoves
<1>1. CASE LeaveLoop(a)
  BY <1>1, LeaveLoopCounts DEF NextModelCall, CountInv, TypeOK, LoopMoves
<1>2. CASE ~LeaveLoop(a)
  BY <1>2 DEF NextModelCall, ModelBudgetLeft, CountInv, TypeOK, Counts, LoopMoves
<1> QED BY <1>1, <1>2

LEMMA NextToolCallMoves ==
  ASSUME CountInv, NEW n \in Nat \ {0}, NEW m \in 0..MaxModelCalls, NEW a \in Nat,
         NextToolCall(n, m, a), childWorkflowCount = launched
  PROVE  LoopMoves
<1>1. CASE toolCallCount >= MaxToolCalls \/ a >= MaxActions
  BY <1>1, LeaveLoopCounts DEF NextToolCall, CountInv, TypeOK, LoopMoves
<1>2. CASE ~(toolCallCount >= MaxToolCalls \/ a >= MaxActions)
  <2>1. toolCallCount' = toolCallCount + 1 /\ toolCallCount' \in 0..MaxToolCalls
    BY <1>2, RunAssumption DEF NextToolCall, CountInv, TypeOK
  <2>2. PICK k \in Kinds :
          IF /\ IsDelegate(k)
             /\ \/ childWorkflowCount >= MaxChildWorkflows
                \/ a + 1 >= MaxActions
          THEN LeaveLoop(a + 1)
          ELSE /\ pc' = "deciding"
               /\ kind' = k
               /\ actionsCount' = a + 1
               /\ remaining' = n - 1
               /\ recorded' = "none"
               /\ UNCHANGED <<childWorkflowCount, launched>>
    BY <1>2 DEF NextToolCall
  <2>3. CASE LeaveLoop(a + 1)
    <3>1. a + 1 \in Nat
      OBVIOUS
    <3> QED BY <1>2, <2>1, <2>3, <3>1, LeaveLoopCounts
       DEF NextToolCall, CountInv, TypeOK, LoopMoves
  <2>4. CASE ~LeaveLoop(a + 1)
    BY <1>2, <2>1, <2>2, <2>4 DEF NextToolCall, CountInv, TypeOK, Counts, LoopMoves
  <2> QED BY <2>3, <2>4
<1> QED BY <1>1, <1>2

LEMMA LoopStepMoves ==
  ASSUME CountInv, RunStarted \/ ModelAnswered \/ (ToolResultPersisted /\ ~cut)
  PROVE  LoopMoves
<1> DEFINE m == modelCallCount + 1
           a == actionsCount + (IF kind = "delegate" THEN 1 ELSE 0)
<1>1. childWorkflowCount = launched /\ 0 \in 0..MaxModelCalls
  BY RunAssumption DEF CountInv, Counts, ModelPositions, CallPositions, WaitPositions,
                       RunStarted, ModelAnswered, ToolResultPersisted
<1>2. CASE RunStarted
  BY <1>1, <1>2, NextModelCallMoves DEF RunStarted
<1>3. CASE ModelAnswered
  <2>1. m \in 0..MaxModelCalls
    BY <1>3, RunAssumption DEF ModelAnswered, CountInv, TypeOK, Counts, ModelPositions
  <2>2. CASE modelCallCount' = m /\ LeaveLoop(actionsCount) /\ UNCHANGED toolCallCount
    <3>1. actionsCount \in Nat
      BY DEF CountInv, TypeOK
    <3> QED BY <1>1, <2>1, <2>2, <3>1, LeaveLoopCounts DEF CountInv, TypeOK, LoopMoves
  <2>3. ASSUME NEW n \in 1..MaxBatch, NextToolCall(n, m, actionsCount)
        PROVE  LoopMoves
    <3>1. n \in Nat \ {0} /\ actionsCount \in Nat
      BY RunAssumption DEF CountInv, TypeOK
    <3> HIDE DEF m
    <3> QED BY <1>1, <2>1, <2>3, <3>1, NextToolCallMoves
  <2> QED BY <1>3, <2>2, <2>3 DEF ModelAnswered
<1>4. CASE ToolResultPersisted /\ ~cut
  <2>1. a \in Nat /\ modelCallCount \in 0..MaxModelCalls /\ remaining \in Nat
    BY DEF CountInv, TypeOK
  <2>2. \/ remaining > 0 /\ NextToolCall(remaining, modelCallCount, a)
        \/ NextModelCall(modelCallCount, a)
    BY <1>4 DEF ToolResultPersisted
  <2> HIDE DEF a
  <2> QED BY <1>1, <2>1, <2>2, NextToolCallMoves, NextModelCallMoves
<1> QED BY <1>2, <1>3, <1>4

LEMMA RowWritten ==
  ASSUME CountInv, pc \in {"recording", "expiring"},
         approvals' = [approvals EXCEPT ![toolCallCount] = terminalStateForAction[chosen]]
  PROVE  /\ terminalStateForAction[chosen] \in TerminalStates
         /\ approvals' \in [1..MaxToolCalls -> TerminalStates \cup {"none", "pending"}]
         /\ approvals'[toolCallCount] = terminalStateForAction[chosen]
<1>1. terminalStateForAction[chosen] \in TerminalStates
  BY DEF CountInv, TypeOK, Stages, UserActions, terminalStateForAction, TerminalStates
<1>2. toolCallCount \in 1..MaxToolCalls
  BY RunAssumption DEF CountInv, TypeOK, Counts, CallPositions, WaitPositions
<1> QED BY <1>1, <1>2 DEF CountInv, TypeOK

(* What failed and cancelled activities write keeps the types. *)
LEMMA WrittenTypes ==
  ASSUME CountInv, MayHaveWritten
  PROVE  /\ approvals' \in [1..MaxToolCalls -> TerminalStates \cup {"none", "pending"}]
         /\ record' \in Outcomes \cup {"absent", "running", "waiting_approval"}
<1>1. CASE UNCHANGED <<approvals, record>>
  BY <1>1 DEF CountInv, TypeOK
<1>2. CASE approvals' = [approvals EXCEPT ![toolCallCount] = "pending"]
           /\ record' \in {record, "waiting_approval"}
  BY <1>2 DEF CountInv, TypeOK
<1>3. CASE /\ pc \in {"recording", "expiring"}
           /\ approvals' = [approvals EXCEPT ![toolCallCount] = terminalStateForAction[chosen]]
           /\ record' \in {record} \cup (IF chosen = "approve" THEN {"running"} ELSE {})
  BY <1>3, RowWritten DEF CountInv, TypeOK
<1> QED BY <1>1, <1>2, <1>3 DEF MayHaveWritten

LEMMA CountStep == CountInv /\ [Next]_vars => CountInv'
<1> SUFFICES ASSUME CountInv, [Next]_vars PROVE CountInv'
  OBVIOUS
<1> USE DEF CountInv, TypeOK, Counts, Stages, Positions, ModelPositions, CallPositions,
            WaitPositions, counters, call, approval, ending, input
<1>1. CASE StartFailed
  BY <1>1, RunAssumption DEF StartFailed, UserActions, TerminalStates, Outcomes
<1>2. CASE MemorySearched
  BY <1>2, RunAssumption DEF MemorySearched, UserActions, TerminalStates, Outcomes
<1>3. CASE PolicyDenied
  BY <1>3, RunAssumption DEF PolicyDenied, UserActions, TerminalStates, Outcomes
<1>4. CASE PolicyAllowed
  BY <1>4, RunAssumption DEF PolicyAllowed, UserActions, TerminalStates, Outcomes
<1>5. CASE ApprovalRequired
  BY <1>5, RunAssumption DEF ApprovalRequired, KeptResolution, ClearedResolution,
       UserActions, TerminalStates, Outcomes
<1>6. CASE TimerFired
  BY <1>6, RunAssumption DEF TimerFired, UserActions, TerminalStates, Outcomes
<1>7. CASE TimerInterrupted
  BY <1>7, RunAssumption DEF TimerInterrupted, UserActions, TerminalStates, Outcomes
<1>8. CASE ToolExecuted
  BY <1>8, RunAssumption DEF ToolExecuted, AfterToolCall, UserActions, TerminalStates,
       Outcomes
<1>9. CASE SubagentsReturned
  BY <1>9, RunAssumption DEF SubagentsReturned, AfterToolCall, UserActions,
       TerminalStates, Outcomes
<1>10. CASE Remembered
  BY <1>10, RunAssumption DEF Remembered, UserActions, TerminalStates, Outcomes
<1>11. CASE RequestWritten
  BY <1>11, RunAssumption DEF RequestWritten, UserActions, TerminalStates, Outcomes
<1>12. CASE ApprovalParked
  BY <1>12, RunAssumption DEF ApprovalParked, UserActions, TerminalStates, Outcomes
<1>13. CASE ResolutionChosen
  BY <1>13, RunAssumption DEF ResolutionChosen, UserActions, TerminalStates, Outcomes
<1>14. CASE ApprovalExpires
  BY <1>14, RunAssumption DEF ApprovalExpires, NobodyResolved, UserActions,
       TerminalStates, Outcomes
<1>15. CASE ResolutionWritten
  <2>1. approvals' \in [1..MaxToolCalls -> TerminalStates \cup {"none", "pending"}]
    BY <1>15, RowWritten DEF ResolutionWritten
  <2>2. approvals'[toolCallCount] # "none"
    BY <1>15, RowWritten DEF ResolutionWritten, TerminalStates
  <2> QED BY <1>15, <2>1, <2>2 DEF ResolutionWritten
<1>16. CASE ExpiryRecorded
  BY <1>16, RunAssumption DEF ExpiryRecorded, UserActions, TerminalStates, Outcomes
<1>17. CASE SubagentsFannedIn
  BY <1>17, RunAssumption DEF SubagentsFannedIn, UserActions, TerminalStates, Outcomes
<1>18. CASE RunSummarised
  BY <1>18, RunAssumption DEF RunSummarised, UserActions, TerminalStates, Outcomes
<1>19. CASE HandlersDrained
  BY <1>19, RunAssumption DEF HandlersDrained, UserActions, TerminalStates, Outcomes
<1>20. CASE RunReturns
  BY <1>20, RunAssumption DEF RunReturns, CompletionSettled, UserActions, TerminalStates,
       Outcomes
<1>21. CASE FailureRecorded
  BY <1>21, RunAssumption DEF FailureRecorded, UserActions, TerminalStates, Outcomes
<1>22. CASE Interrupt
  BY <1>22, RunAssumption DEF Interrupt, UserActions, TerminalStates, Outcomes
<1>23. CASE RunStarted
  <2>1. LoopMoves
    BY <1>23, LoopStepMoves
  <2>2. /\ UNCHANGED <<input, cut, persisted, pendingApproval, approvalResolution, chosen,
                       approvals, resolver, ending>>
        /\ record' = "running" /\ pc = "starting"
    BY <1>23 DEF RunStarted
  <2>3. Stages'
    BY <2>1, <2>2 DEF LoopMoves
  <2>4. Counts'
    BY <2>1, <2>2 DEF LoopMoves
  <2>5. TypeOK'
    BY <2>1, <2>2 DEF LoopMoves
  <2> QED BY <2>3, <2>4, <2>5
<1>24. CASE ModelAnswered
  <2>1. childWorkflowCount = launched
    BY <1>24 DEF ModelAnswered
  <2>2. LoopMoves
    BY <1>24, LoopStepMoves
  <2>3. Stages'
    BY <1>24, <2>2 DEF ModelAnswered, LoopMoves
  <2>4. Counts'
    BY <1>24, <2>1, <2>2 DEF ModelAnswered, LoopMoves
  <2>5. TypeOK'
    <3>1. /\ UNCHANGED <<input, cut, persisted, pendingApproval, approvalResolution, chosen,
                         approvals, resolver, record, ending>>
      BY <1>24 DEF ModelAnswered
    <3> QED BY <2>2, <3>1 DEF LoopMoves
  <2> QED BY <2>3, <2>4, <2>5
<1>25. CASE ToolResultPersisted
  <2>1. persisted' \subseteq 1..MaxToolCalls
    BY <1>25 DEF ToolResultPersisted
  <2>2. CASE cut
    BY <1>25, <2>1, <2>2 DEF ToolResultPersisted, Outcomes
  <2>3. CASE ~cut
    <3>1. LoopMoves
      BY <1>25, <2>3, LoopStepMoves
    <3>2. childWorkflowCount = launched /\ UNCHANGED result
      BY <1>25, <2>3 DEF ToolResultPersisted
    <3>3. Stages'
      BY <1>25, <3>1, <3>2 DEF ToolResultPersisted, LoopMoves
    <3>4. Counts'
      BY <1>25, <3>1, <3>2 DEF ToolResultPersisted, LoopMoves
    <3>5. TypeOK'
      BY <1>25, <2>1, <3>1, <3>2 DEF ToolResultPersisted, LoopMoves
    <3> QED BY <3>3, <3>4, <3>5
  <2> QED BY <2>2, <2>3
<1>26. ASSUME NEW c \in Resolvers, NEW action \in UserActions, ResolveApproval(c, action)
       PROVE CountInv'
  BY <1>26 DEF ResolveApproval
<1>27. CASE ResolutionRecorded
  <2> DEFINE state == approvals[toolCallCount]
  <2>1. state \in TerminalStates
    BY <1>27 DEF ResolutionRecorded
  <2>2. resolver' \in [Resolvers -> [phase : {"idle", "waiting", "answered"},
                                     id : 0..MaxToolCalls,
                                     action : UserActions \cup {"none"},
                                     answer : TerminalStates \cup {"none"}]]
    BY <1>27, <2>1, ZenonT(30) DEF ResolutionRecorded, ToAnswer, Waiting, Answered, RecordedAnswer
  <2>3. /\ pc' \in {"executing", "delegating", "remembering", "persisting", "draining"}
        /\ pc' = "draining" => result' # "none"
        /\ result' \in Outcomes \cup {"none"}
        /\ launched' \in Nat /\ launched' <= MaxChildWorkflows
        /\ pc' # "delegating" => launched' = launched
        /\ pendingApproval' \in 0..MaxToolCalls
    <3>1. CASE MayExecute(state)
      <4>1. Approved
        BY <1>27, <3>1 DEF ResolutionRecorded
      <4>2. result = "none" \/ result \in Outcomes
        OBVIOUS
      <4>3. ASSUME NEW tasks \in Nat,
                   IF childWorkflowCount + tasks > MaxChildWorkflows
                   THEN AfterToolCall("complete") /\ UNCHANGED launched
                   ELSE /\ pc' = "delegating"
                        /\ launched' = launched + tasks
                        /\ UNCHANGED result
            PROVE  /\ pc' \in {"delegating", "remembering", "persisting", "draining"}
                   /\ pc' = "draining" => result' # "none"
                   /\ result' \in Outcomes \cup {"none"}
                   /\ launched' \in Nat /\ launched' <= MaxChildWorkflows
                   /\ pc' # "delegating" => launched' = launched
        <5>1. childWorkflowCount = launched
          BY <1>27 DEF ResolutionRecorded
        <5>2. MaxChildWorkflows \in Nat
          BY RunAssumption
        <5> QED BY <4>3, <5>1, <5>2 DEF AfterToolCall, Outcomes
      <4>4. \A tasks \in 1..(IF kind = "parallel" THEN MaxTasks ELSE 1) : tasks \in Nat
        BY RunAssumption
      <4>5. pendingApproval' \in 0..MaxToolCalls
        BY <4>1, RunAssumption DEF Approved
      <4>6. CASE pc' = "executing" /\ UNCHANGED <<launched, result>>
        BY <4>2, <4>5, <4>6
      <4> QED BY <4>1, <4>3, <4>4, <4>5, <4>6 DEF Approved
    <3>2. CASE ~MayExecute(state)
      <4>1. /\ AfterToolCall(IF state = "cancelled" THEN "cancelled" ELSE "complete")
            /\ UNCHANGED <<pendingApproval, launched>>
        BY <1>27, <3>2 DEF ResolutionRecorded
      <4> QED BY <4>1 DEF AfterToolCall, Outcomes
    <3> QED BY <3>1, <3>2
  <2>4. toolCallCount >= 1 /\ childWorkflowCount = launched /\ completion = "none"
    BY <1>27 DEF ResolutionRecorded
  <2>5. recorded' = state
    BY <1>27 DEF ResolutionRecorded
  <2> HIDE DEF state
  <2> QED BY <1>27, <2>1, <2>2, <2>3, <2>4, <2>5 DEF ResolutionRecorded
<1>28. ASSUME NEW how \in {"done", "failed"}, CompletionEnds(how) PROVE CountInv'
  BY <1>28 DEF CompletionEnds
<1>29. ASSUME NEW succeeded \in BOOLEAN, CleanupEnds(succeeded) PROVE CountInv'
  BY <1>29 DEF CleanupEnds
<1>30. CASE ActivityFailed
  BY <1>30, WrittenTypes DEF ActivityFailed, Outcomes
<1>31. CASE Cancel
  BY <1>31, WrittenTypes DEF Cancel, Outcomes
<1>32. CASE UNCHANGED vars
  BY <1>32 DEF vars
<1> QED BY <1>1, <1>2, <1>3, <1>4, <1>5, <1>6, <1>7, <1>8, <1>9, <1>10, <1>11, <1>12,
       <1>13, <1>14, <1>15, <1>16, <1>17, <1>18, <1>19, <1>20, <1>21, <1>22, <1>23, <1>24,
            <1>25, <1>26, <1>27, <1>28, <1>29, <1>30, <1>31, <1>32
        DEF Next, RunStep, Start, ModelStep, ToolStep, ApprovalStep, EndStep

-----------------------------------------------------------------------------
(* The approval rows. *)

RowInv == Undecided /\ Rows /\ ApprovalGate

LEMMA RowInit == Init => RowInv
BY RunAssumption DEF Init, RowInv, Undecided, Rows, ApprovalGate, ModelPositions,
                     CallPositions, WaitPositions

(* The loop goes on with a call that has no row yet. *)
LEMMA LoopRows ==
  ASSUME CountInv, RowInv, LoopMoves, UNCHANGED <<approvals, result>>,
         pc \in {"starting", "calling", "persisting"},
         persisted' \in {persisted, persisted \cup {toolCallCount}},
         persisted' # persisted =>
           approvals[toolCallCount] \in {"none", "approved"} /\ pc = "persisting"
  PROVE  RowInv'
<1> USE DEF RowInv, CountInv, LoopMoves
<1>1. toolCallCount \in Nat
  BY RunAssumption DEF TypeOK
<1>2. \A i \in 1..MaxToolCalls : i > toolCallCount' => approvals'[i] = "none"
  BY <1>1 DEF Rows
<1>3. pc' = "deciding" => toolCallCount' \in 1..MaxToolCalls /\ toolCallCount' > toolCallCount
  BY <1>1
<1>4. pc' = "deciding" => approvals'[toolCallCount'] = "none" /\ toolCallCount' \notin persisted'
  BY <1>1, <1>3 DEF Rows, TypeOK
<1>5. \A i \in persisted' : i <= toolCallCount' /\ approvals'[i] \in {"none", "approved"}
  BY <1>1 DEF Rows, TypeOK, ApprovalGate
<1>6. result' = "none"
  BY DEF Undecided, ModelPositions, CallPositions
<1> QED BY <1>2, <1>4, <1>5, <1>6
   DEF Undecided, Rows, ApprovalGate, CallPositions, WaitPositions

(* A failed or cancelled activity can have written the current row only. *)
LEMMA WrittenRows ==
  ASSUME CountInv, RowInv, MayHaveWritten, pc' \in {"failing", "cleanup"},
         UNCHANGED <<toolCallCount, persisted>>
  PROVE  RowInv'
<1>1. CASE UNCHANGED approvals
  BY <1>1 DEF RowInv, Undecided, Rows, ApprovalGate, ModelPositions, CallPositions,
              WaitPositions
<1>2. CASE ~UNCHANGED approvals
  <2>1. pc \in {"requesting", "recording", "expiring"}
    BY <1>2 DEF MayHaveWritten
  <2>2. PICK row : approvals' = [approvals EXCEPT ![toolCallCount] = row]
    BY <1>2 DEF MayHaveWritten
  <2>3. toolCallCount \notin persisted /\ toolCallCount \in Nat /\ persisted \subseteq 1..MaxToolCalls
    BY <2>1, RunAssumption DEF CountInv, TypeOK, RowInv, Rows, CallPositions, WaitPositions
  <2>4. \A i \in 1..MaxToolCalls : i # toolCallCount => approvals'[i] = approvals[i]
    BY <2>2 DEF CountInv, TypeOK
  <2> QED BY <2>3, <2>4 DEF RowInv, Undecided, Rows, ApprovalGate, ModelPositions,
                            CallPositions, WaitPositions
<1> QED BY <1>1, <1>2

LEMMA RowStep == CountInv /\ RowInv /\ [Next]_vars => RowInv'
<1> SUFFICES ASSUME CountInv, RowInv, [Next]_vars PROVE RowInv'
  OBVIOUS
<1> USE DEF RowInv, Undecided, Rows, ApprovalGate, CountInv, TypeOK, Counts, Stages,
            Positions, ModelPositions, CallPositions, WaitPositions, counters, call,
            approval, ending, input
<1>1. CASE StartFailed
  BY <1>1, RunAssumption DEF StartFailed, UserActions, TerminalStates, Outcomes
<1>2. CASE MemorySearched
  BY <1>2, RunAssumption DEF MemorySearched, UserActions, TerminalStates, Outcomes
<1>3. CASE PolicyDenied
  BY <1>3, RunAssumption DEF PolicyDenied, UserActions, TerminalStates, Outcomes
<1>4. CASE PolicyAllowed
  BY <1>4, RunAssumption DEF PolicyAllowed, IsDelegate
<1>5. CASE ApprovalRequired
  BY <1>5, RunAssumption DEF ApprovalRequired, ClearedResolution, UserActions,
       TerminalStates, Outcomes
<1>6. CASE TimerFired
  BY <1>6, RunAssumption DEF TimerFired, UserActions, TerminalStates, Outcomes
<1>7. CASE TimerInterrupted
  BY <1>7, RunAssumption DEF TimerInterrupted, UserActions, TerminalStates, Outcomes
<1>8. CASE ToolExecuted
  BY <1>8, RunAssumption DEF ToolExecuted, AfterToolCall, UserActions, TerminalStates,
       Outcomes
<1>9. CASE SubagentsReturned
  BY <1>9, RunAssumption DEF SubagentsReturned, AfterToolCall, UserActions,
       TerminalStates, Outcomes
<1>10. CASE Remembered
  BY <1>10, RunAssumption DEF Remembered, UserActions, TerminalStates, Outcomes
<1>11. CASE RequestWritten
  BY <1>11, RunAssumption DEF RequestWritten, UserActions, TerminalStates, Outcomes
<1>12. CASE ApprovalParked
  BY <1>12, RunAssumption DEF ApprovalParked, UserActions, TerminalStates, Outcomes
<1>13. CASE ResolutionChosen
  BY <1>13, RunAssumption DEF ResolutionChosen, UserActions, TerminalStates, Outcomes
<1>14. CASE ApprovalExpires
  BY <1>14, RunAssumption DEF ApprovalExpires, NobodyResolved, UserActions,
       TerminalStates, Outcomes
<1>15. CASE ResolutionWritten
  BY <1>15, RunAssumption DEF ResolutionWritten, terminalStateForAction, UserActions,
       TerminalStates, Outcomes
<1>16. CASE ExpiryRecorded
  BY <1>16, RunAssumption DEF ExpiryRecorded, UserActions, TerminalStates, Outcomes
<1>17. CASE SubagentsFannedIn
  BY <1>17, RunAssumption DEF SubagentsFannedIn, UserActions, TerminalStates, Outcomes
<1>18. CASE RunSummarised
  BY <1>18, RunAssumption DEF RunSummarised, UserActions, TerminalStates, Outcomes
<1>19. CASE HandlersDrained
  BY <1>19, RunAssumption DEF HandlersDrained, UserActions, TerminalStates, Outcomes
<1>20. CASE RunReturns
  BY <1>20, RunAssumption DEF RunReturns, CompletionSettled, UserActions, TerminalStates,
       Outcomes
<1>21. CASE FailureRecorded
  BY <1>21, RunAssumption DEF FailureRecorded, UserActions, TerminalStates, Outcomes
<1>22. CASE Interrupt
  BY <1>22, RunAssumption DEF Interrupt, UserActions, TerminalStates, Outcomes
<1>23. CASE RunStarted
  <2>1. LoopMoves
    BY <1>23, LoopStepMoves
  <2>2. /\ UNCHANGED <<approvals, persisted, result>>
        /\ pc = "starting"
    BY <1>23 DEF RunStarted
  <2> QED BY <2>1, <2>2, LoopRows
<1>24. CASE ModelAnswered
  <2>1. LoopMoves
    BY <1>24, LoopStepMoves
  <2>2. /\ UNCHANGED <<approvals, persisted, result>>
        /\ pc = "calling"
    BY <1>24 DEF ModelAnswered
  <2> QED BY <2>1, <2>2, LoopRows
<1>25. CASE ToolResultPersisted
  <2>1. /\ pc = "persisting" /\ UNCHANGED approvals
        /\ persisted' = persisted \cup {toolCallCount}
    BY <1>25 DEF ToolResultPersisted
  <2>2. approvals[toolCallCount] \in {"none",
       "approved"} /\ toolCallCount \in 1..MaxToolCalls
    BY <2>1, RunAssumption
  <2>3. CASE cut
    <3>1. pc' = "draining" /\ UNCHANGED toolCallCount
      BY <1>25, <2>3 DEF ToolResultPersisted
    <3> QED BY <2>1, <2>2, <3>1
  <2>4. CASE ~cut
    <3>1. LoopMoves /\ UNCHANGED result
      BY <1>25, <2>4, LoopStepMoves DEF ToolResultPersisted
    <3> QED BY <2>1, <2>2, <3>1, LoopRows
  <2> QED BY <2>3, <2>4
<1>26. ASSUME NEW c \in Resolvers, NEW action \in UserActions, ResolveApproval(c, action)
       PROVE  RowInv'
  BY <1>26, RunAssumption DEF ResolveApproval, UserActions, TerminalStates, Outcomes
<1>27. CASE ResolutionRecorded
  <2>1. /\ pc = "recording" /\ UNCHANGED <<toolCallCount, approvals, persisted, kind>>
        /\ result = "none" /\ toolCallCount \in 1..MaxToolCalls
    BY <1>27, RunAssumption DEF ResolutionRecorded
  <2>2. CASE MayExecute(approvals[toolCallCount])
    <3>1. Approved /\ approvals[toolCallCount] = "approved"
      BY <1>27, <2>2 DEF ResolutionRecorded, MayExecute
    <3>2. \/ pc' \in {"executing", "delegating"} /\ UNCHANGED result
          \/ AfterToolCall("complete")
      BY <3>1 DEF Approved
    <3> QED BY <2>1, <3>1, <3>2 DEF AfterToolCall
  <2>3. CASE ~MayExecute(approvals[toolCallCount])
    <3>1. AfterToolCall(IF approvals[toolCallCount] = "cancelled"
                        THEN "cancelled" ELSE "complete")
      BY <1>27, <2>3 DEF ResolutionRecorded
    <3>2. pc' \in {"remembering", "draining"} /\ result' # "none"
      BY <3>1 DEF AfterToolCall
    <3> QED BY <2>1, <3>2
  <2> QED BY <2>2, <2>3
<1>28. ASSUME NEW how \in {"done", "failed"}, CompletionEnds(how)
       PROVE  RowInv'
  BY <1>28, RunAssumption DEF CompletionEnds, UserActions, TerminalStates, Outcomes
<1>29. ASSUME NEW succeeded \in BOOLEAN, CleanupEnds(succeeded)
       PROVE  RowInv'
  BY <1>29, RunAssumption DEF CleanupEnds, UserActions, TerminalStates, Outcomes
<1>30. CASE ActivityFailed
  <2>1. MayHaveWritten /\ pc' = "failing" /\ UNCHANGED <<toolCallCount, persisted>>
    BY <1>30 DEF ActivityFailed
  <2> QED BY <2>1, WrittenRows
<1>31. CASE Cancel
  <2>1. UNCHANGED <<toolCallCount, persisted, kind, result, chosen>>
    BY <1>31 DEF Cancel
  <2>2. CASE UNCHANGED approvals
    <3>1. UNCHANGED pc \/ pc' \in {"closed", "cleanup"}
      BY <1>31 DEF Cancel
    <3> QED BY <2>1, <2>2, <3>1
  <2>3. CASE ~UNCHANGED approvals
    <3>1. MayHaveWritten /\ pc' = "cleanup"
      BY <1>31, <2>3 DEF Cancel
    <3> QED BY <2>1, <3>1, WrittenRows
  <2> QED BY <2>2, <2>3
<1>32. CASE UNCHANGED vars
  BY <1>32, RunAssumption DEF vars, UserActions, TerminalStates, Outcomes
<1> QED BY <1>1, <1>2, <1>3, <1>4, <1>5, <1>6, <1>7, <1>8, <1>9, <1>10, <1>11, <1>12,
           <1>13, <1>14, <1>15, <1>16, <1>17, <1>18, <1>19, <1>20, <1>21, <1>22, <1>23, <1>24,
           <1>25, <1>26, <1>27, <1>28, <1>29, <1>30, <1>31, <1>32
        DEF Next, RunStep, Start, ModelStep, ToolStep, ApprovalStep, EndStep

-----------------------------------------------------------------------------
(* The resolvers. *)

CallInv == Pending /\ Chosen /\ Calls /\ OwnResolver

LEMMA CallInit == Init => CallInv
BY RunAssumption DEF Init, Idle, CallInv, Pending, Chosen, Calls, OwnResolver, WaitPositions

(* In the loop no approval is addressable, so the next call starts afresh. *)
LEMMA LoopCalls ==
  ASSUME CountInv, CallInv, LoopMoves,
         UNCHANGED <<pendingApproval, approvals, resolver, exit>>,
         pc \in {"starting", "calling", "persisting"}
  PROVE  CallInv'
<1>1. pendingApproval' = 0 /\ pc' \notin {"requesting"} \cup WaitPositions
  BY DEF CallInv, Pending, LoopMoves, WaitPositions
<1>2. toolCallCount \in Nat /\ toolCallCount' \in Nat /\ toolCallCount <= toolCallCount'
  BY RunAssumption DEF CountInv, TypeOK, LoopMoves
<1>3. exit = "none"
  BY DEF CountInv, Stages
<1>4. Pending'
  BY <1>1 DEF Pending, LoopMoves, WaitPositions
<1>5. Chosen'
  BY <1>1 DEF Chosen, WaitPositions
<1>6. Calls'
  BY <1>2, <1>3 DEF CallInv, Calls, WaitPositions
<1> QED BY <1>4, <1>5, <1>6 DEF CallInv, OwnResolver

(* What a failed or cancelled activity wrote is what it was told to write. *)
LEMMA WrittenCalls ==
  ASSUME CountInv, RowInv, CallInv, MayHaveWritten,
         pc' = "failing" \/ exit' \in {"failed", "cancelled"},
         pc' \in {"failing", "cleanup"},
         UNCHANGED <<toolCallCount, pendingApproval, recorded, resolver>>
  PROVE  CallInv'
<1>1. Chosen'
  BY DEF Chosen
<1>2. CASE UNCHANGED approvals
  BY <1>1, <1>2 DEF CallInv, Pending, Calls, OwnResolver, WaitPositions
<1>3. CASE ~UNCHANGED approvals
  <2>1. /\ pc \in {"requesting", "recording", "expiring"}
        /\ approvals[toolCallCount] \in {"none", "pending"}
    BY <1>3 DEF MayHaveWritten
  <2>2. PICK row : approvals' = [approvals EXCEPT ![toolCallCount] = row]
    BY <1>3 DEF MayHaveWritten
  <2>3. toolCallCount \in 1..MaxToolCalls
    BY <2>1, RunAssumption DEF CountInv, TypeOK, Counts, CallPositions, WaitPositions
  <2>4. \A i \in 1..MaxToolCalls : i # toolCallCount => approvals'[i] = approvals[i]
    BY <2>2 DEF CountInv, TypeOK
  <2>5. Pending'
    BY <2>1 DEF CallInv, Pending, Chosen, WaitPositions
  <2>6. Calls'
    BY <2>1, <2>3, <2>4, RunAssumption DEF CallInv, Calls, TerminalStates, CountInv, TypeOK
  <2>7. approvals'[toolCallCount] = "approved" => pc = "recording" /\ chosen = "approve"
    <3>1. CASE approvals' = [approvals EXCEPT ![toolCallCount] = "pending"]
      BY <2>3, <3>1 DEF CountInv, TypeOK
    <3>2. CASE /\ pc \in {"recording", "expiring"}
               /\ approvals' = [approvals EXCEPT
                                 ![toolCallCount] = terminalStateForAction[chosen]]
      <4>1. terminalStateForAction[chosen] = "approved" => chosen = "approve"
        BY <3>2 DEF CountInv, TypeOK, Stages, UserActions, terminalStateForAction
      <4>2. pc = "expiring" => chosen = "expire"
        BY DEF RowInv, Rows
      <4> QED BY <3>2, <4>1, <4>2, RowWritten
    <3> QED BY <1>3, <3>1, <3>2 DEF MayHaveWritten
  <2>8. OwnResolver'
    BY <2>4, <2>7 DEF CallInv, OwnResolver, Chosen
  <2> QED BY <1>1, <2>5, <2>6, <2>8 DEF CallInv
<1> QED BY <1>2, <1>3

LEMMA CallStep == CountInv /\ RowInv /\ CallInv /\ [Next]_vars => CallInv'
<1> SUFFICES ASSUME CountInv, RowInv, CallInv, [Next]_vars PROVE CallInv'
  OBVIOUS
<1> USE DEF CallInv, Pending, Chosen, Calls, OwnResolver, RowInv, Undecided, Rows,
            CountInv, TypeOK, Counts, Stages, Positions, ModelPositions, CallPositions,
            WaitPositions, counters, call, approval, ending, input
<1>1. CASE StartFailed
  BY <1>1, RunAssumption DEF StartFailed, UserActions, TerminalStates, Outcomes
<1>2. CASE MemorySearched
  BY <1>2, RunAssumption DEF MemorySearched, UserActions, TerminalStates, Outcomes
<1>3. CASE PolicyDenied
  BY <1>3, RunAssumption DEF PolicyDenied, UserActions, TerminalStates, Outcomes
<1>4. CASE PolicyAllowed
  BY <1>4, RunAssumption DEF PolicyAllowed, UserActions, TerminalStates, Outcomes
<1>5. CASE ApprovalRequired
  BY <1>5, RunAssumption DEF ApprovalRequired, ClearedResolution, UserActions,
       TerminalStates, Outcomes
<1>6. CASE TimerFired
  BY <1>6, RunAssumption DEF TimerFired, UserActions, TerminalStates, Outcomes
<1>7. CASE TimerInterrupted
  BY <1>7, RunAssumption DEF TimerInterrupted, UserActions, TerminalStates, Outcomes
<1>8. CASE ToolExecuted
  BY <1>8, RunAssumption DEF ToolExecuted, AfterToolCall, UserActions, TerminalStates,
       Outcomes
<1>9. CASE SubagentsReturned
  BY <1>9, RunAssumption DEF SubagentsReturned, AfterToolCall, UserActions,
       TerminalStates, Outcomes
<1>10. CASE Remembered
  BY <1>10, RunAssumption DEF Remembered, UserActions, TerminalStates, Outcomes
<1>11. CASE RequestWritten
  BY <1>11, RunAssumption DEF RequestWritten, UserActions, TerminalStates, Outcomes
<1>12. CASE ApprovalParked
  BY <1>12, RunAssumption DEF ApprovalParked, UserActions, TerminalStates, Outcomes
<1>13. CASE ResolutionChosen
  BY <1>13, RunAssumption DEF ResolutionChosen, UserActions, TerminalStates, Outcomes
<1>14. CASE ApprovalExpires
  BY <1>14, RunAssumption DEF ApprovalExpires, NobodyResolved, UserActions,
       TerminalStates, Outcomes
<1>15. CASE ResolutionWritten
  BY <1>15, RunAssumption DEF ResolutionWritten, terminalStateForAction, UserActions,
       TerminalStates, Outcomes
<1>16. CASE ExpiryRecorded
  BY <1>16, RunAssumption DEF ExpiryRecorded, UserActions, TerminalStates, Outcomes
<1>17. CASE SubagentsFannedIn
  BY <1>17, RunAssumption DEF SubagentsFannedIn, UserActions, TerminalStates, Outcomes
<1>18. CASE RunSummarised
  BY <1>18, RunAssumption DEF RunSummarised, UserActions, TerminalStates, Outcomes
<1>19. CASE HandlersDrained
  BY <1>19, RunAssumption DEF HandlersDrained, UserActions, TerminalStates, Outcomes
<1>20. CASE RunReturns
  BY <1>20, RunAssumption DEF RunReturns, CompletionSettled, UserActions, TerminalStates,
       Outcomes
<1>21. CASE FailureRecorded
  BY <1>21, RunAssumption DEF FailureRecorded, UserActions, TerminalStates, Outcomes
<1>22. CASE Interrupt
  BY <1>22, RunAssumption DEF Interrupt, UserActions, TerminalStates, Outcomes
<1>23. CASE RunStarted
  BY <1>23, LoopStepMoves, LoopCalls DEF RunStarted
<1>24. CASE ModelAnswered
  BY <1>24, LoopStepMoves, LoopCalls DEF ModelAnswered
<1>25. CASE ToolResultPersisted
  <2>1. UNCHANGED <<pendingApproval, approvals, resolver, exit>> /\ pc = "persisting"
    BY <1>25 DEF ToolResultPersisted
  <2>2. CASE cut
    <3>1. pc' = "draining" /\ UNCHANGED <<toolCallCount, recorded>>
      BY <1>25, <2>2 DEF ToolResultPersisted
    <3> QED BY <2>1, <3>1
  <2>3. CASE ~cut
    BY <1>25, <2>1, <2>3, LoopStepMoves, LoopCalls
  <2> QED BY <2>2, <2>3
<1>26. ASSUME NEW c \in Resolvers, NEW action \in UserActions, ResolveApproval(c, action)
       PROVE  CallInv'
  BY <1>26, RunAssumption DEF ResolveApproval, UserActions, TerminalStates, Outcomes
<1>27. CASE ResolutionRecorded
  <2> DEFINE state == approvals[toolCallCount]
  <2>1. /\ pc = "recording" /\ UNCHANGED <<toolCallCount, approvals, exit>>
        /\ recorded' = state /\ state \in TerminalStates
        /\ exit = "none" /\ toolCallCount \in 1..MaxToolCalls
    BY <1>27, RunAssumption DEF ResolutionRecorded
  <2>2. /\ pc' \notin {"requesting", "deciding"} \cup WaitPositions
        /\ pendingApproval' = 0 \/
             /\ pendingApproval' = toolCallCount
             /\ pc' = "draining" \/ (pc' = "remembering" /\ result' # "none")
    <3>1. CASE MayExecute(state)
      <4>1. Approved
        BY <1>27, <3>1 DEF ResolutionRecorded
      <4> QED BY <4>1 DEF Approved, AfterToolCall
    <3>2. CASE ~MayExecute(state)
      <4>1. /\ AfterToolCall(IF state = "cancelled" THEN "cancelled" ELSE "complete")
            /\ UNCHANGED pendingApproval
        BY <1>27, <3>2 DEF ResolutionRecorded
      <4> QED BY <2>1, <4>1 DEF AfterToolCall
    <3> QED BY <3>1, <3>2
  <2>3. Pending' /\ Chosen'
    BY <2>1, <2>2 DEF TerminalStates
  <2>4. \A c \in Resolvers :
          /\ resolver'[c].id = resolver[c].id /\ resolver'[c].action = resolver[c].action
          /\ \/ /\ resolver[c].phase = "waiting" /\ resolver[c].id = toolCallCount
                /\ resolver'[c].phase = "answered" /\ resolver'[c].answer = state
             \/ /\ ~(resolver[c].phase = "waiting" /\ resolver[c].id = toolCallCount)
                /\ resolver'[c] = resolver[c]
    <3> TAKE c \in Resolvers
    <3>1. resolver'[c] = IF c \in Waiting /\ resolver[c].id = toolCallCount
                         THEN [resolver[c] EXCEPT !.phase = "answered", !.answer = state]
                         ELSE resolver[c]
      BY <1>27 DEF ResolutionRecorded, ToAnswer, Answered, RecordedAnswer
    <3>2. resolver[c] \in [phase : {"idle", "waiting", "answered"}, id : 0..MaxToolCalls,
                           action : UserActions \cup {"none"},
                           answer : TerminalStates \cup {"none"}]
      OBVIOUS
    <3> HIDE DEF state
    <3> QED BY <3>1, <3>2 DEF Waiting
  <2>5. OwnResolver'
    BY <2>1, <2>4
  <2>6. Calls'
    BY <2>1, <2>4
  <2> QED BY <2>3, <2>5, <2>6
<1>28. ASSUME NEW how \in {"done", "failed"}, CompletionEnds(how)
       PROVE  CallInv'
  BY <1>28, RunAssumption DEF CompletionEnds, UserActions, TerminalStates, Outcomes
<1>29. ASSUME NEW succeeded \in BOOLEAN, CleanupEnds(succeeded)
       PROVE  CallInv'
  BY <1>29, RunAssumption DEF CleanupEnds, UserActions, TerminalStates, Outcomes
<1>30. CASE ActivityFailed
  <2>1. /\ MayHaveWritten /\ pc' = "failing"
        /\ UNCHANGED <<toolCallCount, pendingApproval, recorded, resolver, exit>>
    BY <1>30 DEF ActivityFailed
  <2>2. exit = "none" /\ pc \notin {"cleanup", "settling", "closed"}
    BY <1>30 DEF ActivityFailed
  <2> QED BY <2>1, <2>2, WrittenCalls
<1>31. CASE Cancel
  <2>1. UNCHANGED <<toolCallCount, pendingApproval, approvalResolution, recorded, resolver,
                    result, chosen>>
    BY <1>31 DEF Cancel
  <2>2. CASE UNCHANGED <<pc, exit, approvals>>
    BY <2>1, <2>2
  <2>3. CASE ~UNCHANGED <<pc, exit, approvals>>
    <3>1. \/ UNCHANGED approvals /\ pc' = "closed" /\ exit' = "cancelled"
          \/ MayHaveWritten /\ pc' = "cleanup" /\ exit' = "cancelled"
      BY <1>31, <2>3 DEF Cancel
    <3>2. CASE UNCHANGED approvals /\ pc' = "closed" /\ exit' = "cancelled"
      BY <2>1, <3>2
    <3>3. CASE MayHaveWritten /\ pc' = "cleanup" /\ exit' = "cancelled"
      BY <2>1, <3>3, WrittenCalls
    <3> QED BY <3>1, <3>2, <3>3
  <2> QED BY <2>2, <2>3
<1>32. CASE UNCHANGED vars
  BY <1>32, RunAssumption DEF vars, UserActions, TerminalStates, Outcomes
<1> QED BY <1>1, <1>2, <1>3, <1>4, <1>5, <1>6, <1>7, <1>8, <1>9, <1>10, <1>11, <1>12,
           <1>13, <1>14, <1>15, <1>16, <1>17, <1>18, <1>19, <1>20, <1>21, <1>22, <1>23, <1>24,
           <1>25, <1>26, <1>27, <1>28, <1>29, <1>30, <1>31, <1>32
        DEF Next, RunStep, Start, ModelStep, ToolStep, ApprovalStep, EndStep

-----------------------------------------------------------------------------
(* The end of the run. *)

LEMMA EndingInit == Init => Ending
BY DEF Init, Ending

LEMMA EndingStep == CountInv /\ RowInv /\ Ending /\ [Next]_vars => Ending'
<1> SUFFICES ASSUME CountInv, RowInv, Ending, [Next]_vars PROVE Ending'
  OBVIOUS
<1> USE DEF Ending, RowInv, Undecided, Rows,
            CountInv, TypeOK, Counts, Stages, Positions, ModelPositions, CallPositions,
            WaitPositions, counters, call, approval, ending, input
<1>1. CASE StartFailed
  BY <1>1, RunAssumption DEF StartFailed, UserActions, TerminalStates, Outcomes
<1>2. CASE MemorySearched
  BY <1>2, RunAssumption DEF MemorySearched, UserActions, TerminalStates, Outcomes
<1>3. CASE PolicyDenied
  BY <1>3, RunAssumption DEF PolicyDenied, UserActions, TerminalStates, Outcomes
<1>4. CASE PolicyAllowed
  BY <1>4, RunAssumption DEF PolicyAllowed, UserActions, TerminalStates, Outcomes
<1>5. CASE ApprovalRequired
  BY <1>5, RunAssumption DEF ApprovalRequired, ClearedResolution, UserActions,
       TerminalStates, Outcomes
<1>6. CASE TimerFired
  BY <1>6, RunAssumption DEF TimerFired, UserActions, TerminalStates, Outcomes
<1>7. CASE TimerInterrupted
  BY <1>7, RunAssumption DEF TimerInterrupted, UserActions, TerminalStates, Outcomes
<1>8. CASE ToolExecuted
  BY <1>8, RunAssumption DEF ToolExecuted, AfterToolCall, UserActions, TerminalStates,
       Outcomes
<1>9. CASE SubagentsReturned
  BY <1>9, RunAssumption DEF SubagentsReturned, AfterToolCall, UserActions,
       TerminalStates, Outcomes
<1>10. CASE Remembered
  BY <1>10, RunAssumption DEF Remembered, UserActions, TerminalStates, Outcomes
<1>11. CASE RequestWritten
  BY <1>11, RunAssumption DEF RequestWritten, UserActions, TerminalStates, Outcomes
<1>12. CASE ApprovalParked
  BY <1>12, RunAssumption DEF ApprovalParked, UserActions, TerminalStates, Outcomes
<1>13. CASE ResolutionChosen
  BY <1>13, RunAssumption DEF ResolutionChosen, UserActions, TerminalStates, Outcomes
<1>14. CASE ApprovalExpires
  BY <1>14, RunAssumption DEF ApprovalExpires, NobodyResolved, UserActions,
       TerminalStates, Outcomes
<1>15. CASE ResolutionWritten
  BY <1>15, RunAssumption DEF ResolutionWritten, terminalStateForAction, UserActions,
       TerminalStates, Outcomes
<1>16. CASE ExpiryRecorded
  BY <1>16, RunAssumption DEF ExpiryRecorded, UserActions, TerminalStates, Outcomes
<1>17. CASE SubagentsFannedIn
  BY <1>17, RunAssumption DEF SubagentsFannedIn, UserActions, TerminalStates, Outcomes
<1>18. CASE RunSummarised
  BY <1>18, RunAssumption DEF RunSummarised, UserActions, TerminalStates, Outcomes
<1>19. CASE HandlersDrained
  BY <1>19, RunAssumption DEF HandlersDrained, UserActions, TerminalStates, Outcomes
<1>20. CASE RunReturns
  BY <1>20, RunAssumption DEF RunReturns, CompletionSettled, UserActions, TerminalStates,
       Outcomes
<1>21. CASE FailureRecorded
  BY <1>21, RunAssumption DEF FailureRecorded, UserActions, TerminalStates, Outcomes
<1>22. CASE Interrupt
  BY <1>22, RunAssumption DEF Interrupt, UserActions, TerminalStates, Outcomes
<1>23. CASE RunStarted
  BY <1>23, RunAssumption, LoopStepMoves
     DEF RunStarted, LoopMoves, UserActions, TerminalStates, Outcomes
<1>24. CASE ModelAnswered
  BY <1>24, RunAssumption, LoopStepMoves
     DEF ModelAnswered, LoopMoves, UserActions, TerminalStates, Outcomes
<1>25. CASE ToolResultPersisted
  BY <1>25, RunAssumption, LoopStepMoves
     DEF ToolResultPersisted, LoopMoves, UserActions, TerminalStates, Outcomes
<1>26. ASSUME NEW c \in Resolvers, NEW action \in UserActions, ResolveApproval(c, action)
       PROVE  Ending'
  BY <1>26, RunAssumption DEF ResolveApproval, UserActions, TerminalStates, Outcomes
<1>27. CASE ResolutionRecorded
  <2>1. /\ pc = "recording"
        /\ UNCHANGED <<toolCallCount, persisted, cut, record, completion, exit>>
        /\ ~cut /\ exit = "none" /\ completion = "none"
    BY <1>27 DEF ResolutionRecorded
  <2>2. pc' \in {"executing", "delegating", "remembering", "persisting", "draining"}
    <3>1. CASE MayExecute(approvals[toolCallCount])
      <4>1. Approved
        BY <1>27, <3>1 DEF ResolutionRecorded
      <4> QED BY <4>1 DEF Approved, AfterToolCall
    <3>2. CASE ~MayExecute(approvals[toolCallCount])
      <4>1. AfterToolCall(IF approvals[toolCallCount] = "cancelled"
                          THEN "cancelled" ELSE "complete")
        BY <1>27, <3>2 DEF ResolutionRecorded
      <4> QED BY <4>1 DEF AfterToolCall
    <3> QED BY <3>1, <3>2
  <2> QED BY <2>1, <2>2
<1>28. ASSUME NEW how \in {"done", "failed"}, CompletionEnds(how)
       PROVE  Ending'
  BY <1>28, RunAssumption DEF CompletionEnds, UserActions, TerminalStates, Outcomes
<1>29. ASSUME NEW succeeded \in BOOLEAN, CleanupEnds(succeeded)
       PROVE  Ending'
  BY <1>29, RunAssumption DEF CleanupEnds, UserActions, TerminalStates, Outcomes
<1>30. CASE ActivityFailed
  <2>1. /\ record' \in {record, "waiting_approval", "running"}
        /\ pc' = "failing" /\ result' = "failed"
        /\ UNCHANGED <<toolCallCount, persisted, cut, completion, exit>>
    BY <1>30 DEF ActivityFailed, MayHaveWritten
  <2>2. exit = "none" /\ completion = "none"
    BY <1>30 DEF ActivityFailed
  <2> QED BY <2>1, <2>2
<1>31. CASE Cancel
  <2>1. UNCHANGED <<toolCallCount, persisted, cut, result>>
    BY <1>31 DEF Cancel
  <2>2. CASE pc = "starting"
    <3>1. record' \in {"absent", "running"} /\ pc' = "closed" /\ exit' = "cancelled"
          /\ UNCHANGED completion
      BY <1>31, <2>2 DEF Cancel
    <3> QED BY <2>1, <2>2, <3>1
  <2>3. CASE pc \in {"cleanup", "settling"} /\ completion = "inflight"
    <3>1. record' \in {record, result} /\ completion' = "cancelled" /\ UNCHANGED <<pc,
         exit>>
      BY <1>31, <2>3 DEF Cancel
    <3> QED BY <2>1, <2>3, <3>1
  <2>4. CASE pc = "failing" \/ (pc \in {"cleanup", "settling"} /\ completion # "inflight")
    <3>1. UNCHANGED <<pc, exit, record, completion>>
      BY <1>31, <2>4 DEF Cancel
    <3> QED BY <2>1, <3>1
  <2>5. CASE pc \notin {"starting", "cleanup", "settling", "failing"}
    <3>1. /\ record' \in {record, "waiting_approval", "running"}
          /\ pc' = "cleanup" /\ exit' = "cancelled" /\ UNCHANGED completion
          /\ pc # "closed"
      BY <1>31, <2>5 DEF Cancel, MayHaveWritten
    <3> QED BY <2>1, <2>5, <3>1
  <2> QED BY <2>2, <2>3, <2>4, <2>5
<1>32. CASE UNCHANGED vars
  BY <1>32, RunAssumption DEF vars, UserActions, TerminalStates, Outcomes
<1> QED BY <1>1, <1>2, <1>3, <1>4, <1>5, <1>6, <1>7, <1>8, <1>9, <1>10, <1>11, <1>12,
           <1>13, <1>14, <1>15, <1>16, <1>17, <1>18, <1>19, <1>20, <1>21, <1>22, <1>23, <1>24,
           <1>25, <1>26, <1>27, <1>28, <1>29, <1>30, <1>31, <1>32
        DEF Next, RunStep, Start, ModelStep, ToolStep, ApprovalStep, EndStep

-----------------------------------------------------------------------------
(* The theorems. *)

LEMMA RunInductive == Spec => []RunInv
<1>1. Init => RunInv
  BY CountInit, RowInit, CallInit, EndingInit DEF RunInv, CountInv, RowInv, CallInv
<1>2. RunInv /\ [Next]_vars => RunInv'
  BY CountStep, RowStep, CallStep, EndingStep DEF RunInv, CountInv, RowInv, CallInv
<1> QED BY <1>1, <1>2, PTL DEF Spec

(* Every variable of a run keeps its type; the model and tool calls stay within
   their budgets. *)
THEOREM RunTypeCorrect == Spec => []TypeOK
<1>1. RunInv => TypeOK
  BY DEF RunInv
<1> QED BY <1>1, RunInductive, PTL

(* The two ways agentRunWorkflow starts subagents, delegated by the model and
   fanned out at the end, together never start more than maxChildWorkflows. *)
THEOREM ChildrenWithinBudget == Spec => []ChildBudget
<1>1. RunInv => ChildBudget
  BY DEF RunInv, Counts, ChildBudget
<1> QED BY <1>1, RunInductive, PTL

(* A call that was put to the user runs only on a row that says approved, however
   resolvers, retries, expiry and cancellation interleave. *)
THEOREM OnlyApprovedCallsRun == Spec => []ApprovalGate
<1>1. RunInv => ApprovalGate
  BY DEF RunInv
<1> QED BY <1>1, RunInductive, PTL

(* An approved row has a resolver who addressed that call with an approval: no
   resolution outlives the call it was meant for. *)
THEOREM ApprovalsHaveResolvers == Spec => []OwnResolver
<1>1. RunInv => OwnResolver
  BY DEF RunInv
<1> QED BY <1>1, RunInductive, PTL

(* What a resolver is told is what the database says of its approval, then and
   ever after. *)
THEOREM ResolversHearTheRecord == Spec => []AnswersAgree
<1>1. RunInv => AnswersAgree
  BY DEF RunInv, Calls, AnswersAgree
<1> QED BY <1>1, RunInductive, PTL

(* A run that returns has answered every resolver it accepted, but those that
   came while an expiry was being recorded. *)
THEOREM ResolversAnswered == Spec => []NoResolverDropped
<1>1. ASSUME RunInv PROVE NoResolverDropped
  <2> SUFFICES ASSUME pc = "closed", exit = "returned", NEW c \in Waiting
               PROVE  approvals[resolver[c].id] = "expired"
    BY DEF NoResolverDropped
  <2> QED BY <1>1 DEF RunInv, Calls, Waiting, WaitPositions
<1> QED BY <1>1, RunInductive, PTL

(* A wait that was cut short is persisted before the run is recorded as
   cancelled for it. *)
THEOREM PartialWaits == Spec => []PartialWaitPersisted
<1>1. RunInv => PartialWaitPersisted
  BY DEF RunInv, Ending, PartialWaitPersisted
<1> QED BY <1>1, RunInductive, PTL

(* Although completeRun is returned without an await, a workflow that returns
   has recorded its status. *)
THEOREM ReturnsRecorded == Spec => []ReturnedRunsAreRecorded
<1>1. RunInv => ReturnedRunsAreRecorded
  BY DEF RunInv, Ending, ReturnedRunsAreRecorded
<1> QED BY <1>1, RunInductive, PTL

(* A call put to the user runs only on a row that says approved, and that row has
   a resolver who addressed this very call (requestApproval, resolveApproval). *)
THEOREM OnlyApprovedCalls == Spec => []OnlyApprovedRuns
<1>1. ApprovalGate /\ OwnResolver => OnlyApprovedRuns
  BY DEF OnlyApprovedRuns
<1> QED BY <1>1, OnlyApprovedCallsRun, ApprovalsHaveResolvers, PTL

(* Every accepted resolver is told what was recorded, or its approval expired. *)
THEOREM ServesResolvers == Spec => []ResolversServed
<1>1. AnswersAgree /\ NoResolverDropped => ResolversServed
  BY DEF ResolversServed
<1> QED BY <1>1, ResolversHearTheRecord, ResolversAnswered, PTL

(* agentRunWorkflow keeps to its budgets and leaves no wait and no ending of a run
   unrecorded, whatever is cancelled and whenever. *)
THEOREM AccountsForRuns == Spec => []RunAccounted
<1>1. TypeOK /\ ChildBudget /\ PartialWaitPersisted /\ ReturnedRunsAreRecorded => RunAccounted
  BY DEF RunAccounted
<1> QED BY <1>1, RunTypeCorrect, ChildrenWithinBudget, PartialWaits, ReturnsRecorded, PTL

-----------------------------------------------------------------------------
(* ModelTurn: what a turn says to the model.  ContextInOrder rests on an inductive invariant:
   the types, what a run leaves behind, the question and the room that is left for it in the
   window, the response whose calls are being handled, and the order of the rows of the
   current run. *)

(* The tools, and the kinds of rows. *)
ToolNames == {"tool", "delegate", "parallel"}

RowKinds == {"user_message", "tool_call", "tool_result", "assistant_message"}

(* A row of the transcript. *)
TurnRows == [kind : RowKinds, run : 1..MaxTurns, ids : Seq(Nat \X Nat \X Nat)]

(* What a subagent may be doing. *)
IsChild(c) ==
  /\ c = [at |-> c.at, entry |-> c.entry, cost |-> c.cost]
  /\ c.at \in {"none", "sent", "returned"}

(* The types of the variables, in groups that steps change together. *)
LoopTyped ==
  /\ run \in 0..MaxTurns
  /\ at \in {"idle", "boundary", "calling", "streaming", "tools", "children", "ending"}
  /\ batch \in Seq(ToolNames)
  /\ DOMAIN usage = 1..MaxTurns

CountsTyped ==
  counts \in [modelCalls : 0..Budget.modelCalls, toolCalls : 0..Budget.toolCalls,
              actions : 0..(Budget.actions + 1), children : 0..Budget.children]

SteeringTyped ==
  /\ steeringBuffer \in Seq(Nat) /\ pendingSteering \in Seq(Nat) /\ told \in Seq(Nat)
  /\ steered \in 0..MaxSteers

LateTyped == late \subseteq (1..run) \X (1..Budget.modelCalls)

ChildrenTyped ==
  /\ children = [agent \in SubagentKinds |-> children[agent]]
  /\ \A agent \in SubagentKinds : IsChild(children[agent])

RowsTyped == rows \in Seq(TurnRows) /\ \A i \in DOMAIN rows : rows[i].run <= run

TurnTypes ==
  LoopTyped /\ CountsTyped /\ SteeringTyped /\ LateTyped /\ ChildrenTyped /\ RowsTyped

(* What a run awaits and what it has counted. *)
Placed ==
  /\ Active => run # 0
  /\ at \in {"calling", "streaming"} => counts.modelCalls < Budget.modelCalls
  /\ at \notin {"tools", "children"} => batch = <<>>
  /\ at = "tools" => batch # <<>>
  /\ at = "children" => Involved # {}
  /\ at = "children" /\ batch # <<>> =>
       /\ counts.actions <= Budget.actions
       /\ counts.children + Cardinality(Involved) <= Budget.children

(* Model calls are left behind by runs that ended, and no more than the bound says. *)
LeftBehind ==
  /\ IsFiniteSet(late)
  /\ Cardinality(late) <= MaxLate
  /\ Active => \A l \in late : l[1] < run

(* What may still be written before the next response: by the calls left behind, and the
   result of the delegation that is under way. *)
Coming == Cardinality(late) + (IF at = "children" /\ batch # <<>> THEN 1 ELSE 0)

(* The message the run is to answer, and how much was written since. *)
Question(u) ==
  /\ rows[u].kind = "user_message" /\ rows[u].run = run
  /\ \A i \in 1..(u - 1) : rows[i].run < run
  /\ Len(rows) - u + Coming <= counts.modelCalls + counts.toolCalls + MaxLate

(* A run has a question. *)
HasQuestion == Active => \E u \in DOMAIN rows : Question(u)

(* The row of the response whose calls are being handled. *)
OfRun(i) == rows[i].kind = "tool_call" /\ rows[i].run = run

(* The last one of the run, whose last ids are those of the batch. *)
IsCurrent(c) ==
  /\ OfRun(c) /\ \A j \in (c + 1)..Len(rows) : ~OfRun(j)
  /\ rows[c].ids = Ids(run, counts.modelCalls, rows[c].ids)
  /\ Len(batch) <= Len(rows[c].ids)

(* A batch comes from a response. *)
HasCurrent == batch # <<>> => \E c \in DOMAIN rows : IsCurrent(c)

(* The results of this run are of calls before the next one. *)
ResultIds ==
  \A i \in DOMAIN rows : IsResult(rows[i]) =>
    /\ Len(rows[i].ids) = 1 /\ rows[i].ids[1][1] = rows[i].run
    /\ rows[i].run = run =>
         /\ rows[i].ids[1][2] <= counts.modelCalls
         /\ batch # <<>> /\ rows[i].ids[1][2] = counts.modelCalls => rows[i].ids[1][3] < CallId[3]

(* A response with all its results, and nothing that looks like another. *)
Whole(i) ==
  /\ i + Len(rows[i].ids) <= Len(rows)
  /\ \A k \in 1..Len(rows[i].ids) :
       IsResult(rows[i + k]) /\ rows[i + k].ids[1] = rows[i].ids[k]
  /\ i + Len(rows[i].ids) < Len(rows) => ~IsResult(rows[i + Len(rows[i].ids) + 1])

(* The current response with the results it has. *)
Open(c) ==
  /\ Len(rows) = c + Len(rows[c].ids) - Len(batch)
  /\ \A k \in 1..(Len(rows[c].ids) - Len(batch)) :
       IsResult(rows[c + k]) /\ rows[c + k].ids[1] = rows[c].ids[k]

(* The loop goes on: the run may call the model again. *)
Going == at \in {"boundary", "calling", "streaming", "tools"} \/ (at = "children" /\ batch # <<>>)

(* Messages in the order of their runs. *)
Ordered(messages) ==
  \A i, j \in DOMAIN messages : i < j => messages[i].run <= messages[j].run

(* A row of the current run is where the next model call has to find it. *)
InPlace(i) ==
  /\ IsCall(rows[i]) => IF batch # <<>> /\ IsCurrent(i) THEN Open(i) ELSE Whole(i)
  /\ IsResult(rows[i]) => i > 1 /\ (IsCall(rows[i - 1]) \/ IsResult(rows[i - 1]))

(* While late calls have not spoiled the order of the runs, those of the loop are in order. *)
OwnRowsInOrder ==
  Going /\ Ordered(rows) => \A i \in DOMAIN rows : rows[i].run = run => InPlace(i)

(* The critic makes no model call. *)
ContextMade == context.by # "critic"

(* The inductive invariant. *)
TurnInv ==
  /\ TurnTypes /\ Placed /\ LeftBehind /\ HasQuestion /\ HasCurrent /\ ResultIds
  /\ ResultsAnswerCalls /\ OwnRowsInOrder /\ OwnContextIsReady /\ QuestionInContext
  /\ SteeringOnceInOrder /\ ContextMade

-----------------------------------------------------------------------------
(* Constants, rows and calls. *)

(* The bounds one by one. *)
LEMMA TurnBounds ==
  /\ MaxMessages \in Nat /\ MaxTurns \in Nat /\ MaxSteers \in Nat /\ MaxPauses \in Nat
  /\ Budget.modelCalls \in Nat /\ Budget.toolCalls \in Nat /\ Budget.actions \in Nat
  /\ Budget.children \in Nat
  /\ \A tools \in Batches : tools \in Seq(ToolNames) /\ tools # <<>>
BY TurnAssumption DEF ToolNames

(* How many calls may be left behind. *)
LEMMA LateBound ==
  MaxLate \in Nat /\ Budget.modelCalls + Budget.toolCalls + MaxLate < MaxMessages
BY TurnAssumption, WindowAssumption

(* A row is written at the end. *)
LEMMA RowAppended ==
  ASSUME NEW S, NEW s \in Seq(S), NEW row \in S
  PROVE  /\ Append(s, row) \in Seq(S) /\ Len(Append(s, row)) = Len(s) + 1
         /\ DOMAIN s = 1..Len(s) /\ DOMAIN Append(s, row) = 1..(Len(s) + 1)
         /\ \A i \in 1..Len(s) : Append(s, row)[i] = s[i]
         /\ Append(s, row)[Len(s) + 1] = row
         /\ Len(s) \in Nat
OBVIOUS

(* What is known of the tools of a batch. *)
LEMMA BatchFacts ==
  ASSUME TurnTypes, batch # <<>>
  PROVE  /\ Head(batch) \in ToolNames /\ Tail(batch) \in Seq(ToolNames)
         /\ Len(batch) \in Nat \ {0} /\ Len(Tail(batch)) = Len(batch) - 1
         /\ Tail(batch) = <<>> <=> Len(batch) = 1
<1>1. batch \in Seq(ToolNames)
  BY DEF TurnTypes, LoopTyped
<1>2. Tail(batch) \in Seq(ToolNames) /\ Len(Tail(batch)) = Len(batch) - 1
  BY <1>1
<1>3. Head(batch) \in ToolNames /\ Len(batch) \in Nat \ {0}
  BY <1>1
<1>4. Tail(batch) = <<>> <=> Len(Tail(batch)) = 0
  BY <1>2
<1> QED BY <1>2, <1>3, <1>4

(* The ids of a response. *)
LEMMA IdsFacts ==
  ASSUME NEW r \in Nat, NEW n \in Nat, NEW S, NEW tools \in Seq(S)
  PROVE  /\ Ids(r, n, tools) \in Seq(Nat \X Nat \X Nat)
         /\ Len(Ids(r, n, tools)) = Len(tools)
         /\ \A i \in 1..Len(tools) : Ids(r, n, tools)[i] = <<r, n, i>>
BY DEF Ids

(* They are those of a sequence of as many. *)
LEMMA IdsOfIds ==
  ASSUME NEW r \in Nat, NEW n \in Nat, NEW S, NEW tools \in Seq(S)
  PROVE  Ids(r, n, Ids(r, n, tools)) = Ids(r, n, tools)
BY DEF Ids

(* The row of the current batch is the last one of the run. *)
LEMMA CurrentCall ==
  ASSUME TurnTypes, batch # <<>>, NEW c \in DOMAIN rows, IsCurrent(c)
  PROVE  /\ LastCall = rows[c].ids
         /\ CallId = <<run, counts.modelCalls, Len(rows[c].ids) - Len(batch) + 1>>
         /\ rows[c].ids \in Seq(Nat \X Nat \X Nat) /\ Len(rows[c].ids) \in Nat
         /\ Len(rows[c].ids) - Len(batch) + 1 \in 1..Len(rows[c].ids)
         /\ CallId = rows[c].ids[Len(rows[c].ids) - Len(batch) + 1]
         /\ CallId \in Nat \X Nat \X Nat
         /\ \A d \in DOMAIN rows : IsCurrent(d) => d = c
<1> DEFINE calls == {i \in DOMAIN rows : rows[i].kind = "tool_call" /\ rows[i].run = run}
           n == Len(rows[c].ids)
<1>1. DOMAIN rows = 1..Len(rows) /\ Len(rows) \in Nat
  BY DEF TurnTypes, RowsTyped
<1>2. c \in calls /\ \A j \in calls : j <= c
  BY <1>1 DEF IsCurrent, OfRun
<1>3. Max(calls) = c
  BY <1>1, <1>2 DEF Max
<1>4. LastCall = rows[c].ids
  BY <1>3 DEF LastCall
<1>5. rows[c] \in TurnRows
  BY DEF TurnTypes, RowsTyped
<1>6. /\ rows[c].ids \in Seq(Nat \X Nat \X Nat) /\ n \in Nat
      /\ Len(batch) \in Nat \ {0} /\ Len(batch) <= n
  BY <1>5, BatchFacts DEF TurnRows, IsCurrent
<1>7. n - Len(batch) + 1 \in 1..n
  BY <1>6
<1>8. \A i \in 1..n : rows[c].ids[i] = <<run, counts.modelCalls, i>>
  <2>1. rows[c].ids = [i \in DOMAIN rows[c].ids |-> <<run, counts.modelCalls, i>>]
    BY DEF IsCurrent, Ids
  <2>2. DOMAIN rows[c].ids = 1..n
    BY <1>6
  <2> QED BY <2>1, <2>2
<1>9. CallId = rows[c].ids[n - Len(batch) + 1]
  BY <1>4 DEF CallId
<1>10. CallId \in Nat \X Nat \X Nat
  <2>1. \A i \in 1..n : rows[c].ids[i] \in Nat \X Nat \X Nat
    BY <1>6
  <2> HIDE DEF n
  <2> QED BY <1>7, <1>9, <2>1
<1>11. \A d \in DOMAIN rows : IsCurrent(d) => d = c
  <2> SUFFICES ASSUME NEW d \in DOMAIN rows, IsCurrent(d) PROVE d = c
    OBVIOUS
  <2>1. d <= c
    BY <1>1, <1>2 DEF IsCurrent, OfRun
  <2>2. ~(c \in (d + 1)..Len(rows))
    BY DEF IsCurrent
  <2> QED BY <1>1, <2>1, <2>2
<1> QED BY <1>4, <1>6, <1>7, <1>8, <1>9, <1>10, <1>11

-----------------------------------------------------------------------------
(* Subagents. *)

(* All of a set in a sequence. *)
LEMMA SequenceOfSet ==
  ASSUME NEW S, IsFiniteSet(S)
  PROVE  /\ SetToSeq(S) \in Seq(S) /\ Len(SetToSeq(S)) = Cardinality(S)
         /\ {SetToSeq(S)[i] : i \in DOMAIN SetToSeq(S)} = S
<1> DEFINE n == Cardinality(S)
<1>1. n \in Nat /\ ExistsBijection(1..n, S)
  BY FS_CardinalityType
<1>2. \E f \in [1..n -> S] : IsInjective(f)
  BY <1>1 DEF ExistsBijection, Bijection, Injection
<1>3. PICK s : s = SetToSeq(S) /\ s \in [1..n -> S] /\ IsInjective(s)
  BY <1>2 DEF SetToSeq
<1>4. s \in Injection(1..n, S)
  BY <1>3 DEF Injection
<1>5. 1 \in Int /\ n \in Int
  BY <1>1
<1>6. Cardinality(1..n) = n
  BY <1>1, <1>5, FS_Interval
<1>7. s \in Surjection(1..n, S)
  BY <1>4, <1>6, FS_Injection
<1>8. \A x \in S : \E i \in 1..n : s[i] = x
  BY <1>7 DEF Surjection
<1>9. s \in Seq(S) /\ Len(s) = n /\ DOMAIN s = 1..n
  BY <1>1, <1>3
<1> QED BY <1>3, <1>8, <1>9

(* The kinds a delegation is for: some, and each once. *)
LEMMA KindsFacts ==
  ASSUME NEW tool, NEW kinds \in KindsOf(tool)
  PROVE  /\ kinds \in Seq(SubagentKinds) /\ kinds # <<>>
         /\ IsFiniteSet({kinds[i] : i \in DOMAIN kinds})
         /\ Cardinality({kinds[i] : i \in DOMAIN kinds}) = Len(kinds)
         /\ tool = "delegate" => Len(kinds) = 1
<1>1. ASSUME NEW agent \in SubagentKinds, kinds = <<agent>>
      PROVE  /\ kinds \in Seq(SubagentKinds) /\ kinds # <<>> /\ Len(kinds) = 1
             /\ {kinds[i] : i \in DOMAIN kinds} = {agent}
  BY <1>1
<1>2. CASE tool = "delegate"
  <2>1. PICK agent \in SubagentKinds : kinds = <<agent>>
    BY <1>2 DEF KindsOf, SubagentKinds
  <2> QED BY <1>1, <2>1, FS_Singleton
<1>3. CASE tool # "delegate"
  <2>1. kinds = SetToSeq(Tasks)
    BY <1>3 DEF KindsOf
  <2>2. IsFiniteSet(SubagentKinds)
    <3>1. IsFiniteSet({"research"} \cup {"code"})
      BY FS_Singleton, FS_AddElement
    <3>2. IsFiniteSet(({"research"} \cup {"code"}) \cup {"critic"})
      BY <3>1, FS_AddElement
    <3>3. SubagentKinds = ({"research"} \cup {"code"}) \cup {"critic"}
      BY DEF SubagentKinds
    <3> QED BY <3>2, <3>3
  <2>3. Tasks \in SUBSET SubagentKinds /\ Tasks # {}
    BY TurnAssumption
  <2>4. IsFiniteSet(Tasks)
    BY <2>2, <2>3, FS_Subset
  <2>5. /\ kinds \in Seq(Tasks) /\ Len(kinds) = Cardinality(Tasks)
        /\ {kinds[i] : i \in DOMAIN kinds} = Tasks
    BY <2>1, <2>4, SequenceOfSet
  <2>6. kinds # <<>>
    BY <2>3, <2>5
  <2>7. kinds \in Seq(SubagentKinds)
    BY <2>3, <2>5
  <2> QED BY <1>3, <2>4, <2>5, <2>6, <2>7
<1> QED BY <1>2, <1>3

(* Who is sent when subagents are launched. *)
LEMMA LaunchFacts ==
  ASSUME NEW ledger, NEW kinds \in Seq(SubagentKinds), children' = Launched(ledger, kinds)
  PROVE  /\ children' = [agent \in SubagentKinds |-> children'[agent]]
         /\ \A agent \in SubagentKinds : IsChild(children'[agent]) /\ children'[agent].at # "returned"
         /\ Involved' = {kinds[i] : i \in DOMAIN kinds}
<1>1. \A agent \in SubagentKinds :
        /\ (\E i \in DOMAIN kinds : kinds[i] = agent) =>
             children'[agent] =
               [at |-> "sent", cost |-> 0,
                entry |-> Len(ledger.entries) + CHOOSE i \in DOMAIN kinds : kinds[i] = agent]
        /\ ~(\E i \in DOMAIN kinds : kinds[i] = agent) =>
             children'[agent] = [at |-> "none", entry |-> 0, cost |-> 0]
  BY DEF Launched, NoChild
<1>2. children' = [agent \in SubagentKinds |-> children'[agent]]
  BY DEF Launched
<1> DEFINE sent(agent) == \E i \in DOMAIN kinds : kinds[i] = agent
<1>3. ASSUME NEW agent \in SubagentKinds
      PROVE  /\ IsChild(children'[agent])
             /\ children'[agent].at = IF sent(agent) THEN "sent" ELSE "none"
  <2> DEFINE c == children'[agent]
  <2>1. CASE sent(agent)
    <3>1. PICK entry : c = [at |-> "sent", cost |-> 0, entry |-> entry]
      BY <1>1, <2>1
    <3>2. c.at = "sent" /\ c.cost = 0 /\ c.entry = entry
      BY <3>1
    <3> QED BY <2>1, <3>1, <3>2 DEF IsChild
  <2>2. CASE ~sent(agent)
    <3>1. c = [at |-> "none", entry |-> 0, cost |-> 0]
      BY <1>1, <2>2
    <3>2. c.at = "none" /\ c.cost = 0 /\ c.entry = 0
      BY <3>1
    <3> QED BY <2>2, <3>1, <3>2 DEF IsChild
  <2> QED BY <2>1, <2>2
<1>4. \A agent \in SubagentKinds : children'[agent].at # "none" <=> sent(agent)
  BY <1>3
<1>5. \A i \in DOMAIN kinds : kinds[i] \in SubagentKinds
  OBVIOUS
<1>6. Involved' = {agent \in SubagentKinds : children'[agent].at # "none"}
  BY DEF Involved
<1>7. \A agent \in SubagentKinds : IsChild(children'[agent]) /\ children'[agent].at # "returned"
  BY <1>3
<1> QED BY <1>2, <1>4, <1>5, <1>6, <1>7

(* Nobody is sent. *)
LEMMA NobodySent ==
  ASSUME children' = NoChildren
  PROVE  /\ children' = [agent \in SubagentKinds |-> children'[agent]]
         /\ \A agent \in SubagentKinds : IsChild(children'[agent]) /\ children'[agent].at # "returned"
BY DEF NoChildren, NoChild, IsChild

(* One returns. *)
LEMMA ReturnFacts ==
  ASSUME ChildrenTyped, NEW agent \in SubagentKinds, NEW cost, children[agent].at = "sent",
         Returns(agent, cost)
  PROVE  /\ children' = [k \in SubagentKinds |-> children'[k]]
         /\ \A k \in SubagentKinds : IsChild(children'[k])
         /\ Involved' = Involved
<1> DEFINE c == children[agent]
           d == children'[agent]
<1>1. /\ children' = [children EXCEPT ![agent] = [@ EXCEPT !.at = "returned", !.cost = cost]]
      /\ children = [k \in SubagentKinds |-> children[k]]
  BY DEF Returns, ChildrenTyped
<1>2. /\ children' = [k \in SubagentKinds |-> children'[k]]
      /\ \A k \in SubagentKinds \ {agent} : children'[k] = children[k]
      /\ d = [c EXCEPT !.at = "returned", !.cost = cost]
  BY <1>1
<1>3. c = [at |-> c.at, entry |-> c.entry, cost |-> c.cost]
  BY DEF ChildrenTyped, IsChild
<1>4. d = [at |-> "returned", entry |-> c.entry, cost |-> cost]
  BY <1>2, <1>3
<1>5. d.at = "returned" /\ d.entry = c.entry /\ d.cost = cost
  BY <1>4
<1>6. IsChild(d)
  BY <1>4, <1>5 DEF IsChild
<1>7. \A k \in SubagentKinds : children'[k].at # "none" <=> children[k].at # "none"
  BY <1>2, <1>5
<1>8. \A k \in SubagentKinds : IsChild(children'[k])
  BY <1>2, <1>6 DEF ChildrenTyped
<1> QED BY <1>2, <1>7, <1>8 DEF Involved

(* The loop is left, for the subagents of the end or for the end. *)
LEMMA LeaveFacts ==
  ASSUME ChildrenTyped, EndLoop
  PROVE  /\ batch' = <<>> /\ fansOut' = fansOut
         /\ \/ at' = "children" /\ Involved' # {}
            \/ at' = "ending" /\ children' = children
         /\ children' = [agent \in SubagentKinds |-> children'[agent]]
         /\ \A agent \in SubagentKinds : /\ IsChild(children'[agent])
                                         /\ children' # children => children'[agent].at # "returned"
<1>1. CASE at' = "ending" /\ UNCHANGED delegation /\ batch' = <<>>
  BY <1>1 DEF ChildrenTyped, delegation
<1>2. CASE /\ at' = "children" /\ batch' = <<>> /\ UNCHANGED fansOut
           /\ children' = Launched(createBudgetLedger, AllKinds)
  <2>1. AllKinds \in Seq(SubagentKinds) /\ AllKinds[1] \in {AllKinds[i] : i \in DOMAIN AllKinds}
    BY DEF AllKinds, SubagentKinds
  <2> QED BY <1>2, <2>1, LaunchFacts
<1> QED BY <1>1, <1>2 DEF EndLoop

-----------------------------------------------------------------------------
(* Types, and what a run awaits. *)

(* A row the run writes. *)
LEMMA RunWrites ==
  ASSUME LoopTyped, RowsTyped, run # 0, NEW sort \in RowKinds, NEW ids \in Seq(Nat \X Nat \X Nat),
         rows' = Row(sort, ids)
  PROVE  /\ rows' \in Seq(TurnRows) /\ Len(rows') = Len(rows) + 1
         /\ DOMAIN rows = 1..Len(rows) /\ DOMAIN rows' = 1..(Len(rows) + 1)
         /\ \A i \in 1..Len(rows) : rows'[i] = rows[i]
         /\ rows'[Len(rows) + 1] = [kind |-> sort, run |-> run, ids |-> ids]
         /\ \A i \in DOMAIN rows' : rows'[i].run <= run
         /\ Len(rows) \in Nat
<1>1. run \in 1..MaxTurns /\ rows \in Seq(TurnRows) /\ \A i \in DOMAIN rows : rows[i].run <= run
  BY TurnBounds DEF LoopTyped, RowsTyped
<1>2. [kind |-> sort, run |-> run, ids |-> ids] \in TurnRows
  BY <1>1 DEF TurnRows
<1> QED BY <1>1, <1>2, RowAppended DEF Row

(* The rows there are. *)
LEMMA RowFacts ==
  ASSUME RowsTyped, NEW i \in DOMAIN rows
  PROVE  /\ rows[i].run \in Nat /\ rows[i].run <= run /\ rows[i].kind \in RowKinds
         /\ rows[i].ids \in Seq(Nat \X Nat \X Nat)
<1>1. rows[i] \in TurnRows /\ rows[i].run <= run
  BY DEF RowsTyped
<1>2. MaxTurns \in Nat
  BY TurnBounds
<1> QED BY <1>1, <1>2 DEF TurnRows

(* A result. *)
LEMMA ResultIdsTyped ==
  ASSUME TurnTypes, HasCurrent, batch # <<>>
  PROVE  CallId \in Nat \X Nat \X Nat /\ <<CallId>> \in Seq(Nat \X Nat \X Nat)
<1>1. PICK c \in DOMAIN rows : IsCurrent(c)
  BY DEF HasCurrent
<1>2. CallId \in Nat \X Nat \X Nat
  BY <1>1, CurrentCall
<1> QED BY <1>2

(* The counts one by one. *)
LEMMA CountFacts ==
  ASSUME CountsTyped
  PROVE  /\ counts.modelCalls \in Nat /\ counts.modelCalls <= Budget.modelCalls
         /\ counts.toolCalls \in Nat /\ counts.toolCalls <= Budget.toolCalls
         /\ counts.actions \in Nat /\ counts.actions <= Budget.actions + 1
         /\ counts.children \in Nat /\ counts.children <= Budget.children
BY TurnBounds DEF CountsTyped

(* A call is counted. *)
LEMMA CountedFacts ==
  ASSUME CountsTyped, ~OutOfCalls, counts' = Counted
  PROVE  /\ CountsTyped'
         /\ counts'.modelCalls = counts.modelCalls /\ counts'.children = counts.children
         /\ counts'.toolCalls = counts.toolCalls + 1 /\ counts'.actions = counts.actions + 1
         /\ counts'.actions <= Budget.actions
<1> DEFINE calls == counts.toolCalls + 1
           acts == counts.actions + 1
<1>1. ~(counts.toolCalls >= Budget.toolCalls) /\ ~(counts.actions >= Budget.actions)
  BY DEF OutOfCalls
<1>2. /\ calls \in 0..Budget.toolCalls /\ acts \in 0..(Budget.actions + 1)
      /\ acts <= Budget.actions
  <2>1. counts.toolCalls \in Nat /\ counts.actions \in Nat
    BY CountFacts
  <2>2. Budget.toolCalls \in Nat /\ Budget.actions \in Nat
    BY TurnBounds
  <2> QED BY <1>1, <2>1, <2>2
<1>3. counts' = [counts EXCEPT !.toolCalls = calls, !.actions = acts]
  BY DEF Counted
<1> HIDE DEF calls, acts
<1>4. /\ CountsTyped'
      /\ counts'.modelCalls = counts.modelCalls /\ counts'.children = counts.children
      /\ counts'.toolCalls = calls /\ counts'.actions = acts
  BY <1>2, <1>3 DEF CountsTyped
<1> QED BY <1>2, <1>4 DEF calls, acts

(* What a run leaves behind. *)
LEMMA AbandonedTyped ==
  ASSUME LoopTyped, CountsTyped, LateTyped, Placed, Active, Abandoned
  PROVE  late' \subseteq (1..run) \X (1..Budget.modelCalls)
<1>1. late \subseteq (1..run) \X (1..Budget.modelCalls)
  BY DEF LateTyped
<1>2. CASE at = "streaming"
  <2>1. run \in 1..run
    BY TurnBounds DEF LoopTyped, Placed
  <2>2. counts.modelCalls + 1 \in 1..Budget.modelCalls
    BY <1>2, TurnBounds, CountFacts DEF Placed
  <2> QED BY <1>1, <1>2, <2>1, <2>2 DEF Abandoned
<1>3. CASE at # "streaming"
  BY <1>1, <1>3 DEF Abandoned
<1> QED BY <1>2, <1>3

(* A turn starts. *)
LEMMA StartTyped ==
  ASSUME TurnTypes, Placed, StartTurn
  PROVE  /\ TurnTypes' /\ Placed'
         /\ Len(rows') = Len(rows) + 1 /\ \A i \in 1..Len(rows) : rows'[i] = rows[i]
         /\ DOMAIN rows = 1..Len(rows) /\ DOMAIN rows' = 1..(Len(rows) + 1)
         /\ rows'[Len(rows) + 1] = [kind |-> "user_message", run |-> run + 1, ids |-> <<>>]
         /\ Len(rows) \in Nat
<1>1. /\ run' = run + 1 /\ run < MaxTurns /\ at' = "boundary"
      /\ rows' = Append(rows, [kind |-> "user_message", run |-> run + 1, ids |-> <<>>])
      /\ counts' = Zero /\ batch' = <<>> /\ steeringBuffer' = <<>> /\ pendingSteering' = <<>>
      /\ told' = <<>> /\ children' = NoChildren /\ UNCHANGED <<late, steered, usage, context>>
  BY DEF StartTurn
<1>2. run \in Nat /\ run + 1 \in 1..MaxTurns
  BY <1>1, TurnBounds DEF TurnTypes, LoopTyped
<1>3. [kind |-> "user_message", run |-> run + 1, ids |-> <<>>] \in TurnRows
  BY <1>2 DEF TurnRows, RowKinds
<1>4. /\ Len(rows') = Len(rows) + 1 /\ \A i \in 1..Len(rows) : rows'[i] = rows[i]
      /\ DOMAIN rows = 1..Len(rows) /\ DOMAIN rows' = 1..(Len(rows) + 1)
      /\ rows'[Len(rows) + 1] = [kind |-> "user_message", run |-> run + 1, ids |-> <<>>]
      /\ Len(rows) \in Nat /\ rows' \in Seq(TurnRows)
  BY <1>1, <1>3, RowAppended DEF TurnTypes, RowsTyped
<1>5. \A i \in DOMAIN rows' : rows'[i].run <= run + 1
  <2>1. \A i \in 1..Len(rows) : rows[i].run \in Nat /\ rows[i].run <= run
    BY <1>4, RowFacts DEF TurnTypes
  <2>2. rows'[Len(rows) + 1].run = run + 1
    BY <1>4
  <2> QED BY <1>2, <1>4, <2>1, <2>2
<1>6. LateTyped'
  <2>1. 1..run \subseteq 1..run'
    BY <1>1, <1>2
  <2>2. late \subseteq (1..run) \X (1..Budget.modelCalls)
    BY DEF TurnTypes, LateTyped
  <2> QED BY <1>1, <2>1, <2>2 DEF LateTyped
<1>7. CountsTyped'
  BY <1>1, TurnBounds DEF Zero, CountsTyped
<1>8. LoopTyped' /\ SteeringTyped' /\ ChildrenTyped' /\ RowsTyped'
  BY <1>1, <1>2, <1>4, <1>5, NobodySent
  DEF TurnTypes, LoopTyped, SteeringTyped, ChildrenTyped, RowsTyped
<1>9. Placed'
  BY <1>1, <1>2 DEF Placed, Active
<1> QED BY <1>4, <1>6, <1>7, <1>8, <1>9 DEF TurnTypes

(* Steps on the way to a model call, and the pauses in it. *)
LEMMA CallingTyped ==
  ASSUME TurnTypes, Placed, Steer \/ BeginModelCall \/ BuildContext \/ Pause
  PROVE  TurnTypes' /\ Placed'
<1>1. /\ UNCHANGED <<rows, run, counts, batch, late, children, usage>>
      /\ \/ at' = at
         \/ at = "boundary" /\ at' = "calling" /\ counts.modelCalls < Budget.modelCalls
         \/ at = "calling" /\ at' = "streaming"
  BY DEF Steer, BeginModelCall, BuildContext, Pause, loop, delegation, steering
<1>2. SteeringTyped'
  <2>1. SteeringTyped
    BY DEF TurnTypes
  <2>2. CASE Steer
    <3>1. steered + 1 \in Nat /\ steered + 1 \in 0..MaxSteers
      BY <2>1, <2>2, TurnBounds DEF Steer, SteeringTyped
    <3>2. Append(steeringBuffer, steered + 1) \in Seq(Nat)
      BY <2>1, <3>1 DEF SteeringTyped
    <3> QED BY <2>1, <2>2, <3>1, <3>2 DEF Steer, SteeringTyped
  <2>3. CASE BeginModelCall
    BY <2>1, <2>3 DEF BeginModelCall, Drained, SteeringTyped
  <2>4. CASE BuildContext
    <3>1. told \o pendingSteering \in Seq(Nat)
      BY <2>1 DEF SteeringTyped
    <3> QED BY <2>1, <2>4, <3>1 DEF BuildContext, steering, SteeringTyped
  <2>5. CASE Pause
    BY <2>1, <2>5 DEF Pause, steering, SteeringTyped
  <2> QED BY <2>2, <2>3, <2>4, <2>5
<1>3. LoopTyped' /\ CountsTyped' /\ LateTyped' /\ ChildrenTyped' /\ RowsTyped'
  BY <1>1 DEF TurnTypes, LoopTyped, CountsTyped, LateTyped, ChildrenTyped, RowsTyped
<1>4. Involved' = Involved
  BY <1>1 DEF Involved
<1> QED BY <1>1, <1>2, <1>3, <1>4 DEF TurnTypes, Placed, Active

(* The loop is left. *)
LEMMA LeaveTyped ==
  ASSUME TurnTypes, Placed, Active, EndLoop, CountsTyped',
         UNCHANGED <<rows, run, late, steeringBuffer, pendingSteering, steered, told, usage>>
  PROVE  TurnTypes' /\ Placed'
<1>1. /\ batch' = <<>>
      /\ (at' = "children" /\ Involved' # {}) \/ at' = "ending"
      /\ ChildrenTyped'
  <2>1. ChildrenTyped
    BY DEF TurnTypes
  <2>2. /\ batch' = <<>> /\ fansOut' = fansOut
        /\ \/ at' = "children" /\ Involved' # {}
           \/ at' = "ending" /\ children' = children
        /\ children' = [agent \in SubagentKinds |-> children'[agent]]
        /\ \A agent \in SubagentKinds : /\ IsChild(children'[agent])
                                        /\ children' # children => children'[agent].at # "returned"
    BY <2>1, LeaveFacts
  <2>3. \A agent \in SubagentKinds : IsChild(children'[agent])
    BY <2>2
  <2> QED BY <2>2, <2>3 DEF ChildrenTyped
<1>2. LoopTyped' /\ SteeringTyped' /\ LateTyped' /\ RowsTyped'
  BY <1>1 DEF TurnTypes, LoopTyped, SteeringTyped, LateTyped, RowsTyped
<1> QED BY <1>1, <1>2 DEF TurnTypes, Placed, Active

(* The response. *)
LEMMA RespondTyped ==
  ASSUME TurnTypes, Placed, Respond
  PROVE  TurnTypes' /\ Placed'
<1>1. /\ at = "streaming" /\ counts' = [counts EXCEPT !.modelCalls = @ + 1]
      /\ UNCHANGED <<run, late, steering, usage, context, told>>
  BY DEF Respond
<1>2. CountsTyped' /\ counts'.modelCalls = counts.modelCalls + 1 /\ counts'.modelCalls \in Nat
  <2> DEFINE calls == counts.modelCalls + 1
  <2>1. calls \in 0..Budget.modelCalls /\ calls \in Nat
    <3>1. counts.modelCalls < Budget.modelCalls
      BY <1>1 DEF Placed
    <3>2. counts.modelCalls \in Nat /\ Budget.modelCalls \in Nat
      BY TurnBounds, CountFacts DEF TurnTypes
    <3> QED BY <3>1, <3>2
  <2>2. counts' = [counts EXCEPT !.modelCalls = calls]
    BY <1>1
  <2> HIDE DEF calls
  <2>3. CountsTyped' /\ counts'.modelCalls = calls
    BY <2>1, <2>2 DEF CountsTyped, TurnTypes
  <2> QED BY <2>1, <2>3 DEF calls
<1>3. run # 0 /\ run \in Nat /\ Active
  BY <1>1, TurnBounds DEF Placed, Active, TurnTypes, LoopTyped
<1>4. CASE EndLoop /\ UNCHANGED rows
  BY <1>1, <1>2, <1>3, <1>4, LeaveTyped DEF steering
<1>5. ASSUME NEW tools \in Batches, rows' = Row("tool_call", Ids(run, counts'.modelCalls, tools)),
             batch' = tools, at' = "tools", UNCHANGED delegation
      PROVE  TurnTypes' /\ Placed'
  <2>1. tools \in Seq(ToolNames) /\ tools # <<>>
    BY TurnBounds
  <2>2. Ids(run, counts'.modelCalls, tools) \in Seq(Nat \X Nat \X Nat)
    BY <1>2, <1>3, <2>1, IdsFacts
  <2>3. RowsTyped'
    <3>1. LoopTyped /\ RowsTyped /\ run # 0 /\ "tool_call" \in RowKinds
      BY <1>3 DEF TurnTypes, RowKinds
    <3>2. rows' \in Seq(TurnRows) /\ \A i \in DOMAIN rows' : rows'[i].run <= run
      BY <1>5, <2>2, <3>1, RunWrites
    <3> QED BY <1>1, <3>2 DEF RowsTyped
  <2>4. LoopTyped' /\ SteeringTyped' /\ LateTyped' /\ ChildrenTyped'
    BY <1>1, <1>5, <2>1
    DEF TurnTypes, LoopTyped, SteeringTyped, LateTyped, ChildrenTyped, steering, delegation
  <2>5. Placed'
    BY <1>1, <1>3, <1>5, <2>1 DEF Placed, Active
  <2> QED BY <1>2, <2>3, <2>4, <2>5 DEF TurnTypes
<1> QED BY <1>4, <1>5 DEF Respond

(* The loop is left between calls or in a batch. *)
LEMMA StopTyped ==
  ASSUME TurnTypes, Placed, StopAtBoundary \/ StopInBatch
  PROVE  TurnTypes' /\ Placed'
<1>1. /\ Active /\ EndLoop /\ UNCHANGED <<rows, run, late, steering, usage, told>>
      /\ counts' = counts \/ (counts' = Counted /\ ~OutOfCalls)
  BY DEF StopAtBoundary, StopInBatch, Active
<1>2. CountsTyped'
  BY <1>1, CountedFacts DEF TurnTypes, CountsTyped
<1> QED BY <1>1, <1>2, LeaveTyped DEF steering

(* A call of a batch has its result, and the batch goes on or is done. *)
LEMMA PersistedTyped ==
  ASSUME TurnTypes, Placed, HasCurrent, batch # <<>>, Persisted, CountsTyped', ChildrenTyped',
         UNCHANGED <<run, late, steeringBuffer, pendingSteering, steered, told, usage>>
  PROVE  TurnTypes' /\ Placed'
<1>1. Active /\ run # 0
  BY DEF Placed, Active
<1>2. /\ rows' = Row("tool_result", <<CallId>>) /\ batch' = Tail(batch)
      /\ at' = IF Len(batch) = 1 THEN "boundary" ELSE "tools"
  BY DEF Persisted, AfterCall
<1>3. RowsTyped'
  BY <1>1, <1>2, ResultIdsTyped, RunWrites DEF RowKinds, RowsTyped, TurnTypes
<1>4. LoopTyped' /\ SteeringTyped' /\ LateTyped'
  BY <1>2, BatchFacts DEF TurnTypes, LoopTyped, SteeringTyped, LateTyped
<1>5. Placed'
  <2>1. batch' = <<>> <=> at' = "boundary"
    BY <1>2, BatchFacts
  <2> QED BY <1>1, <1>2, <2>1 DEF Placed, Active
<1> QED BY <1>3, <1>4, <1>5 DEF TurnTypes

(* A tool is called. *)
LEMMA CallTyped ==
  ASSUME TurnTypes, Placed, HasCurrent, CallTool
  PROVE  TurnTypes' /\ Placed'
<1>1. /\ batch # <<>> /\ ~OutOfCalls /\ counts' = Counted /\ Persisted
      /\ UNCHANGED <<run, late, steering, delegation, usage, told>>
  BY DEF CallTool, MayCall
<1>2. CountsTyped' /\ ChildrenTyped'
  BY <1>1, CountedFacts DEF TurnTypes, ChildrenTyped, delegation
<1> QED BY <1>1, <1>2, PersistedTyped DEF steering

(* A delegation. *)
LEMMA DelegateTyped ==
  ASSUME TurnTypes, Placed, Delegate
  PROVE  /\ TurnTypes' /\ Placed'
         /\ \A agent \in SubagentKinds : children'[agent].at # "returned"
<1>1. /\ at = "tools" /\ batch # <<>> /\ ~OutOfCalls /\ ~OutOfChildren /\ counts' = Counted
      /\ Head(batch) \in Delegates /\ at' = "children"
      /\ UNCHANGED <<rows, run, batch, late, steering, usage, context, told>>
  BY DEF Delegate, MayCall
<1>2. PICK kinds \in KindsOf(Head(batch)) :
        /\ Head(batch) = "parallel" => counts.children + Len(kinds) <= Budget.children
        /\ children' = Launched(ledgers.tools, kinds)
  BY DEF Delegate
<1>3. /\ CountsTyped' /\ counts'.children = counts.children /\ counts'.actions <= Budget.actions
  BY <1>1, CountedFacts DEF TurnTypes
<1>4. /\ kinds \in Seq(SubagentKinds) /\ kinds # <<>>
      /\ IsFiniteSet({kinds[i] : i \in DOMAIN kinds})
      /\ Cardinality({kinds[i] : i \in DOMAIN kinds}) = Len(kinds)
      /\ Head(batch) = "delegate" => Len(kinds) = 1
  BY KindsFacts
<1>5. /\ ChildrenTyped' /\ \A agent \in SubagentKinds : children'[agent].at # "returned"
      /\ Involved' = {kinds[i] : i \in DOMAIN kinds}
  BY <1>2, <1>4, LaunchFacts DEF ChildrenTyped
<1>6. counts.children + Len(kinds) <= Budget.children
  <2>1. CASE Head(batch) = "parallel"
    BY <1>2, <2>1
  <2>2. CASE Head(batch) = "delegate"
    <3>1. ~(counts.children >= Budget.children) /\ Len(kinds) = 1
      BY <1>1, <1>4, <2>2 DEF OutOfChildren
    <3>2. counts.children \in Nat /\ Budget.children \in Nat
      BY CountFacts, TurnBounds DEF TurnTypes
    <3> QED BY <3>1, <3>2
  <2> QED BY <1>1, <2>1, <2>2 DEF Delegates
<1>7. Involved' # {}
  <2>1. 1 \in DOMAIN kinds
    BY <1>4
  <2> QED BY <1>5, <2>1
<1>8. LoopTyped' /\ SteeringTyped' /\ LateTyped' /\ RowsTyped'
  BY <1>1 DEF TurnTypes, LoopTyped, SteeringTyped, LateTyped, RowsTyped, steering
<1>9. Placed'
  BY <1>1, <1>3, <1>4, <1>5, <1>6, <1>7 DEF Placed, Active
<1> QED BY <1>3, <1>5, <1>8, <1>9 DEF TurnTypes

(* A subagent returns. *)
LEMMA ChildReturnsTyped ==
  ASSUME TurnTypes, Placed, NEW agent \in SubagentKinds, ChildReturns(agent)
  PROVE  TurnTypes' /\ Placed'
<1>1. /\ at = "children" /\ children[agent].at = "sent" /\ \E cost : Returns(agent, cost)
      /\ UNCHANGED <<rows, run, loop, late, steering, usage, told>>
  BY DEF ChildReturns
<1>2. ChildrenTyped' /\ Involved' = Involved
  BY <1>1, ReturnFacts DEF ChildrenTyped, TurnTypes
<1>3. LoopTyped' /\ CountsTyped' /\ SteeringTyped' /\ LateTyped' /\ RowsTyped'
  BY <1>1
  DEF TurnTypes, LoopTyped, CountsTyped, SteeringTyped, LateTyped, RowsTyped, loop, steering
<1>4. Placed'
  BY <1>1, <1>2 DEF Placed, Active, loop
<1> QED BY <1>2, <1>3, <1>4 DEF TurnTypes

(* All of them have returned. *)
LEMMA ChildrenReturnedTyped ==
  ASSUME TurnTypes, Placed, HasCurrent, ChildrenReturned
  PROVE  TurnTypes' /\ Placed'
<1>1. /\ at = "children" /\ children' = NoChildren
      /\ UNCHANGED <<run, late, steering, usage, told>>
  BY DEF ChildrenReturned
<1>2. ChildrenTyped'
  BY <1>1, NobodySent DEF ChildrenTyped
<1>3. CASE batch = <<>>
  <2>1. at' = "ending" /\ UNCHANGED <<rows, counts, batch>>
    BY <1>3 DEF ChildrenReturned
  <2>2. LoopTyped' /\ CountsTyped' /\ SteeringTyped' /\ LateTyped' /\ RowsTyped'
    BY <1>1, <2>1
    DEF TurnTypes, LoopTyped, CountsTyped, SteeringTyped, LateTyped, RowsTyped, steering
  <2>3. Placed'
    BY <1>1, <1>3, <2>1 DEF Placed, Active
  <2> QED BY <1>2, <2>2, <2>3 DEF TurnTypes
<1>4. CASE batch # <<>>
  <2> DEFINE sent == counts.children + Cardinality(Involved)
             acts == IF Head(batch) = "delegate" THEN counts.actions + 1 ELSE counts.actions
  <2>1. Persisted /\ counts' = [counts EXCEPT !.children = sent, !.actions = acts]
    BY <1>4 DEF ChildrenReturned
  <2>2. sent \in 0..Budget.children /\ acts \in 0..(Budget.actions + 1)
    <3>1. IsFiniteSet(Involved)
      <4>1. IsFiniteSet({"research"} \cup {"code"})
        BY FS_Singleton, FS_AddElement
      <4>2. IsFiniteSet(({"research"} \cup {"code"}) \cup {"critic"})
        BY <4>1, FS_AddElement
      <4>3. /\ SubagentKinds = ({"research"} \cup {"code"}) \cup {"critic"}
            /\ Involved \in SUBSET SubagentKinds
        BY DEF SubagentKinds, Involved
      <4> QED BY <4>2, <4>3, FS_Subset
    <3>2. Cardinality(Involved) \in Nat
      BY <3>1, FS_CardinalityType
    <3>3. counts.children \in Nat /\ counts.actions \in Nat
      BY CountFacts DEF TurnTypes
    <3>4. Budget.children \in Nat /\ Budget.actions \in Nat
      BY TurnBounds
    <3>5. counts.actions <= Budget.actions /\ sent <= Budget.children
      BY <1>1, <1>4 DEF Placed
    <3> QED BY <3>2, <3>3, <3>4, <3>5
  <2> HIDE DEF sent, acts
  <2>3. CountsTyped'
    BY <2>1, <2>2 DEF CountsTyped, TurnTypes
  <2> QED BY <1>1, <1>2, <1>4, <2>1, <2>3, PersistedTyped DEF steering
<1> QED BY <1>3, <1>4

(* The run ends. *)
LEMMA EndTyped ==
  ASSUME TurnTypes, Placed, Terminal \/ Complete \/ Fail \/ CancelTurn
  PROVE  TurnTypes' /\ Placed'
<1>1. /\ Active /\ at' = "idle" /\ batch' = <<>>
      /\ rows' = rows \/ rows' = Row("assistant_message", <<>>)
      /\ counts' = counts \/ (counts' = Counted /\ ~OutOfCalls)
      /\ UNCHANGED <<run, steering, delegation, context, told>>
      /\ usage' = usage \/ \E u : usage' = [usage EXCEPT ![run] = u]
  BY DEF Terminal, Complete, Fail, CancelTurn, MayCall, Active, Placed
<1>2. run # 0
  BY <1>1 DEF Placed
<1>3. RowsTyped'
  <2>1. CASE rows' = rows
    BY <1>1, <2>1 DEF RowsTyped, TurnTypes
  <2>2. CASE rows' = Row("assistant_message", <<>>)
    <3>1. <<>> \in Seq(Nat \X Nat \X Nat)
      OBVIOUS
    <3> QED BY <1>1, <1>2, <2>2, <3>1, RunWrites DEF RowKinds, RowsTyped, TurnTypes
  <2> QED BY <1>1, <2>1, <2>2
<1>4. LateTyped'
  <2>1. late' = late \/ Abandoned
    BY DEF Terminal, Complete, Fail, CancelTurn
  <2> QED BY <1>1, <2>1, AbandonedTyped DEF LateTyped, TurnTypes
<1>5. CountsTyped'
  BY <1>1, CountedFacts DEF CountsTyped, TurnTypes
<1>6. LoopTyped' /\ SteeringTyped' /\ ChildrenTyped'
  BY <1>1 DEF TurnTypes, LoopTyped, SteeringTyped, ChildrenTyped, steering, delegation
<1>7. Placed'
  BY <1>1 DEF Placed, Active
<1> QED BY <1>3, <1>4, <1>5, <1>6, <1>7 DEF TurnTypes

(* A late response is written. *)
LEMMA LateTypes ==
  ASSUME TurnTypes, Placed, LateResponse
  PROVE  /\ TurnTypes' /\ Placed'
         /\ UNCHANGED <<run, loop, steering, delegation, usage, context, told>>
         /\ \E l \in late :
              /\ late' = late \ {l}
              /\ \/ UNCHANGED rows
                 \/ /\ Len(rows') = Len(rows) + 1 /\ \A i \in 1..Len(rows) : rows'[i] = rows[i]
                    /\ DOMAIN rows = 1..Len(rows) /\ DOMAIN rows' = 1..(Len(rows) + 1)
                    /\ rows'[Len(rows) + 1].kind = "tool_call"
                    /\ rows'[Len(rows) + 1].run = l[1] /\ l[1] \in 1..run /\ Len(rows) \in Nat
<1>1. PICK l \in late :
        /\ late' = late \ {l}
        /\ \/ UNCHANGED rows
           \/ \E tools \in Batches :
                rows' = Append(rows, [kind |-> "tool_call", run |-> l[1],
                                      ids |-> Ids(l[1], l[2], tools)])
  BY DEF LateResponse
<1>2. UNCHANGED <<run, loop, steering, delegation, usage, context, told>>
  BY DEF LateResponse
<1>3. l[1] \in 1..run /\ l[2] \in 1..Budget.modelCalls /\ l[1] \in 1..MaxTurns
      /\ l[1] \in Nat /\ l[2] \in Nat
  <2>1. l[1] \in 1..run /\ l[2] \in 1..Budget.modelCalls
    BY DEF LateTyped, TurnTypes
  <2> QED BY <2>1, TurnBounds DEF LoopTyped, TurnTypes
<1>4. \/ UNCHANGED rows
      \/ /\ Len(rows') = Len(rows) + 1 /\ \A i \in 1..Len(rows) : rows'[i] = rows[i]
         /\ DOMAIN rows = 1..Len(rows) /\ DOMAIN rows' = 1..(Len(rows) + 1)
         /\ rows'[Len(rows) + 1].kind = "tool_call" /\ rows'[Len(rows) + 1].run = l[1]
         /\ Len(rows) \in Nat /\ rows' \in Seq(TurnRows)
  <2>1. ASSUME NEW tools \in Batches,
               rows' = Append(rows, [kind |-> "tool_call", run |-> l[1],
                                     ids |-> Ids(l[1], l[2], tools)])
        PROVE  /\ Len(rows') = Len(rows) + 1 /\ \A i \in 1..Len(rows) : rows'[i] = rows[i]
               /\ DOMAIN rows = 1..Len(rows) /\ DOMAIN rows' = 1..(Len(rows) + 1)
               /\ rows'[Len(rows) + 1].kind = "tool_call" /\ rows'[Len(rows) + 1].run = l[1]
               /\ Len(rows) \in Nat /\ rows' \in Seq(TurnRows)
    <3> DEFINE ids == Ids(l[1], l[2], tools)
    <3>1. tools \in Seq(ToolNames)
      BY TurnBounds
    <3>2. ids \in Seq(Nat \X Nat \X Nat)
      BY <1>3, <3>1, IdsFacts
    <3> HIDE DEF ids
    <3>3. [kind |-> "tool_call", run |-> l[1], ids |-> ids] \in TurnRows
      BY <1>3, <3>2 DEF TurnRows, RowKinds
    <3>4. rows' = Append(rows, [kind |-> "tool_call", run |-> l[1], ids |-> ids])
      BY <2>1 DEF ids
    <3>5. rows \in Seq(TurnRows)
      BY DEF TurnTypes, RowsTyped
    <3> QED BY <3>3, <3>4, <3>5, RowAppended
  <2> QED BY <1>1, <2>1
<1>5. RowsTyped'
  <2>1. CASE UNCHANGED rows
    BY <1>2, <2>1 DEF TurnTypes, RowsTyped
  <2>2. CASE ~UNCHANGED rows
    <3>1. \A i \in 1..Len(rows) : rows'[i].run <= run
      BY <1>4, <2>2 DEF TurnTypes, RowsTyped
    <3>2. rows'[Len(rows) + 1].run <= run
      BY <1>3, <1>4, <2>2 DEF TurnTypes, LoopTyped
    <3> QED BY <1>2, <1>4, <2>2, <3>1, <3>2 DEF RowsTyped
  <2> QED BY <2>1, <2>2
<1>6. LoopTyped' /\ CountsTyped' /\ SteeringTyped' /\ LateTyped' /\ ChildrenTyped'
  BY <1>1, <1>2
  DEF TurnTypes, LoopTyped, CountsTyped, SteeringTyped, LateTyped, ChildrenTyped, loop, steering,
      delegation
<1>7. Placed'
  <2>1. Involved' = Involved
    BY <1>2 DEF Involved, delegation
  <2> QED BY <1>2, <2>1 DEF Placed, Active, loop
<1> QED BY <1>1, <1>2, <1>3, <1>4, <1>5, <1>6, <1>7 DEF TurnTypes

(* Types and places of all steps. *)
LEMMA StepTyped ==
  ASSUME TurnTypes, Placed, HasCurrent, [TurnNext]_turnVars
  PROVE  TurnTypes' /\ Placed'
<1>1. CASE UNCHANGED turnVars
  <2>1. Involved' = Involved
    BY <1>1 DEF turnVars, delegation, Involved
  <2> QED BY <1>1, <2>1
      DEF turnVars, loop, steering, delegation, TurnTypes, LoopTyped, CountsTyped, SteeringTyped,
          LateTyped, ChildrenTyped, RowsTyped, Placed, Active
<1> QED
  BY <1>1, StartTyped, CallingTyped, RespondTyped, StopTyped, CallTyped, DelegateTyped,
     ChildReturnsTyped, ChildrenReturnedTyped, EndTyped, LateTypes
  DEF TurnNext, Work

-----------------------------------------------------------------------------
(* What runs leave behind, and the question. *)

(* The steps within a turn. *)
Within ==
  \/ Steer \/ BeginModelCall \/ BuildContext \/ Pause \/ StopAtBoundary \/ Respond
  \/ StopInBatch \/ CallTool \/ Delegate \/ ChildrenReturned
  \/ \E agent \in SubagentKinds : ChildReturns(agent)

(* And those that end it. *)
Ends == Terminal \/ Complete \/ Fail \/ CancelTurn

(* Every step is of one kind. *)
LEMMA StepKinds ==
  TurnNext <=> StartTurn \/ Within \/ Ends \/ LateResponse
BY DEF TurnNext, Work, Within, Ends

(* A step within a turn keeps the run and what others left behind. *)
LEMMA WithinFacts ==
  ASSUME TurnTypes, Placed, Within
  PROVE  Active /\ Active' /\ UNCHANGED <<run, late>>
<1>1. ASSUME EndLoop PROVE at' # "idle"
  BY <1>1 DEF EndLoop
<1>2. ASSUME Persisted PROVE at' # "idle"
  BY <1>2 DEF Persisted, AfterCall
<1>3. CASE Steer \/ BeginModelCall \/ BuildContext \/ Pause
  BY <1>3 DEF Steer, BeginModelCall, BuildContext, Pause, loop, steering, Active
<1>4. CASE StopAtBoundary \/ Respond \/ StopInBatch
  BY <1>1, <1>4 DEF StopAtBoundary, Respond, StopInBatch, steering, Active
<1>5. CASE CallTool \/ Delegate
  BY <1>2, <1>5 DEF CallTool, Delegate, MayCall, steering, Active
<1>6. CASE ChildrenReturned
  BY <1>2, <1>6 DEF ChildrenReturned, steering, Active
<1>7. CASE \E agent \in SubagentKinds : ChildReturns(agent)
  BY <1>7 DEF ChildReturns, loop, steering, Active
<1> QED BY <1>3, <1>4, <1>5, <1>6, <1>7 DEF Within

(* Whatever a step does. *)
LEMMA LeftBehindKept ==
  ASSUME TurnTypes, Placed, LeftBehind, [TurnNext]_turnVars
  PROVE  LeftBehind'
<1>1. /\ run \in Nat /\ IsFiniteSet(late) /\ Cardinality(late) \in Nat
      /\ Cardinality(late) <= MaxLate /\ MaxLate \in Nat
  BY FS_CardinalityType, TurnBounds, LateBound DEF LeftBehind, TurnTypes, LoopTyped
<1>2. CASE StartTurn
  <2>1. Active' /\ ~Active /\ run' = run + 1 /\ late' = late
    BY <1>2 DEF StartTurn, Active
  <2>2. \A l \in late : l[1] < run + 1
    BY <1>1 DEF TurnTypes, LateTyped
  <2> QED BY <1>1, <2>1, <2>2 DEF LeftBehind
<1>3. CASE Within
  BY <1>3, WithinFacts DEF LeftBehind
<1>4. CASE Ends
  <2>1. Active /\ ~Active' /\ run' = run
    BY <1>4 DEF Ends, Terminal, Complete, Fail, CancelTurn, MayCall, Active
  <2>2. \/ late' = late
        \/ late' = late \cup {<<run, counts.modelCalls + 1>>} /\ Cardinality(late') <= MaxLate
    BY <1>4 DEF Ends, Terminal, Complete, Fail, CancelTurn, Abandoned
  <2>3. IsFiniteSet(late')
    <3>1. IsFiniteSet(late \cup {<<run, counts.modelCalls + 1>>})
      BY <1>1, FS_AddElement
    <3> QED BY <1>1, <2>2, <3>1
  <2>4. Cardinality(late') <= MaxLate
    BY <1>1, <2>2
  <2> QED BY <2>1, <2>3, <2>4 DEF LeftBehind
<1>5. CASE LateResponse
  <2>1. PICK l \in late : late' = late \ {l}
    BY <1>5 DEF LateResponse
  <2>2. IsFiniteSet(late') /\ Cardinality(late') = Cardinality(late) - 1
    BY <1>1, <2>1, FS_RemoveElement
  <2>3. Active' = Active /\ run' = run
    BY <1>5 DEF LateResponse, loop, Active
  <2> QED BY <1>1, <2>1, <2>2, <2>3 DEF LeftBehind
<1>6. CASE UNCHANGED turnVars
  BY <1>6 DEF turnVars, loop, Active, LeftBehind
<1> QED BY <1>2, <1>3, <1>4, <1>5, <1>6, StepKinds

(* A balance that holds of what there was and of what came holds of both together. *)
LEMMA SumOfBalances ==
  ASSUME NEW a \in Nat, NEW b \in Nat, NEW v \in Nat, NEW c \in Nat, NEW d \in Nat,
         NEW m \in Nat, NEW n \in Nat, NEW t \in Nat, NEW s \in Nat, NEW r \in Nat,
         a - v + c <= m + t + r, b - a + d <= c + (n - m) + (s - t)
  PROVE  b - v + d <= n + s + r
OBVIOUS

(* The question stays while no more is written than was coming or is counted. *)
LEMMA QuestionStays ==
  ASSUME RowsTyped, RowsTyped', NEW u \in DOMAIN rows, Question(u), UNCHANGED run,
         Len(rows) <= Len(rows'), \A i \in 1..Len(rows) : rows'[i] = rows[i],
         Len(rows') - Len(rows) + Coming' <=
           Coming + (counts'.modelCalls - counts.modelCalls) + (counts'.toolCalls - counts.toolCalls),
         CountsTyped, CountsTyped', Coming \in Nat, Coming' \in Nat, run \in Nat
  PROVE  HasQuestion'
<1>1. /\ Len(rows) \in Nat /\ Len(rows') \in Nat
      /\ DOMAIN rows = 1..Len(rows) /\ DOMAIN rows' = 1..Len(rows')
  BY DEF RowsTyped
<1>2. /\ counts.modelCalls \in Nat /\ counts.toolCalls \in Nat
      /\ counts'.modelCalls \in Nat /\ counts'.toolCalls \in Nat
  BY TurnBounds DEF CountsTyped
<1>3. /\ Len(rows) - u + Coming <= counts.modelCalls + counts.toolCalls + MaxLate
      /\ rows[u].kind = "user_message" /\ rows[u].run = run
      /\ \A i \in 1..(u - 1) : rows[i].run < run
  BY DEF Question
<1>4. Len(rows') - u + Coming' <= counts'.modelCalls + counts'.toolCalls + MaxLate
  <2>1. PICK a \in Nat, b \in Nat, v \in Nat : a = Len(rows) /\ b = Len(rows') /\ v = u
    <3>1. u \in 1..Len(rows) /\ Len(rows) \in Nat
      BY <1>1
    <3>2. u \in Nat
      BY <3>1
    <3> QED BY <1>1, <3>2
  <2>2. PICK m \in Nat, n \in Nat, t \in Nat, s \in Nat :
          /\ m = counts.modelCalls /\ n = counts'.modelCalls
          /\ t = counts.toolCalls /\ s = counts'.toolCalls
    BY <1>2
  <2>3. PICK c \in Nat, d \in Nat, r \in Nat : c = Coming /\ d = Coming' /\ r = MaxLate
    BY LateBound
  <2>4. a - v + c <= m + t + r /\ b - a + d <= c + (n - m) + (s - t)
    BY <1>3, <2>1, <2>2, <2>3
  <2>8. b - v + d <= n + s + r
    BY <2>4, SumOfBalances
  <2> QED BY <2>1, <2>2, <2>3, <2>8
<1>5. Question(u)'
  BY <1>1, <1>3, <1>4 DEF Question
<1>6. u \in DOMAIN rows'
  BY <1>1
<1> QED BY <1>5, <1>6 DEF HasQuestion


(* Numbers of what is coming. *)
LEMMA ComingFacts ==
  ASSUME TurnTypes, TurnTypes', LeftBehind, LeftBehind'
  PROVE  /\ Coming \in Nat /\ Coming' \in Nat /\ run \in Nat
         /\ Cardinality(late) \in Nat /\ Cardinality(late') \in Nat
<1>1. Cardinality(late) \in Nat /\ Cardinality(late') \in Nat
  BY FS_CardinalityType DEF LeftBehind
<1>2. run \in Nat
  BY TurnBounds DEF TurnTypes, LoopTyped
<1> QED BY <1>1, <1>2 DEF Coming

(* One row is written, or none. *)
OneRow ==
  /\ Len(rows) \in Nat /\ DOMAIN rows = 1..Len(rows)
  /\ Len(rows') = Len(rows) + 1 /\ DOMAIN rows' = 1..(Len(rows) + 1)
  /\ \A i \in 1..Len(rows) : rows'[i] = rows[i]

(* The rows of the steps within a turn. *)
LEMMA WithinRows ==
  ASSUME TurnTypes, Placed, HasCurrent, Within
  PROVE  \/ /\ UNCHANGED <<rows, counts, batch, at>>
         \/ UNCHANGED rows /\ ((at' # "children" /\ at # "children") \/ batch' = <<>>)
              /\ counts'.modelCalls = counts.modelCalls
              /\ counts'.toolCalls \in {counts.toolCalls, counts.toolCalls + 1}
         \/ UNCHANGED rows /\ (at' # "children" \/ batch' = <<>>)
              /\ counts'.modelCalls = counts.modelCalls + 1
              /\ counts'.toolCalls = counts.toolCalls
         \/ Delegate /\ UNCHANGED rows /\ counts'.modelCalls = counts.modelCalls
              /\ counts'.toolCalls = counts.toolCalls + 1
         \/ OneRow /\ at' # "children" /\ counts'.modelCalls = counts.modelCalls + 1
              /\ counts'.toolCalls = counts.toolCalls
         \/ OneRow /\ at' # "children" /\ counts'.modelCalls = counts.modelCalls
              /\ counts'.toolCalls = counts.toolCalls + 1
         \/ OneRow /\ at' # "children" /\ at = "children" /\ batch # <<>>
              /\ counts'.modelCalls = counts.modelCalls
              /\ counts'.toolCalls = counts.toolCalls
<1>1. CASE Steer \/ Pause \/ \E agent \in SubagentKinds : ChildReturns(agent)
  BY <1>1 DEF Steer, Pause, ChildReturns, loop
<1>2. CASE BeginModelCall \/ BuildContext
  BY <1>2 DEF BeginModelCall, BuildContext
<1>3. CASE StopAtBoundary
  BY <1>3 DEF StopAtBoundary, EndLoop
<1>4. CASE StopInBatch
  <2>1. UNCHANGED rows /\ batch' = <<>> /\ (counts' = counts \/ (counts' = Counted /\ ~OutOfCalls))
    BY <1>4 DEF StopInBatch, EndLoop
  <2> QED BY <2>1, CountedFacts DEF TurnTypes
<1>5. Placed /\ run # 0
  BY WithinFacts DEF Placed
<1>6. CASE Respond
  <2>1. /\ counts' = [counts EXCEPT !.modelCalls = @ + 1]
        /\ counts'.modelCalls = counts.modelCalls + 1 /\ counts'.toolCalls = counts.toolCalls
        /\ counts'.modelCalls \in Nat
    <3>1. counts' = [counts EXCEPT !.modelCalls = @ + 1]
      BY <1>6 DEF Respond
    <3>2. counts = [modelCalls |-> counts.modelCalls, toolCalls |-> counts.toolCalls,
                    actions |-> counts.actions, children |-> counts.children]
      BY DEF TurnTypes, CountsTyped
    <3> QED BY <3>1, <3>2, CountFacts DEF TurnTypes
  <2>2. CASE EndLoop /\ UNCHANGED rows
    BY <2>1, <2>2 DEF EndLoop
  <2>3. ASSUME NEW tools \in Batches, rows' = Row("tool_call", Ids(run, counts'.modelCalls, tools)),
               at' = "tools"
        PROVE  OneRow
    <3>0. run \in Nat /\ tools \in Seq(ToolNames)
      BY TurnBounds DEF TurnTypes, LoopTyped
    <3>1. Ids(run, counts'.modelCalls, tools) \in Seq(Nat \X Nat \X Nat)
      BY <2>1, <3>0, IdsFacts
    <3> QED BY <1>5, <2>3, <3>1, RunWrites DEF RowKinds, TurnTypes, OneRow
  <2>4. CASE \E tools \in Batches :
               /\ rows' = Row("tool_call", Ids(run, counts'.modelCalls, tools))
               /\ batch' = tools /\ at' = "tools"
    BY <2>1, <2>3, <2>4
  <2> QED BY <1>6, <2>2, <2>4 DEF Respond
<1>7. ASSUME Persisted, batch # <<>> PROVE OneRow /\ at' # "children"
  BY <1>5, <1>7, ResultIdsTyped, RunWrites DEF Persisted, AfterCall, RowKinds, TurnTypes, OneRow
<1>8. CASE CallTool
  <2>1. Persisted /\ batch # <<>> /\ counts' = Counted /\ ~OutOfCalls
    BY <1>8 DEF CallTool, MayCall
  <2> QED BY <1>7, <2>1, CountedFacts DEF TurnTypes
<1>9. CASE Delegate
  <2>1. UNCHANGED rows /\ counts' = Counted /\ ~OutOfCalls
    BY <1>9 DEF Delegate, MayCall
  <2> QED BY <1>9, <2>1, CountedFacts DEF TurnTypes
<1>10. CASE ChildrenReturned
  <2>1. CASE batch = <<>>
    BY <1>10, <2>1 DEF ChildrenReturned
  <2>2. CASE batch # <<>>
    <3>1. /\ at = "children" /\ Persisted
          /\ counts' = [counts EXCEPT !.children = @ + Cardinality(Involved),
                                      !.actions = IF Head(batch) = "delegate" THEN @ + 1 ELSE @]
      BY <1>10, <2>2 DEF ChildrenReturned
    <3>2. counts'.modelCalls = counts.modelCalls /\ counts'.toolCalls = counts.toolCalls
      BY <3>1 DEF TurnTypes, CountsTyped
    <3> QED BY <1>7, <2>2, <3>1, <3>2
  <2> QED BY <2>1, <2>2
<1> QED BY <1>1, <1>2, <1>3, <1>4, <1>6, <1>8, <1>9, <1>10 DEF Within

(* Whatever a step does, the question stays. *)
LEMMA QuestionKept ==
  ASSUME TurnTypes, TurnTypes', Placed, LeftBehind, LeftBehind', HasCurrent, HasQuestion,
         [TurnNext]_turnVars
  PROVE  HasQuestion'
<1>1. /\ Coming \in Nat /\ Coming' \in Nat /\ run \in Nat
      /\ Cardinality(late) \in Nat /\ Cardinality(late') \in Nat
  BY ComingFacts
<1>2. /\ Len(rows) \in Nat /\ Len(rows') \in Nat
      /\ DOMAIN rows = 1..Len(rows) /\ DOMAIN rows' = 1..Len(rows')
  BY DEF TurnTypes, RowsTyped
<1>3. /\ counts.modelCalls \in Nat /\ counts.toolCalls \in Nat
      /\ counts'.modelCalls \in Nat /\ counts'.toolCalls \in Nat
  BY TurnBounds DEF TurnTypes, CountsTyped
<1>4. CASE StartTurn
  <2>1. /\ Len(rows') = Len(rows) + 1 /\ \A i \in 1..Len(rows) : rows'[i] = rows[i]
        /\ rows'[Len(rows) + 1] = [kind |-> "user_message", run |-> run + 1, ids |-> <<>>]
    BY <1>4, StartTyped
  <2>2. /\ run' = run + 1 /\ at' = "boundary" /\ ~Active /\ late' = late
        /\ counts'.modelCalls = 0 /\ counts'.toolCalls = 0
    BY <1>4 DEF StartTurn, Zero
  <2>3. Cardinality(late) <= MaxLate /\ MaxLate \in Nat
    BY LateBound DEF LeftBehind
  <2>4. Coming' = Cardinality(late)
    BY <1>1, <2>2 DEF Coming
  <2>5. \A i \in 1..Len(rows) : rows'[i].run < run'
    <3>1. \A i \in 1..Len(rows) : rows[i].run \in Nat /\ rows[i].run <= run
      BY <1>2, RowFacts DEF TurnTypes
    <3> QED BY <1>1, <2>1, <2>2, <3>1
  <2>0. PICK u \in Nat : u = Len(rows) + 1
    BY <1>2
  <2>6. u = Len(rows') /\ u - 1 = Len(rows) /\ u \in DOMAIN rows'
    BY <1>2, <2>0, <2>1
  <2>7. rows'[u].kind = "user_message" /\ rows'[u].run = run'
    BY <2>0, <2>1, <2>2
  <2>8. Len(rows') - u + Coming' <= counts'.modelCalls + counts'.toolCalls + MaxLate
    BY <1>1, <2>2, <2>3, <2>4, <2>6
  <2>9. \A i \in 1..(u - 1) : rows'[i].run < run'
    BY <2>5, <2>6
  <2>10. Question(u)'
    BY <2>7, <2>8, <2>9 DEF Question
  <2> QED BY <2>6, <2>10 DEF HasQuestion
<1>5. CASE Within
  <2>1. Active /\ UNCHANGED <<run, late>>
    BY <1>5, WithinFacts
  <2>2. PICK u \in DOMAIN rows : Question(u)
    BY <2>1 DEF HasQuestion
  <2>3. /\ Len(rows) <= Len(rows') /\ \A i \in 1..Len(rows) : rows'[i] = rows[i]
        /\ Len(rows') - Len(rows) + Coming' <=
             Coming + (counts'.modelCalls - counts.modelCalls) + (counts'.toolCalls - counts.toolCalls)
    <3> DEFINE c == Cardinality(late)
    <3>1. c \in Nat /\ Coming \in {c, c + 1} /\ Coming' \in {c, c + 1}
      BY <1>1, <2>1 DEF Coming
    <3>2. at' # "children" \/ batch' = <<>> => Coming' = c
      BY <1>1, <2>1 DEF Coming
    <3>3. at = "children" /\ batch # <<>> => Coming = c + 1
      BY <1>1 DEF Coming
    <3>4. UNCHANGED <<rows, counts, batch, at>> => Coming' = Coming
      BY <2>1 DEF Coming
    <3> HIDE DEF c
    <3>5. CASE UNCHANGED <<rows, counts, batch, at>>
      <4>1. Coming' = Coming /\ rows' = rows /\ counts' = counts
        BY <3>4, <3>5
      <4> QED BY <1>1, <1>2, <1>3, <4>1
    <3>6. CASE UNCHANGED rows /\ ~UNCHANGED <<rows, counts, batch, at>>
      <4>1. /\ rows' = rows /\ Len(rows') = Len(rows)
            /\ \/ /\ Coming' = c /\ counts'.modelCalls >= counts.modelCalls
                  /\ counts'.toolCalls >= counts.toolCalls
               \/ /\ counts'.modelCalls = counts.modelCalls
                  /\ counts'.toolCalls = counts.toolCalls + 1
        <5>1. rows' = rows
          BY <3>6
        <5>2. \/ at' # "children" \/ batch' = <<>>
              \/ counts'.modelCalls = counts.modelCalls
                   /\ counts'.toolCalls = counts.toolCalls + 1
          BY <1>5, <3>6, WithinRows DEF OneRow
        <5>3. counts'.modelCalls >= counts.modelCalls /\ counts'.toolCalls >= counts.toolCalls
          BY <1>3, <1>5, <3>6, WithinRows DEF OneRow
        <5> QED BY <3>2, <5>1, <5>2, <5>3
      <4>2. Len(rows') - Len(rows) = 0
        BY <1>2, <4>1
      <4> QED BY <1>3, <3>1, <4>1, <4>2
    <3>7. CASE ~UNCHANGED rows
      <4>1. /\ Len(rows') = Len(rows) + 1 /\ \A i \in 1..Len(rows) : rows'[i] = rows[i]
            /\ Coming' = c
        BY <1>5, <3>2, <3>7, WithinRows DEF OneRow
      <4>2. \/ counts'.modelCalls = counts.modelCalls + 1 /\ counts'.toolCalls = counts.toolCalls
            \/ counts'.modelCalls = counts.modelCalls /\ counts'.toolCalls = counts.toolCalls + 1
            \/ /\ counts'.modelCalls = counts.modelCalls /\ counts'.toolCalls = counts.toolCalls
               /\ Coming = c + 1
        BY <1>5, <3>3, <3>7, WithinRows DEF OneRow
      <4> QED BY <1>2, <1>3, <3>1, <4>1, <4>2
    <3> QED BY <3>5, <3>6, <3>7
  <2> QED BY <1>1, <2>1, <2>2, <2>3, QuestionStays DEF TurnTypes
<1>6. CASE Ends
  BY <1>6 DEF Ends, Terminal, Complete, Fail, CancelTurn, HasQuestion, Active
<1>7. CASE LateResponse
  <2>1. /\ UNCHANGED <<run, at, counts, batch>>
        /\ \E l \in late : late' = late \ {l}
        /\ \/ UNCHANGED rows
           \/ Len(rows') = Len(rows) + 1 /\ \A i \in 1..Len(rows) : rows'[i] = rows[i]
    BY <1>7, LateTypes DEF loop
  <2>2. Cardinality(late') = Cardinality(late) - 1
    BY <2>1, FS_RemoveElement DEF LeftBehind
  <2>3. Coming' = Coming - 1
    BY <1>1, <2>1, <2>2 DEF Coming
  <2>4. CASE Active
    <3>1. PICK u \in DOMAIN rows : Question(u)
      BY <2>4 DEF HasQuestion
    <3>2. \A i \in 1..Len(rows) : rows'[i] = rows[i]
      BY <2>1
    <3>3. counts' = counts /\ run' = run
      BY <2>1
    <3>4. /\ Len(rows') - Len(rows) \in {0, 1} /\ Len(rows) <= Len(rows')
      <4>1. CASE Len(rows') = Len(rows) + 1
        BY <1>2, <4>1
      <4>2. CASE rows' = rows
        <5>1. Len(rows') = Len(rows)
          BY <4>2
        <5> QED BY <1>2, <5>1
      <4> QED BY <2>1, <4>1, <4>2
    <3>5. Len(rows') - Len(rows) + Coming' <=
            Coming + (counts'.modelCalls - counts.modelCalls) + (counts'.toolCalls - counts.toolCalls)
      <4>1. counts'.modelCalls - counts.modelCalls = 0 /\ counts'.toolCalls - counts.toolCalls = 0
        BY <1>3, <3>3
      <4>2. PICK d \in 0..1 : d = Len(rows') - Len(rows)
        BY <3>4
      <4>3. d + Coming' <= Coming + 0 + 0
        BY <1>1, <2>3
      <4> QED BY <4>1, <4>2, <4>3
    <3> QED BY <1>1, <3>1, <3>2, <3>3, <3>4, <3>5, QuestionStays DEF TurnTypes
  <2>5. CASE ~Active
    BY <2>1, <2>5 DEF Active, HasQuestion
  <2> QED BY <2>4, <2>5
<1>8. CASE UNCHANGED turnVars
  BY <1>8 DEF turnVars, loop, Active, HasQuestion, Question, Coming
<1> QED BY <1>4, <1>5, <1>6, <1>7, <1>8, StepKinds

-----------------------------------------------------------------------------
(* The response whose calls are handled. *)

(* The id of the next call, when the row of its response is known. *)
CallIdIs(c) ==
  /\ LastCall = rows[c].ids
  /\ CallId = <<run, counts.modelCalls, Len(rows[c].ids) - Len(batch) + 1>>
  /\ rows[c].ids \in Seq(Nat \X Nat \X Nat) /\ Len(rows[c].ids) \in Nat
  /\ Len(rows[c].ids) - Len(batch) + 1 \in 1..Len(rows[c].ids)
  /\ CallId = rows[c].ids[Len(rows[c].ids) - Len(batch) + 1]
  /\ CallId \in Nat \X Nat \X Nat
  /\ \A d \in DOMAIN rows : IsCurrent(d) => d = c

(* It is known whenever there is one. *)
CallIdKnown == batch # <<>> => \A c \in DOMAIN rows : IsCurrent(c) => CallIdIs(c)

(* In every state with typed variables. *)
LEMMA CurrentCallKnown == TurnTypes => CallIdKnown
BY CurrentCall DEF CallIdKnown, CallIdIs

(* And so in the next one. *)
LEMMA NextCallKnown == ASSUME TurnTypes' PROVE CallIdKnown'
BY CurrentCallKnown, PTL

(* What a step does to the rows: the row it adds, and the seven ways. *)
NewRow == rows'[Len(rows) + 1]

Quiet ==
  /\ UNCHANGED <<rows, run>> /\ counts'.modelCalls = counts.modelCalls
  /\ batch' = batch \/ batch' = <<>>
  /\ Going' => Going /\ batch' = batch

Begins == OneRow /\ run' = run + 1 /\ NewRow.kind = "user_message" /\ batch' = <<>>

Leaves ==
  UNCHANGED <<rows, run>> /\ counts'.modelCalls = counts.modelCalls + 1 /\ batch' = <<>> /\ ~Going'

Asks(tools) ==
  /\ OneRow /\ run' = run /\ at = "streaming" /\ batch = <<>> /\ batch' = tools
  /\ counts'.modelCalls = counts.modelCalls + 1
  /\ NewRow = [kind |-> "tool_call", run |-> run, ids |-> Ids(run, counts.modelCalls + 1, tools)]

Answers ==
  /\ OneRow /\ run' = run /\ Going /\ batch # <<>> /\ batch' = Tail(batch)
  /\ counts'.modelCalls = counts.modelCalls
  /\ NewRow = [kind |-> "tool_result", run |-> run, ids |-> <<CallId>>]

Concludes ==
  /\ OneRow /\ run' = run /\ counts'.modelCalls = counts.modelCalls /\ batch' = <<>> /\ ~Going'
  /\ NewRow.kind = "assistant_message"

ComesLate ==
  /\ OneRow /\ UNCHANGED <<run, at, counts, batch>>
  /\ NewRow.kind = "tool_call" /\ NewRow.run \in Nat
  /\ Active => NewRow.run < run

RowsMove ==
  \/ Quiet \/ Begins \/ Leaves \/ Answers \/ Concludes \/ ComesLate
  \/ \E tools \in Batches : Asks(tools)

(* A row the run writes, as a step of the rows. *)
LEMMA WrittenRow ==
  ASSUME LoopTyped, RowsTyped, run # 0, NEW sort \in RowKinds, NEW ids \in Seq(Nat \X Nat \X Nat),
         rows' = Row(sort, ids)
  PROVE  OneRow /\ NewRow = [kind |-> sort, run |-> run, ids |-> ids]
BY RunWrites DEF OneRow, NewRow

(* The response. *)
LEMMA RespondRows ==
  ASSUME TurnTypes, Placed, Respond
  PROVE  Leaves \/ \E tools \in Batches : Asks(tools)
<1>1. /\ at = "streaming" /\ batch = <<>> /\ run' = run /\ run # 0 /\ run \in Nat
      /\ counts'.modelCalls = counts.modelCalls + 1 /\ counts'.modelCalls \in Nat
  <2>1. /\ at = "streaming" /\ run' = run /\ counts' = [counts EXCEPT !.modelCalls = @ + 1]
    BY DEF Respond
  <2>2. batch = <<>> /\ run # 0
    BY <2>1 DEF Placed, Active
  <2>3. run \in Nat
    BY TurnBounds DEF TurnTypes, LoopTyped
  <2>4. counts = [modelCalls |-> counts.modelCalls, toolCalls |-> counts.toolCalls,
                  actions |-> counts.actions, children |-> counts.children]
    BY DEF TurnTypes, CountsTyped
  <2>5. counts.modelCalls \in Nat
    BY CountFacts DEF TurnTypes
  <2> QED BY <2>1, <2>2, <2>3, <2>4, <2>5
<1>2. CASE EndLoop /\ UNCHANGED rows
  BY <1>1, <1>2 DEF Leaves, EndLoop, Going
<1>3. ASSUME NEW tools \in Batches, rows' = Row("tool_call", Ids(run, counts'.modelCalls, tools)),
             batch' = tools
      PROVE  Asks(tools)
  <2>1. tools \in Seq(ToolNames)
    BY TurnBounds
  <2>2. Ids(run, counts'.modelCalls, tools) \in Seq(Nat \X Nat \X Nat)
    BY <1>1, <2>1, IdsFacts
  <2>3. /\ OneRow
        /\ NewRow = [kind |-> "tool_call", run |-> run, ids |-> Ids(run, counts'.modelCalls, tools)]
    BY <1>1, <1>3, <2>2, WrittenRow DEF RowKinds, TurnTypes
  <2> QED BY <1>1, <1>3, <2>3 DEF Asks
<1> QED BY <1>2, <1>3 DEF Respond

(* A result. *)
LEMMA PersistedRows ==
  ASSUME TurnTypes, Placed, HasCurrent, batch # <<>>, Persisted, UNCHANGED run,
         counts'.modelCalls = counts.modelCalls
  PROVE  Answers
<1>1. run # 0 /\ Going
  BY DEF Placed, Active, Going
<1>2. OneRow /\ NewRow = [kind |-> "tool_result", run |-> run, ids |-> <<CallId>>]
  BY <1>1, ResultIdsTyped, WrittenRow DEF RowKinds, TurnTypes, Persisted
<1> QED BY <1>1, <1>2 DEF Answers, Persisted

(* The end of a run. *)
LEMMA EndRows ==
  ASSUME TurnTypes, Placed, Ends
  PROVE  Quiet \/ Concludes
<1>1. /\ Active /\ run' = run /\ at' = "idle" /\ batch' = <<>>
      /\ rows' = rows \/ rows' = Row("assistant_message", <<>>)
      /\ counts' = counts \/ (counts' = Counted /\ ~OutOfCalls)
  BY DEF Ends, Terminal, Complete, Fail, CancelTurn, MayCall, Active, Placed
<1>2. counts'.modelCalls = counts.modelCalls
  BY <1>1, CountedFacts DEF TurnTypes
<1>3. CASE rows' = rows
  BY <1>1, <1>2, <1>3 DEF Quiet, Going
<1>4. CASE rows' = Row("assistant_message", <<>>)
  <2>1. run # 0 /\ <<>> \in Seq(Nat \X Nat \X Nat)
    BY <1>1 DEF Placed
  <2>2. OneRow /\ NewRow = [kind |-> "assistant_message", run |-> run, ids |-> <<>>]
    BY <1>4, <2>1, WrittenRow DEF RowKinds, TurnTypes
  <2>3. NewRow.kind = "assistant_message"
    BY <2>2
  <2> QED BY <1>1, <1>2, <2>2, <2>3 DEF Concludes, Going
<1> QED BY <1>1, <1>3, <1>4

(* Every step is one of those. *)
LEMMA RowsMoveFacts ==
  ASSUME TurnTypes, Placed, LeftBehind, HasCurrent, [TurnNext]_turnVars
  PROVE  RowsMove
<1>1. CASE StartTurn
  <2>1. OneRow /\ NewRow.kind = "user_message"
    BY <1>1, StartTyped DEF OneRow, NewRow
  <2> QED BY <1>1, <2>1 DEF StartTurn, Begins, RowsMove
<1>2. CASE Steer \/ Pause \/ \E agent \in SubagentKinds : ChildReturns(agent)
  BY <1>2 DEF Steer, Pause, ChildReturns, loop, Quiet, RowsMove, Going
<1>3. CASE BeginModelCall \/ BuildContext
  BY <1>3 DEF BeginModelCall, BuildContext, Quiet, RowsMove, Going
<1>4. CASE StopAtBoundary \/ StopInBatch
  <2>1. /\ UNCHANGED <<rows, run>> /\ batch' = <<>> /\ ~Going'
        /\ counts' = counts \/ (counts' = Counted /\ ~OutOfCalls)
    BY <1>4 DEF StopAtBoundary, StopInBatch, EndLoop, Going
  <2>2. counts'.modelCalls = counts.modelCalls
    BY <2>1, CountedFacts DEF TurnTypes
  <2> QED BY <2>1, <2>2 DEF Quiet, RowsMove
<1>5. CASE Respond
  BY <1>5, RespondRows DEF RowsMove
<1>6. CASE CallTool
  <2>1. Persisted /\ batch # <<>> /\ counts' = Counted /\ ~OutOfCalls /\ run' = run
    BY <1>6 DEF CallTool, MayCall
  <2> QED BY <2>1, CountedFacts, PersistedRows DEF TurnTypes, RowsMove
<1>7. CASE Delegate
  <2>1. UNCHANGED <<rows, run, batch>> /\ counts' = Counted /\ ~OutOfCalls /\ Going
    BY <1>7 DEF Delegate, MayCall, Going
  <2> QED BY <2>1, CountedFacts DEF TurnTypes, RowsMove, Quiet
<1>8. CASE ChildrenReturned
  <2>1. CASE batch = <<>>
    BY <1>8, <2>1 DEF ChildrenReturned, Quiet, RowsMove, Going
  <2>2. CASE batch # <<>>
    <3>1. /\ Persisted /\ run' = run
          /\ counts' = [counts EXCEPT !.children = @ + Cardinality(Involved),
                                      !.actions = IF Head(batch) = "delegate" THEN @ + 1 ELSE @]
      BY <1>8, <2>2 DEF ChildrenReturned
    <3>2. counts'.modelCalls = counts.modelCalls
      BY <3>1 DEF TurnTypes, CountsTyped
    <3> QED BY <2>2, <3>1, <3>2, PersistedRows DEF RowsMove
  <2> QED BY <2>1, <2>2
<1>9. CASE Ends
  BY <1>9, EndRows DEF RowsMove
<1>10. CASE LateResponse
  <2>1. UNCHANGED <<run, at, counts, batch>>
    BY <1>10 DEF LateResponse, loop
  <2>2. CASE UNCHANGED rows
    BY <2>1, <2>2 DEF Quiet, RowsMove, Going
  <2>3. CASE ~UNCHANGED rows
    <3>1. PICK l \in late :
            /\ OneRow /\ NewRow.kind = "tool_call" /\ NewRow.run = l[1] /\ l[1] \in 1..run
      BY <1>10, <2>3, LateTypes DEF OneRow, NewRow
    <3>2. Active => l[1] < run
      BY DEF LeftBehind
    <3>3. l[1] \in Nat
      BY <3>1, TurnBounds DEF TurnTypes, LoopTyped
    <3> QED BY <2>1, <3>1, <3>2, <3>3 DEF ComesLate, RowsMove
  <2> QED BY <2>2, <2>3
<1>11. CASE UNCHANGED turnVars
  BY <1>11 DEF turnVars, loop, Quiet, RowsMove, Going
<1> QED
  BY <1>1, <1>2, <1>3, <1>4, <1>5, <1>6, <1>7, <1>8, <1>9, <1>10, <1>11, StepKinds DEF Within

-----------------------------------------------------------------------------
(* Calls and results. *)

(* The current response stays when nothing is added to the calls of the run. *)
LEMMA CurrentStays ==
  ASSUME TurnTypes, TurnTypes', NEW c \in DOMAIN rows, IsCurrent(c), UNCHANGED run,
         counts'.modelCalls = counts.modelCalls, Len(batch') <= Len(rows[c].ids),
         rows' = rows \/ (OneRow /\ ~(NewRow.kind = "tool_call" /\ NewRow.run = run))
  PROVE  IsCurrent(c)' /\ c \in DOMAIN rows' /\ rows'[c] = rows[c]
<1>1. CASE rows' = rows
  BY <1>1 DEF IsCurrent, OfRun, Ids
<1>2. CASE OneRow /\ ~(NewRow.kind = "tool_call" /\ NewRow.run = run)
  <2>1. c \in DOMAIN rows' /\ rows'[c] = rows[c]
    BY <1>2 DEF OneRow
  <2>2. \A j \in (c + 1)..Len(rows') : ~OfRun(j)'
    <3> SUFFICES ASSUME NEW j \in (c + 1)..Len(rows') PROVE ~OfRun(j)'
      OBVIOUS
    <3>1. CASE j = Len(rows) + 1
      BY <1>2, <3>1 DEF OfRun, NewRow
    <3>2. CASE j # Len(rows) + 1
      <4>1. j \in (c + 1)..Len(rows) /\ j \in 1..Len(rows)
        BY <1>2, <3>2 DEF OneRow
      <4>2. ~OfRun(j) /\ rows'[j] = rows[j]
        BY <1>2, <4>1 DEF IsCurrent, OneRow
      <4> QED BY <4>2 DEF OfRun
    <3> QED BY <3>1, <3>2
  <2> QED BY <2>1, <2>2 DEF IsCurrent, OfRun, Ids
<1> QED BY <1>1, <1>2

(* A new response is the current one. *)
LEMMA NewCurrent ==
  ASSUME TurnTypes, TurnTypes', NEW tools \in Batches, Asks(tools), NEW c \in Nat, c = Len(rows) + 1
  PROVE  IsCurrent(c)' /\ c \in DOMAIN rows' /\ Len(rows'[c].ids) = Len(tools)
<1>1. /\ c \in DOMAIN rows' /\ Len(rows') = c /\ run' = run /\ batch' = tools
      /\ rows'[c] = [kind |-> "tool_call", run |-> run,
                     ids |-> Ids(run, counts.modelCalls + 1, tools)]
      /\ counts'.modelCalls = counts.modelCalls + 1
  BY DEF Asks, OneRow, NewRow
<1>2. PICK m \in Nat : m = counts.modelCalls + 1
  BY CountFacts DEF TurnTypes
<1> DEFINE ids == Ids(run, m, tools)
<1>3. Ids(run, m, ids) = ids /\ Len(ids) = Len(tools) /\ Len(tools) \in Nat
  <2>1. run \in Nat /\ tools \in Seq(ToolNames)
    BY TurnBounds DEF TurnTypes, LoopTyped
  <2>2. Len(Ids(run, m, tools)) = Len(tools)
    BY <2>1 DEF Ids
  <2>3. Ids(run, m, Ids(run, m, tools)) = Ids(run, m, tools)
    BY <2>1, IdsOfIds
  <2>4. Len(tools) \in Nat
    BY <2>1
  <2> QED BY <2>2, <2>3, <2>4
<1> HIDE DEF ids
<1>4. rows'[c].kind = "tool_call" /\ rows'[c].run = run /\ rows'[c].ids = ids
  BY <1>1, <1>2 DEF ids
<1>5. OfRun(c)'
  BY <1>1, <1>4 DEF OfRun
<1>6. \A j \in (c + 1)..Len(rows') : ~OfRun(j)'
  BY <1>1
<1>7. Ids(run', counts'.modelCalls, rows'[c].ids) = rows'[c].ids
  BY <1>1, <1>2, <1>3, <1>4
<1>8. Len(batch') <= Len(rows'[c].ids)
  BY <1>1, <1>2, <1>3, <1>4
<1> QED BY <1>1, <1>3, <1>4, <1>5, <1>6, <1>7, <1>8 DEF IsCurrent

(* Whatever a step does, the current response is the one it was, or a new one. *)
LEMMA CurrentKept ==
  ASSUME TurnTypes, TurnTypes', Placed, HasCurrent, RowsMove
  PROVE  /\ HasCurrent'
         /\ \A c \in DOMAIN rows :
              IsCurrent(c) /\ batch # <<>> /\ batch' # <<>> /\ ~(\E tools \in Batches : Asks(tools)) =>
                IsCurrent(c)' /\ c \in DOMAIN rows' /\ rows'[c] = rows[c]
<1>1. ASSUME NEW tools \in Batches, Asks(tools) PROVE HasCurrent'
  <2>1. PICK c \in Nat : c = Len(rows) + 1
    BY <1>1 DEF Asks, OneRow
  <2> QED BY <1>1, <2>1, NewCurrent DEF HasCurrent
<1>2. ASSUME NEW c \in DOMAIN rows, IsCurrent(c), batch # <<>>, batch' # <<>>,
             ~(\E tools \in Batches : Asks(tools))
      PROVE  IsCurrent(c)' /\ c \in DOMAIN rows' /\ rows'[c] = rows[c]
  <2>1. Len(rows[c].ids) \in Nat /\ Len(batch) \in Nat \ {0} /\ Len(batch) <= Len(rows[c].ids)
    BY <1>2, BatchFacts, CurrentCall DEF IsCurrent
  <2>2. CASE Quiet
    BY <1>2, <2>1, <2>2, CurrentStays DEF Quiet
  <2>3. CASE Answers
    <3>1. Len(batch') <= Len(rows[c].ids)
      BY <1>2, <2>1, <2>3, BatchFacts DEF Answers
    <3>2. NewRow = [kind |-> "tool_result", run |-> run, ids |-> <<CallId>>]
      BY <2>3 DEF Answers
    <3>3. NewRow.kind # "tool_call"
      BY <3>2
    <3> QED BY <1>2, <2>3, <3>1, <3>3, CurrentStays DEF Answers
  <2>4. CASE ComesLate
    <3>1. Active /\ run \in Nat
      BY <1>2, TurnBounds DEF Placed, Active, TurnTypes, LoopTyped
    <3>2. NewRow.run # run
      BY <2>4, <3>1 DEF ComesLate
    <3> QED BY <1>2, <2>1, <2>4, <3>2, CurrentStays DEF ComesLate
  <2> QED BY <1>2, <2>2, <2>3, <2>4 DEF RowsMove, Begins, Leaves, Concludes
<1>3. ASSUME batch' # <<>>, ~(\E tools \in Batches : Asks(tools)) PROVE batch # <<>>
  BY <1>3 DEF RowsMove, Quiet, Begins, Leaves, Answers, Concludes, ComesLate
<1>4. CASE batch' = <<>>
  BY <1>4 DEF HasCurrent
<1>5. CASE batch' # <<>> /\ ~(\E tools \in Batches : Asks(tools))
  <2>1. PICK c \in DOMAIN rows : IsCurrent(c)
    BY <1>3, <1>5 DEF HasCurrent
  <2> QED BY <1>2, <1>3, <1>5, <2>1 DEF HasCurrent
<1> QED BY <1>1, <1>2, <1>4, <1>5

(* The id of the next call. *)
LEMMA NextCallId ==
  ASSUME TurnTypes, TurnTypes', Placed, HasCurrent, RowsMove, batch # <<>>, batch' # <<>>
  PROVE  /\ counts'.modelCalls = counts.modelCalls
         /\ CallId \in Nat \X Nat \X Nat /\ CallId[1] = run /\ CallId[2] = counts.modelCalls
         /\ CallId' \in Nat \X Nat \X Nat
         /\ CallId'[3] = IF Answers THEN CallId[3] + 1 ELSE CallId[3]
<1>1. PICK c \in DOMAIN rows : IsCurrent(c)
  BY DEF HasCurrent
<1>2. ~(\E tools \in Batches : Asks(tools))
  BY DEF Asks
<1>3. IsCurrent(c)' /\ c \in DOMAIN rows' /\ rows'[c] = rows[c]
  BY <1>1, <1>2, CurrentKept
<1> DEFINE n == Len(rows[c].ids)
<1>4. /\ CallId = <<run, counts.modelCalls, n - Len(batch) + 1>> /\ n \in Nat
      /\ CallId \in Nat \X Nat \X Nat
  BY <1>1, CurrentCall
<1>5. /\ CallId' = <<run', counts'.modelCalls, Len(rows'[c].ids) - Len(batch') + 1>>
      /\ CallId' \in Nat \X Nat \X Nat
  BY <1>3, NextCallKnown DEF CallIdKnown, CallIdIs
<1>6. /\ counts'.modelCalls = counts.modelCalls
      /\ batch' = IF Answers THEN Tail(batch) ELSE batch
  BY <1>2 DEF RowsMove, Quiet, Begins, Leaves, Answers, Concludes, ComesLate
<1>7. CallId[3] = n - Len(batch) + 1 /\ CallId'[3] = n - Len(batch') + 1
  BY <1>3, <1>4, <1>5
<1>8. Len(batch') = IF Answers THEN Len(batch) - 1 ELSE Len(batch)
  BY <1>6, BatchFacts
<1>9. Len(batch) \in Nat
  BY BatchFacts
<1>10. CallId[1] = run /\ CallId[2] = counts.modelCalls
  BY <1>4
<1>11. CallId'[3] = IF Answers THEN CallId[3] + 1 ELSE CallId[3]
  BY <1>4, <1>7, <1>8, <1>9
<1> QED BY <1>4, <1>5, <1>6, <1>10, <1>11

(* The results keep their ids. *)
LEMMA ResultIdsKept ==
  ASSUME TurnTypes, TurnTypes', Placed, HasCurrent, ResultIds, RowsMove
  PROVE  ResultIds'
<1>1. /\ run \in Nat /\ counts.modelCalls \in Nat
      /\ \A i \in DOMAIN rows : /\ rows[i].run \in Nat /\ rows[i].run <= run
                                /\ rows[i].ids \in Seq(Nat \X Nat \X Nat)
  BY CountFacts, RowFacts, TurnBounds DEF TurnTypes, LoopTyped
<1>2. \A i \in DOMAIN rows : IsResult(rows[i]) =>
        rows[i].ids[1][2] \in Nat /\ rows[i].ids[1][3] \in Nat
  BY <1>1 DEF ResultIds
<1>3. ASSUME NEW i \in DOMAIN rows', IsResult(rows'[i])
      PROVE  /\ Len(rows'[i].ids) = 1 /\ rows'[i].ids[1][1] = rows'[i].run
             /\ rows'[i].run = run' =>
                  /\ rows'[i].ids[1][2] <= counts'.modelCalls
                  /\ batch' # <<>> /\ rows'[i].ids[1][2] = counts'.modelCalls =>
                       rows'[i].ids[1][3] < CallId'[3]
  <2>1. CASE i \in DOMAIN rows /\ rows'[i] = rows[i]
    <3>1. /\ Len(rows[i].ids) = 1 /\ rows[i].ids[1][1] = rows[i].run
          /\ rows[i].run = run =>
               /\ rows[i].ids[1][2] <= counts.modelCalls
               /\ batch # <<>> /\ rows[i].ids[1][2] = counts.modelCalls =>
                    rows[i].ids[1][3] < CallId[3]
      BY <1>3, <2>1 DEF ResultIds
    <3>2. CASE run' = run + 1
      <4>1. rows'[i].run # run'
        BY <1>1, <2>1, <3>2
      <4> QED BY <2>1, <3>1, <4>1
    <3>3. CASE run' = run /\ counts'.modelCalls = counts.modelCalls + 1
      <4>1. rows[i].run = run => rows[i].ids[1][2] < counts'.modelCalls
        BY <1>1, <1>2, <1>3, <2>1, <3>1, <3>3
      <4> QED BY <1>1, <1>2, <1>3, <2>1, <3>1, <3>3, <4>1
    <3>4. CASE run' = run /\ counts'.modelCalls = counts.modelCalls
      <4>1. batch' # <<>> => batch # <<>>
        BY <1>1, <3>4 DEF RowsMove, Quiet, Begins, Leaves, Asks, Answers, Concludes, ComesLate
      <4>2. batch' # <<>> => CallId[3] \in Nat /\ CallId'[3] \in {CallId[3], CallId[3] + 1}
        BY <4>1, NextCallId
      <4> QED BY <1>2, <1>3, <2>1, <3>1, <3>4, <4>1, <4>2
    <3>5. run' = run + 1 \/ (run' = run /\ counts'.modelCalls = counts.modelCalls + 1)
            \/ (run' = run /\ counts'.modelCalls = counts.modelCalls)
      BY DEF RowsMove, Quiet, Begins, Leaves, Asks, Answers, Concludes, ComesLate
    <3> QED BY <3>2, <3>3, <3>4, <3>5
  <2>2. CASE Answers /\ i = Len(rows) + 1
    <3>1. /\ rows'[i] = [kind |-> "tool_result", run |-> run, ids |-> <<CallId>>] /\ run' = run
          /\ counts'.modelCalls = counts.modelCalls /\ batch # <<>>
      BY <2>2 DEF Answers, NewRow
    <3>2. rows'[i].run = run /\ rows'[i].ids = <<CallId>>
      BY <3>1
    <3>3. Len(rows'[i].ids) = 1 /\ rows'[i].ids[1] = CallId
      BY <3>2
    <3>4. PICK c \in DOMAIN rows : IsCurrent(c)
      BY <3>1 DEF HasCurrent
    <3>5. CallId[1] = run /\ CallId[2] = counts.modelCalls
      BY <3>1, <3>4, CurrentCall
    <3>6. batch' # <<>> => CallId[3] \in Nat /\ CallId'[3] = CallId[3] + 1
      BY <2>2, <3>1, NextCallId
    <3> QED BY <1>1, <3>1, <3>2, <3>3, <3>5, <3>6
  <2>3. CASE i = Len(rows) + 1 /\ ~Answers /\ OneRow
    <3>1. NewRow.kind # "tool_result"
      BY <2>3, <1>1 DEF RowsMove, Quiet, Begins, Leaves, Asks, Concludes, ComesLate, OneRow
    <3> QED BY <1>3, <2>3, <3>1 DEF NewRow, IsResult
  <2>4. (i \in DOMAIN rows /\ rows'[i] = rows[i]) \/ (i = Len(rows) + 1 /\ OneRow)
    <3>1. rows' = rows \/ OneRow
      BY DEF RowsMove, Quiet, Begins, Leaves, Asks, Answers, Concludes, ComesLate
    <3> QED BY <3>1 DEF OneRow
  <2> QED BY <2>1, <2>2, <2>3, <2>4
<1> QED BY <1>3 DEF ResultIds

(* The results stay results of calls. *)
LEMMA AnswersKept ==
  ASSUME TurnTypes, TurnTypes', Placed, HasCurrent, ResultIds, ResultsAnswerCalls, RowsMove
  PROVE  ResultsAnswerCalls'
<1>1. rows' = rows \/ OneRow
  BY DEF RowsMove, Quiet, Begins, Leaves, Asks, Answers, Concludes, ComesLate
<1>2. CASE rows' = rows
  BY <1>2 DEF ResultsAnswerCalls
<1>3. ASSUME OneRow, NEW i \in DOMAIN rows, IsResult(rows[i])
      PROVE  \E j \in 1..(i - 1) : IsCall(rows'[j]) /\ rows'[i].ids[1] \in ToSet(rows'[j].ids)
  <2>1. PICK j \in 1..(i - 1) : IsCall(rows[j]) /\ rows[i].ids[1] \in ToSet(rows[j].ids)
    BY <1>3 DEF ResultsAnswerCalls
  <2>2. rows'[i] = rows[i] /\ rows'[j] = rows[j]
    BY <1>3 DEF OneRow
  <2> QED BY <2>1, <2>2
<1>4. ASSUME OneRow, ~IsResult(NewRow) PROVE ResultsAnswerCalls'
  <2>1. \A i \in DOMAIN rows' : IsResult(rows'[i]) => i \in DOMAIN rows /\ rows'[i] = rows[i]
    BY <1>4 DEF OneRow, NewRow
  <2>2. \A i, j \in DOMAIN rows' :
          IsResult(rows'[i]) /\ IsResult(rows'[j]) /\ rows'[j].ids = rows'[i].ids => j = i
    BY <2>1 DEF ResultsAnswerCalls
  <2> QED BY <1>3, <1>4, <2>1, <2>2 DEF ResultsAnswerCalls
<1>5. CASE Answers
  <2>1. /\ OneRow /\ batch # <<>>
        /\ NewRow = [kind |-> "tool_result", run |-> run, ids |-> <<CallId>>]
    BY <1>5 DEF Answers
  <2>2. NewRow.ids = <<CallId>> /\ NewRow.ids[1] = CallId
    BY <2>1
  <2>3. PICK c \in DOMAIN rows : IsCurrent(c)
    BY <2>1 DEF HasCurrent
  <2>4. IsCall(rows[c]) /\ CallId \in ToSet(rows[c].ids)
    <3>1. /\ CallId = rows[c].ids[Len(rows[c].ids) - Len(batch) + 1]
          /\ Len(rows[c].ids) - Len(batch) + 1 \in 1..Len(rows[c].ids)
          /\ rows[c].ids \in Seq(Nat \X Nat \X Nat)
      BY <2>1, <2>3, CurrentCall
    <3>2. DOMAIN rows[c].ids = 1..Len(rows[c].ids)
      BY <3>1
    <3>3. PICK k \in DOMAIN rows[c].ids : CallId = rows[c].ids[k]
      BY <3>1, <3>2
    <3>4. IsCall(rows[c])
      BY <2>3 DEF IsCurrent, OfRun, IsCall
    <3> QED BY <3>3, <3>4 DEF ToSet
  <2>5. \A i \in DOMAIN rows : IsResult(rows[i]) => rows[i].ids # NewRow.ids
    <3> SUFFICES ASSUME NEW i \in DOMAIN rows, IsResult(rows[i]), rows[i].ids = <<CallId>>
                 PROVE  FALSE
      BY <2>2
    <3>1. rows[i].ids[1] = CallId
      OBVIOUS
    <3>2. CallId[1] = run /\ CallId[2] = counts.modelCalls /\ CallId \in Nat \X Nat \X Nat
      BY <2>1, <2>3, CurrentCall
    <3>3. rows[i].run = run /\ rows[i].ids[1][2] = counts.modelCalls
      BY <3>1, <3>2 DEF ResultIds
    <3>4. CallId[3] < CallId[3] /\ CallId[3] \in Nat
      BY <2>1, <3>1, <3>2, <3>3 DEF ResultIds
    <3> QED BY <3>4
  <2>6. PICK last \in Nat : last = Len(rows) + 1 /\ rows'[last] = NewRow
    BY <2>1 DEF OneRow, NewRow
  <2>7. /\ DOMAIN rows = 1..(last - 1) /\ DOMAIN rows' = 1..last
        /\ \A i \in DOMAIN rows : rows'[i] = rows[i]
    BY <2>1, <2>6 DEF OneRow
  <2>8. \E j \in 1..(last - 1) : IsCall(rows'[j]) /\ rows'[last].ids[1] \in ToSet(rows'[j].ids)
    BY <2>2, <2>3, <2>4, <2>6, <2>7
  <2>9. \A i \in DOMAIN rows' : IsResult(rows'[i]) =>
          \E j \in 1..(i - 1) : IsCall(rows'[j]) /\ rows'[i].ids[1] \in ToSet(rows'[j].ids)
    <3>1. \A i \in DOMAIN rows' : i = last \/ (i \in DOMAIN rows /\ rows'[i] = rows[i])
      BY <2>6, <2>7
    <3> QED BY <1>3, <2>1, <2>8, <3>1
  <2>10. \A i, j \in DOMAIN rows' :
           IsResult(rows'[i]) /\ IsResult(rows'[j]) /\ rows'[j].ids = rows'[i].ids => j = i
    <3> SUFFICES ASSUME NEW i \in DOMAIN rows', NEW j \in DOMAIN rows', IsResult(rows'[i]),
                        IsResult(rows'[j]), rows'[j].ids = rows'[i].ids
                 PROVE  j = i
      OBVIOUS
    <3>1. /\ i = last \/ (i \in DOMAIN rows /\ rows'[i] = rows[i])
          /\ j = last \/ (j \in DOMAIN rows /\ rows'[j] = rows[j])
      BY <2>6, <2>7
    <3> QED BY <2>5, <2>6, <3>1 DEF ResultsAnswerCalls
  <2> QED BY <2>9, <2>10 DEF ResultsAnswerCalls
<1>6. OneRow /\ ~Answers => ~IsResult(NewRow)
  <2>1. ASSUME NEW tools \in Batches, Asks(tools) PROVE ~IsResult(NewRow)
    <3>1. NewRow = [kind |-> "tool_call", run |-> run,
                    ids |-> Ids(run, counts.modelCalls + 1, tools)]
      BY <2>1 DEF Asks
    <3> QED BY <3>1 DEF IsResult
  <2>2. ASSUME OneRow PROVE rows' # rows
    BY <2>2 DEF OneRow
  <2> QED BY <2>1, <2>2 DEF RowsMove, Quiet, Begins, Leaves, Concludes, ComesLate, IsResult
<1> QED BY <1>1, <1>2, <1>4, <1>5, <1>6

-----------------------------------------------------------------------------
(* The rows of a run are in order. *)

(* A response with all its results stays so. *)
LEMMA WholeStays ==
  ASSUME OneRow, NEW i \in DOMAIN rows, Len(rows[i].ids) \in Nat, Whole(i),
         i + Len(rows[i].ids) < Len(rows) \/ ~IsResult(NewRow)
  PROVE  Whole(i)'
<1> DEFINE n == Len(rows[i].ids)
<1>1. /\ i \in 1..Len(rows) /\ Len(rows) \in Nat /\ n \in Nat /\ rows'[i] = rows[i]
      /\ Len(rows') = Len(rows) + 1 /\ \A j \in 1..Len(rows) : rows'[j] = rows[j]
      /\ rows'[Len(rows) + 1] = NewRow
  BY DEF OneRow, NewRow
<1>2. /\ i + n <= Len(rows)
      /\ \A k \in 1..n : IsResult(rows[i + k]) /\ rows[i + k].ids[1] = rows[i].ids[k]
      /\ i + n < Len(rows) => ~IsResult(rows[i + n + 1])
  BY DEF Whole
<1>0. i + n < Len(rows) \/ ~IsResult(NewRow)
  OBVIOUS
<1> HIDE DEF n
<1>3. \A k \in 1..n : i + k \in 1..Len(rows)
  BY <1>1, <1>2
<1>4. \A k \in 1..n : IsResult(rows'[i + k]) /\ rows'[i + k].ids[1] = rows'[i].ids[k]
  BY <1>1, <1>2, <1>3
<1>5. ~IsResult(rows'[i + n + 1])
  <2>1. CASE i + n < Len(rows)
    <3>1. i + n + 1 \in 1..Len(rows)
      BY <1>1, <2>1
    <3> QED BY <1>1, <1>2, <2>1, <3>1
  <2>2. CASE i + n = Len(rows)
    <3>1. i + n + 1 = Len(rows) + 1 /\ ~IsResult(NewRow)
      BY <1>0, <1>1, <2>2
    <3> QED BY <1>1, <3>1
  <2> QED BY <1>1, <1>2, <2>1, <2>2
<1>6. i + n <= Len(rows')
  BY <1>1, <1>2
<1>7. Len(rows'[i].ids) = n
  BY <1>1 DEF n
<1> QED BY <1>4, <1>5, <1>6, <1>7 DEF Whole

(* The result of the next call joins those of the current response. *)
LEMMA OpenGrows ==
  ASSUME TurnTypes, Answers, NEW c \in DOMAIN rows, IsCurrent(c), Open(c)
  PROVE  IF batch' # <<>> THEN Open(c)' ELSE Whole(c)'
<1> DEFINE n == Len(rows[c].ids)
           b == Len(batch)
<1>1. /\ c \in 1..Len(rows) /\ Len(rows) \in Nat /\ rows'[c] = rows[c]
      /\ Len(rows') = Len(rows) + 1 /\ \A j \in 1..Len(rows) : rows'[j] = rows[j]
      /\ rows'[Len(rows) + 1] = [kind |-> "tool_result", run |-> run, ids |-> <<CallId>>]
      /\ batch' = Tail(batch) /\ batch # <<>>
  BY DEF Answers, OneRow, NewRow
<1>2. /\ n \in Nat /\ b \in Nat \ {0} /\ b <= n /\ CallId = rows[c].ids[n - b + 1]
      /\ Len(batch') = b - 1 /\ (batch' = <<>> <=> b = 1)
  BY <1>1, BatchFacts, CurrentCall DEF IsCurrent
<1>3. /\ Len(rows) = c + n - b
      /\ \A k \in 1..(n - b) : IsResult(rows[c + k]) /\ rows[c + k].ids[1] = rows[c].ids[k]
  BY DEF Open
<1>4. IsResult(rows'[Len(rows) + 1]) /\ rows'[Len(rows) + 1].ids[1] = CallId
  BY <1>1 DEF IsResult
<1> HIDE DEF n, b
<1>5. \A k \in 1..(n - b + 1) : IsResult(rows'[c + k]) /\ rows'[c + k].ids[1] = rows'[c].ids[k]
  <2> SUFFICES ASSUME NEW k \in 1..(n - b + 1)
               PROVE  IsResult(rows'[c + k]) /\ rows'[c + k].ids[1] = rows'[c].ids[k]
    OBVIOUS
  <2>1. CASE k = n - b + 1
    <3>1. c + k = Len(rows) + 1
      BY <1>1, <1>2, <1>3, <2>1
    <3> QED BY <1>1, <1>2, <1>4, <2>1, <3>1
  <2>2. CASE k # n - b + 1
    <3>1. k \in 1..(n - b) /\ c + k \in 1..Len(rows)
      BY <1>1, <1>2, <1>3, <2>2
    <3> QED BY <1>1, <1>3, <3>1
  <2> QED BY <2>1, <2>2
<1>6. Len(rows'[c].ids) = n
  BY <1>1 DEF n
<1>7. CASE b = 1
  <2>1. c + n <= Len(rows') /\ ~(c + n < Len(rows')) /\ n - b + 1 = n
    BY <1>1, <1>2, <1>3, <1>7
  <2> QED BY <1>2, <1>5, <1>6, <1>7, <2>1 DEF Whole
<1>8. CASE b # 1
  <2>1. Len(rows') = c + n - Len(batch') /\ n - Len(batch') = n - b + 1
    <3>1. PICK l \in Nat : l = Len(rows)
      BY <1>1
    <3>2. Len(rows') = l + 1 /\ l = c + n - b /\ Len(batch') = b - 1
      BY <1>1, <1>2, <1>3, <3>1
    <3>3. c \in Nat
      BY <1>1
    <3> QED BY <1>2, <3>2, <3>3
  <2> QED BY <1>2, <1>5, <1>6, <1>8, <2>1 DEF Open
<1> QED BY <1>7, <1>8

(* Rows in order were in order. *)
LEMMA OrderedBefore ==
  ASSUME OneRow, Ordered(rows)'
  PROVE  Ordered(rows)
<1> SUFFICES ASSUME NEW i \in DOMAIN rows, NEW j \in DOMAIN rows, i < j
             PROVE  rows[i].run <= rows[j].run
  BY DEF Ordered
<1>1. i \in DOMAIN rows' /\ j \in DOMAIN rows' /\ rows'[i] = rows[i] /\ rows'[j] = rows[j]
  BY DEF OneRow
<1> QED BY <1>1 DEF Ordered

(* A row stays where it has to be. *)
LEMMA InPlaceKept ==
  ASSUME TurnTypes, TurnTypes', Placed, HasCurrent,
         \A j \in DOMAIN rows : rows[j].run = run => InPlace(j),
         Answers \/ \E tools \in Batches : Asks(tools),
         NEW i \in DOMAIN rows, rows[i].run = run
  PROVE  InPlace(i)'
<1>1. /\ OneRow /\ i \in 1..Len(rows) /\ Len(rows) \in Nat /\ rows'[i] = rows[i]
      /\ i \in DOMAIN rows' /\ run' = run
  BY DEF Answers, Asks, OneRow
<1>2. IsResult(rows'[i]) => i > 1 /\ (IsCall(rows'[i - 1]) \/ IsResult(rows'[i - 1]))
  <2>1. ASSUME IsResult(rows[i]) PROVE i > 1 /\ i - 1 \in 1..Len(rows)
    BY <1>1, <2>1 DEF InPlace
  <2>2. ASSUME IsResult(rows[i]) PROVE rows'[i - 1] = rows[i - 1]
    BY <1>1, <2>1, <2>2 DEF OneRow
  <2> QED BY <1>1, <2>1, <2>2 DEF InPlace
<1>3. rows[i].ids \in Seq(Nat \X Nat \X Nat) /\ Len(rows[i].ids) \in Nat
  BY RowFacts DEF TurnTypes
<1>4. ASSUME IsCall(rows[i]), NEW tools \in Batches, Asks(tools)
      PROVE  ~IsCurrent(i)' /\ Whole(i)'
  <2>1. batch = <<>> /\ Whole(i)
    BY <1>4 DEF Asks, InPlace
  <2>2. NewRow = [kind |-> "tool_call", run |-> run, ids |-> Ids(run, counts.modelCalls + 1, tools)]
    BY <1>4 DEF Asks
  <2>3. ~IsResult(NewRow)
    BY <2>2 DEF IsResult
  <2>4. Whole(i)'
    BY <1>1, <1>3, <2>1, <2>3, WholeStays
  <2>5. PICK c \in Nat : c = Len(rows) + 1
    BY <1>1
  <2>6. IsCurrent(c)'
    BY <1>4, <2>5, NewCurrent
  <2>7. c \in (i + 1)..Len(rows') /\ OfRun(c)'
    BY <1>1, <2>5, <2>6 DEF OneRow, IsCurrent
  <2>8. ~IsCurrent(i)'
    BY <2>7 DEF IsCurrent
  <2> QED BY <2>4, <2>8
<1>5. ASSUME IsCall(rows[i]), Answers
      PROVE  IF batch' # <<>> /\ IsCurrent(i)' THEN Open(i)' ELSE Whole(i)'
  <2>1. RowsMove /\ batch # <<>> /\ ~(\E tools \in Batches : Asks(tools))
    BY <1>5 DEF RowsMove, Answers, Asks
  <2>2. PICK c \in DOMAIN rows : IsCurrent(c)
    BY <2>1 DEF HasCurrent
  <2>3. batch' # <<>> => IsCurrent(c)'
    BY <2>1, <2>2, CurrentKept
  <2>4. CASE i = c
    <3>1. Open(c)
      BY <1>5, <2>1, <2>2, <2>4 DEF InPlace
    <3>2. IF batch' # <<>> THEN Open(c)' ELSE Whole(c)'
      BY <1>5, <2>2, <3>1, OpenGrows
    <3> QED BY <2>3, <2>4, <3>2
  <2>5. CASE i # c
    <3>1. ~IsCurrent(i)
      BY <2>1, <2>2, <2>5, CurrentCall
    <3>2. Whole(i)
      BY <1>5, <3>1 DEF InPlace
    <3>3. i < c /\ c \in 1..Len(rows) /\ ~IsResult(rows[c])
      <4>1. OfRun(i) /\ OfRun(c) /\ c \in 1..Len(rows)
        BY <1>1, <1>5, <2>2 DEF IsCall, OfRun, IsCurrent
      <4>2. ~(i \in (c + 1)..Len(rows))
        BY <2>2, <4>1 DEF IsCurrent
      <4>3. i < c
        BY <1>1, <2>5, <4>1, <4>2
      <4> QED BY <4>1, <4>3 DEF OfRun, IsResult
    <3>4. i + Len(rows[i].ids) < Len(rows)
      <4> DEFINE n == Len(rows[i].ids)
      <4>1. n \in Nat /\ \A k \in 1..n : IsResult(rows[i + k])
        BY <1>3, <3>2 DEF Whole
      <4> HIDE DEF n
      <4>2. ~(c - i \in 1..n)
        <5>1. i + (c - i) = c
          BY <1>1, <3>3
        <5> QED BY <3>3, <4>1, <5>1
      <4>3. i + n < Len(rows)
        BY <1>1, <3>3, <4>1, <4>2
      <4> QED BY <4>3 DEF n
    <3>5. Whole(i)'
      BY <1>1, <1>3, <3>2, <3>4, WholeStays
    <3>6. batch' # <<>> => ~IsCurrent(i)'
      <4>1. c \in (i + 1)..Len(rows')
        BY <1>1, <3>3 DEF OneRow
      <4>2. IsCurrent(c)' => OfRun(c)'
        BY DEF IsCurrent
      <4> QED BY <2>3, <4>1, <4>2 DEF IsCurrent
    <3> QED BY <3>5, <3>6
  <2> QED BY <2>4, <2>5
<1>6. IsCall(rows'[i]) =>
        IF batch' # <<>> /\ IsCurrent(i)' THEN Open(i)' ELSE Whole(i)'
  BY <1>1, <1>4, <1>5
<1> QED BY <1>2, <1>6 DEF InPlace

(* What is added is in its place. *)
LEMMA NewInPlace ==
  ASSUME TurnTypes, TurnTypes', Placed, HasCurrent,
         \A j \in DOMAIN rows : rows[j].run = run => InPlace(j),
         Answers \/ \E tools \in Batches : Asks(tools),
         NEW last \in Nat, last = Len(rows) + 1
  PROVE  InPlace(last)'
<1>1. /\ OneRow /\ Len(rows) \in Nat /\ rows'[last] = NewRow /\ run' = run /\ Len(rows') = last
      /\ \A j \in 1..Len(rows) : rows'[j] = rows[j]
  BY DEF Answers, Asks, OneRow, NewRow
<1>2. ASSUME NEW tools \in Batches, Asks(tools) PROVE InPlace(last)'
  <2>1. IsCurrent(last)' /\ Len(rows'[last].ids) = Len(tools) /\ batch' = tools /\ tools # <<>>
    BY <1>2, NewCurrent, TurnBounds DEF Asks
  <2>2. Len(tools) \in Nat
    BY TurnBounds
  <2>3. Open(last)'
    BY <1>1, <2>1, <2>2 DEF Open
  <2>4. NewRow = [kind |-> "tool_call", run |-> run, ids |-> Ids(run, counts.modelCalls + 1, tools)]
    BY <1>2 DEF Asks
  <2>5. ~IsResult(rows'[last])
    BY <1>1, <2>4 DEF IsResult
  <2> QED BY <2>1, <2>3, <2>5 DEF InPlace
<1>3. ASSUME Answers PROVE InPlace(last)'
  <2>1. batch # <<>> /\ NewRow = [kind |-> "tool_result", run |-> run, ids |-> <<CallId>>]
    BY <1>3 DEF Answers
  <2>2. ~IsCall(rows'[last])
    BY <1>1, <2>1 DEF IsCall
  <2>3. PICK c \in DOMAIN rows : IsCurrent(c)
    BY <2>1 DEF HasCurrent
  <2>4. rows[c].run = run /\ IsCall(rows[c]) /\ c \in 1..Len(rows)
    BY <1>1, <2>3 DEF IsCurrent, OfRun, IsCall, OneRow
  <2>5. Open(c)
    BY <2>1, <2>3, <2>4 DEF InPlace
  <2> DEFINE k == Len(rows[c].ids) - Len(batch)
  <2>6. k \in Nat /\ Len(rows) = c + k
    <3>1. Len(rows[c].ids) \in Nat /\ Len(batch) \in Nat /\ Len(batch) <= Len(rows[c].ids)
      BY <2>1, <2>3, CurrentCall, BatchFacts DEF IsCurrent
    <3> QED BY <2>4, <2>5, <3>1 DEF Open
  <2>7. \A x \in 1..k : IsResult(rows[c + x])
    BY <2>5 DEF Open
  <2> HIDE DEF k
  <2>8. last > 1 /\ last - 1 = c + k /\ last - 1 \in 1..Len(rows)
    BY <1>1, <2>4, <2>6
  <2>9. IsCall(rows[last - 1]) \/ IsResult(rows[last - 1])
    <3>1. CASE k = 0
      BY <2>4, <2>6, <2>8, <3>1
    <3>2. CASE k # 0
      BY <2>6, <2>7, <2>8, <3>2
    <3> QED BY <3>1, <3>2
  <2>10. rows'[last - 1] = rows[last - 1]
    BY <1>1, <2>8
  <2> QED BY <2>2, <2>8, <2>9, <2>10 DEF InPlace
<1> QED BY <1>2, <1>3

(* Whatever a step does, the rows of the run are in order. *)
LEMMA OwnRowsKept ==
  ASSUME TurnTypes, TurnTypes', Placed, HasQuestion, HasCurrent, OwnRowsInOrder, RowsMove
  PROVE  OwnRowsInOrder'
<1> SUFFICES ASSUME Going', Ordered(rows)', NEW i \in DOMAIN rows', rows'[i].run = run'
             PROVE  InPlace(i)'
  BY DEF OwnRowsInOrder
<1>1. CASE Quiet
  <2>1. /\ rows' = rows /\ run' = run /\ batch' = batch /\ counts'.modelCalls = counts.modelCalls
        /\ Going
    BY <1>1 DEF Quiet
  <2>2. InPlace(i)
    BY <2>1 DEF OwnRowsInOrder, Ordered
  <2> QED BY <2>1, <2>2 DEF InPlace, IsCurrent, OfRun, Open, Whole
<1>2. CASE Begins
  <2>1. i \in DOMAIN rows => rows'[i].run # run'
    <3>1. run \in Nat
      BY TurnBounds DEF TurnTypes, LoopTyped
    <3> QED BY <1>2, <3>1, RowFacts DEF TurnTypes, Begins, OneRow
  <2>2. i = Len(rows) + 1 \/ i \in DOMAIN rows
    BY <1>2 DEF Begins, OneRow
  <2>3. rows'[i].kind = "user_message"
    BY <1>2, <2>1, <2>2 DEF Begins, NewRow
  <2> QED BY <2>3 DEF InPlace, IsCall, IsResult
<1>3. CASE Answers \/ \E tools \in Batches : Asks(tools)
  <2>1. OneRow /\ Going /\ run' = run
    BY <1>3 DEF Answers, Asks, Going
  <2>2. \A j \in DOMAIN rows : rows[j].run = run => InPlace(j)
    BY <2>1, OrderedBefore DEF OwnRowsInOrder
  <2>3. CASE i \in DOMAIN rows
    <3>1. rows[i].run = run
      BY <2>1, <2>3 DEF OneRow
    <3> QED BY <1>3, <2>2, <2>3, <3>1, InPlaceKept
  <2>4. CASE i \notin DOMAIN rows
    <3>1. i \in Nat /\ i = Len(rows) + 1
      BY <2>1, <2>4 DEF OneRow
    <3> QED BY <1>3, <2>2, <3>1, NewInPlace
  <2> QED BY <2>3, <2>4
<1>4. CASE ComesLate
  <2>1. Active
    BY <1>4 DEF ComesLate, Going, Active
  <2>2. PICK u \in DOMAIN rows : Question(u)
    BY <2>1 DEF HasQuestion
  <2>3. /\ OneRow /\ NewRow.run \in Nat /\ NewRow.run < run
    BY <1>4, <2>1 DEF ComesLate
  <2>4. PICK last \in DOMAIN rows' : last = Len(rows) + 1 /\ rows'[last] = NewRow
    BY <2>3 DEF OneRow, NewRow
  <2>5. u \in DOMAIN rows' /\ u < last /\ rows'[u].run = run
    BY <2>2, <2>3, <2>4 DEF OneRow, Question
  <2>6. rows'[u].run <= rows'[last].run
    BY <2>4, <2>5 DEF Ordered
  <2>7. run \in Nat
    BY TurnBounds DEF TurnTypes, LoopTyped
  <2> QED BY <2>3, <2>4, <2>5, <2>6, <2>7
<1> QED BY <1>1, <1>2, <1>3, <1>4 DEF RowsMove, Leaves, Concludes

-----------------------------------------------------------------------------
(* Contexts. *)

(* A transcript that fits is the context. *)
LEMMA WholeContext ==
  ASSUME TurnTypes, Len(rows) <= MaxMessages
  PROVE  LastOf(rows) = rows
<1>1. rows \in Seq(TurnRows) /\ Len(rows) \in Nat /\ MaxMessages \in Nat
  BY TurnBounds DEF TurnTypes, RowsTyped
<1>2. (IF Len(rows) < MaxMessages THEN 1 ELSE Len(rows) - MaxMessages + 1) = 1
  BY <1>1
<1>3. SubSeq(rows, 1, Len(rows)) = rows
  BY <1>1
<1> QED BY <1>2, <1>3 DEF LastOf

(* The question is among the last rows. *)
LEMMA QuestionInWindow ==
  ASSUME TurnTypes, LeftBehind, Active, HasQuestion
  PROVE  \E i \in DOMAIN LastOf(rows) :
           LastOf(rows)[i].kind = "user_message" /\ LastOf(rows)[i].run = run
<1>1. PICK u \in DOMAIN rows : Question(u)
  BY DEF HasQuestion
<1>2. PICK n \in Nat : n = Len(rows) /\ rows \in Seq(TurnRows) /\ u \in 1..n
  BY DEF TurnTypes, RowsTyped
<1>3. PICK max \in Nat : max = MaxMessages
  BY TurnBounds
<1>4. n - u <= max - 1
  <2>1. PICK m \in Nat, t \in Nat, c \in Nat :
          m = counts.modelCalls /\ t = counts.toolCalls /\ c = Coming
    <3>1. Cardinality(late) \in Nat
      BY FS_CardinalityType DEF LeftBehind
    <3>2. Coming \in Nat
      BY <3>1 DEF Coming
    <3> QED BY <3>2, CountFacts DEF TurnTypes
  <2>2. PICK M \in Nat, T \in Nat, R \in Nat :
          /\ M = Budget.modelCalls /\ T = Budget.toolCalls /\ R = MaxLate
          /\ M + T + R < max
    BY <1>3, TurnBounds, LateBound
  <2>3. m <= M /\ t <= T
    BY <2>1, <2>2, CountFacts DEF TurnTypes
  <2>4. n - u + c <= m + t + R
    BY <1>1, <1>2, <2>1, <2>2 DEF Question
  <2>5. u \in Nat
    BY <1>2
  <2> QED BY <2>1, <2>2, <2>3, <2>4, <2>5
<1> DEFINE start == IF n < max THEN 1 ELSE n - max + 1
<1>5. start \in 1..u /\ start \in Nat /\ u \in Nat
  BY <1>2, <1>3, <1>4
<1>6. LastOf(rows) = SubSeq(rows, start, n)
  BY <1>2, <1>3 DEF LastOf
<1> HIDE DEF start
<1>7. /\ u - start + 1 \in DOMAIN SubSeq(rows, start, n)
      /\ SubSeq(rows, start, n)[u - start + 1] = rows[u]
  <2>1. Len(SubSeq(rows, start, n)) = n - start + 1
    BY <1>2, <1>5
  <2>2. u - start + 1 \in 1..(n - start + 1)
    BY <1>2, <1>5
  <2>3. start + (u - start + 1) - 1 = u
    BY <1>5
  <2>4. DOMAIN SubSeq(rows, start, n) = 1..(n - start + 1)
    BY <1>2, <1>5
  <2>5. SubSeq(rows, start, n)[u - start + 1] = rows[start + (u - start + 1) - 1]
    BY <1>2, <1>5, <2>2
  <2> QED BY <2>2, <2>3, <2>4, <2>5
<1> QED BY <1>1, <1>6, <1>7 DEF Question

(* What earlier runs wrote is what is above the question. *)
LEMMA EarlierRows ==
  ASSUME TurnTypes, Ordered(rows), NEW u \in DOMAIN rows, Question(u)
  PROVE  Earlier(rows) = SubSeq(rows, 1, u - 1)
<1>1. Len(rows) \in Nat /\ DOMAIN rows = 1..Len(rows) /\ u \in 1..Len(rows) /\ run \in Nat
  BY TurnBounds DEF TurnTypes, RowsTyped, LoopTyped
<1>2. \A i \in DOMAIN rows : rows[i].run < run <=> i \in 1..(u - 1)
  <2> SUFFICES ASSUME NEW i \in DOMAIN rows PROVE rows[i].run < run <=> i \in 1..(u - 1)
    OBVIOUS
  <2>1. rows[i].run \in Nat
    BY RowFacts DEF TurnTypes
  <2>2. CASE i < u
    BY <1>1, <2>2 DEF Question
  <2>3. CASE i >= u
    <3>1. run <= rows[i].run
      BY <1>1, <2>1, <2>3 DEF Question, Ordered
    <3> QED BY <1>1, <2>1, <2>3, <3>1
  <2> QED BY <1>1, <2>2, <2>3
<1>3. {i \in DOMAIN rows : rows[i].run < run} = 1..(u - 1)
  BY <1>1, <1>2
<1>4. Cardinality(1..(u - 1)) = u - 1
  <2>1. 1 \in Int /\ u - 1 \in Int
    BY <1>1
  <2>2. Cardinality(1..(u - 1)) = IF 1 > u - 1 THEN 0 ELSE (u - 1) - 1 + 1
    BY <2>1, FS_Interval
  <2> QED BY <1>1, <2>2
<1> QED BY <1>3, <1>4 DEF Earlier

(* The results after a response that has all of its own. *)
LEMMA WholeResults ==
  ASSUME TurnTypes, NEW i \in DOMAIN rows, Whole(i)
  PROVE  ToSet(rows[i].ids) = ResultsAfter(rows, i)
<1> DEFINE n == Len(rows[i].ids)
           following == {k \in (i + 1)..Len(rows) : \A m \in (i + 1)..k : IsResult(rows[m])}
<1>1. rows[i].ids \in Seq(Nat \X Nat \X Nat) /\ n \in Nat /\ DOMAIN rows[i].ids = 1..n
  BY RowFacts DEF TurnTypes
<1>2. Len(rows) \in Nat /\ i \in 1..Len(rows)
  BY DEF TurnTypes, RowsTyped
<1>3. /\ i + n <= Len(rows)
      /\ \A k \in 1..n : IsResult(rows[i + k]) /\ rows[i + k].ids[1] = rows[i].ids[k]
      /\ i + n < Len(rows) => ~IsResult(rows[i + n + 1])
  BY DEF Whole
<1>4. ToSet(rows[i].ids) = {rows[i].ids[k] : k \in 1..n}
  BY <1>1 DEF ToSet
<1>0. n \in Nat /\ i \in Nat
  BY <1>1, <1>2
<1> HIDE DEF n
<1>5. \A k \in 1..n : i + k \in following
  <2> SUFFICES ASSUME NEW k \in 1..n PROVE i + k \in following
    OBVIOUS
  <2>1. i + k \in (i + 1)..Len(rows)
    <3>1. PICK l \in Nat : l = Len(rows) /\ i + n <= l
      BY <1>2, <1>3
    <3> QED BY <1>0, <3>1
  <2>2. ASSUME NEW m \in (i + 1)..(i + k) PROVE IsResult(rows[m])
    <3>1. m - i \in 1..n /\ i + (m - i) = m
      BY <1>0
    <3>2. IsResult(rows[i + (m - i)])
      BY <1>3, <3>1
    <3> QED BY <3>1, <3>2
  <2> QED BY <2>1, <2>2
<1>6. \A j \in following : j - i \in 1..n /\ i + (j - i) = j
  <2> SUFFICES ASSUME NEW j \in following PROVE j - i \in 1..n /\ i + (j - i) = j
    OBVIOUS
  <2>1. j \in (i + 1)..Len(rows) /\ \A m \in (i + 1)..j : IsResult(rows[m])
    OBVIOUS
  <2>2. ~(i + n + 1 \in (i + 1)..j)
    <3>1. ASSUME i + n + 1 \in (i + 1)..j PROVE i + n < Len(rows)
      BY <1>1, <1>2, <2>1, <3>1
    <3> QED BY <1>3, <2>1, <3>1
  <2> QED BY <1>1, <1>2, <2>1, <2>2
<1> HIDE DEF following
<1>7. {rows[j].ids[1] : j \in following} = {rows[i].ids[k] : k \in 1..n}
  <2>1. \A k \in 1..n : rows[i].ids[k] \in {rows[j].ids[1] : j \in following}
    BY <1>3, <1>5
  <2>2. \A j \in following : rows[j].ids[1] = rows[i].ids[j - i] /\ j - i \in 1..n
    BY <1>3, <1>6
  <2> QED BY <2>1, <2>2
<1> QED BY <1>4, <1>7 DEF ResultsAfter, following

(* A message of another kind ends the results, so what comes after it does not matter. *)
LEMMA ResultsBefore ==
  ASSUME TurnTypes, NEW u \in DOMAIN rows, ~IsResult(rows[u]), NEW i \in 1..(u - 1)
  PROVE  ResultsAfter(SubSeq(rows, 1, u - 1), i) = ResultsAfter(rows, i)
<1> DEFINE s == SubSeq(rows, 1, u - 1)
           inAll == {k \in (i + 1)..Len(rows) : \A m \in (i + 1)..k : IsResult(rows[m])}
           inPart == {k \in (i + 1)..Len(s) : \A m \in (i + 1)..k : IsResult(s[m])}
<1>1. Len(rows) \in Nat /\ u \in 1..Len(rows) /\ rows \in Seq(TurnRows)
  BY DEF TurnTypes, RowsTyped
<1>2. Len(s) = u - 1 /\ \A k \in 1..(u - 1) : s[k] = rows[k]
  BY <1>1
<1> HIDE DEF s
<1>3. inAll = inPart
  <2>1. ASSUME NEW k \in inAll PROVE k \in inPart
    <3>1. k \in (i + 1)..Len(rows) /\ \A m \in (i + 1)..k : IsResult(rows[m])
      OBVIOUS
    <3>2. ~(u \in (i + 1)..k)
      BY <3>1
    <3>3. k \in (i + 1)..(u - 1)
      BY <1>1, <3>1, <3>2
    <3>4. \A m \in (i + 1)..k : m \in 1..(u - 1)
      BY <1>1, <3>3
    <3> QED BY <1>2, <3>1, <3>3, <3>4
  <2>2. ASSUME NEW k \in inPart PROVE k \in inAll
    <3>1. k \in (i + 1)..(u - 1) /\ \A m \in (i + 1)..k : IsResult(s[m])
      BY <1>2
    <3>2. \A m \in (i + 1)..k : m \in 1..(u - 1)
      BY <1>1, <3>1
    <3>3. k \in (i + 1)..Len(rows)
      BY <1>1, <3>1
    <3> QED BY <1>2, <3>1, <3>2, <3>3
  <2> QED BY <2>1, <2>2
<1>4. \A k \in inPart : s[k] = rows[k]
  BY <1>1, <1>2
<1> HIDE DEF inPart, inAll
<1>5. {s[j].ids[1] : j \in inPart} = {rows[j].ids[1] : j \in inAll}
  BY <1>3, <1>4
<1> QED BY <1>5 DEF ResultsAfter, s, inPart, inAll

(* A run does not spoil its context. *)
LEMMA ReadyRows ==
  ASSUME TurnTypes, batch = <<>>, Going, OwnRowsInOrder, Ordered(rows), NEW u \in DOMAIN rows,
         Question(u), Ready(SubSeq(rows, 1, u - 1))
  PROVE  Ready(rows)
<1> DEFINE s == SubSeq(rows, 1, u - 1)
<1>1. /\ Len(rows) \in Nat /\ u \in 1..Len(rows) /\ rows \in Seq(TurnRows)
      /\ DOMAIN rows = 1..Len(rows) /\ run \in Nat
  BY TurnBounds DEF TurnTypes, RowsTyped, LoopTyped
<1>2. DOMAIN s = 1..(u - 1) /\ \A k \in 1..(u - 1) : s[k] = rows[k]
  BY <1>1
<1>3. ~IsResult(rows[u])
  BY DEF Question, IsResult
<1>4. ASSUME NEW i \in DOMAIN rows, i < u
      PROVE  /\ IsCall(rows[i]) => ToSet(rows[i].ids) = ResultsAfter(rows, i)
             /\ IsResult(rows[i]) => i > 1 /\ (IsCall(rows[i - 1]) \/ IsResult(rows[i - 1]))
  <2>1. i \in 1..(u - 1) /\ i \in DOMAIN s /\ s[i] = rows[i]
    BY <1>1, <1>2, <1>4
  <2>2. ResultsAfter(s, i) = ResultsAfter(rows, i)
    BY <1>3, <2>1, ResultsBefore
  <2> HIDE DEF s
  <2>3. i > 1 => s[i - 1] = rows[i - 1]
    BY <1>1, <1>2, <2>1
  <2>4. Ready(s)
    BY DEF s
  <2> QED BY <2>1, <2>2, <2>3, <2>4 DEF Ready
<1>5. ASSUME NEW i \in DOMAIN rows, i >= u
      PROVE  /\ IsCall(rows[i]) => ToSet(rows[i].ids) = ResultsAfter(rows, i)
             /\ IsResult(rows[i]) => i > 1 /\ (IsCall(rows[i - 1]) \/ IsResult(rows[i - 1]))
  <2>1. rows[i].run \in Nat /\ rows[i].run <= run
    BY RowFacts DEF TurnTypes
  <2>2. run <= rows[i].run
    BY <1>1, <1>5, <2>1 DEF Question, Ordered
  <2>3. InPlace(i)
    BY <1>1, <2>1, <2>2 DEF OwnRowsInOrder
  <2> QED BY <2>3, WholeResults DEF InPlace
<1>6. \A i \in DOMAIN rows : i < u \/ i >= u
  BY <1>1
<1> QED BY <1>4, <1>5, <1>6 DEF Ready

(* A context is built by the run. *)
LEMMA BuiltReady ==
  ASSUME TurnTypes, Placed, LeftBehind, HasQuestion, OwnRowsInOrder, BuildContext
  PROVE  OwnContextIsReady' /\ QuestionInContext'
<1>1. /\ at = "calling"
      /\ context' = [by |-> "run", rows |-> LastOf(rows), whole |-> Len(rows) <= MaxMessages]
      /\ run' = run /\ Active /\ Going
  BY DEF BuildContext, Built, Active, Going
<1>2. context'.rows = LastOf(rows) /\ context'.whole = (Len(rows) <= MaxMessages)
  BY <1>1
<1>3. QuestionInContext'
  BY <1>1, <1>2, QuestionInWindow DEF QuestionInContext
<1>4. ASSUME context'.whole, Ready(Earlier(context.rows))',
             (\A i, j \in DOMAIN context.rows : i < j => context.rows[i].run <= context.rows[j].run)'
      PROVE  Ready(context'.rows)
  <2>1. context'.rows = rows
    BY <1>2, <1>4, WholeContext
  <2>2. Ordered(rows)
    BY <1>4, <2>1 DEF Ordered
  <2>3. PICK u \in DOMAIN rows : Question(u)
    BY <1>1 DEF HasQuestion
  <2>4. Earlier(rows) = SubSeq(rows, 1, u - 1)
    BY <2>2, <2>3, EarlierRows
  <2>5. Earlier(context.rows)' = Earlier(rows)
    BY <1>1, <2>1 DEF Earlier
  <2>6. Ready(SubSeq(rows, 1, u - 1))
    BY <1>4, <2>4, <2>5
  <2>7. batch = <<>>
    BY <1>1 DEF Placed
  <2> QED BY <1>1, <2>1, <2>2, <2>3, <2>6, <2>7, ReadyRows
<1>5. OwnContextIsReady'
  BY <1>4 DEF OwnContextIsReady
<1> QED BY <1>3, <1>5

(* Or it stays. *)
LEMMA ContextStays ==
  ASSUME OwnContextIsReady, QuestionInContext, UNCHANGED <<context, run>>,
         at' = "streaming" => at = "streaming",
         children' = children \/ \A agent \in SubagentKinds : children'[agent].at # "returned"
  PROVE  OwnContextIsReady' /\ QuestionInContext'
<1>1. OwnContextIsReady'
  BY DEF OwnContextIsReady, Earlier
<1>2. QuestionInContext'
  BY DEF QuestionInContext
<1> QED BY <1>1, <1>2

(* A subagent builds one. *)
LEMMA ChildContext ==
  ASSUME TurnTypes, LeftBehind, HasQuestion, OwnContextIsReady, QuestionInContext, ContextMade,
         NEW agent \in SubagentKinds, ChildReturns(agent)
  PROVE  OwnContextIsReady' /\ QuestionInContext' /\ ContextMade'
<1>1. at = "children" /\ UNCHANGED <<rows, run, at>> /\ Active
  BY DEF ChildReturns, loop, Active
<1>2. OwnContextIsReady'
  BY <1>1 DEF OwnContextIsReady
<1>3. CASE agent = "critic" /\ Returns(agent, 0) /\ UNCHANGED context
  <2>1. \A k \in SubagentKinds \ {agent} : children'[k] = children[k]
    BY <1>3 DEF Returns, TurnTypes, ChildrenTyped
  <2>2. context.by \in SubagentKinds => context.by # agent
    BY <1>3 DEF ContextMade
  <2> QED BY <1>1, <1>2, <1>3, <2>1, <2>2 DEF QuestionInContext, ContextMade
<1>4. CASE agent # "critic" /\ context' = Built(agent)
  <2>1. context'.rows = LastOf(rows) /\ context'.by = agent
    BY <1>4 DEF Built
  <2>2. QuestionInContext'
    BY <1>1, <2>1, QuestionInWindow DEF QuestionInContext
  <2> QED BY <1>2, <1>4, <2>1, <2>2 DEF ContextMade
<1> QED BY <1>3, <1>4 DEF ChildReturns

(* Whatever a step does, the context is one that can be answered. *)
LEMMA ContextKept ==
  ASSUME TurnTypes, Placed, LeftBehind, HasQuestion, OwnRowsInOrder, OwnContextIsReady,
         QuestionInContext, ContextMade, [TurnNext]_turnVars
  PROVE  OwnContextIsReady' /\ QuestionInContext' /\ ContextMade'
<1>1. CASE BuildContext
  <2>1. context' = [by |-> "run", rows |-> LastOf(rows), whole |-> Len(rows) <= MaxMessages]
    BY <1>1 DEF BuildContext, Built
  <2>2. ContextMade'
    BY <2>1 DEF ContextMade
  <2> QED BY <1>1, <2>2, BuiltReady
<1>2. CASE \E agent \in SubagentKinds : ChildReturns(agent)
  BY <1>2, ChildContext
<1>3. CASE StartTurn
  <2>1. context' = context /\ at' = "boundary" /\ children' = NoChildren
    BY <1>3 DEF StartTurn
  <2>2. \A agent \in SubagentKinds : children'[agent].at # "returned"
    BY <2>1, NobodySent
  <2> QED BY <2>1, <2>2 DEF OwnContextIsReady, QuestionInContext, ContextMade
<1>4. ASSUME UNCHANGED <<context, run>>, at' = "streaming" => at = "streaming",
             children' = children \/ \A agent \in SubagentKinds : children'[agent].at # "returned"
      PROVE  OwnContextIsReady' /\ QuestionInContext' /\ ContextMade'
  BY <1>4, ContextStays DEF ContextMade
<1>5. CASE Steer \/ BeginModelCall \/ Pause \/ LateResponse
  BY <1>4, <1>5 DEF Steer, BeginModelCall, Pause, LateResponse, loop, delegation
<1>6. ASSUME EndLoop
      PROVE  /\ at' # "streaming"
             /\ children' = children \/ \A agent \in SubagentKinds : children'[agent].at # "returned"
  <2>1. ChildrenTyped
    BY DEF TurnTypes
  <2>2. /\ batch' = <<>> /\ fansOut' = fansOut
        /\ \/ at' = "children" /\ Involved' # {}
           \/ at' = "ending" /\ children' = children
        /\ children' = [agent \in SubagentKinds |-> children'[agent]]
        /\ \A agent \in SubagentKinds : /\ IsChild(children'[agent])
                                        /\ children' # children => children'[agent].at # "returned"
    BY <1>6, <2>1, LeaveFacts
  <2> QED BY <2>2
<1>7. CASE StopAtBoundary \/ StopInBatch
  BY <1>4, <1>6, <1>7 DEF StopAtBoundary, StopInBatch
<1>8. CASE Respond
  <2>1. UNCHANGED <<context, run>>
    BY <1>8 DEF Respond
  <2>2. /\ at' # "streaming"
        /\ children' = children \/ \A agent \in SubagentKinds : children'[agent].at # "returned"
    BY <1>6, <1>8 DEF Respond, delegation
  <2> QED BY <1>4, <2>1, <2>2
<1>9. CASE CallTool
  BY <1>4, <1>9 DEF CallTool, Persisted, AfterCall, delegation
<1>10. CASE Delegate
  <2>1. UNCHANGED <<context, run>> /\ at' = "children"
    BY <1>10 DEF Delegate
  <2> QED BY <1>4, <1>10, <2>1, DelegateTyped
<1>11. CASE ChildrenReturned
  <2>1. UNCHANGED <<context, run>> /\ at' # "streaming" /\ children' = NoChildren
    BY <1>11 DEF ChildrenReturned, Persisted, AfterCall
  <2> QED BY <1>4, <2>1, NobodySent
<1>12. CASE Ends
  BY <1>4, <1>12 DEF Ends, Terminal, Complete, Fail, CancelTurn, delegation
<1>13. CASE UNCHANGED turnVars
  BY <1>4, <1>13 DEF turnVars, loop, delegation
<1> QED
  BY <1>1, <1>2, <1>3, <1>5, <1>7, <1>8, <1>9, <1>10, <1>11, <1>12, <1>13, StepKinds DEF Within

-----------------------------------------------------------------------------
(* Steering. *)

(* The messages that wait, after those that were told. *)
StillWaiting == (IF at = "calling" THEN pendingSteering ELSE <<>>) \o steeringBuffer

Heard == told \o StillWaiting

(* Each follows the one before it, and the last one is the last accepted. *)
InTurn(heard) ==
  /\ \A i \in 1..(Len(heard) - 1) : heard[i + 1] = heard[i] + 1
  /\ heard # <<>> => Last(heard) = steered

(* Sequences put together. *)
LEMMA AppendToBoth ==
  ASSUME NEW S, NEW q \in Seq(S), NEW t \in Seq(S), NEW x \in S
  PROVE  q \o Append(t, x) = Append(q \o t, x)
OBVIOUS

LEMMA ThreeTogether ==
  ASSUME NEW S, NEW q \in Seq(S), NEW t \in Seq(S), NEW w \in Seq(S)
  PROVE  (q \o t) \o w = q \o (t \o w)
OBVIOUS


(* Whatever a step does, every message is told once or waits. *)
LEMMA SteeringKept ==
  ASSUME TurnTypes, TurnTypes', SteeringOnceInOrder, [TurnNext]_turnVars
  PROVE  SteeringOnceInOrder'
<1>1. /\ steeringBuffer \in Seq(Nat) /\ pendingSteering \in Seq(Nat) /\ told \in Seq(Nat)
      /\ steered \in Nat
  BY TurnBounds DEF TurnTypes, SteeringTyped
<1>2. Active => InTurn(Heard)
  BY DEF SteeringOnceInOrder, InTurn, Heard, StillWaiting
<1>3. ASSUME Active' => InTurn(Heard)' PROVE SteeringOnceInOrder'
  BY <1>3 DEF SteeringOnceInOrder, InTurn, Heard, StillWaiting
<1>4. ASSUME Active' => Active /\ Heard' = Heard /\ steered' = steered PROVE SteeringOnceInOrder'
  BY <1>2, <1>3, <1>4 DEF InTurn
<1>5. CASE StartTurn
  <2>1. /\ told' = <<>> /\ steeringBuffer' = <<>> /\ pendingSteering' = <<>> /\ at' = "boundary"
    BY <1>5 DEF StartTurn
  <2>2. Heard' = <<>>
    BY <2>1 DEF Heard, StillWaiting
  <2>3. InTurn(Heard)'
    BY <2>2 DEF InTurn
  <2> QED BY <1>3, <2>3
<1>6. CASE Steer
  <2>1. /\ Active /\ steered' = steered + 1 /\ steeringBuffer' = Append(steeringBuffer, steered + 1)
        /\ UNCHANGED <<at, pendingSteering, told>>
    BY <1>6 DEF Steer, loop
  <2>2. StillWaiting \in Seq(Nat) /\ Heard \in Seq(Nat)
    BY <1>1 DEF Heard, StillWaiting
  <2>3. Heard' = Append(Heard, steered + 1)
    <3> DEFINE first == IF at = "calling" THEN pendingSteering ELSE <<>>
    <3>1. first \in Seq(Nat) /\ first' = first
      BY <1>1, <2>1
    <3>2. /\ StillWaiting = first \o steeringBuffer
          /\ StillWaiting' = first \o Append(steeringBuffer, steered + 1)
      BY <2>1, <3>1 DEF StillWaiting
    <3> HIDE DEF first
    <3>0. first \o Append(steeringBuffer, steered + 1) = Append(first \o steeringBuffer, steered + 1)
      BY <1>1, <3>1, AppendToBoth
    <3>3. StillWaiting' = Append(StillWaiting, steered + 1)
      BY <3>0, <3>2
    <3>4. told \o Append(StillWaiting, steered + 1) = Append(told \o StillWaiting, steered + 1)
      BY <1>1, <2>2, AppendToBoth
    <3> QED BY <2>1, <3>3, <3>4 DEF Heard
  <2>4. InTurn(Heard)
    BY <1>2, <2>1
  <2>5. InTurn(Heard)'
    <3>1. PICK h \in Seq(Nat) : h = Heard
      BY <2>2
    <3>2. PICK n \in Nat : n = Len(h) /\ DOMAIN h = 1..n
      OBVIOUS
    <3>3. \A i \in 1..(n - 1) : h[i + 1] = h[i] + 1
      BY <2>4, <3>1, <3>2 DEF InTurn
    <3>4. n # 0 => h[n] = steered
      BY <2>4, <3>1, <3>2 DEF InTurn, Last
    <3> DEFINE g == Append(h, steered + 1)
    <3>5. /\ Len(g) = n + 1 /\ g[n + 1] = steered + 1 /\ \A i \in 1..n : g[i] = h[i]
      BY <1>1, <3>2
    <3>6. \A i \in 1..n : g[i + 1] = g[i] + 1
      <4> SUFFICES ASSUME NEW i \in 1..n PROVE g[i + 1] = g[i] + 1
        OBVIOUS
      <4>1. CASE i = n
        BY <3>2, <3>4, <3>5, <4>1
      <4>2. CASE i # n
        <5>1. i \in 1..(n - 1) /\ i + 1 \in 1..n
          BY <3>2, <4>2
        <5> QED BY <3>3, <3>5, <5>1
      <4> QED BY <4>1, <4>2
    <3>7. Heard' = g
      BY <2>3, <3>1
    <3>8. Last(g) = steered' /\ Len(g) - 1 = n
      BY <2>1, <3>2, <3>5 DEF Last
    <3> HIDE DEF g
    <3> QED BY <3>6, <3>7, <3>8 DEF InTurn
  <2> QED BY <1>3, <2>5
<1>7. CASE BeginModelCall
  <2>1. /\ at = "boundary" /\ at' = "calling" /\ pendingSteering' = steeringBuffer
        /\ steeringBuffer' = <<>> /\ UNCHANGED <<told, steered>>
    BY <1>7 DEF BeginModelCall, Drained
  <2>2. Heard = told \o steeringBuffer /\ Heard' = told \o steeringBuffer
    BY <1>1, <2>1 DEF Heard, StillWaiting
  <2> QED BY <1>4, <2>1, <2>2 DEF Active
<1>8. CASE BuildContext
  <2>1. /\ at = "calling" /\ at' = "streaming" /\ told' = told \o pendingSteering
        /\ UNCHANGED <<pendingSteering, steeringBuffer, steered>>
    BY <1>8 DEF BuildContext, steering
  <2>2. Heard = told \o (pendingSteering \o steeringBuffer)
    BY <2>1 DEF Heard, StillWaiting
  <2>3. Heard' = (told \o pendingSteering) \o (<<>> \o steeringBuffer)
    BY <2>1 DEF Heard, StillWaiting
  <2>4. <<>> \o steeringBuffer = steeringBuffer
    BY <1>1
  <2>5. (told \o pendingSteering) \o steeringBuffer = told \o (pendingSteering \o steeringBuffer)
    BY <1>1, ThreeTogether
  <2> QED BY <1>4, <2>1, <2>2, <2>3, <2>4, <2>5 DEF Active
<1>9. ASSUME UNCHANGED <<steeringBuffer, pendingSteering, told, steered>>,
             at' = at \/ (Active /\ at # "calling" /\ at' # "calling") \/ ~Active'
      PROVE  SteeringOnceInOrder'
  BY <1>4, <1>9 DEF Heard, StillWaiting, Active
<1>10. ASSUME EndLoop PROVE at' # "calling"
  BY <1>10 DEF EndLoop
<1>11. ASSUME Persisted PROVE at' # "calling"
  BY <1>11 DEF Persisted, AfterCall
<1>12. CASE Pause \/ LateResponse \/ \E agent \in SubagentKinds : ChildReturns(agent)
  BY <1>9, <1>12 DEF Pause, LateResponse, ChildReturns, loop, steering
<1>13. CASE StopAtBoundary \/ Respond \/ StopInBatch
  BY <1>9, <1>10, <1>13 DEF StopAtBoundary, Respond, StopInBatch, steering, Active
<1>14. CASE CallTool \/ Delegate \/ ChildrenReturned
  BY <1>9, <1>11, <1>14 DEF CallTool, Delegate, ChildrenReturned, MayCall, steering, Active
<1>15. CASE Ends
  BY <1>9, <1>15 DEF Ends, Terminal, Complete, Fail, CancelTurn, steering, Active
<1>16. CASE UNCHANGED turnVars
  BY <1>9, <1>16 DEF turnVars, loop, steering
<1> QED
  BY <1>5, <1>6, <1>7, <1>8, <1>12, <1>13, <1>14, <1>15, <1>16, StepKinds DEF Within

-----------------------------------------------------------------------------
(* The theorem. *)

(* The first state. *)
LEMMA TurnStarts == TurnInit => TurnInv
<1> SUFFICES ASSUME TurnInit PROVE TurnInv
  OBVIOUS
<1>1. /\ rows = <<>> /\ run = 0 /\ at = "idle" /\ counts = Zero /\ batch = <<>>
      /\ steeringBuffer = <<>> /\ pendingSteering = <<>> /\ steered = 0 /\ late = {}
      /\ children = NoChildren /\ usage = [r \in 1..MaxTurns |-> -1]
      /\ context = [by |-> "nobody", rows |-> <<>>, whole |-> TRUE] /\ told = <<>>
  BY DEF TurnInit
<1>2. ChildrenTyped /\ \A agent \in SubagentKinds : children[agent].at # "returned"
  BY <1>1 DEF NoChildren, NoChild, IsChild, ChildrenTyped
<1>3. CountsTyped
  BY <1>1, TurnBounds DEF CountsTyped, Zero
<1>4. LoopTyped /\ SteeringTyped /\ LateTyped /\ RowsTyped
  BY <1>1, TurnBounds DEF LoopTyped, SteeringTyped, LateTyped, RowsTyped
<1>5. Placed
  BY <1>1 DEF Placed, Active
<1>6. LeftBehind
  BY <1>1, FS_EmptySet, LateBound DEF LeftBehind, Active
<1>7. HasQuestion /\ HasCurrent /\ SteeringOnceInOrder
  BY <1>1 DEF HasQuestion, HasCurrent, SteeringOnceInOrder, Active
<1>8. ResultIds /\ ResultsAnswerCalls /\ OwnRowsInOrder
  BY <1>1 DEF ResultIds, ResultsAnswerCalls, OwnRowsInOrder
<1>9. OwnContextIsReady /\ QuestionInContext /\ ContextMade
  BY <1>1, <1>2 DEF OwnContextIsReady, QuestionInContext, ContextMade
<1> QED BY <1>2, <1>3, <1>4, <1>5, <1>6, <1>7, <1>8, <1>9 DEF TurnInv, TurnTypes

(* Every step. *)
LEMMA TurnSteps == TurnInv /\ [TurnNext]_turnVars => TurnInv'
<1> SUFFICES ASSUME TurnInv, [TurnNext]_turnVars PROVE TurnInv'
  OBVIOUS
<1>1. /\ TurnTypes /\ Placed /\ LeftBehind /\ HasQuestion /\ HasCurrent /\ ResultIds
      /\ ResultsAnswerCalls /\ OwnRowsInOrder /\ OwnContextIsReady /\ QuestionInContext
      /\ SteeringOnceInOrder /\ ContextMade
  BY DEF TurnInv
<1>2. TurnTypes' /\ Placed'
  BY <1>1, StepTyped
<1>3. LeftBehind'
  BY <1>1, LeftBehindKept
<1>4. HasQuestion'
  BY <1>1, <1>2, <1>3, QuestionKept
<1>5. RowsMove
  BY <1>1, RowsMoveFacts
<1>6. HasCurrent'
  BY <1>1, <1>2, <1>5, CurrentKept
<1>7. ResultIds'
  BY <1>1, <1>2, <1>5, ResultIdsKept
<1>8. ResultsAnswerCalls'
  BY <1>1, <1>2, <1>5, AnswersKept
<1>9. OwnRowsInOrder'
  BY <1>1, <1>2, <1>5, OwnRowsKept
<1>10. OwnContextIsReady' /\ QuestionInContext' /\ ContextMade'
  BY <1>1, ContextKept
<1>11. SteeringOnceInOrder'
  BY <1>1, <1>2, SteeringKept
<1> QED BY <1>2, <1>3, <1>4, <1>6, <1>7, <1>8, <1>9, <1>10, <1>11 DEF TurnInv

(* It implies the property. *)
LEMMA TurnInvIs == TurnInv => ContextInOrder
<1> SUFFICES ASSUME TurnInv PROVE ContextInOrder
  OBVIOUS
<1>1. TurnTypes /\ Placed /\ HasCurrent
  BY DEF TurnInv
<1>2. batch # <<>> => at \in {"tools", "children"} /\ CallId[1] = run
  <2> SUFFICES ASSUME batch # <<>> PROVE at \in {"tools", "children"} /\ CallId[1] = run
    OBVIOUS
  <2>1. PICK c \in DOMAIN rows : IsCurrent(c)
    BY <1>1 DEF HasCurrent
  <2>2. CallId = <<run, counts.modelCalls, Len(rows[c].ids) - Len(batch) + 1>>
    BY <1>1, <2>1, CurrentCall
  <2> QED BY <1>1, <2>2 DEF Placed
<1>3. \A l \in late : l[1] \in 1..run /\ l[2] \in 1..Budget.modelCalls
  BY <1>1 DEF TurnTypes, LateTyped
<1>4. /\ counts.modelCalls \in 0..Budget.modelCalls /\ counts.toolCalls \in 0..Budget.toolCalls
      /\ counts.actions \in 0..(Budget.actions + 1) /\ counts.children \in 0..Budget.children
  BY <1>1 DEF TurnTypes, CountsTyped
<1>5. TurnTypeOK
  BY <1>1, <1>2, <1>3, <1>4 DEF TurnTypeOK, TurnTypes, LoopTyped, SteeringTyped, Placed
<1> QED BY <1>5 DEF TurnInv, ContextInOrder

(* ContextInOrder for any budget, batches and costs: whatever tools, subagents and late model
   calls do, a run tells the model its own calls and their results in order, the question it
   is to answer, and every steering message once. *)
THEOREM ContextsStayInOrder == TurnSpec => []ContextInOrder
<1>1. TurnSpec => []TurnInv
  BY TurnStarts, TurnSteps, PTL DEF TurnSpec
<1> QED BY <1>1, TurnInvIs, PTL
-----------------------------------------------------------------------------
(* ModelTurn: what a turn costs.  LedgersBalance and CompletionsBillEverything rest on one more
   invariant: where the subagents of a delegation have their entries in a ledger, and that what
   is billed is what the run and the ledgers have, but for what is reserved and not yet used. *)

(* The ledgers. *)
Ledgers == [used : Int, remaining : Int, entries : Seq(Int)]

(* What is used is what the entries say; used and remaining are the budget. *)
Balanced(ledger) ==
  ledger.used = Total(ledger.entries) /\ ledger.used + ledger.remaining = Budget.cost

(* The types. *)
LedgersTyped ==
  /\ ledgers = [tools |-> ledgers.tools, fan |-> ledgers.fan]
  /\ ledgers.tools \in Ledgers /\ ledgers.fan \in Ledgers
  /\ totalUsage \in Int /\ billed \in Int /\ response.cost \in Int

(* The ledger of the delegation under way. *)
InUse == IF batch = <<>> THEN ledgers.fan ELSE ledgers.tools

(* A subagent has an entry of its own, and has used nothing before it returns. *)
HasEntry(ledger, team, agent) ==
  team[agent].at # "none" =>
    /\ team[agent].entry \in 1..Len(ledger.entries) /\ team[agent].cost \in Int
    /\ team[agent].at = "sent" => team[agent].cost = 0

Entered(ledger, team) ==
  /\ \A agent \in SubagentKinds : HasEntry(ledger, team, agent)
  /\ \A agent, other \in SubagentKinds :
       /\ agent # other /\ team[agent].at # "none" /\ team[other].at # "none"
       => team[agent].entry # team[other].entry

(* What it reserved and has not used. *)
Owes(ledger, team, agent) ==
  IF team[agent].at = "none" THEN 0 ELSE ledger.entries[team[agent].entry] - team[agent].cost

(* All of them. *)
Owed(ledger, team) ==
  Owes(ledger, team, "research") + Owes(ledger, team, "code") + Owes(ledger, team, "critic")

(* A delegation is entered in its ledger. *)
SentEntered == at = "children" => Entered(InUse, children)

(* Every cost is in the usage of the run or in a ledger. *)
AllBilled ==
  Active =>
    billed = totalUsage + ledgers.tools.used + ledgers.fan.used
               - (IF at = "children" THEN Owed(InUse, children) ELSE 0)

(* The fan-out comes last. *)
FanUnused == Going => ledgers.fan = createBudgetLedger

(* The invariant. *)
LedgerInv ==
  /\ LedgersTyped /\ LedgersBalance /\ SentEntered /\ AllBilled /\ FanUnused

-----------------------------------------------------------------------------
(* Sums and reservations go through a sequence; what is known of them is by induction. *)

(* Induction, for a set. *)
LEMMA SetInduction ==
  ASSUME NEW n \in Nat, NEW T \in SUBSET Nat, n \in T, \A i \in T : i + 1 \in T
  PROVE  \A i \in Nat : i >= n => i \in T
<1> DEFINE Out == {i \in Nat : i >= n /\ i \notin T}
<1> SUFFICES ASSUME Out # {} PROVE FALSE
  OBVIOUS
<1>1. \E y \in Out : \A z \in Out : <<z, y>> \notin OpToRel(<, Nat)
  <2>1. Out \subseteq Nat
    OBVIOUS
  <2> HIDE DEF Out
  <2> QED BY <2>1, NatLessThanWellFounded, WFMin, Zenon
<1>2. PICK y \in Out : \A z \in Out : ~(z < y)
  BY <1>1 DEF OpToRel
<1>3. y > n /\ y - 1 \in Nat /\ y - 1 >= n /\ (y - 1) + 1 = y
  OBVIOUS
<1>4. y - 1 \notin Out
  BY <1>2, <1>3
<1>5. y - 1 \in T
  BY <1>3, <1>4
<1> QED BY <1>3, <1>5

(* What comes of a value when steps are taken one after another. *)
Course(f, b, step, n) ==
  f = [i \in 0..n |-> IF i = 0 THEN b ELSE step[<<f[i - 1], i>>]]

(* There is a course for any steps. *)
LEMMA CourseExists ==
  ASSUME NEW S, NEW b \in S, NEW n \in Nat, NEW step \in [S \X (1..n) -> S]
  PROVE  \E f \in [0..n -> S] : Course(f, b, step, n)
<1> DEFINE T == {k \in Nat : k <= n => \E f \in [0..k -> S] : Course(f, b, step, k)}
<1>1. 0 \in T
  <2> DEFINE f == [i \in 0..0 |-> b]
  <2>1. f \in [0..0 -> S] /\ Course(f, b, step, 0)
    BY DEF Course
  <2> QED BY <2>1
<1>2. \A k \in T : k + 1 \in T
  <2> SUFFICES ASSUME NEW k \in T PROVE k + 1 \in T
    OBVIOUS
  <2> SUFFICES ASSUME k + 1 <= n PROVE \E f \in [0..(k + 1) -> S] : Course(f, b, step, k + 1)
    OBVIOUS
  <2>1. k \in Nat /\ k <= n /\ k + 1 \in 1..n
    OBVIOUS
  <2>2. PICK f \in [0..k -> S] : Course(f, b, step, k)
    BY <2>1
  <2>3. PICK v \in S : v = step[<<f[k], k + 1>>]
    <3>1. f[k] \in S
      BY <2>1
    <3>2. <<f[k], k + 1>> \in S \X (1..n)
      BY <2>1, <3>1
    <3> QED BY <3>2
  <2> DEFINE g == [i \in 0..(k + 1) |-> IF i <= k THEN f[i] ELSE v]
  <2>4. g \in [0..(k + 1) -> S]
    BY <2>1
  <2>5. \A i \in 0..(k + 1) : g[i] = IF i = 0 THEN b ELSE step[<<g[i - 1], i>>]
    <3> SUFFICES ASSUME NEW i \in 0..(k + 1)
                 PROVE  g[i] = IF i = 0 THEN b ELSE step[<<g[i - 1], i>>]
      OBVIOUS
    <3>1. \A j \in 0..k : f[j] = IF j = 0 THEN b ELSE step[<<f[j - 1], j>>]
      BY <2>2 DEF Course
    <3>2. CASE i <= k
      <4>1. i \in 0..k /\ g[i] = f[i] /\ (i # 0 => g[i - 1] = f[i - 1])
        BY <2>1, <3>2
      <4> QED BY <3>1, <4>1
    <3>3. CASE i = k + 1
      <4>1. g[i] = v /\ i # 0 /\ g[i - 1] = f[k]
        BY <2>1, <3>3
      <4> QED BY <2>3, <3>3, <4>1
    <3> QED BY <2>1, <3>2, <3>3
  <2>6. g = [i \in 0..(k + 1) |-> g[i]]
    OBVIOUS
  <2> HIDE DEF g
  <2>7. Course(g, b, step, k + 1)
    BY <2>5, <2>6 DEF Course
  <2> QED BY <2>4, <2>7
<1>3. n \in T
  <2> HIDE DEF T
  <2>1. T \subseteq Nat
    BY DEF T
  <2>2. 0 \in Nat /\ n >= 0
    OBVIOUS
  <2> QED BY <1>1, <1>2, <2>1, <2>2, SetInduction
<1> QED BY <1>3

(* The sums of what comes first. *)
Sums(f, entries) ==
  /\ f[0] = 0 /\ \A i \in 1..Len(entries) : f[i] = f[i - 1] + entries[i]
  /\ \A i \in 0..Len(entries) : f[i] \in Int

(* Total is the last of them. *)
LEMMA TotalSums ==
  ASSUME NEW entries \in Seq(Int)
  PROVE  \E f : Sums(f, entries) /\ Total(entries) = f[Len(entries)]
<1> DEFINE n == Len(entries)
           step == [p \in Int \X (1..n) |-> p[1] + entries[p[2]]]
           sum == CHOOSE f : f = [i \in 0..n |-> IF i = 0 THEN 0 ELSE f[i - 1] + entries[i]]
<1>1. n \in Nat /\ \A i \in 1..n : entries[i] \in Int
  OBVIOUS
<1> HIDE DEF n
<1>2. step \in [Int \X (1..n) -> Int]
  BY <1>1
<1>3. \A v \in Int, i \in 1..n : step[<<v, i>>] = v + entries[i]
  OBVIOUS
<1> HIDE DEF step
<1>4. PICK f \in [0..n -> Int] : Course(f, 0, step, n)
  <2>1. 0 \in Int
    OBVIOUS
  <2> QED BY <1>1, <1>2, <2>1, CourseExists, ZenonT(40)
<1>5. f = [i \in 0..n |-> IF i = 0 THEN 0 ELSE f[i - 1] + entries[i]]
  <2>1. f = [i \in 0..n |-> IF i = 0 THEN 0 ELSE step[<<f[i - 1], i>>]]
    BY <1>4 DEF Course
  <2>2. \A i \in 0..n : i # 0 => i \in 1..n /\ f[i - 1] \in Int
    BY <1>1
  <2>3. \A i \in 0..n : f[i] = IF i = 0 THEN 0 ELSE f[i - 1] + entries[i]
    BY <1>3, <2>1, <2>2
  <2>4. f = [i \in 0..n |-> f[i]]
    OBVIOUS
  <2> QED BY <2>3, <2>4
<1>6. sum = [i \in 0..n |-> IF i = 0 THEN 0 ELSE sum[i - 1] + entries[i]]
  BY <1>5
<1>7. Total(entries) = sum[n]
  BY DEF Total, n
<1> HIDE DEF sum
<1>8. sum[0] = 0 /\ \A i \in 1..n : sum[i] = sum[i - 1] + entries[i]
  BY <1>1, <1>6
<1>9. \A i \in 1..n : f[i] = f[i - 1] + entries[i]
  BY <1>1, <1>5
<1>10. f[0] = 0
  BY <1>1, <1>5
<1> DEFINE T == {k \in Nat : k <= n => sum[k] = f[k]}
<1>11. 0 \in T
  BY <1>8, <1>10
<1>12. \A k \in T : k + 1 \in T
  <2> SUFFICES ASSUME NEW k \in T, k + 1 <= n PROVE sum[k + 1] = f[k + 1]
    OBVIOUS
  <2>1. k + 1 \in 1..n /\ (k + 1) - 1 = k /\ k <= n
    BY <1>1
  <2>2. sum[k] = f[k]
    BY <2>1
  <2> QED BY <1>8, <1>9, <2>1, <2>2
<1>13. n \in T
  <2>1. T \in SUBSET Nat /\ 0 \in Nat /\ n >= 0
    BY <1>1
  <2> HIDE DEF T
  <2> QED BY <1>1, <1>11, <1>12, <2>1, SetInduction
<1>14. sum[n] = f[n]
  BY <1>13
<1> QED BY <1>4, <1>7, <1>9, <1>10, <1>14 DEF Sums, n

(* Sequences that differ by d in one place. *)
Differ(x, y, n, p, d) ==
  \A i \in 1..n : y[i] = IF i = p THEN x[i] + d ELSE x[i]

(* And their sums. *)
LEMMA SumsDiffer ==
  ASSUME NEW x \in Seq(Int), NEW y \in Seq(Int), NEW n \in Nat, n <= Len(x), n <= Len(y),
         NEW p \in Int, NEW d \in Int, p >= 1, Differ(x, y, n, p, d),
         NEW f, Sums(f, x), NEW g, Sums(g, y)
  PROVE  g[n] = IF p <= n THEN f[n] + d ELSE f[n]
<1> DEFINE T == {k \in Nat : k <= n => g[k] = IF p <= k THEN f[k] + d ELSE f[k]}
<1>0. Len(x) \in Nat /\ Len(y) \in Nat
  OBVIOUS
<1>1. 0 \in T
  BY DEF Sums
<1>2. \A k \in T : k + 1 \in T
  <2> SUFFICES ASSUME NEW k \in T, k + 1 <= n
               PROVE  g[k + 1] = IF p <= k + 1 THEN f[k + 1] + d ELSE f[k + 1]
    OBVIOUS
  <2>1. PICK j \in 1..n : j = k + 1
    OBVIOUS
  <2>2. /\ k \in Nat /\ j \in 1..Len(x) /\ j \in 1..Len(y) /\ j - 1 = k
        /\ k \in 0..Len(x) /\ k \in 0..Len(y) /\ k <= n
    BY <1>0, <2>1, SMTT(30)
  <2>3. f[k] \in Int /\ g[k] \in Int /\ x[j] \in Int
    <3> HIDE DEF T
    <3>1. f[k] \in Int /\ g[k] \in Int
      BY <2>2 DEF Sums
    <3>2. x[j] \in Int
      BY <2>2
    <3> QED BY <3>1, <3>2
  <2>4. f[j] = f[k] + x[j] /\ g[j] = g[k] + y[j]
    BY <2>2 DEF Sums
  <2>5. y[j] = IF j = p THEN x[j] + d ELSE x[j]
    BY <2>1 DEF Differ
  <2>6. g[k] = IF p <= k THEN f[k] + d ELSE f[k]
    BY <2>2
  <2>7. g[j] = IF p <= j THEN f[j] + d ELSE f[j]
    <3> HIDE DEF T
    <3>1. CASE p = j
      <4>1. g[k] = f[k] /\ y[j] = x[j] + d
        BY <2>1, <2>2, <2>5, <2>6, <3>1
      <4> QED BY <2>3, <2>4, <3>1, <4>1
    <3>2. CASE p # j /\ p <= k
      <4>1. g[k] = f[k] + d /\ y[j] = x[j] /\ p <= j
        BY <2>1, <2>2, <2>5, <2>6, <3>2
      <4> QED BY <2>3, <2>4, <4>1, SMTT(30)
    <3>3. CASE p # j /\ ~(p <= k)
      <4>1. g[k] = f[k] /\ y[j] = x[j] /\ ~(p <= j)
        BY <2>1, <2>2, <2>5, <2>6, <3>3
      <4> QED BY <2>3, <2>4, <4>1
    <3> QED BY <3>1, <3>2, <3>3
  <2> QED BY <2>1, <2>7
<1>3. T \in SUBSET Nat /\ 0 \in Nat /\ n >= 0
  OBVIOUS
<1> HIDE DEF T
<1>4. n \in T
  BY <1>1, <1>2, <1>3, SetInduction
<1> QED BY <1>4 DEF T

(* Sums are numbers. *)
LEMMA TotalTyped ==
  ASSUME NEW entries \in Seq(Int)
  PROVE  Total(entries) \in Int
<1>1. PICK f : Sums(f, entries) /\ Total(entries) = f[Len(entries)]
  BY TotalSums
<1>2. Len(entries) \in 0..Len(entries)
  OBVIOUS
<1> QED BY <1>1, <1>2 DEF Sums

(* Of nothing. *)
LEMMA TotalOfNone == Total(<<>>) = 0
<1>1. <<>> \in Seq(Int) /\ Len(<<>>) = 0
  OBVIOUS
<1>2. PICK f : Sums(f, <<>>) /\ Total(<<>>) = f[0]
  BY <1>1, TotalSums
<1> QED BY <1>2 DEF Sums

(* Of one more. *)
LEMMA TotalAppend ==
  ASSUME NEW entries \in Seq(Int), NEW v \in Int
  PROVE  Total(Append(entries, v)) = Total(entries) + v
<1> DEFINE n == Len(entries)
<1>1. PICK y \in Seq(Int) : y = Append(entries, v)
  <2>1. Append(entries, v) \in Seq(Int)
    OBVIOUS
  <2> QED BY <2>1
<1>2. /\ n \in Nat /\ Len(y) = n + 1 /\ \A i \in 1..n : y[i] = entries[i]
      /\ y[n + 1] = v
  BY <1>1
<1>3. PICK f : Sums(f, entries) /\ Total(entries) = f[n]
  BY TotalSums
<1>4. PICK g : Sums(g, y) /\ Total(y) = g[Len(y)]
  BY TotalSums
<1>5. g[n] = f[n]
  <2>1. Differ(entries, y, n, n + 1, 0)
    BY <1>2 DEF Differ
  <2>2. n <= Len(entries) /\ n <= Len(y) /\ n + 1 \in Int /\ n + 1 >= 1 /\ 0 \in Int /\ ~(n + 1 <= n)
    BY <1>2
  <2> HIDE DEF n
  <2>3. g[n] = IF n + 1 <= n THEN f[n] + 0 ELSE f[n]
    BY <1>2, <1>3, <1>4, <2>1, <2>2, SumsDiffer
  <2> QED BY <2>2, <2>3
<1>6. g[n + 1] = g[n] + v
  <2>1. n + 1 \in 1..Len(y) /\ (n + 1) - 1 = n
    BY <1>2
  <2> QED BY <1>2, <1>4, <2>1 DEF Sums
<1> QED BY <1>1, <1>2, <1>3, <1>4, <1>5, <1>6

(* Of another in one place. *)
LEMMA TotalExcept ==
  ASSUME NEW entries \in Seq(Int), NEW p \in 1..Len(entries), NEW v \in Int
  PROVE  Total([entries EXCEPT ![p] = v]) = Total(entries) - entries[p] + v
<1> DEFINE n == Len(entries)
<1>1. PICK y \in Seq(Int) : y = [entries EXCEPT ![p] = v]
  <2>1. [entries EXCEPT ![p] = v] \in Seq(Int)
    OBVIOUS
  <2> QED BY <2>1
<1>2. /\ n \in Nat /\ Len(y) = n /\ entries[p] \in Int
      /\ \A i \in 1..n : y[i] = IF i = p THEN v ELSE entries[i]
  BY <1>1
<1>3. PICK d \in Int : d = v - entries[p]
  BY <1>2
<1>4. PICK f : Sums(f, entries) /\ Total(entries) = f[n]
  BY TotalSums
<1>5. PICK g : Sums(g, y) /\ Total(y) = g[Len(y)]
  BY TotalSums
<1>6. g[n] = f[n] + d
  <2>1. Differ(entries, y, n, p, d)
    BY <1>2, <1>3 DEF Differ
  <2>2. n <= Len(entries) /\ n <= Len(y) /\ p \in Int /\ p >= 1 /\ p <= n
    BY <1>2
  <2> HIDE DEF n
  <2>3. g[n] = IF p <= n THEN f[n] + d ELSE f[n]
    BY <1>2, <1>4, <1>5, <2>1, <2>2, SumsDiffer
  <2> QED BY <2>2, <2>3
<1>7. f[n] \in Int
  BY <1>2, <1>4 DEF Sums
<1> QED BY <1>1, <1>2, <1>3, <1>4, <1>5, <1>6, <1>7

-----------------------------------------------------------------------------
(* What is reserved for subagents and what is given back. *)

(* The constants that costs come from. *)
LEMMA CostBounds ==
  /\ Budget.cost \in Nat /\ \A agent \in SubagentKinds : Requested[agent] \in Nat
  /\ \A cost \in Costs : cost \in Nat
BY TurnAssumption

(* A new one. *)
LEMMA FreshLedger ==
  createBudgetLedger \in Ledgers /\ Balanced(createBudgetLedger)
    /\ createBudgetLedger.used = 0 /\ Len(createBudgetLedger.entries) = 0
<1>1. Budget.cost \in Int
  BY CostBounds
<1>2. 0 \in Int /\ <<>> \in Seq(Int) /\ Len(<<>>) = 0
  OBVIOUS
<1>3. /\ createBudgetLedger \in Ledgers /\ createBudgetLedger.used = 0
      /\ createBudgetLedger.remaining = Budget.cost /\ createBudgetLedger.entries = <<>>
  BY <1>1, <1>2 DEF createBudgetLedger, Ledgers
<1> QED BY <1>1, <1>2, <1>3, TotalOfNone DEF Balanced

(* What is reserved for a subagent is a number, and the ledger balances. *)
LEMMA ReserveFacts ==
  ASSUME NEW ledger \in Ledgers, Balanced(ledger), NEW agent \in SubagentKinds
  PROVE  \E amount \in Int :
           /\ Reserve(ledger, agent) \in Ledgers /\ Balanced(Reserve(ledger, agent))
           /\ Reserve(ledger, agent).used = ledger.used + amount
           /\ Reserve(ledger, agent).entries = Append(ledger.entries, amount)
<1>1. /\ ledger.used \in Int /\ ledger.remaining \in Int /\ ledger.entries \in Seq(Int)
      /\ ledger.used = Total(ledger.entries) /\ ledger.used + ledger.remaining = Budget.cost
  BY DEF Ledgers, Balanced
<1>2. PICK amount \in Int : amount = Min({Requested[agent], ledger.remaining})
  <2>1. PICK x \in Int : x = Requested[agent]
    BY CostBounds
  <2>2. PICK y \in Int : y = ledger.remaining
    BY <1>1
  <2>3. \E m \in {x, y} : \A z \in {x, y} : m <= z
    <3>1. CASE x <= y
      BY <3>1
    <3>2. CASE y <= x
      BY <3>2
    <3> QED BY <3>1, <3>2
  <2>4. Min({x, y}) \in {x, y}
    BY <2>3 DEF Min
  <2> QED BY <2>1, <2>2, <2>4
<1>3. Reserve(ledger, agent) = [used |-> ledger.used + amount,
                                remaining |-> ledger.remaining - amount,
                                entries |-> Append(ledger.entries, amount)]
  BY <1>2 DEF Reserve
<1>4. /\ ledger.used + amount \in Int /\ ledger.remaining - amount \in Int
      /\ Append(ledger.entries, amount) \in Seq(Int)
  BY <1>1
<1>5. /\ Reserve(ledger, agent) \in Ledgers
      /\ Reserve(ledger, agent).used = ledger.used + amount
      /\ Reserve(ledger, agent).remaining = ledger.remaining - amount
      /\ Reserve(ledger, agent).entries = Append(ledger.entries, amount)
  <2>1. PICK u \in Int : u = ledger.used + amount
    BY <1>4
  <2>2. PICK m \in Int : m = ledger.remaining - amount
    BY <1>4
  <2>3. PICK e \in Seq(Int) : e = Append(ledger.entries, amount)
    BY <1>4
  <2>4. Reserve(ledger, agent) = [used |-> u, remaining |-> m, entries |-> e]
    BY <1>3, <2>1, <2>2, <2>3
  <2> QED BY <2>1, <2>2, <2>3, <2>4 DEF Ledgers
<1>6. Total(Append(ledger.entries, amount)) = Total(ledger.entries) + amount
  BY <1>1, TotalAppend
<1>7. Balanced(Reserve(ledger, agent))
  <2>1. (ledger.used + amount) + (ledger.remaining - amount) = ledger.used + ledger.remaining
    BY <1>1
  <2> QED BY <1>1, <1>5, <1>6, <2>1 DEF Balanced
<1> QED BY <1>5, <1>7

(* No kind comes twice. *)
Once(kinds) == \A i, j \in DOMAIN kinds : kinds[i] = kinds[j] => i = j

(* The kinds of a delegation and of the fan-out come once. *)
LEMMA KindsOnce ==
  /\ \A tool : \A kinds \in KindsOf(tool) : Once(kinds)
  /\ Once(AllKinds) /\ AllKinds \in Seq(SubagentKinds)
<1>1. ASSUME NEW tool, NEW kinds \in KindsOf(tool) PROVE Once(kinds)
  <2> DEFINE n == Len(kinds)
             R == {kinds[i] : i \in DOMAIN kinds}
  <2>1. /\ kinds \in Seq(SubagentKinds) /\ IsFiniteSet(R) /\ Cardinality(R) = n
    BY KindsFacts
  <2>2. /\ n \in Nat /\ DOMAIN kinds = 1..n /\ kinds \in [1..n -> R]
        /\ \A x \in R : \E i \in 1..n : kinds[i] = x
    BY <2>1
  <2>3. kinds \in Surjection(1..n, R)
    BY <2>2 DEF Surjection
  <2>4. IsFiniteSet(1..n) /\ Cardinality(1..n) = n
    <3>1. 1 \in Int /\ n \in Int
      BY <2>2
    <3>2. IsFiniteSet(1..n)
      BY <3>1, FS_Interval
    <3>3. Cardinality(1..n) = n
      BY <2>2, <3>1, FS_Interval
    <3> QED BY <3>2, <3>3
  <2> HIDE DEF n, R
  <2>5. kinds \in Injection(1..n, R)
    BY <2>1, <2>3, <2>4, FS_Surjection
  <2> QED BY <2>2, <2>5 DEF Injection, IsInjective, Once
<1>2. Once(AllKinds) /\ AllKinds \in Seq(SubagentKinds)
  BY DEF AllKinds, SubagentKinds, Once
<1> QED BY <1>1, <1>2

(* Where a kind is. *)
Place(kinds, agent) == CHOOSE i \in DOMAIN kinds : kinds[i] = agent

(* What was reserved for it by the first n, in a ledger that had k entries. *)
TakenBy(k, ledger, kinds, n, agent) ==
  IF \E i \in 1..n : kinds[i] = agent THEN ledger.entries[k + Place(kinds, agent)] ELSE 0

(* For all of them. *)
Taken(k, ledger, kinds, n) ==
  TakenBy(k, ledger, kinds, n, "research") + TakenBy(k, ledger, kinds, n, "code")
    + TakenBy(k, ledger, kinds, n, "critic")

(* A ledger after n reservations. *)
ReservedFor(ledger, later, kinds, n) ==
  /\ later \in Ledgers /\ Balanced(later)
  /\ Len(later.entries) = Len(ledger.entries) + n
  /\ later.used = ledger.used + Taken(Len(ledger.entries), later, kinds, n)

(* One more. *)
LEMMA ReserveOne ==
  ASSUME NEW ledger \in Ledgers, NEW kinds \in Seq(SubagentKinds), Once(kinds), NEW later,
         NEW n \in Nat, n < Len(kinds), ReservedFor(ledger, later, kinds, n)
  PROVE  ReservedFor(ledger, Reserve(later, kinds[n + 1]), kinds, n + 1)
<1>1. PICK j \in DOMAIN kinds : j = n + 1
  OBVIOUS
<1>2. PICK agent \in SubagentKinds : agent = kinds[j]
  OBVIOUS
<1>3. PICK k \in Nat : k = Len(ledger.entries)
  BY DEF Ledgers
<1>4. later \in Ledgers /\ Balanced(later) /\ Len(later.entries) = k + n
      /\ later.used = ledger.used + Taken(k, later, kinds, n)
  BY <1>3 DEF ReservedFor
<1>5. PICK next : next = Reserve(later, agent)
  OBVIOUS
<1>6. PICK amount \in Int : /\ next \in Ledgers /\ Balanced(next)
                            /\ next.used = later.used + amount
                            /\ next.entries = Append(later.entries, amount)
  BY <1>4, <1>5, ReserveFacts
<1>7. /\ Len(next.entries) = k + j /\ next.entries[k + j] = amount
      /\ \A i \in 1..(k + n) : next.entries[i] = later.entries[i] /\ later.entries[i] \in Int
  <2>1. PICK s \in Seq(Int) : s = later.entries /\ Len(s) = k + n
    BY <1>4 DEF Ledgers
  <2>2. /\ Len(Append(s, amount)) = Len(s) + 1 /\ Append(s, amount)[Len(s) + 1] = amount
        /\ \A i \in 1..Len(s) : Append(s, amount)[i] = s[i] /\ s[i] \in Int
    OBVIOUS
  <2>3. Len(s) + 1 = k + j
    BY <1>1, <2>1
  <2> QED BY <1>6, <2>1, <2>2, <2>3
<1>8. \A i \in DOMAIN kinds : Place(kinds, kinds[i]) = i
  BY DEF Place, Once
<1>9. DOMAIN kinds = 1..Len(kinds) /\ n \in Nat
  OBVIOUS
<1>10. TakenBy(k, next, kinds, j, agent) = amount /\ TakenBy(k, later, kinds, n, agent) = 0
  <2>1. Place(kinds, agent) = j /\ j \in 1..j
    BY <1>1, <1>2, <1>8
  <2>2. ~\E i \in 1..n : kinds[i] = agent
    <3> SUFFICES ASSUME NEW i \in 1..n, kinds[i] = agent PROVE FALSE
      OBVIOUS
    <3>1. i \in DOMAIN kinds /\ i # j
      BY <1>1, <1>9
    <3> QED BY <1>2, <3>1 DEF Once
  <2> QED BY <1>2, <1>7, <2>1, <2>2 DEF TakenBy
<1>11. \A other \in SubagentKinds \ {agent} :
         /\ TakenBy(k, next, kinds, j, other) = TakenBy(k, later, kinds, n, other)
         /\ TakenBy(k, later, kinds, n, other) \in Int
  <2> SUFFICES ASSUME NEW other \in SubagentKinds \ {agent}
               PROVE  /\ TakenBy(k, next, kinds, j, other) = TakenBy(k, later, kinds, n, other)
                      /\ TakenBy(k, later, kinds, n, other) \in Int
    OBVIOUS
  <2>1. (\E i \in 1..j : kinds[i] = other) <=> (\E i \in 1..n : kinds[i] = other)
    BY <1>1, <1>2
  <2>2. CASE \E i \in 1..n : kinds[i] = other
    <3>1. PICK i \in 1..n : kinds[i] = other
      BY <2>2
    <3>2. Place(kinds, other) = i
      <4>1. i \in DOMAIN kinds
        BY <1>9
      <4> QED BY <1>8, <3>1, <4>1
    <3>3. k + i \in 1..(k + n)
      OBVIOUS
    <3>4. next.entries[k + i] = later.entries[k + i] /\ later.entries[k + i] \in Int
      BY <1>7, <3>3
    <3> QED BY <2>1, <2>2, <3>2, <3>4 DEF TakenBy
  <2>3. CASE ~\E i \in 1..n : kinds[i] = other
    BY <2>1, <2>3 DEF TakenBy
  <2> QED BY <2>2, <2>3
<1>12. Taken(k, next, kinds, j) = Taken(k, later, kinds, n) + amount /\ Taken(k, later, kinds, n) \in Int
  <2>1. CASE agent = "research"
    <3>1. "code" \in SubagentKinds \ {agent} /\ "critic" \in SubagentKinds \ {agent}
      BY <2>1 DEF SubagentKinds
    <3> QED BY <1>10, <1>11, <2>1, <3>1 DEF Taken
  <2>2. CASE agent = "code"
    <3>1. "research" \in SubagentKinds \ {agent} /\ "critic" \in SubagentKinds \ {agent}
      BY <2>2 DEF SubagentKinds
    <3> QED BY <1>10, <1>11, <2>2, <3>1 DEF Taken
  <2>3. CASE agent = "critic"
    <3>1. "research" \in SubagentKinds \ {agent} /\ "code" \in SubagentKinds \ {agent}
      BY <2>3 DEF SubagentKinds
    <3> QED BY <1>10, <1>11, <2>3, <3>1 DEF Taken
  <2> QED BY <2>1, <2>2, <2>3 DEF SubagentKinds
<1>13. next.used = ledger.used + Taken(k, next, kinds, j)
  <2>1. ledger.used \in Int /\ later.used \in Int
    BY <1>4 DEF Ledgers
  <2> QED BY <1>4, <1>6, <1>12, <2>1
<1> QED BY <1>1, <1>2, <1>3, <1>5, <1>6, <1>7, <1>13 DEF ReservedFor

(* All of them. *)
LEMMA ReserveAllFacts ==
  ASSUME NEW ledger \in Ledgers, Balanced(ledger), NEW kinds \in Seq(SubagentKinds), Once(kinds)
  PROVE  ReservedFor(ledger, ReserveAll(ledger, kinds), kinds, Len(kinds))
<1> DEFINE n == Len(kinds)
           step == [p \in Ledgers \X (1..n) |->
                      IF Balanced(p[1]) THEN Reserve(p[1], kinds[p[2]]) ELSE p[1]]
           reserved == CHOOSE f : f = [i \in 0..n |-> IF i = 0 THEN ledger
                                                      ELSE Reserve(f[i - 1], kinds[i])]
<1>1. n \in Nat /\ DOMAIN kinds = 1..n /\ \A i \in 1..n : kinds[i] \in SubagentKinds
  OBVIOUS
<1>2. ReserveAll(ledger, kinds) = reserved[n]
  BY DEF ReserveAll
<1> HIDE DEF n
<1>3. step \in [Ledgers \X (1..n) -> Ledgers]
  <2> SUFFICES ASSUME NEW p \in Ledgers \X (1..n)
               PROVE  (IF Balanced(p[1]) THEN Reserve(p[1], kinds[p[2]]) ELSE p[1]) \in Ledgers
    OBVIOUS
  <2>1. p[1] \in Ledgers /\ p[2] \in 1..n
    OBVIOUS
  <2>2. kinds[p[2]] \in SubagentKinds
    BY <1>1, <2>1
  <2> QED BY <2>1, <2>2, ReserveFacts
<1>4. \A l \in Ledgers, i \in 1..n : Balanced(l) => step[<<l, i>>] = Reserve(l, kinds[i])
  OBVIOUS
<1> HIDE DEF step
<1>5. PICK f \in [0..n -> Ledgers] : Course(f, ledger, step, n)
  BY <1>1, <1>3, CourseExists
<1>6. \A i \in 0..n : f[i] \in Ledgers /\ f[i] = IF i = 0 THEN ledger ELSE step[<<f[i - 1], i>>]
  BY <1>5 DEF Course
<1> DEFINE T == {k \in Nat : k <= n => ReservedFor(ledger, f[k], kinds, k)}
<1>7. 0 \in T
  <2>1. f[0] = ledger
    BY <1>1, <1>6
  <2>2. Taken(Len(ledger.entries), ledger, kinds, 0) = 0
    BY DEF Taken, TakenBy
  <2>3. Len(ledger.entries) \in Nat /\ ledger.used \in Int
    BY DEF Ledgers
  <2>4. ReservedFor(ledger, ledger, kinds, 0)
    BY <2>2, <2>3 DEF ReservedFor
  <2> QED BY <2>1, <2>4
<1>8. ASSUME NEW k \in Nat, k + 1 <= n, ReservedFor(ledger, f[k], kinds, k)
      PROVE  f[k + 1] = Reserve(f[k], kinds[k + 1]) /\ ReservedFor(ledger, f[k + 1], kinds, k + 1)
  <2>1. k + 1 \in 1..n /\ k + 1 \in 0..n /\ (k + 1) - 1 = k /\ k + 1 # 0 /\ k \in 0..n /\ k < n
    BY <1>1, <1>8
  <2>2. f[k] \in Ledgers /\ Balanced(f[k])
    BY <1>6, <1>8, <2>1 DEF ReservedFor
  <2>3. f[k + 1] = step[<<f[k], k + 1>>]
    BY <1>6, <2>1
  <2>4. f[k + 1] = Reserve(f[k], kinds[k + 1])
    BY <1>4, <2>1, <2>2, <2>3
  <2>5. k < Len(kinds)
    BY <2>1 DEF n
  <2> QED BY <1>8, <2>4, <2>5, ReserveOne
<1>9. \A k \in Nat : k <= n => ReservedFor(ledger, f[k], kinds, k)
  <2>1. \A k \in T : k + 1 \in T
    <3> SUFFICES ASSUME NEW k \in T, k + 1 <= n PROVE ReservedFor(ledger, f[k + 1], kinds, k + 1)
      OBVIOUS
    <3>1. k \in Nat /\ k <= n
      BY <1>1
    <3>2. ReservedFor(ledger, f[k], kinds, k)
      BY <3>1
    <3> QED BY <1>8, <3>1, <3>2
  <2>2. T \in SUBSET Nat
    OBVIOUS
  <2> HIDE DEF T
  <2>3. \A k \in Nat : k >= 0 => k \in T
    BY <1>7, <2>1, <2>2, SetInduction
  <2> QED BY <2>3 DEF T
<1>10. f = [i \in 0..n |-> IF i = 0 THEN ledger ELSE Reserve(f[i - 1], kinds[i])]
  <2>1. ASSUME NEW i \in 0..n
        PROVE  f[i] = IF i = 0 THEN ledger ELSE Reserve(f[i - 1], kinds[i])
    <3>1. CASE i = 0
      BY <1>6, <3>1
    <3>2. CASE i # 0
      <4>1. PICK k \in Nat : k + 1 = i /\ k <= n /\ i - 1 = k
        <5>1. i - 1 \in Nat /\ (i - 1) + 1 = i /\ i - 1 <= n
          BY <1>1, <3>2
        <5> QED BY <5>1
      <4>2. ReservedFor(ledger, f[k], kinds, k)
        BY <1>9, <4>1
      <4>3. k + 1 <= n
        BY <1>1, <4>1
      <4>4. f[k + 1] = Reserve(f[k], kinds[k + 1])
        BY <1>8, <4>2, <4>3
      <4> QED BY <3>2, <4>1, <4>4
    <3> QED BY <3>1, <3>2
  <2>2. f = [i \in 0..n |-> f[i]]
    BY <1>5
  <2> QED BY <2>1, <2>2
<1>11. reserved = [i \in 0..n |-> IF i = 0 THEN ledger ELSE Reserve(reserved[i - 1], kinds[i])]
  BY <1>10
<1> HIDE DEF reserved
<1> DEFINE U == {k \in Nat : k <= n => reserved[k] = f[k]}
<1>12. 0 \in U
  <2>1. 0 \in 0..n
    BY <1>1
  <2> QED BY <1>6, <1>11, <2>1
<1>13. \A k \in U : k + 1 \in U
  <2> SUFFICES ASSUME NEW k \in U, k + 1 <= n PROVE reserved[k + 1] = f[k + 1]
    OBVIOUS
  <2>1. k \in Nat /\ k <= n /\ k + 1 \in 0..n /\ k + 1 # 0 /\ (k + 1) - 1 = k
    BY <1>1
  <2>2. reserved[k] = f[k]
    BY <2>1
  <2>3. reserved[k + 1] = Reserve(reserved[k], kinds[k + 1])
    BY <1>11, <2>1
  <2>4. f[k + 1] = Reserve(f[k], kinds[k + 1])
    BY <1>8, <1>9, <2>1
  <2> QED BY <2>2, <2>3, <2>4
<1>14. reserved[n] = f[n]
  <2>1. U \in SUBSET Nat /\ n \in Nat /\ n >= 0
    BY <1>1
  <2> HIDE DEF U
  <2>2. n \in U
    BY <1>12, <1>13, <2>1, SetInduction
  <2> QED BY <2>2 DEF U
<1>15. n <= n
  BY <1>1
<1> QED BY <1>1, <1>2, <1>9, <1>14, <1>15 DEF n

(* Subagents that are launched are entered, and what was reserved for them is what they owe. *)
LEMMA SentFacts ==
  ASSUME NEW ledger \in Ledgers, Balanced(ledger), NEW kinds \in Seq(SubagentKinds), Once(kinds),
         NEW later, later = ReserveAll(ledger, kinds), NEW team, team = Launched(ledger, kinds)
  PROVE  /\ later \in Ledgers /\ Balanced(later) /\ Entered(later, team)
         /\ Owed(later, team) \in Int /\ later.used - Owed(later, team) = ledger.used
<1>1. PICK k \in Nat : k = Len(ledger.entries)
  BY DEF Ledgers
<1>2. PICK n \in Nat : n = Len(kinds) /\ DOMAIN kinds = 1..n
  OBVIOUS
<1>3. /\ later \in Ledgers /\ Balanced(later) /\ Len(later.entries) = k + n
      /\ later.used = ledger.used + Taken(k, later, kinds, n)
  BY <1>1, <1>2, ReserveAllFacts DEF ReservedFor
<1>4. \A i \in DOMAIN kinds : Place(kinds, kinds[i]) = i
  BY DEF Place, Once
<1>5. \A agent \in SubagentKinds :
        /\ (\E i \in 1..n : kinds[i] = agent) =>
             team[agent] = [at |-> "sent", cost |-> 0, entry |-> k + Place(kinds, agent)]
        /\ ~(\E i \in 1..n : kinds[i] = agent) =>
             team[agent] = [at |-> "none", entry |-> 0, cost |-> 0]
  BY <1>1, <1>2 DEF Launched, NoChild, Place
<1>6. ASSUME NEW agent \in SubagentKinds
      PROVE  /\ HasEntry(later, team, agent)
             /\ Owes(later, team, agent) = TakenBy(k, later, kinds, n, agent)
             /\ Owes(later, team, agent) \in Int
             /\ team[agent].at # "none" =>
                  \E i \in 1..n : kinds[i] = agent /\ team[agent].entry = k + i
  <2>1. CASE \E i \in 1..n : kinds[i] = agent
    <3>1. PICK i \in 1..n : kinds[i] = agent
      BY <2>1
    <3>2. Place(kinds, agent) = i
      BY <1>2, <1>4, <3>1
    <3>3. team[agent] = [at |-> "sent", cost |-> 0, entry |-> k + i]
      BY <1>5, <2>1, <3>2
    <3>4. team[agent].at = "sent" /\ team[agent].cost = 0 /\ team[agent].entry = k + i
      BY <3>3
    <3>5. k + i \in 1..Len(later.entries)
      BY <1>3
    <3>6. later.entries[k + i] \in Int
      BY <1>3, <3>5 DEF Ledgers
    <3>7. HasEntry(later, team, agent)
      BY <3>4, <3>5 DEF HasEntry
    <3>8. Owes(later, team, agent) = later.entries[k + i]
      BY <3>4, <3>6 DEF Owes
    <3>9. TakenBy(k, later, kinds, n, agent) = later.entries[k + i]
      BY <2>1, <3>2 DEF TakenBy
    <3> QED BY <3>1, <3>4, <3>6, <3>7, <3>8, <3>9
  <2>2. CASE ~\E i \in 1..n : kinds[i] = agent
    <3>1. team[agent] = [at |-> "none", entry |-> 0, cost |-> 0]
      BY <1>5, <2>2
    <3>2. team[agent].at = "none"
      BY <3>1
    <3> QED BY <2>2, <3>2 DEF HasEntry, Owes, TakenBy
  <2> QED BY <2>1, <2>2
<1>7. ASSUME NEW agent \in SubagentKinds, NEW other \in SubagentKinds, agent # other,
             team[agent].at # "none", team[other].at # "none"
      PROVE  team[agent].entry # team[other].entry
  <2>1. PICK i \in 1..n : kinds[i] = agent /\ team[agent].entry = k + i
    BY <1>6, <1>7
  <2>2. PICK j \in 1..n : kinds[j] = other /\ team[other].entry = k + j
    BY <1>6, <1>7
  <2>3. i # j
    BY <1>7, <2>1, <2>2
  <2> QED BY <2>1, <2>2, <2>3
<1>8. Entered(later, team)
  BY <1>6, <1>7 DEF Entered
<1>9. Owed(later, team) = Taken(k, later, kinds, n) /\ Owed(later, team) \in Int
  BY <1>6 DEF Owed, Taken, SubagentKinds
<1>10. ledger.used \in Int
  BY DEF Ledgers
<1> QED BY <1>3, <1>8, <1>9, <1>10

(* An entry is brought in line with the cost. *)
LEMMA ReconcileFacts ==
  ASSUME NEW ledger \in Ledgers, Balanced(ledger), NEW entry \in 1..Len(ledger.entries),
         NEW cost \in Int, NEW next, next = Reconcile(ledger, entry, cost)
  PROVE  /\ next \in Ledgers /\ Balanced(next) /\ Len(next.entries) = Len(ledger.entries)
         /\ next.used = ledger.used - (ledger.entries[entry] - cost)
         /\ \A i \in 1..Len(ledger.entries) : i # entry => next.entries[i] = ledger.entries[i]
<1>1. /\ ledger.used \in Int /\ ledger.remaining \in Int /\ ledger.entries \in Seq(Int)
      /\ ledger.used = Total(ledger.entries) /\ ledger.used + ledger.remaining = Budget.cost
  BY DEF Ledgers, Balanced
<1>2. PICK v \in Int : v = ledger.entries[entry]
  BY <1>1
<1>3. PICK u \in Int : u = ledger.used - (v - cost)
  BY <1>1
<1>4. PICK m \in Int : m = ledger.remaining + (v - cost)
  BY <1>1
<1>5. PICK e \in Seq(Int) : /\ e = [ledger.entries EXCEPT ![entry] = cost]
                            /\ Len(e) = Len(ledger.entries)
                            /\ \A i \in 1..Len(ledger.entries) : i # entry => e[i] = ledger.entries[i]
  <2>1. PICK s \in Seq(Int) : s = ledger.entries
    BY <1>1
  <2>2. entry \in 1..Len(s)
    BY <2>1
  <2>3. /\ [s EXCEPT ![entry] = cost] \in Seq(Int) /\ Len([s EXCEPT ![entry] = cost]) = Len(s)
        /\ \A i \in 1..Len(s) : i # entry => [s EXCEPT ![entry] = cost][i] = s[i]
    BY <2>2
  <2> QED BY <2>1, <2>3
<1>6. next = [used |-> u, remaining |-> m, entries |-> e]
  BY <1>2, <1>3, <1>4, <1>5 DEF Reconcile
<1>7. next \in Ledgers /\ next.used = u /\ next.remaining = m /\ next.entries = e
  BY <1>6 DEF Ledgers
<1>8. Total(e) = Total(ledger.entries) - v + cost
  BY <1>1, <1>2, <1>5, TotalExcept
<1>9. Balanced(next)
  <2>1. u = Total(ledger.entries) - v + cost
    BY <1>1, <1>3
  <2>2. u + m = ledger.used + ledger.remaining
    BY <1>1, <1>3, <1>4, SMTT(30)
  <2> QED BY <1>1, <1>7, <1>8, <2>1, <2>2 DEF Balanced
<1> QED BY <1>2, <1>3, <1>5, <1>7, <1>9

(* For a subagent. *)
LEMMA ReconcileOfFacts ==
  ASSUME NEW ledger \in Ledgers, Balanced(ledger), Entered(ledger, children),
         NEW agent \in SubagentKinds, NEW next, next = ReconcileOf(ledger, agent)
  PROVE  /\ next \in Ledgers /\ Balanced(next) /\ Entered(next, children)
         /\ next.used = ledger.used - Owes(ledger, children, agent)
         /\ Owes(ledger, children, agent) \in Int
         /\ \A other \in SubagentKinds \ {agent} :
              Owes(next, children, other) = Owes(ledger, children, other)
<1>1. CASE children[agent].at = "none"
  <2>1. next = ledger
    BY <1>1 DEF ReconcileOf, Involved
  <2>2. Owes(ledger, children, agent) = 0 /\ ledger.used \in Int
    BY <1>1 DEF Owes, Ledgers
  <2> QED BY <2>1, <2>2
<1>2. CASE children[agent].at # "none"
  <2>1. next = Reconcile(ledger, children[agent].entry, children[agent].cost)
    BY <1>2 DEF ReconcileOf, Involved
  <2>2. children[agent].entry \in 1..Len(ledger.entries) /\ children[agent].cost \in Int
    BY <1>2 DEF Entered, HasEntry
  <2>3. /\ next \in Ledgers /\ Balanced(next) /\ Len(next.entries) = Len(ledger.entries)
        /\ next.used = ledger.used - (ledger.entries[children[agent].entry] - children[agent].cost)
        /\ \A i \in 1..Len(ledger.entries) :
             i # children[agent].entry => next.entries[i] = ledger.entries[i]
    BY <2>1, <2>2, ReconcileFacts
  <2>4. Owes(ledger, children, agent) = ledger.entries[children[agent].entry] - children[agent].cost
    BY <1>2 DEF Owes
  <2>5. ledger.entries[children[agent].entry] \in Int
    BY <2>2 DEF Ledgers
  <2>6. \A other \in SubagentKinds : HasEntry(next, children, other)
    BY <2>3 DEF Entered, HasEntry
  <2>7. Entered(next, children)
    BY <2>6 DEF Entered
  <2>8. ASSUME NEW other \in SubagentKinds \ {agent}
        PROVE  Owes(next, children, other) = Owes(ledger, children, other)
    <3>1. CASE children[other].at = "none"
      BY <3>1 DEF Owes
    <3>2. CASE children[other].at # "none"
      <4>1. /\ children[other].entry \in 1..Len(ledger.entries)
            /\ children[other].entry # children[agent].entry
        BY <1>2, <3>2 DEF Entered, HasEntry
      <4> QED BY <2>3, <4>1 DEF Owes
    <3> QED BY <3>1, <3>2
  <2> QED BY <2>2, <2>3, <2>4, <2>5, <2>7, <2>8
<1> QED BY <1>1, <1>2

(* For all of them. *)
LEMMA ReconcileAllFacts ==
  ASSUME NEW ledger \in Ledgers, Balanced(ledger), Entered(ledger, children),
         NEW last, last = ReconcileAll(ledger)
  PROVE  /\ last \in Ledgers /\ Balanced(last)
         /\ last.used = ledger.used - Owed(ledger, children)
<1>0. /\ "research" \in SubagentKinds /\ "code" \in SubagentKinds \ {"research"}
      /\ "critic" \in SubagentKinds \ {"research"} /\ "critic" \in SubagentKinds \ {"code"}
      /\ "code" \in SubagentKinds /\ "critic" \in SubagentKinds
  BY DEF SubagentKinds
<1>1. PICK first : first = ReconcileOf(ledger, "research")
  OBVIOUS
<1>2. PICK second : second = ReconcileOf(first, "code")
  OBVIOUS
<1>3. last = ReconcileOf(second, "critic")
  BY <1>1, <1>2 DEF ReconcileAll
<1>4. /\ first \in Ledgers /\ Balanced(first) /\ Entered(first, children)
      /\ first.used = ledger.used - Owes(ledger, children, "research")
      /\ Owes(ledger, children, "research") \in Int
      /\ Owes(first, children, "code") = Owes(ledger, children, "code")
      /\ Owes(first, children, "critic") = Owes(ledger, children, "critic")
  BY <1>0, <1>1, ReconcileOfFacts, SMTT(30)
<1>5. /\ second \in Ledgers /\ Balanced(second) /\ Entered(second, children)
      /\ second.used = first.used - Owes(first, children, "code")
      /\ Owes(first, children, "code") \in Int
      /\ Owes(second, children, "critic") = Owes(first, children, "critic")
  <2>1. \A other \in SubagentKinds \ {"code"} : Owes(second, children, other) = Owes(first, children, other)
    BY <1>0, <1>2, <1>4, ReconcileOfFacts
  <2>2. /\ second \in Ledgers /\ Balanced(second) /\ Entered(second, children)
        /\ second.used = first.used - Owes(first, children, "code")
        /\ Owes(first, children, "code") \in Int
    BY <1>0, <1>2, <1>4, ReconcileOfFacts, SMTT(30)
  <2> QED BY <1>0, <2>1, <2>2
<1>6. /\ last \in Ledgers /\ Balanced(last)
      /\ last.used = second.used - Owes(second, children, "critic")
      /\ Owes(second, children, "critic") \in Int
  BY <1>0, <1>3, <1>5, ReconcileOfFacts
<1>7. ledger.used \in Int
  BY DEF Ledgers
<1> QED BY <1>4, <1>5, <1>6, <1>7 DEF Owed

-----------------------------------------------------------------------------
(* The steps of a turn and what it costs. *)

(* Both ledgers balance. *)
LEMMA BothBalance ==
  ASSUME LedgersTyped
  PROVE  LedgersBalance <=> Balanced(ledgers.tools) /\ Balanced(ledgers.fan)
<1>1. DOMAIN ledgers = {"tools", "fan"}
  BY DEF LedgersTyped
<1> QED BY <1>1 DEF LedgersBalance, Balanced

(* What is known in the next state. *)
LEMMA LedgersNext ==
  ASSUME NEW tools \in Ledgers, Balanced(tools), NEW fan \in Ledgers, Balanced(fan),
         ledgers' = [tools |-> tools, fan |-> fan],
         totalUsage' \in Int, billed' \in Int, response'.cost \in Int
  PROVE  LedgersTyped' /\ LedgersBalance' /\ ledgers'.tools = tools /\ ledgers'.fan = fan
<1>1. ledgers'.tools = tools /\ ledgers'.fan = fan /\ DOMAIN ledgers' = {"tools", "fan"}
  OBVIOUS
<1>2. LedgersTyped'
  BY <1>1 DEF LedgersTyped
<1>3. LedgersBalance'
  BY <1>1 DEF LedgersBalance, Balanced
<1> QED BY <1>1, <1>2, <1>3

(* Before the loop is left. *)
InLoop == at \in {"boundary", "calling", "streaming", "tools"}

(* Nothing is spent. *)
LEMMA NothingSpent ==
  ASSUME LedgerInv, UNCHANGED <<ledgers, children, totalUsage, billed>>, response'.cost \in Int,
         \/ UNCHANGED <<at, batch>>
         \/ at' = "idle"
         \/ InLoop /\ InLoop'
  PROVE  LedgerInv'
<1>1. LedgersTyped' /\ LedgersBalance'
  BY DEF LedgerInv, LedgersTyped, LedgersBalance
<1>2. CASE UNCHANGED <<at, batch>>
  BY <1>1, <1>2 DEF LedgerInv, SentEntered, InUse, AllBilled, Active, FanUnused, Going
<1>3. CASE at' = "idle"
  BY <1>1, <1>3 DEF LedgerInv, SentEntered, AllBilled, Active, FanUnused, Going
<1>4. CASE InLoop /\ InLoop'
  BY <1>1, <1>4 DEF LedgerInv, SentEntered, AllBilled, Active, FanUnused, Going, InLoop
<1> QED BY <1>2, <1>3, <1>4

(* The loop is left. *)
LEMMA LoopLeft ==
  ASSUME LedgerInv, InLoop, EndLoop, UNCHANGED response, totalUsage' \in Int, billed' \in Int,
         billed' - totalUsage' = billed - totalUsage
  PROVE  LedgerInv'
<1>1. /\ LedgersTyped /\ ledgers.tools \in Ledgers /\ Balanced(ledgers.tools)
      /\ ledgers.fan \in Ledgers /\ Balanced(ledgers.fan)
      /\ totalUsage \in Int /\ billed \in Int /\ response.cost \in Int
      /\ ledgers = [tools |-> ledgers.tools, fan |-> ledgers.fan]
  BY BothBalance DEF LedgerInv, LedgersTyped
<1>2. /\ ledgers.fan = createBudgetLedger
      /\ billed = totalUsage + ledgers.tools.used + ledgers.fan.used - 0
  BY DEF LedgerInv, InLoop, FanUnused, Going, AllBilled, Active
<1>3. ledgers.tools.used \in Int /\ ledgers.fan.used = 0
  BY <1>1, <1>2, FreshLedger DEF Ledgers
<1>4. billed' = totalUsage' + ledgers.tools.used
  BY <1>1, <1>2, <1>3
<1>5. batch' = <<>>
  BY DEF EndLoop
<1>6. CASE at' = "ending" /\ UNCHANGED delegation
  <2>1. LedgersTyped' /\ LedgersBalance' /\ ledgers' = ledgers
    BY <1>1, <1>6, LedgersNext DEF delegation
  <2>2. AllBilled'
    BY <1>3, <1>4, <1>6, <2>1 DEF AllBilled
  <2> QED BY <1>6, <2>1, <2>2 DEF LedgerInv, SentEntered, FanUnused, Going
<1>7. CASE /\ at' = "children"
           /\ ledgers' = [ledgers EXCEPT !.fan = ReserveAll(createBudgetLedger, AllKinds)]
           /\ children' = Launched(createBudgetLedger, AllKinds)
  <2>1. PICK fan : fan = ReserveAll(createBudgetLedger, AllKinds)
    OBVIOUS
  <2>2. /\ fan \in Ledgers /\ Balanced(fan) /\ Entered(fan, children')
        /\ Owed(fan, children') \in Int /\ fan.used - Owed(fan, children') = 0
    BY <1>7, <2>1, FreshLedger, KindsOnce, SentFacts
  <2>3. ledgers' = [tools |-> ledgers.tools, fan |-> fan]
    BY <1>1, <1>7, <2>1
  <2>4. /\ LedgersTyped' /\ LedgersBalance'
        /\ ledgers'.tools = ledgers.tools /\ ledgers'.fan = fan
    BY <1>1, <2>2, <2>3, LedgersNext
  <2>5. InUse' = fan
    BY <1>5, <2>4 DEF InUse
  <2>6. SentEntered'
    BY <2>2, <2>5 DEF SentEntered
  <2>7. fan.used \in Int
    BY <2>2 DEF Ledgers
  <2>8. AllBilled'
    <3>1. Owed(fan, children') = fan.used
      <4>1. PICK owed \in Int : owed = Owed(fan, children')
        BY <2>2
      <4>2. PICK used \in Int : used = fan.used
        BY <2>7
      <4>3. used - owed = 0
        BY <2>2, <4>1, <4>2
      <4>4. used = owed
        BY <4>3
      <4> QED BY <4>1, <4>2, <4>4
    <3>2. billed' = totalUsage' + ledgers'.tools.used + ledgers'.fan.used - Owed(fan, children')
      BY <1>1, <1>3, <1>4, <2>4, <2>7, <3>1
    <3> QED BY <1>7, <2>5, <3>2 DEF AllBilled
  <2>9. FanUnused'
    BY <1>5, <1>7 DEF FanUnused, Going
  <2> QED BY <2>4, <2>6, <2>8, <2>9 DEF LedgerInv
<1> QED BY <1>6, <1>7 DEF EndLoop

(* A turn starts with new ledgers. *)
LEMMA StartSpends ==
  ASSUME StartTurn
  PROVE  LedgerInv'
<1>1. /\ at' = "boundary" /\ response' = NoResponse /\ totalUsage' = 0 /\ billed' = 0
      /\ ledgers' = [tools |-> createBudgetLedger, fan |-> createBudgetLedger]
  BY DEF StartTurn
<1>2. response'.cost = 0
  BY <1>1 DEF NoResponse
<1>3. /\ LedgersTyped' /\ LedgersBalance'
      /\ ledgers'.tools = createBudgetLedger /\ ledgers'.fan = createBudgetLedger
  BY <1>1, <1>2, FreshLedger, LedgersNext
<1>4. AllBilled'
  BY <1>1, <1>3, FreshLedger DEF AllBilled
<1> QED BY <1>1, <1>3, <1>4 DEF LedgerInv, SentEntered, FanUnused

(* A response. *)
LEMMA ResponseSpends ==
  ASSUME LedgerInv, Respond
  PROVE  LedgerInv'
<1>1. /\ at = "streaming" /\ UNCHANGED response
      /\ \E cost \in Costs :
           totalUsage' = totalUsage + response.cost + cost /\ billed' = billed + response.cost + cost
  BY DEF Respond
<1>2. totalUsage \in Int /\ billed \in Int /\ response.cost \in Int
  BY DEF LedgerInv, LedgersTyped
<1>3. PICK spent \in Int : totalUsage' = totalUsage + spent /\ billed' = billed + spent
  <2>1. PICK cost \in Nat :
          totalUsage' = totalUsage + response.cost + cost /\ billed' = billed + response.cost + cost
    BY <1>1, CostBounds
  <2>2. response.cost + cost \in Int
    BY <1>2
  <2>3. /\ totalUsage' = totalUsage + (response.cost + cost)
        /\ billed' = billed + (response.cost + cost)
    BY <1>2, <2>1
  <2> QED BY <2>2, <2>3
<1>4. totalUsage' \in Int /\ billed' \in Int /\ billed' - totalUsage' = billed - totalUsage
  BY <1>2, <1>3
<1>5. InLoop
  BY <1>1 DEF InLoop
<1>6. CASE EndLoop
  BY <1>1, <1>4, <1>5, <1>6, LoopLeft
<1>7. CASE at' = "tools" /\ UNCHANGED delegation
  <2>1. /\ ledgers.tools \in Ledgers /\ Balanced(ledgers.tools)
        /\ ledgers.fan \in Ledgers /\ Balanced(ledgers.fan)
        /\ ledgers = [tools |-> ledgers.tools, fan |-> ledgers.fan]
    BY BothBalance DEF LedgerInv, LedgersTyped
  <2>2. ledgers' = ledgers
    BY <1>7 DEF delegation
  <2>3. LedgersTyped' /\ LedgersBalance'
    BY <1>1, <1>2, <1>4, <2>1, <2>2, LedgersNext
  <2>4. AllBilled'
    <3>1. billed = totalUsage + ledgers.tools.used + ledgers.fan.used - 0
      BY <1>1 DEF LedgerInv, AllBilled, Active
    <3>2. ledgers.tools.used \in Int /\ ledgers.fan.used \in Int
      BY <2>1 DEF Ledgers
    <3>3. billed' = totalUsage' + ledgers.tools.used + ledgers.fan.used - 0
      BY <1>2, <1>3, <3>1, <3>2
    <3> QED BY <1>7, <2>2, <3>3 DEF AllBilled
  <2>5. FanUnused'
    BY <1>1, <2>2 DEF LedgerInv, FanUnused, Going
  <2> QED BY <1>7, <2>3, <2>4, <2>5 DEF LedgerInv, SentEntered
<1> QED BY <1>6, <1>7 DEF Respond

(* A delegation reserves. *)
LEMMA DelegateReserves ==
  ASSUME LedgerInv, Delegate
  PROVE  LedgerInv'
<1>1. /\ at = "tools" /\ batch # <<>> /\ at' = "children"
      /\ UNCHANGED <<batch, response, totalUsage, billed>>
  BY DEF Delegate, MayCall
<1>2. PICK kinds \in KindsOf(Head(batch)) :
        /\ ledgers' = [ledgers EXCEPT !.tools = ReserveAll(@, kinds)]
        /\ children' = Launched(ledgers.tools, kinds)
  BY DEF Delegate
<1>3. kinds \in Seq(SubagentKinds) /\ Once(kinds)
  BY KindsFacts, KindsOnce
<1>4. /\ LedgersTyped /\ ledgers.tools \in Ledgers /\ Balanced(ledgers.tools)
      /\ ledgers.fan \in Ledgers /\ Balanced(ledgers.fan)
      /\ totalUsage \in Int /\ billed \in Int /\ response.cost \in Int
      /\ ledgers = [tools |-> ledgers.tools, fan |-> ledgers.fan]
  BY BothBalance DEF LedgerInv, LedgersTyped
<1>5. PICK tools : tools = ReserveAll(ledgers.tools, kinds)
  OBVIOUS
<1>6. /\ tools \in Ledgers /\ Balanced(tools) /\ Entered(tools, children')
      /\ Owed(tools, children') \in Int /\ tools.used - Owed(tools, children') = ledgers.tools.used
  BY <1>2, <1>3, <1>4, <1>5, SentFacts
<1>7. ledgers' = [tools |-> tools, fan |-> ledgers.fan]
  BY <1>2, <1>4, <1>5
<1>8. LedgersTyped' /\ LedgersBalance' /\ ledgers'.tools = tools /\ ledgers'.fan = ledgers.fan
  BY <1>1, <1>4, <1>6, <1>7, LedgersNext
<1>9. InUse' = tools
  BY <1>1, <1>8 DEF InUse
<1>10. AllBilled'
  <2>1. billed = totalUsage + ledgers.tools.used + ledgers.fan.used - 0
    BY <1>1 DEF LedgerInv, AllBilled, Active
  <2>2. tools.used \in Int /\ ledgers.tools.used \in Int /\ ledgers.fan.used \in Int
    BY <1>4, <1>6 DEF Ledgers
  <2>3. billed = totalUsage + tools.used + ledgers.fan.used - Owed(tools, children')
    BY <1>4, <1>6, <2>1, <2>2
  <2> QED BY <1>1, <1>8, <1>9, <2>3 DEF AllBilled
<1>11. FanUnused'
  BY <1>1, <1>8 DEF LedgerInv, FanUnused, Going
<1>12. SentEntered'
  BY <1>6, <1>9 DEF SentEntered
<1> QED BY <1>8, <1>10, <1>11, <1>12 DEF LedgerInv

(* A subagent that returns has used what it cost. *)
LEMMA ChildSpends ==
  ASSUME LedgerInv, ChildrenTyped, NEW agent \in SubagentKinds, ChildReturns(agent)
  PROVE  LedgerInv'
<1>1. /\ at = "children" /\ children[agent].at = "sent"
      /\ UNCHANGED <<at, batch, totalUsage, response, ledgers>>
  BY DEF ChildReturns, loop
<1>2. PICK cost \in Int : Returns(agent, cost) /\ billed' = billed + cost
  <2>1. billed \in Int
    BY DEF LedgerInv, LedgersTyped
  <2>2. CASE agent = "critic"
    <3>1. Returns(agent, 0) /\ billed' = billed
      BY <2>2 DEF ChildReturns
    <3>2. billed' = billed + 0
      BY <2>1, <3>1
    <3> QED BY <3>1, <3>2
  <2>3. CASE agent # "critic"
    BY <2>3, CostBounds DEF ChildReturns
  <2> QED BY <2>2, <2>3
<1>3. /\ \A other \in SubagentKinds \ {agent} : children'[other] = children[other]
      /\ children'[agent].at = "returned" /\ children'[agent].cost = cost
      /\ children'[agent].entry = children[agent].entry
  <2>1. /\ children' = [children EXCEPT ![agent] = [@ EXCEPT !.at = "returned", !.cost = cost]]
        /\ children = [k \in SubagentKinds |-> children[k]]
    BY <1>2 DEF Returns, ChildrenTyped
  <2>2. children[agent] = [at |-> children[agent].at, entry |-> children[agent].entry,
                           cost |-> children[agent].cost]
    BY DEF ChildrenTyped, IsChild
  <2>3. children'[agent] = [at |-> "returned", entry |-> children[agent].entry, cost |-> cost]
    BY <2>1, <2>2
  <2> QED BY <2>1, <2>3
<1>4. PICK ledger : ledger = InUse /\ InUse' = ledger
  BY <1>1 DEF InUse
<1>5. Entered(ledger, children) /\ ledger \in Ledgers
  BY <1>1, <1>4 DEF LedgerInv, SentEntered, LedgersTyped, InUse
<1>6. /\ children[agent].entry \in 1..Len(ledger.entries) /\ children[agent].cost = 0
      /\ ledger.entries[children[agent].entry] \in Int
  BY <1>1, <1>5 DEF Entered, HasEntry, Ledgers
<1>7. \A other \in SubagentKinds : HasEntry(ledger, children', other)
  BY <1>2, <1>3, <1>5, <1>6 DEF Entered, HasEntry
<1>8. Entered(ledger, children')
  <2>1. \A other \in SubagentKinds :
          /\ children'[other].entry = children[other].entry
          /\ children'[other].at # "none" <=> children[other].at # "none"
    BY <1>1, <1>3
  <2> QED BY <1>5, <1>7, <2>1 DEF Entered
<1>9. \A other \in SubagentKinds : Owes(ledger, children, other) \in Int
  BY <1>5 DEF Entered, HasEntry, Owes, Ledgers
<1>10. Owes(ledger, children', agent) = Owes(ledger, children, agent) - cost
  BY <1>1, <1>3, <1>6 DEF Owes
<1>11. \A other \in SubagentKinds \ {agent} :
         Owes(ledger, children', other) = Owes(ledger, children, other)
  BY <1>3 DEF Owes
<1>12. /\ Owed(ledger, children') = Owed(ledger, children) - cost
       /\ Owed(ledger, children) \in Int
  <2>1. CASE agent = "research"
    <3>1. "code" \in SubagentKinds \ {agent} /\ "critic" \in SubagentKinds \ {agent}
      BY <2>1 DEF SubagentKinds
    <3> QED BY <1>9, <1>10, <1>11, <2>1, <3>1 DEF Owed
  <2>2. CASE agent = "code"
    <3>1. "research" \in SubagentKinds \ {agent} /\ "critic" \in SubagentKinds \ {agent}
      BY <2>2 DEF SubagentKinds
    <3> QED BY <1>9, <1>10, <1>11, <2>2, <3>1 DEF Owed
  <2>3. CASE agent = "critic"
    <3>1. "research" \in SubagentKinds \ {agent} /\ "code" \in SubagentKinds \ {agent}
      BY <2>3 DEF SubagentKinds
    <3> QED BY <1>9, <1>10, <1>11, <2>3, <3>1 DEF Owed
  <2> QED BY <2>1, <2>2, <2>3 DEF SubagentKinds
<1>13. /\ totalUsage \in Int /\ billed \in Int /\ ledgers.tools.used \in Int
       /\ ledgers.fan.used \in Int
  BY DEF LedgerInv, LedgersTyped, Ledgers
<1>14. LedgersTyped' /\ LedgersBalance'
  BY <1>1, <1>2, <1>13 DEF LedgerInv, LedgersTyped, LedgersBalance
<1>15. AllBilled'
  <2>1. billed = totalUsage + ledgers.tools.used + ledgers.fan.used - Owed(ledger, children)
    BY <1>1, <1>4 DEF LedgerInv, AllBilled, Active
  <2>2. billed' = totalUsage + ledgers.tools.used + ledgers.fan.used - Owed(ledger, children')
    BY <1>2, <1>12, <1>13, <2>1
  <2> QED BY <1>1, <1>4, <2>2 DEF AllBilled
<1>16. SentEntered' /\ FanUnused'
  BY <1>1, <1>4, <1>8 DEF LedgerInv, SentEntered, FanUnused, Going
<1> QED BY <1>14, <1>15, <1>16 DEF LedgerInv

(* When all returned, the ledger has what they cost. *)
LEMMA ChildrenReconciled ==
  ASSUME LedgerInv, ChildrenReturned
  PROVE  LedgerInv'
<1>1. at = "children" /\ UNCHANGED <<response, totalUsage, billed>>
  BY DEF ChildrenReturned
<1>2. /\ LedgersTyped /\ ledgers.tools \in Ledgers /\ Balanced(ledgers.tools)
      /\ ledgers.fan \in Ledgers /\ Balanced(ledgers.fan)
      /\ totalUsage \in Int /\ billed \in Int /\ response.cost \in Int
      /\ ledgers = [tools |-> ledgers.tools, fan |-> ledgers.fan]
      /\ ledgers.tools.used \in Int /\ ledgers.fan.used \in Int
  BY BothBalance DEF LedgerInv, LedgersTyped, Ledgers
<1>3. /\ Entered(InUse, children)
      /\ billed = totalUsage + ledgers.tools.used + ledgers.fan.used - Owed(InUse, children)
  BY <1>1 DEF LedgerInv, SentEntered, AllBilled, Active
<1>4. PICK last : last = ReconcileAll(InUse)
  OBVIOUS
<1>5. last \in Ledgers /\ Balanced(last) /\ last.used = InUse.used - Owed(InUse, children)
  BY <1>2, <1>3, <1>4, ReconcileAllFacts DEF InUse
<1>6. last.used \in Int /\ Owed(InUse, children) \in Int
  <2>1. PICK ledger \in Ledgers : ledger = InUse
    BY <1>2 DEF InUse
  <2>2. Entered(ledger, children)
    BY <1>3, <2>1
  <2>3. \A agent \in SubagentKinds : Owes(ledger, children, agent) \in Int
    BY <2>2 DEF Entered, HasEntry, Owes, Ledgers
  <2>4. Owed(ledger, children) \in Int
    BY <2>3 DEF Owed, SubagentKinds
  <2> QED BY <1>5, <2>1, <2>4 DEF Ledgers
<1>7. CASE batch = <<>>
  <2>1. InUse = ledgers.fan /\ at' = "ending" /\ batch' = batch
        /\ ledgers' = [tools |-> ledgers.tools, fan |-> last]
    BY <1>2, <1>4, <1>7 DEF InUse, ChildrenReturned
  <2>2. /\ LedgersTyped' /\ LedgersBalance'
        /\ ledgers'.tools = ledgers.tools /\ ledgers'.fan = last
    BY <1>1, <1>2, <1>5, <2>1, LedgersNext
  <2>3. billed = totalUsage + ledgers.tools.used + last.used - 0
    BY <1>2, <1>3, <1>5, <1>6, <2>1
  <2> QED BY <1>1, <2>1, <2>2, <2>3 DEF LedgerInv, SentEntered, AllBilled, FanUnused, Going
<1>8. CASE batch # <<>>
  <2>1. /\ InUse = ledgers.tools /\ at' \in {"boundary", "tools"}
        /\ ledgers' = [tools |-> last, fan |-> ledgers.fan]
    BY <1>2, <1>4, <1>8 DEF InUse, ChildrenReturned, Persisted, AfterCall
  <2>2. /\ LedgersTyped' /\ LedgersBalance'
        /\ ledgers'.tools = last /\ ledgers'.fan = ledgers.fan
    BY <1>1, <1>2, <1>5, <2>1, LedgersNext
  <2>3. billed = totalUsage + last.used + ledgers.fan.used - 0
    BY <1>2, <1>3, <1>5, <1>6, <2>1
  <2>4. ledgers.fan = createBudgetLedger
    BY <1>1, <1>8 DEF LedgerInv, FanUnused, Going
  <2> QED BY <1>1, <2>1, <2>2, <2>3, <2>4 DEF LedgerInv, SentEntered, AllBilled, FanUnused
<1> QED BY <1>7, <1>8

(* Every step. *)
LEMMA LedgersKept ==
  ASSUME TurnTypes, Placed, LedgerInv, [TurnNext]_turnVars
  PROVE  LedgerInv'
<1>1. ChildrenTyped /\ response.cost \in Int
  BY DEF TurnTypes, LedgerInv, LedgersTyped
<1>2. CASE UNCHANGED turnVars \/ Steer \/ LateResponse
  <2>1. UNCHANGED <<ledgers, children, totalUsage, billed, response, at, batch>>
    BY <1>2 DEF turnVars, Steer, LateResponse, loop, delegation
  <2> QED BY <1>1, <2>1, NothingSpent
<1>3. CASE Terminal \/ Complete \/ Fail \/ CancelTurn
  <2>1. UNCHANGED <<ledgers, children, totalUsage, billed, response>> /\ at' = "idle"
    BY <1>3 DEF Terminal, Complete, Fail, CancelTurn, delegation
  <2> QED BY <1>1, <2>1, NothingSpent
<1>4. CASE BeginModelCall \/ BuildContext \/ Pause \/ CallTool
  <2>1. UNCHANGED <<ledgers, children, totalUsage, billed>> /\ InLoop /\ InLoop'
    BY <1>4
    DEF BeginModelCall, BuildContext, Pause, CallTool, delegation, InLoop, MayCall, Persisted,
        AfterCall
  <2>2. response'.cost \in Int
    <3>1. CASE Pause
      <4>1. PICK cost \in Nat : response' = [cost |-> response.cost + cost, pauses |-> response.pauses + 1]
        BY <3>1, CostBounds DEF Pause
      <4>2. response'.cost = response.cost + cost
        BY <4>1
      <4> QED BY <1>1, <4>2
    <3>2. CASE BuildContext
      BY <3>2 DEF BuildContext, NoResponse
    <3>3. CASE BeginModelCall \/ CallTool
      BY <1>1, <3>3 DEF BeginModelCall, CallTool
    <3> QED BY <1>4, <3>1, <3>2, <3>3
  <2> QED BY <2>1, <2>2, NothingSpent
<1>5. CASE StopAtBoundary \/ StopInBatch
  <2>1. InLoop /\ EndLoop /\ UNCHANGED <<response, totalUsage, billed>>
    BY <1>5 DEF StopAtBoundary, StopInBatch, InLoop
  <2>2. totalUsage' \in Int /\ billed' \in Int /\ billed' - totalUsage' = billed - totalUsage
    BY <2>1 DEF LedgerInv, LedgersTyped
  <2> QED BY <2>1, <2>2, LoopLeft
<1> QED
  BY <1>1, <1>2, <1>3, <1>4, <1>5, StartSpends, ResponseSpends, DelegateReserves, ChildSpends,
     ChildrenReconciled
  DEF TurnNext, Work

(* Nothing is owed at first. *)
LEMMA LedgersStart == TurnInit => LedgerInv
<1> SUFFICES ASSUME TurnInit PROVE LedgerInv
  OBVIOUS
<1>1. /\ at = "idle" /\ response = NoResponse /\ totalUsage = 0 /\ billed = 0
      /\ ledgers = [tools |-> createBudgetLedger, fan |-> createBudgetLedger]
  BY DEF TurnInit
<1>2. /\ ledgers.tools = createBudgetLedger /\ ledgers.fan = createBudgetLedger
      /\ response.cost = 0
  BY <1>1 DEF NoResponse
<1>3. LedgersTyped
  BY <1>1, <1>2, FreshLedger DEF LedgersTyped
<1>4. LedgersBalance
  BY <1>2, <1>3, FreshLedger, BothBalance
<1> QED BY <1>1, <1>3, <1>4 DEF LedgerInv, SentEntered, AllBilled, Active, FanUnused, Going

(* A run that completes is billed for everything. *)
LEMMA CompletionBills ==
  ASSUME TurnTypes, Placed, LedgerInv, [TurnNext]_turnVars, at = "ending", at' = "idle",
         usage' # usage
  PROVE  usage'[run] = billed
<1>1. Complete
  BY DEF TurnNext, Work, turnVars, loop, delegation, steering, Active, StartTurn, Steer,
         BeginModelCall, BuildContext, Pause, StopAtBoundary, Respond, StopInBatch, CallTool,
         Terminal, Delegate, ChildReturns, ChildrenReturned, Fail, CancelTurn, LateResponse, MayCall
<1>2. run \in 1..MaxTurns /\ DOMAIN usage = 1..MaxTurns
  BY TurnBounds DEF TurnTypes, LoopTyped, Placed, Active
<1>3. usage'[run] = GrandTotalUsage
  BY <1>1, <1>2 DEF Complete
<1>4. billed = totalUsage + ledgers.tools.used + ledgers.fan.used - 0
  BY DEF LedgerInv, AllBilled, Active
<1>5. totalUsage \in Int /\ ledgers.tools.used \in Int /\ ledgers.fan.used \in Int
  BY DEF LedgerInv, LedgersTyped, Ledgers
<1> QED BY <1>3, <1>4, <1>5 DEF GrandTotalUsage

(* LedgersBalance for any budget and costs: whatever subagents spend and in whatever order they
   return, a ledger has what its entries say and the rest of the budget. *)
THEOREM LedgersStayBalanced == TurnSpec => []LedgersBalance
<1>1. TurnInv /\ LedgerInv /\ [TurnNext]_turnVars => (TurnInv /\ LedgerInv)'
  BY TurnSteps, LedgersKept DEF TurnInv
<1>2. LedgerInv => LedgersBalance
  BY DEF LedgerInv
<1> QED BY <1>1, <1>2, TurnStarts, LedgersStart, PTL DEF TurnSpec

(* CompletionsBillEverything for any budget and costs: the usage of a run that completes is the
   cost of every response it waited for, its own and its subagents'. *)
THEOREM CompletionsAreBilled == TurnSpec => CompletionsBillEverything
<1>1. TurnInv /\ LedgerInv /\ [TurnNext]_turnVars => (TurnInv /\ LedgerInv)'
  BY TurnSteps, LedgersKept DEF TurnInv
<1>2. TurnInv /\ LedgerInv /\ [TurnNext]_turnVars =>
        [at = "ending" /\ at' = "idle" /\ usage' # usage => usage'[run] = billed]_turnVars
  BY CompletionBills DEF TurnInv
<1> QED
  BY <1>1, <1>2, TurnStarts, LedgersStart, PTL DEF TurnSpec, CompletionsBillEverything
=============================================================================
