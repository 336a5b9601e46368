----------------------------- MODULE ModelTurn -----------------------------
(***************************************************************************)
(* What a turn says to the model and what it costs: the transcript of a    *)
(* session as runs and late activities write it, the context every model   *)
(* call and every subagent rebuilds from it, the steering messages that    *)
(* join it, and the budget of the run with the ledger of its subagents.    *)
(*                                                                         *)
(* A step is what happens between two awaits.  An activity that timed out  *)
(* or whose run was cancelled runs on in its worker.  Tools, approvals and *)
(* the sandbox are in AgentRun and ToolExecution: a tool call has a result *)
(* or ends the run.                                                        *)
(*                                                                         *)
(* Abstracted: texts, prompts and memory notes; tokens and dollars, which  *)
(* are one cost; the wall clock, which may run out at any boundary.        *)
(***************************************************************************)
EXTENDS Integers, SequencesExt, FiniteSetsExt

CONSTANTS
  Budget,      \* maxModelCalls, maxToolCalls, maxActions, maxChildWorkflows, maxCost
  Requested,   \* REQUESTED_SUBAGENT_USAGE, by kind
  MaxMessages, \* transcript rows in a context
  Batches,     \* what a model may ask for: sequences of tools
  Tasks,       \* the kinds in a delegate.parallel call
  Costs,       \* costs of a response of the model
  MaxPauses,   \* MAX_PAUSE_TURN_CONTINUATIONS
  FanOut,      \* values of delegateSubagents
  MaxTurns,    \* bound: runs of the session
  MaxSteers,   \* bound: steering messages
  MaxLate      \* bound: model calls nobody waits for, at a time

SubagentKinds == {"research", "code", "critic"}

ASSUME TurnAssumption ==
  /\ {MaxMessages, MaxPauses, MaxTurns, MaxSteers, MaxLate} \subseteq Nat
  /\ Budget \in [{"modelCalls", "toolCalls", "actions", "children", "cost"} -> Nat]
  /\ Requested \in [SubagentKinds -> Nat] /\ Tasks \subseteq SubagentKinds /\ Tasks # {}
  /\ Batches \subseteq Seq({"tool", "delegate", "parallel"}) \ {<<>>}
  /\ Costs \subseteq Nat /\ Costs # {} /\ FanOut \subseteq BOOLEAN /\ FanOut # {}

(* The slice of the transcript is longer than what a run writes and the answers nobody waits
   for: 40 rows for 10 model calls, 20 tool calls and at most nine such answers. *)
ASSUME WindowAssumption == MaxMessages > Budget.modelCalls + Budget.toolCalls + MaxLate

VARIABLES
  rows,        \* transcript_events the context is built from
  run,         \* runs so far; the last one is the current one
  at,          \* what the run awaits
  counts,      \* modelCallCount, toolCallCount, actionsCount, childWorkflowCount
  batch,       \* tool calls of the last response still to handle
  steeringBuffer, pendingSteering,
  response,    \* of the model call that streams: its cost so far, its continuations
  late,        \* model calls nobody waits for: the run, and the number of the call
  totalUsage,
  ledgers,     \* of the delegate tools, and of the fan-out
  children,    \* subagents of the current delegation
  fansOut,     \* input.delegateSubagents
  usage,       \* runs.usage, by run
  context,     \* history: the last context built
  steered,     \* history: steering messages accepted
  told,        \* history: steering messages in model calls of this run
  billed       \* history: cost of every response returned to this run

loop == <<at, counts, batch, response, totalUsage>>
delegation == <<ledgers, children, fansOut>>
steering == <<steeringBuffer, pendingSteering, steered>>
turnVars == <<rows, run, loop, late, steering, delegation, usage, context, told, billed>>

Zero == [modelCalls |-> 0, toolCalls |-> 0, actions |-> 0, children |-> 0]
NoResponse == [cost |-> 0, pauses |-> 0]
NoChild == [at |-> "none", entry |-> 0, cost |-> 0]
NoChildren == [kind \in SubagentKinds |-> NoChild]

createBudgetLedger == [used |-> 0, remaining |-> Budget.cost, entries |-> <<>>]

TurnInit ==
  /\ rows = <<>> /\ run = 0 /\ at = "idle"
  /\ counts = Zero /\ batch = <<>> /\ response = NoResponse /\ totalUsage = 0
  /\ steeringBuffer = <<>> /\ pendingSteering = <<>> /\ steered = 0
  /\ late = {}
  /\ ledgers = [tools |-> createBudgetLedger, fan |-> createBudgetLedger]
  /\ children = NoChildren /\ fansOut = FALSE
  /\ usage = [r \in 1..MaxTurns |-> -1]
  /\ context = [by |-> "nobody", rows |-> <<>>, whole |-> TRUE]
  /\ told = <<>> /\ billed = 0

Active == at # "idle"

Row(kind, ids) == Append(rows, [kind |-> kind, run |-> run, ids |-> ids])

-----------------------------------------------------------------------------
(* The run and its model calls. *)

StartTurn ==
  /\ ~Active /\ run < MaxTurns
  /\ run' = run + 1
  /\ rows' = Append(rows, [kind |-> "user_message", run |-> run + 1, ids |-> <<>>])
  /\ at' = "boundary"
  /\ counts' = Zero /\ batch' = <<>> /\ response' = NoResponse /\ totalUsage' = 0
  /\ steeringBuffer' = <<>> /\ pendingSteering' = <<>> /\ told' = <<>> /\ billed' = 0
  /\ ledgers' = [tools |-> createBudgetLedger, fan |-> createBudgetLedger]
  /\ children' = NoChildren
  /\ fansOut' \in FanOut
  /\ UNCHANGED <<late, steered, usage, context>>

(* steeringSignal. *)
Steer ==
  /\ Active /\ steered < MaxSteers
  /\ steered' = steered + 1
  /\ steeringBuffer' = Append(steeringBuffer, steered + 1)
  /\ UNCHANGED <<rows, run, loop, late, pendingSteering, delegation, usage, context, told, billed>>

Kept(buffer) == buffer

Drained(buffer) == <<>>

(* Steering that arrives while memory is searched waits for the next call. *)
BeginModelCall ==
  /\ at = "boundary"
  /\ counts.modelCalls < Budget.modelCalls /\ totalUsage < Budget.cost
  /\ at' = "calling"
  /\ pendingSteering' = steeringBuffer
  /\ steeringBuffer' = Drained(steeringBuffer)
  /\ UNCHANGED <<rows, run, counts, batch, response, totalUsage, late, steered, delegation, usage,
                 context, told, billed>>

LastOf(s) == SubSeq(s, IF Len(s) < MaxMessages THEN 1 ELSE Len(s) - MaxMessages + 1, Len(s))

(* buildModelContext. *)
Built(by) == [by |-> by, rows |-> LastOf(rows), whole |-> Len(rows) <= MaxMessages]

BuildContext ==
  /\ at = "calling"
  /\ at' = "streaming"
  /\ context' = Built("run")
  /\ told' = told \o pendingSteering
  /\ response' = NoResponse
  /\ UNCHANGED <<rows, run, counts, batch, totalUsage, late, steering, delegation, usage, billed>>

(* stop_reason pause_turn: asked again with the partial answer. *)
Pause ==
  /\ at = "streaming" /\ response.pauses < MaxPauses
  /\ \E cost \in Costs : response' = [cost |-> response.cost + cost, pauses |-> response.pauses + 1]
  /\ UNCHANGED <<rows, run, at, counts, batch, totalUsage, late, steering, delegation, usage, context,
                 told, billed>>

Reserve(ledger, kind) ==
  LET amount == Min({Requested[kind], ledger.remaining})
  IN  [used |-> ledger.used + amount, remaining |-> ledger.remaining - amount,
       entries |-> Append(ledger.entries, amount)]

ReserveAll(ledger, kinds) ==
  LET reserved[n \in 0..Len(kinds)] ==
        IF n = 0 THEN ledger ELSE Reserve(reserved[n - 1], kinds[n])
  IN  reserved[Len(kinds)]

Launched(ledger, kinds) ==
  [kind \in SubagentKinds |->
     IF \E i \in DOMAIN kinds : kinds[i] = kind
     THEN [at |-> "sent", cost |-> 0,
           entry |-> Len(ledger.entries) + CHOOSE i \in DOMAIN kinds : kinds[i] = kind]
     ELSE NoChild]

AllKinds == <<"research", "code", "critic">>

(* All three or none. *)
MayFanOut ==
  fansOut /\ 3 <= Min({Budget.children - counts'.children, Budget.actions - counts'.actions})

LeaveBatchOnly ==
  /\ batch' = <<>> /\ at' = "boundary"
  /\ UNCHANGED delegation

(* break outer: what was asked for and not done has no result.  The primed
   counts are given before. *)
EndLoop ==
  /\ batch' = <<>>
  /\ IF MayFanOut
     THEN /\ at' = "children"
          /\ ledgers' = [ledgers EXCEPT !.fan = ReserveAll(createBudgetLedger, AllKinds)]
          /\ children' = Launched(createBudgetLedger, AllKinds)
          /\ UNCHANGED fansOut
     ELSE at' = "ending" /\ UNCHANGED delegation

(* A budget of the run is spent; the wall clock may be any time. *)
StopAtBoundary ==
  /\ at = "boundary"
  /\ UNCHANGED counts
  /\ EndLoop
  /\ UNCHANGED <<rows, run, response, totalUsage, late, steering, usage, context, told, billed>>

Ids(r, n, tools) == [i \in DOMAIN tools |-> <<r, n, i>>]

(* The last response: with tool calls it is written before the workflow gets
   it. *)
Respond ==
  /\ at = "streaming"
  /\ counts' = [counts EXCEPT !.modelCalls = @ + 1]
  /\ \E cost \in Costs :
       totalUsage' = totalUsage + response.cost + cost /\ billed' = billed + response.cost + cost
  /\ \/ EndLoop /\ UNCHANGED rows
     \/ \E tools \in Batches :
          /\ rows' = Row("tool_call", Ids(run, counts'.modelCalls, tools))
          /\ batch' = tools /\ at' = "tools"
          /\ UNCHANGED delegation
  /\ UNCHANGED <<run, response, late, steering, usage, context, told>>

-----------------------------------------------------------------------------
(* Tool calls. *)

Delegates == {"delegate", "parallel"}

Counted == [counts EXCEPT !.toolCalls = @ + 1, !.actions = @ + 1]

LastCall == rows[Max({i \in DOMAIN rows : rows[i].kind = "tool_call" /\ rows[i].run = run})].ids

(* The id of the first call of the batch. *)
CallId == LastCall[Len(LastCall) - Len(batch) + 1]

OutOfCalls == counts.toolCalls >= Budget.toolCalls \/ counts.actions >= Budget.actions

OutOfChildren ==
  Head(batch) \in Delegates
    /\ (counts.children >= Budget.children \/ Counted.actions >= Budget.actions)

StopInBatch ==
  /\ at = "tools" /\ batch # <<>>
  /\ \/ OutOfCalls /\ UNCHANGED counts
     \/ ~OutOfCalls /\ OutOfChildren /\ counts' = Counted
  /\ EndLoop
  /\ UNCHANGED <<rows, run, response, totalUsage, late, steering, usage, context, told, billed>>

MayCall == at = "tools" /\ batch # <<>> /\ ~OutOfCalls /\ ~OutOfChildren

(* A batch is finished before the model is called again. *)
AfterCall == IF Len(batch) = 1 THEN "boundary" ELSE "tools"

Persisted == rows' = Row("tool_result", <<CallId>>) /\ batch' = Tail(batch) /\ at' = AfterCall

CallTool ==
  /\ MayCall /\ Head(batch) = "tool"
  /\ counts' = Counted
  /\ Persisted
  /\ UNCHANGED <<run, response, totalUsage, late, steering, delegation, usage, context, told, billed>>

(* Denied, expired, or interrupted: the run is recorded with its own usage. *)
Terminal ==
  /\ MayCall /\ Head(batch) = "tool"
  /\ counts' = Counted /\ batch' = <<>> /\ at' = "idle"
  /\ rows' = Row("assistant_message", <<>>)
  /\ usage' = [usage EXCEPT ![run] = totalUsage]
  /\ UNCHANGED <<run, response, totalUsage, late, steering, delegation, context, told, billed>>

KindsOf(tool) == IF tool = "delegate" THEN {<<"research">>, <<"code">>, <<"critic">>}
                 ELSE {SetToSeq(Tasks)}

(* delegate.parallel throws when its tasks are too many, see Fail. *)
Delegate ==
  /\ MayCall /\ Head(batch) \in Delegates
  /\ \E kinds \in KindsOf(Head(batch)) :
       /\ Head(batch) = "parallel" => counts.children + Len(kinds) <= Budget.children
       /\ ledgers' = [ledgers EXCEPT !.tools = ReserveAll(@, kinds)]
       /\ children' = Launched(ledgers.tools, kinds)
  /\ counts' = Counted /\ at' = "children"
  /\ UNCHANGED <<rows, run, batch, response, totalUsage, late, steering, fansOut, usage, context, told,
                 billed>>

-----------------------------------------------------------------------------
(* Subagents: one model call on the transcript of the session; the critic
   makes none. *)

Returns(kind, cost) ==
  children' = [children EXCEPT ![kind].at = "returned", ![kind].cost = cost]

ChildReturns(kind) ==
  /\ at = "children" /\ children[kind].at = "sent"
  /\ \/ kind = "critic" /\ Returns(kind, 0) /\ UNCHANGED <<context, billed>>
     \/ kind # "critic" /\ context' = Built(kind)
        /\ \E cost \in Costs : Returns(kind, cost) /\ billed' = billed + cost
  /\ UNCHANGED <<rows, run, loop, late, steering, ledgers, fansOut, usage, told>>

ReconcileRemaining(ledger, entry, cost) ==
  [ledger EXCEPT !.remaining = @ + ledger.entries[entry] - cost, !.entries[entry] = cost]

Reconcile(ledger, entry, cost) ==
  [used |-> ledger.used - (ledger.entries[entry] - cost),
   remaining |-> ledger.remaining + (ledger.entries[entry] - cost),
   entries |-> [ledger.entries EXCEPT ![entry] = cost]]

Involved == {kind \in SubagentKinds : children[kind].at # "none"}

ReconcileOf(ledger, kind) ==
  IF kind \in Involved THEN Reconcile(ledger, children[kind].entry, children[kind].cost) ELSE ledger

ReconcileAll(ledger) ==
  ReconcileOf(ReconcileOf(ReconcileOf(ledger, "research"), "code"), "critic")

ChildrenReturned ==
  /\ at = "children" /\ \A kind \in Involved : children[kind].at = "returned"
  /\ children' = NoChildren
  /\ IF batch = <<>>
     THEN /\ ledgers' = [ledgers EXCEPT !.fan = ReconcileAll(@)]
          /\ at' = "ending"
          /\ UNCHANGED <<rows, counts, batch>>
     ELSE /\ ledgers' = [ledgers EXCEPT !.tools = ReconcileAll(@)]
          /\ counts' = [counts EXCEPT !.children = @ + Cardinality(Involved),
                                      !.actions = IF Head(batch) = "delegate" THEN @ + 1 ELSE @]
          /\ Persisted
  /\ UNCHANGED <<run, response, totalUsage, late, steering, fansOut, usage, context, told, billed>>

-----------------------------------------------------------------------------
(* The end. *)

(* mergeBudgetLedgers. *)
OwnUsage == totalUsage

GrandTotalUsage == totalUsage + ledgers.tools.used + ledgers.fan.used

Complete ==
  /\ at = "ending"
  /\ at' = "idle"
  /\ rows' = Row("assistant_message", <<>>)
  /\ usage' = [usage EXCEPT ![run] = GrandTotalUsage]
  /\ UNCHANGED <<run, counts, batch, response, totalUsage, late, steering, delegation, context, told,
                 billed>>

Abandoned ==
  /\ late' = IF at = "streaming" THEN late \cup {<<run, counts.modelCalls + 1>>} ELSE late
  /\ Cardinality(late') <= MaxLate

(* An activity or a child workflow fails: the message of the error is the
   answer. *)
Fail ==
  /\ at \in {"calling", "streaming", "tools", "children"}
  /\ at' = "idle" /\ batch' = <<>> /\ Abandoned
  /\ rows' = Row("assistant_message", <<>>)
  /\ usage' = [usage EXCEPT ![run] = totalUsage]
  /\ UNCHANGED <<run, counts, response, totalUsage, steering, delegation, context, told, billed>>

CancelTurn ==
  /\ Active
  /\ at' = "idle" /\ batch' = <<>> /\ Abandoned
  /\ UNCHANGED <<rows, run, counts, response, totalUsage, steering, delegation, usage, context, told,
                 billed>>

(* A model call nobody waits for gets its response, and writes it. *)
LateResponse ==
  \E l \in late :
    /\ late' = late \ {l}
    /\ \/ UNCHANGED rows
       \/ \E tools \in Batches :
            rows' = Append(rows, [kind |-> "tool_call", run |-> l[1], ids |-> Ids(l[1], l[2], tools)])
    /\ UNCHANGED <<run, loop, steering, delegation, usage, context, told, billed>>

Work ==
  \/ BeginModelCall \/ BuildContext \/ Pause \/ StopAtBoundary \/ Respond
  \/ StopInBatch \/ CallTool \/ Terminal \/ Delegate
  \/ \E kind \in SubagentKinds : ChildReturns(kind)
  \/ ChildrenReturned \/ Complete \/ Fail

TurnNext == StartTurn \/ Steer \/ Work \/ CancelTurn \/ LateResponse

TurnSpec == TurnInit /\ [][TurnNext]_turnVars

(* Activities return or fail; nobody has to start a turn, steer or cancel. *)
TurnFairSpec == TurnSpec /\ WF_turnVars(Work)

-----------------------------------------------------------------------------
(* Properties. *)

(* The type of every variable. *)
TurnTypeOK ==
  /\ run \in 0..MaxTurns
  /\ at \in {"idle", "boundary", "calling", "streaming", "tools", "children", "ending"}
  /\ counts.modelCalls \in 0..Budget.modelCalls /\ counts.toolCalls \in 0..Budget.toolCalls
  /\ counts.actions \in 0..(Budget.actions + 1) /\ counts.children \in 0..Budget.children
  /\ batch # <<>> => at \in {"tools", "children"} /\ CallId[1] = run
  /\ at = "children" => Involved # {}
  /\ \A l \in late : l[1] \in 1..run /\ l[2] \in 1..Budget.modelCalls
  /\ DOMAIN usage = 1..MaxTurns
  /\ steered \in 0..MaxSteers

IsCall(row) == row.kind = "tool_call"
IsResult(row) == row.kind = "tool_result"

(* A result in the transcript is the only one of a call that is above it. *)
ResultsAnswerCalls ==
  \A i \in DOMAIN rows :
    IsResult(rows[i]) =>
      /\ \E j \in 1..(i - 1) : IsCall(rows[j]) /\ rows[i].ids[1] \in ToSet(rows[j].ids)
      /\ \A j \in DOMAIN rows : IsResult(rows[j]) /\ rows[j].ids = rows[i].ids => j = i

(* What the provider takes: the results of a response follow it at once, all
   of them, and there are no others. *)
ResultsAfter(messages, i) ==
  {messages[j].ids[1] : j \in {k \in (i + 1)..Len(messages) :
                                 \A m \in (i + 1)..k : IsResult(messages[m])}}

Ready(messages) ==
  /\ \A i \in DOMAIN messages :
       IsCall(messages[i]) => ToSet(messages[i].ids) = ResultsAfter(messages, i)
  /\ \A i \in DOMAIN messages :
       IsResult(messages[i]) => i > 1 /\ (IsCall(messages[i - 1]) \/ IsResult(messages[i - 1]))

(* What the runs before this one left, where messages are in the order of their runs. *)
Earlier(messages) ==
  SubSeq(messages, 1, Cardinality({i \in DOMAIN messages : messages[i].run < run}))

(* A run does not spoil its own context: when what earlier runs left is in
   order and all of it fits, every model call of the loop sees each of its
   tool calls followed by its results. *)
OwnContextIsReady ==
  /\ context.by = "run" /\ context.whole /\ at = "streaming"
  /\ Ready(Earlier(context.rows))
  /\ \A i, j \in DOMAIN context.rows : i < j => context.rows[i].run <= context.rows[j].run
  => Ready(context.rows)

(* However long the session and the run, and whatever late activities write:
   the model sees the message it is to answer. *)
QuestionInContext ==
  at = "streaming" \/ (context.by \in SubagentKinds /\ children[context.by].at = "returned") =>
    \E i \in DOMAIN context.rows :
      context.rows[i].kind = "user_message" /\ context.rows[i].run = run

(* Every steering message of a run is told to the model once and in the order of
   their arrival, as long as the run goes on: those that are not told wait. *)
SteeringOnceInOrder ==
  LET waiting == (IF at = "calling" THEN pendingSteering ELSE <<>>) \o steeringBuffer
      heard == told \o waiting
  IN  Active =>
        /\ \A i \in 1..(Len(heard) - 1) : heard[i + 1] = heard[i] + 1
        /\ heard # <<>> => Last(heard) = steered

Total(entries) ==
  LET sum[n \in 0..Len(entries)] == IF n = 0 THEN 0 ELSE sum[n - 1] + entries[n]
  IN  sum[Len(entries)]

(* What subagents reserved and what they used is accounted for, whatever a
   subagent overspends and in whatever order they return. *)
LedgersBalance ==
  \A of \in DOMAIN ledgers :
    LET ledger == ledgers[of]
    IN  /\ ledger.used = Total(ledger.entries)
        /\ ledger.used + ledger.remaining = Budget.cost

(* "Grand total token usage (parent + reconciled subagent), persisted at
   completion" (projection.ts:107): the usage of a run that completes is the
   cost of every response it waited for. *)
CompletionsBillEverything ==
  [][at = "ending" /\ at' = "idle" /\ usage' # usage => usage'[run] = billed]_turnVars

(* A turn that is not cancelled ends: the budgets stop it. *)
TurnsEnd == []<>(at = "idle")

(* What a model is told is a conversation it can take: its own calls and their results
   in order, with the question it is to answer, and every steering message once. *)
ContextInOrder ==
  TurnTypeOK /\ ResultsAnswerCalls /\ OwnContextIsReady /\ QuestionInContext
    /\ SteeringOnceInOrder
=============================================================================
