# Stardust: specification and verification

TLA+ modules for Stardust, the TLC configurations that check them on small
instances, and theorems about them that TLAPS checks for every instance. Paths are
relative to the repository; `workflows/` stands for `src/workflows/`, `server/` for
`src/lib/server/` and `pages/` for `src/routes/`.

## 1. Inventory

| component | state it keeps | operations | what makes it correct | module |
|---|---|---|---|---|
| AgentSessionWorkflow (`workflows/agent-session.workflow.ts`) | turn queue, active run, cancellation scope, counters | submitTurn, submitSteering, interruptRun, resolveApproval, cancelRun; main loop; continue-as-new | turns keep their order and are taken once; one run at a time; a cancelled session launches nothing; every turn is taken or the session ends | `AgentSession`, `TurnLane` |
| AgentRunWorkflow (`workflows/agent-run.workflow.ts`) | counters, pending approval, resolutions, steering buffer, budget ledgers | model call, policy, tools, approval wait, timer.wait, delegation, completion | gated calls run only when approved; resolvers agree with the record; budgets hold; the run ends and is recorded | `AgentRun`, `ModelTurn` |
| Subagents, model runner, context builder (`server/agent-core/`) | none of their own | build a context, call the model, write its calls | contexts are conversations a provider takes; ledgers balance | `ModelTurn` |
| Approvals repository (`server/policy/approvals.ts`) | approval rows, audit, transcript, stream, run status | recordRequest, recordResolution | five tables tell one story although attempts fail and overlap | `Approvals` |
| Run inspector (`server/observability/projection.ts`, `src/lib/run-inspector-adapters.ts`) | none; reads a dozen tables | read and merge | what it shows from different moments does not contradict itself | `RunInspector` |
| Policy engine and tool registry (`server/policy/`, `server/tools/`) | idempotency ledger, invocations, artifacts, MCP clients | gate a call, execute it once, spill | only parsed arguments run; a keyed effect happens once; nothing is left behind | `ToolPolicy`, `ToolExecution` |
| Worker (`src/worker/main.ts`) | none | serve four task queues | whatever a workflow asks for is served | `Workers` |
| Sandbox provider (`server/sandbox/`) | tracked processes, command rows, workspaces | start, run, kill, cancel a session | no process outlives its session; rows are true | `Sandbox` |
| Memory store, retrieval, MemoryCompactionWorkflow (`server/memory/`) | notes, cursor and references of a session | write, confirm, discard, compact, search | nothing proposed is retrieved; nothing is summarised twice; a handoff hands on what the database says | `Memory`, `Retrieval` |
| Schedules (`server/schedules/`, `server/temporal/`) | schedule table, fire events | create, pause, trigger, delete, reconcile, submit a turn | the table follows Temporal whatever else lives in its namespace; a fire links to its run | `Schedules` |
| Stream bus and SSE route (`server/stream/`, `pages/api/sessions/[sessionKey]/stream/`) | sequences of rows | publish, read after a cursor, trim, poll | no holes; a subscriber gets every row once or word of a gap, and the end | `StreamBus` |
| Conversation (`src/lib/stream-to-conversation.ts`, `conversation-view.svelte`) | kept fold | fold events, follow a stream | the kept fold is the fold; live and fetched read the same | `ConversationView` |
| Session page and reconnection (`pages/sessions/[sessionKey]/`, `src/lib/session-reconnection.ts`) | shown session, poll, timers | navigate, load, poll, settle, submit | shows its own session; settles on the whole run; frees its composer | `SessionPage` |
| Lists of the interface (inbox, schedules, console, health) | copies of rows | load, poll, act | copies agree with the server in the end | `Console` |
| Messaging and API routes, observability activities, artifacts | rows | validate, write | as far as the order of their writes matters, in the modules of their callers | several |
| Database schema, scripts, configuration | declarations | | | not modelled |

How they interact. Routes and schedules start a session workflow, or use the open
one, and send it updates and signals. The session starts runs as children and
reaches them by signals, by cancelling the scope they run in, and, for approvals,
through an activity that sends them an update. A run calls activities on four task
queues and starts subagents as children. Activities write SQLite rows, the
transcript and the stream bus; the SSE route polls the bus and the run row; pages
fetch tables through routes and poll. Processes of the sandbox and MCP servers are
the only other shared state.

What is hard. Handlers interleave with the loop at every await. Activities are not
transactions: they are lost, retried or overtaken between two statements.
Cancellation strikes an await whose activity may already have written. Timeouts race
with late answers. Continue-as-new carries some of the state. Pages read tables at
different moments and apply answers in another order. Budgets are counted in several
places. PROJECT.json lists the hazards of this code with the properties about them.

## 2. Modules

An action is what the code does between two awaits, or one SQL statement where an
activity can be lost or overtaken between statements. SQLite is synchronous in the
process, so that statements without an await between them are one step, unless the
process may be lost in between and the module is about that. History variables serve
the properties only and are marked. An MC module or the cfg gives the instance.

### The session: `TurnLane`, `AgentSession`

`TurnLane` is what a session promises: turns numbered on acceptance, taken in order,
begun at most once and one at a time. `AgentSession` has the workflow: `loop` is the
await the main loop is suspended on (`waiting`, `fetching`, `running`, `compacting`,
`handoff`, `finalizing`, `closed`), `handler[c]` the suspended call of client `c`; a
handler that awaits has two steps (`BeginInterrupt`/`EndInterrupt`, ...).
`activeRunScope` is the turn whose CancellationScope is current: `TakeTurn` sets it,
the `finally` block in `NextTurn` clears it. `openRuns` and `outcome` are the
children. `StartSession` is a client's `workflow.start` with USE_EXISTING after the
session completed. Texts and queries are left out; whenever the code tests the length
of the history, either outcome is possible.

### The run: `AgentRun`, `ModelTurn`

`AgentRun` has the control of the run. `pc` is the await the main function is
suspended on; `NextModelCall`, `NextToolCall` and `AfterToolCall` are the control
between awaits. `approvals` and `record` are rows written by activities:
`RequestWritten` is the effect of an activity, `ApprovalParked` the workflow's
reaction, so that resolvers and cancellation fall between. `ActivityFailed` and
`Cancel` let the activity have written or not (`MayHaveWritten`). `completion` is the
promise of `completeRun`, which the code returns without awaiting inside `try`.

`ModelTurn` has what a run says and spends: `rows` is the transcript, from which
`Built` rebuilds what a model is told (`context-builder.ts`, with its window and
its `Drained` steering), `batch` the calls of the last response, `late` the model
calls nobody waits for any more, `ledgers` the two BudgetLedgers with `Reserve` and
`Reconcile` over integers (they do go below zero), `usage` what completion records.

### Approvals and the inspector: `Approvals`, `RunInspector`

`Approvals` has recordRequest and recordResolution statement by statement: `at[p]` is
the next statement of attempt `p` (call, kind, number), `AfterWrite` their order.
`GiveUp` ends the workflow's wait for an attempt, by a timeout, an error or a lost
worker; the attempt may go on beside its successor. `Taken` and `Audited` are primary
keys. The two shapes an answer can have, from the decision and read back from the
row, are `Resolution` and `CardResolution`.

`RunInspector` EXTENDS it: the run executes or delegates each approved call (at most
one is delegated, which is a bound: the times of a child are kept once), and a reader
takes the row of the run, then the transcript, then the rest (`ReadRun`,
`ReadTranscript`). `Lane`, `Concepts`, `History`, `Evidence` and `StepOfCall` are the
adapters as operators over what was read.

### Tools: `ToolPolicy`, `ToolExecution`, `Workers`

`ToolPolicy` is the registry as a table, with the metadata the policy looks at and
`validateToolCall` over every tool and every shape of arguments. `ToolExecution` is
the gate in the workflow and `executeRegisteredTool` in the worker: the ledger
(`Reserved`, `Replays`), the snapshot before a change, the statements of the tools as
reads, sends and workspace changes, MCP clients and browsers, the spill of large
output. Attempts may be abandoned and go on. `Marked` updates the row of an invocation if
there is one: when its insert threw, the error has none. A worker keeps one client of
each MCP server for the calls of all its sessions: those of other sessions are
`Elsewhere`, of which only their way to a client is modelled (`ConnectElsewhere`), and
`crossed` remembers that two calls were starting a server of a kind at once. `Workers` says which activities each
queue serves and which each workflow asks for.

### The rest of the worker: `Sandbox`, `Memory`, `Retrieval`, `Schedules`

`Sandbox`: `os` is the process itself, `row` its record, `tracked` and `timers` the
maps of the provider; abort, timeout, `Kill`, `CancelSession` and the process's own
exit race. `Crash` loses the memory of the worker, not its processes.

`Memory`: candidates with their cards, the three activities of a compaction one
statement at a time, the handoff of cursor and references to the next execution, a
user who confirms and discards. `held` is what the session workflow refers to: the
references of its runs' candidates are added to it, and replaced by the result of the
compaction at the handoff. `Retrieval` is the searches and their reciprocal rank
fusion as pure operators, compared over every table of three notes, whose vectors may be
similar to the query, point away from it, or be missing.

`Schedules`: Temporal (external) against the `schedules` table; requests stop between
the call to Temporal and their own row; `Reconcile` works from a listing and
descriptions it took before, and throws (`Throws`) at a schedule that is gone or whose id
is rejected, one of another program included (`foreign`); fires submit turns through an activity whose attempts
overlap.

### The stream and its readers: `StreamBus`, `ConversationView`, `SessionPage`, `Console`

`StreamBus`: `Rows` is the stream_events table of one run, `writer` the next statement
of recordRunCompleted with its trim, `PublishLate` an attempt the server gave up. The
route is `Poll`, `CheckStatus` and `FinalDrain`; `Connect` resumes with Last-Event-ID.
`transcript` is what a page that refreshes after the stream would find.

`ConversationView`: a run writes transcript and bus; the page follows the stream, may
fetch the transcript after a gap, and folds either (`Conversation`), extending a kept
fold when it believes the events to be an extension (`IsPrefixExtension`). `RunStops` is
a run that records nothing more: hard-cancelled by an interrupt of this or of another
page, or one whose completion could not be written. Its row stays `running`
(`LeftOpen`), and the next run goes on.

`SessionPage`: navigation, bootstrap, the reconnection with its generations, its poll
and timers (`Polling`), submission and interrupt; runs may stop unrecorded here, too.
Everything the page knows is fetched at one moment and applied at a later one, and may be
dropped by then (`CurrentSession`). A submission compares no keys: one that is accepted
after a navigation streams into the page that is then shown (`Frame`). `liveEvents` are the
sessions whose events, or whose failures, that page may hold, and `crossing` tells when a
submission of another session, or an older one, may still answer.

`Console`: the six list pages in one pattern: a request is answered at one moment and
applied at another, so that those that cross are applied in any order.

## 3. Runs

Bounds are CONSTANTS tested in guards, or the code's own budgets. A property of a run
is a conjunction of named parts where several parts answer one question; each part is
stated and commented in its module.

| run | bounds | properties |
|---|---|---|
| `session` | 2 clients, 3 turns, 2 executions, 2 sessions | `SerialTurns` (types, `LaneInOrder`, `OneRunAtATime`, `CallsReachRuns`), `NoLaunchAfterCancel`, `LanePromise` (refinement of `TurnLane`), `TurnsTaken`, `CancelSettles` |
| `run` | 2 resolvers, 2 model calls, 2 tool calls, 5 actions, 4 children, batches and tasks of 2 | `OnlyApprovedRuns` (`ApprovalGate`, `OwnResolver`), `ResolversServed` (`AnswersAgree`, `NoResolverDropped`), `RunAccounted` (types, `ChildBudget`, `PartialWaitPersisted`, `ReturnedRunsAreRecorded`), `RunEnds` |
| `turn` | 2 runs, 2 model calls, 2 tool calls, cost 2 against a ledger of 3, 6 messages of context, 2 steering messages, 1 pause, 1 call left behind at a time | `ContextInOrder` (types, `ResultsAnswerCalls`, `OwnContextIsReady`, `QuestionInContext`, `SteeringOnceInOrder`), `LedgersBalance`, `CompletionsBillEverything`, `TurnsEnd` |
| `inspector` | 1 call, 2 attempts, 1 subagent, 1 retry of a subagent record | `ApprovalsAgree` (types, `OneCard`, `CardsAreBacked`, `AnswerIsDecision`, `WholeUnlessAbandoned`), `InspectorShowsTheRun` (types, `CompleteViewIsWhole`, `LanesFollowChildren`, `EvidenceAgreesWithSteps`, `WaitingViewShowsRequest`), `CallsSettle` |
| `tools` | 7 agendas of 2 calls, 2 attempts, 1 abandoned, 1 call of another session for each MCP tool of the agenda, 1 server that stops | `CallsDoOnce` (types, `OnlyParsedArgumentsRun`, `EffectAtMostOnce`, `Restorable`, `ResultsAreRecorded`), `LeavingsAreOwned` (`NoStrayPatchFile`, `ArtifactsResolve`, `WiringIsComplete`), `ProcessesAreManaged` (`ClientsAreShared`, `BrowsersClose`), `CallsReturn` |
| `sandbox` | a background process, a command of another session, an ephemeral command, 1 lost worker | `ProcessesAccounted` (types, `KillsAreScoped`, `RowsAreTrue`, `TrackedUntilClosed`, `WorkspaceOutlivesCommand`), `CancelReaps`, `CommandsReturn` |
| `memory` | 2 runs of 2 events, 2 attempts, 1 restart, 2 faults, 1 answer of the user; every table of 3 notes, of 2 sessions, with 6 grades of vectors | `MemoryIsVetted` (types, `NothingLeaks`, `SummarisedOnce`), `HandoffKeepsMemory` (`ReferencesAccumulate`, `HandoffIsRecorded`), `RetrievalAgrees` (`FusionKeepsOrder`, `IndexAgrees`) |
| `schedules` | 1 schedule, 2 of other programs (one of a rejected id), 1 request, the page, 1 fire, 2 attempts, 2 changes | `FiresAreRecorded` (types, `LinkIsReal`, `ReturnedFiresAreRecorded`), `Reconciled`, `ProjectionCatchesUp` |
| `stream` | 1 subscriber, 3 events, 2 rows per read, 2 completion attempts, 1 late event, other runs up to id 2 | `RowsReachSubscribers` (types, `BusContiguous`, `LossOnlyByTrim`, `GapsAreReal`), `EndIsTold` (`TerminalSignal`, `AnswerPrecedesSignal`), `StreamCloses` |
| `conversation` | 2 turns with tool, approval and delegate, 1 word, 1 change of mode, 1 run that stops | `ViewIsFold`, `ReadsInOrder` (types, `AnswersBelowTheirQuestions`, `LiveAgreesWithTranscript`), `ComposerFreed` |
| `page` | 2 sessions, 2 runs, any of which may stop, 2 visits, 1 submission, 3 moves, code limits of 2, 1 and 2 polls | `PageFollowsRun` (types, `ShownSessionOnly`, `ReconnectionDriven`, `OpenRunIsFollowed`), `SettledIsWhole`, `ComposerFreed` |
| `console` | 6 pages, 5 requests open in the console and 2 elsewhere, 4 acts there and 2 elsewhere, 1 change by others, 1 fault | `PagesKeepTrueCopies` (types, `LoadingEnds`, `DecisionsAreTrue`, `AloneIsTrue`, `PanelsFollowSelection`), `ListsCatchUp` |

No symmetry is used: liveness is checked in the same runs, where it would be unsound.
Deadlock is checked in `sandbox` and `schedules`; the other systems may stop (a
session that completed, a run that was recorded, a user who does no more), which the
cfg says.

Why the bounds are enough. Two of everything that can meet itself: clients, resolvers,
attempts, requests that cross, visits to a page, sessions; a third turn, so that one
runs, one waits and one replaces it. Budgets are such that every kind of delegation
both fits and does not fit after another, and a subagent overspends its ledger. A
read of two rows is less than the three events and the terminal one, so that reads
split and drains fall short. The agendas of `tools` pair the calls that share a
workspace, a server or an agent; calls that share nothing do not see each other.
Every fault is allowed at least once at every statement. Where an instance has one of
something (a schedule, a subscriber, a subagent), others only read or are keyed apart
in every table.

### Fairness

Session and run: weak fairness of the workflow's own steps, as Temporal schedules
every workflow task and every activity and timer has a timeout, and of suspended
handlers; a child closes (`RunEnds` is what `AgentRun` shows of it). Approvals and
inspector: the attempt the workflow waits for goes on, is given up, or expires.
Tools: an attempt the workflow waits for goes on or is given up by its timeout.
Sandbox: a timer fires and a killed process closes; a process does not end by itself.
Schedules: started requests go on unless they are lost, a page that is open polls.
Stream: the route polls on a timer until its client leaves. Pages: timers fire, and
fetches are answered or fail; runs write their rows unless they stop, which is never
fair, so that `ComposerFreed` is about all behaviours with and without such runs: it
says that the composer is freed for ever or again and again, or the page follows a run
that was left open, for which the code has no bound. None of them has fairness for
users, interrupts, cancellation, faults or changes by others; a retry that may fail
for ever is bounded by the attempts of its proxy.

## 4. Proofs

Each proof module EXTENDS the module or the two it is about. The instance of a run is small; the
theorems are for any constants that satisfy the named assumptions. Most say that bounds
are natural numbers, of attempts at least one (`SessionAssumption`, `RunAssumption`,
`ApprovalsAssumption`, `InspectorAssumption`, `StreamAssumption`, `MemoryAssumption`).
`SandboxAssumption` adds that a background process is not also a command,
`SchedulesAssumption` that the page that polls is not one of the requests, and
`ToolAssumption` that agendas are sets of registered tools, `TurnAssumption` that a
response that asks for tools asks for one at least. `PageAssumption` says what a
run writes: its row first, its status before its last event, and that event once; it
says nothing of what is between them. `ConsoleAssumption` asks for two slots for open
requests at least, as many as a page sends when it is opened, and that `none` and
`lost` are no session's name. Invariants were checked by
TLC on the instance of the run before they were proved.

`AgentSessionProofs` proves `SerialTurns`, `NoLaunchAfterCancel` and the refinement
`LanePromise`. The inductive invariant is `SessionInv`: types, `LaneInOrder`, and what
the loop's position implies. `FetchState`, `RunState` and `RestState` say which of
`activeRunId`, `activeRunScope`, `openRuns` and `outcome` are set at each await;
`OneRunAtATime` follows from them but is not inductive without them, since the step
that takes a turn must know that no run is open. `LaunchedWereTaken` is what the
refinement needs for `Begin`, `ClosedIsQuiet` keeps late handlers from touching a
closed session. `CancelStopsLaunches` follows because `ManifestFetched` is the only
launching step, and a cancel either cancelled the scope it found or is before
`TakeTurn`. Each step maps to a step of `TurnLane` or to a stutter.

Its last section is about `Memory`, which the session's compactions write: it proves
`MemoryIsVetted` and `HandoffKeepsMemory`. `SummarisedOnce` needs
the position (`Positioned`): what was covered is not above the position of the session,
and what the compaction at work covers is above it and not above the one it will hand on,
which is a greatest element (`MaxOfNaturals`, from the well-foundedness of the numbers).
`ReferencesAccumulate` needs that what the compaction at work loaded has the references of
the earlier ones (`Referred`), for a repeated attempt overwrites the row with what it
loaded and what it wrote itself.

`AgentRunProofs` proves `OnlyApprovedRuns`, `ResolversServed` and `RunAccounted`. The
inductive invariant `RunInv` has four parts, each proved with the help of those before
it: `CountInv` (types; a position inside a call has a call number, and outside
`delegating` every subagent started is already counted, which is why the two budget
tests bound their sum), `RowInv` (rows of later calls do not exist, and the row of the
current call is as far as the position says, so that what a failed activity wrote can
only be that row), `CallInv` (`Chosen` ties the resolution being recorded to a
resolver of this call: `ApprovalRequired` clears the earlier one while nobody can
address an approval), and `Ending` (the record against the completion in flight).

Its second half is about `ModelTurn` and proves `ContextInOrder`, for any budget, any
batches a model may ask for, any subagents and any late answers. `TurnInv` adds to the
five parts what they rest on. `OwnContextIsReady` speaks of a context when it was built;
`OwnRowsInOrder` says of the transcript itself, at every await of the loop, that each
response of this run is followed by its results (`Whole`), the one being handled by those
it has so far (`Open`). That needs to know which row the batch came from (`HasCurrent`)
and that results of this run are of earlier calls of it (`ResultIds`); it holds while no
late answer has broken the order of the runs, which is why the property excepts those.
`QuestionInContext` needs a count: since the question, a run has written one row for each
model call and each tool call it has counted, and what runs before it left behind
(`LeftBehind`) has been written since or may still come (`HasQuestion`).
`RowsMove` sums up what a step may write, so that the actions are gone through once.

Two limits came out of this proof. The window has to be longer than one run
(`WindowAssumption`): 40 rows, less 10 model calls, 20 tool calls and the question, leave
room for nine answers nobody waits for. Should more of them arrive while one run uses its
whole budget (each is of an earlier run that failed or was cancelled while the model was
answering, and whose activity still goes on; `MaxLate` bounds them), the question could
fall out. And `SteeringOnceInOrder` is about a run that goes on: a cancel while the context
is being built drops what was drained for it. What is not told when a run ends is dropped,
too, and the update that accepted it has been answered.

`ApprovalsProofs` proves `ApprovalsAgree`, of `Approvals` alone and of it within
`RunInspector`. Its invariant `IInv` says what has been written before the next
statement of every attempt, whether it is waited for or not. `OneCard` needs two
facts that are not in it: `AloneInv`, that of the attempts of one call and kind at
most one is between its audit event and its card, because the event's primary key
admits one, and that this one finds no card (`AttemptOK`). `AnswerIsDecision` needs
that a row never holds anything but the one decision of its call (`RowInv`), although
any attempt may write it again. `WholeUnlessAbandoned` is `SmoothInv`: while nothing
was given up there is one attempt, and its next statement tells what the five tables
hold, in four phases that hand over to one another.

It then proves `InspectorShowsTheRun`, of a run of any number of calls. `ViewInv` is
inductive beside `IInv`. What a statement of an attempt may do to the inspector is in
`Moves`: the row of its own call, an addition to the transcript, and the stage if it is
waited for; the thirteen statements are gone through once, for `Moves`. A view mixes two
moments, and `CompleteViewIsWhole` holds because a run that was ever seen complete is
frozen (`WholeInv`): it has ended, its calls are answered and have results, and no
child is open, though a late attempt may still write its status. `LanesFollowChildren`
needs that every start of a child, in either table, is before every completion
(`OrderInv`), whatever a retry wrote again with a later time, and that the transcript
is told first (`ToldInv`); `LaneFollows` then finds the last row. `WaitingViewShowsRequest`
needs that only an attempt past its transcript event sets the status (`WaitsInv`).

`StreamBusProofs` proves `RowsReachSubscribers` and `EndIsTold`. `BusContiguous` alone
is not inductive: a trim must leave a table of which the same can be said, and a read
that is cut off at `Limit` must not leave a row out. `Ordered` says it of any two rows,
that no sequence between theirs is missing; `PublishKeeps` shows that a row is only
added at the end and `DeleteRowsKeeps` that the trim takes a beginning. A read is a
beginning of what is after the cursor (`BatchFacts`), from which `DeliverFacts` gets
`LossOnlyByTrim` and, while nothing was trimmed, that the reader sees no gap (`NoGap`:
the last row it was sent is still in the table). `WriterInv` has what the statements of
recordRunCompleted have done although a retry repeats them, `ConnectionInv` that a
connection past its status check knows the outcome.

`ToolExecutionProofs` proves `CallsDoOnce`, `LeavingsAreOwned` and
`ProcessesAreManaged`, for every set of calls of the registered tools. The tables of
tools are functions, of which the first lemmas say what every proof needs: which bodies
there are (`Bodies`), what may follow a statement (`AfterFits`), where the effect of a
keyed body is (`KeyedStatements`). Of the step of an attempt `Moves` keeps only where it
goes and what else it may touch, and `Waits` does so of what happens beside it. The
invariant `ToolInv` has nine parts. `Placed`: an attempt is at a statement of its tool.
`Guarded`: one call at a time is before the gate, and what runs parses and is awaited or
was given up. `Settled` gives `EffectAtMostOnce`: by the unique key of the ledger
(`Exclusive`) one attempt of a call at most is between its reservation and its settled
row, though several may run, and `Booked` and `Counted` say on which side of its effect
it is; the attempt that finds a row goes nowhere near. `Restorable`: while nothing was
given up there is one attempt, and nobody changes the workspace between its snapshot and
its effect. `Rowed` is what `ResultsAreRecorded` needs of invocations: past the insert
there is a row, a call whose insert threw did nothing and reserved nothing, and a row that
says running has an attempt that runs. `Swept`: a patch file is that of an attempt that has
still to remove it, or its removal failed, or a snapshot was restored. `Stocked`: files
before rows before references. `Managed` is about servers and browsers. That a client is
shared needs to know of the calls that are connecting, of this session or another
(`Shared`): while a kind of server was never started twice at a time, the one that runs is
either still connecting or its client is kept, so that nobody who looks then starts another.

Its last section is about `Sandbox`, whose processes are those the tools start: it proves
`ProcessesAccounted`. `ProcessInv` relates, for one process, the
map of the provider, the row and the process itself. `RowsAreTrue` is not inductive: a
row may say complete or failed of a process nobody signalled because, while a process is
tracked, every signal leaves it among `killed`, and once it is not, no more are sent.

`SchedulesProofs` proves `FiresAreRecorded` and the action property `Reconciled`.
`FireInv` says of a fire which of its attempts is current and, if none was given up, what
its rows hold at the next statement of that one (`Recorded`); the earlier ones threw.
`CalmInv` is about a reconciliation beside which nothing changed: what it has described
and what it has still to describe are together the live schedules, and the described rows
are what Temporal has; the step that prunes finds nothing left to describe. Schedules of
other programs may come and go meanwhile: they are left out, or the reconciliation throws.

`SessionPageProofs` proves `PageFollowsRun` and the action property `SettledIsWhole`, for
any scripts of runs and any number of navigations and requests. `OpenRunIsFollowed` is not
inductive: that the reconnection of an open run does not go to rest depends on everything
that is under way. `SeenOpen` says that while the run that was open when the page was
opened is still open, each request of its session, the poll and the two copies show it
open, or show nothing yet; `Bootstrapped` that the last navigation either still loads or
has started the reconnection. Both hold because runs only grow, an ended run is left alone
and a session has one open run (`RunsStep`, `OneAfterTheOther`), so that an answer which was
true when it was taken errs only by leaving out the end. `SettledIsWhole` needs the
converse of a poll (`PollIsTrue`): what it read of a run that ended is all of it. That the
page streams and tells of its own session only, while no submissions cross, needs
`OneSubmission`: a submission that may still stream or fail is then alone, of the session
shown, and its stream is the one that the next navigation aborts.

`ConsoleProofs` proves `PagesKeepTrueCopies`, for any number of sessions, open requests,
acts, changes by others and faults. Its invariant `ConsoleInv` relates the copies to the
tables through the requests in flight. `LoadingEnds` needs that the request which ends a
flag is open as long as the flag is up (`EndedBy`), although a request that ends may take
away the flag of another that is still open; then the flag is down, which is the harmless
side. `AloneIsTrue` is about pages with no request open and says nothing of how
they came to be true, so `Brings` says it of the one request a page on which nothing
crossed can have: the part of a load that has been answered is what the tables hold, and
an action accepted by a route has already changed them while the other copies agree. For
the console `OfSelected` says that every open request is of the selected session, and
`CleanConsole` that each panel shows that session or waits for such a request.
`DecisionsAreTrue` needs `Settles`, that no route, and nobody else, takes a decision back.

Its last section is about `ConversationView`, which another page shows, and proves
`ViewIsFold`, for any number of turns, words and changes of the mode. That is an induction
over the events. The library's induction theorems take an operator; `SetInduction` is the
same over a set, from the well-foundedness of the naturals, and `FoldedFacts` says that
`Folded` is the last value of a function that applies the events one by one. Two folds are
`Like` one another if they show the same but for what the user typed, and `ApplyAlike`
says that events which are alike keep them so; `KeptFoldIsLike` is the induction.
`ViewIsFold` is not inductive: the view takes events for those it has folded by id, kind and
sequence alone. `LiveFits` says why it may. An event with a sequence is the row at its own
place, and rows never change; one without is of a stream or of the page, the page's own
differ in what the user typed only, and two renderings that both show events of a stream
at one place show the same one there.

`AnswersBelowTheirQuestions` is proved there too. A turn's texts carry the number of the run,
so the property becomes one of events, `Ordered`: every text is after the message of its run
and before any later message of the user. `FoldInOrder` shows by induction over the events that
the fold of ordered events is in order: a reply is added to the bubble that speaks only while
no message of the user came after it (`SaysInOrder`). That the events are ordered is
`OrderInv`, of the transcript and of what the page has received: what a run has still to write
is of that run only (`ScriptOfRun`, `TodoBelow`), a stream holds what its run wrote and nothing else
(`StreamsSayTheirOwn`), and the page follows the stream of the message it added last
(`StreamBelow`), even if an earlier one was refused or its answer never came.

`LedgersBalance` and `CompletionsBillEverything` are proved in `AgentRunProofs` too, for any
budget, requests and costs. Sums and reservations go through sequences, so they are by
induction: `CourseExists` gives the values a recursive function goes through, `SumsDiffer`
what a sum becomes when an entry is added or replaced, `ReserveAllFacts` what is reserved
for a sequence of subagents. `LedgerInv` adds where the entries are: each subagent of a
delegation has one of its own in the ledger of that delegation (`Entered`), so that the
reconciliation of one does not touch another, in any order. `AllBilled` says that the cost
of all responses is the usage of the run and of both ledgers but for what subagents reserved
and have not used (`Owed`), and `FanUnused` that the fan-out, which starts from a new ledger,
drops nothing. An amount may be negative: a subagent that overspends leaves less than
nothing, and the balance still holds.

Only model-checked: liveness, which needs fairness and ENABLED; the rest of
`ReadsInOrder`, that a conversation reads the same live and afterwards; and rank fusion,
`RetrievalAgrees`, where searches over the folded data and sorting would need inductions
of their own.

## 5. Where code and comments disagree

Met while modelling; the models do what the code does, and the properties are stated
so that they hold of it.

- A cancelRun that arrives during compaction or the handler drain is not carried into
  the next execution, which runs the turns queued before it
  (`workflows/agent-session.workflow.ts:419`); `workflows/session-contracts.ts:53`
  says the session drains no further entries. `CancelSettles` excepts a handoff.
- Run ids start at one again when a completed session is restarted (`:237`), though
  `session-contracts.ts:19` calls them fresh. `LaneInOrder` is about one session.
- interruptRun reads the active scope after an await (`:271`): it may be that of the
  next turn. `session-contracts.ts:42` speaks of the run addressed.
- A hard cancellation that strikes a wait is not recorded by the run
  (`workflows/agent-run.workflow.ts:1496`), though the comment at `:1486` says so. Its row
  stays `running`: the stream route polls it without a bound
  (`pages/api/sessions/[sessionKey]/stream/[runId]/+server.ts:91`), and so does a page that
  is opened later (`src/lib/session-reconnection.ts:241`), with its composer locked.
  `ComposerFreed` excepts a page that follows such a run, in both modules.
- A turn that is being posted when the user navigates is accepted later and streams into
  the page of the other session (`+page.svelte:264`, `:343`), shows its failure there
  (`:284`), and its `finally` frees the composer of whatever is submitted there (`:287`).
  `ShownSessionOnly` excepts the time in which it may do so, for what is streamed and told.
- When the insert of an invocation throws (`server/tools/registry.ts:152`), the catch
  block updates a row that is not there (`:200`), and the error has no invocation.
  `ResultsAreRecorded` says that such a call did nothing.
- The session replaces its references by the result of a compaction
  (`workflows/agent-session.workflow.ts:406`), so that those of the candidates its runs
  wrote (`:364`) are not handed on; `:151` calls what is carried the accumulated candidate
  refs. `HandoffIsRecorded` says what is left: what the row tells, and candidates of the
  runs since.
- Ids of all schedules in the namespace are asserted (`server/temporal/schedule-client.ts:150`)
  before those of other programs are left out (`:153`): one with a dot in it makes every
  reconciliation throw. `ProjectionCatchesUp` is about behaviours in which none stays.
- The vector index returns the nearest notes however dissimilar they are
  (`server/memory/memory-store.ts:427`), the comparison it stands in for only similar ones
  (`:381`). `IndexAgrees` compares the similar ones, and when no other session and no
  unconfirmed note has a vector it wants all of them, before the dissimilar ones.
- An MCP client is kept only after it connected (`server/tools/playwright-mcp.ts:128`): of
  two calls that start a server at once, of whatever sessions, only the last client is
  kept and the other server is never closed. `ClientsAreShared` excepts those (`crossed`).
- `completeRun` is returned without an await (`:1469`), so that its rejection skips the
  catch block at `:1499`. `ReturnedRunsAreRecorded` is about runs that return.
- `delegate.parallel` counts children but no action (`:1381`); `:1219` says every
  launch counts one.
- The last read of an SSE stream takes 100 rows once
  (`pages/api/sessions/[sessionKey]/stream/[runId]/+server.ts:119`), though `:44`
  speaks of draining.
- The sequence of a run restarts at 1 after the trim (`server/stream/index.ts:66`);
  `:31` and `ARCHITECTURE.md:199` call it monotonic.
- The status of a run is written before its answer
  (`src/activities/observability.activities.ts:247`), so that a refresh after the
  stream can miss the answer (`pages/sessions/[sessionKey]/+page.svelte:265`).
- A retry of recordRequest that finds the row returns before the card and the status
  (`server/policy/approvals.ts:116`); `ARCHITECTURE.md:272` says the approval is
  announced. `WholeUnlessAbandoned` excepts calls with an attempt given up.
- Processes of a lost worker are never reaped
  (`server/sandbox/local-subprocess-provider.ts:425`), though
  `src/activities/sandbox.activities.ts:124` guarantees the cleanup. `CancelReaps`
  excepts `orphans`.
- The page's own message has no id of the server, so that a kept fold can show the
  text of an earlier, refused submission
  (`src/lib/components/conversation-view.svelte:137`). `ViewIsFold` compares outlines.
- The context of a subagent holds the call of its parent without a result
  (`server/agent-core/context-builder.ts:122`, against `:95`). `OwnContextIsReady` is
  about the contexts of the run itself.
- The cursor of a compaction counts the events of one run and is compared with those of
  every run (`src/activities/memory.activities.ts:74`), so that some are never
  summarised, though `ARCHITECTURE.md:207` says the position is kept.

Smaller ones: `server/policy/approvals.ts:287` orders by `asc(status)`, which is not
pending first; a POST stream that breaks is not followed by a fetch
(`+page.svelte:283`); `attempts` above one are displayed
(`server/observability/projection.ts:45`) and never happen; a call that was refused or
that a budget stopped stays pending in the inspector; two resolutions of one approval
give two notices in the inbox.

## 6. Not modelled, and what is left

- Pure presentation (formatting, themes, dialogs, keyboard, the panels as components),
  the creation of a session from the start page, request validation in routes: no
  state that another actor could see in between.
- Text patterns and address rules of the policy, path checks, token and cost
  estimates, embeddings: pure functions on strings and floats.
- The schema, apart from the uniqueness constraints, which are guards; scripts,
  configuration, the Playwright and unit tests; Temporal itself, beyond what the
  workflows rely on.
- The writing of embeddings, `queryRuns` and `generateEmbedding`: no code calls them.

Left for later: a composition of `SessionPage` with `ConversationView`, which today share
the transcript only by their abstractions.
