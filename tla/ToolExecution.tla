--------------------------- MODULE ToolExecution ---------------------------
(***************************************************************************)
(* The tool calls of a session: the gate that handleToolCall puts before   *)
(* each of them, and its execution by a tool activity, which is            *)
(* executeRegisteredTool, the idempotency ledger around it, the statements *)
(* of the tool itself, and the spill of large output.                      *)
(*                                                                         *)
(* The workflow issues one call at a time.  An attempt it no longer waits  *)
(* for may go on in the worker, beside a retry or beside the calls of the  *)
(* next run.  The proxies of agent-run.workflow.ts allow one attempt per   *)
(* call today; the ledger is written, and tested, for more.  The worker    *)
(* serves other sessions too: of their calls, those that use an MCP client *)
(* are here, because the clients are the worker's and not a session's.     *)
(*                                                                         *)
(* Abstracted: a call is its tool, so there is one call of each; a         *)
(* workspace is the set of effects and temporary files in it, a snapshot a *)
(* copy of that set; output is small or large.                             *)
(***************************************************************************)
EXTENDS Naturals, Sequences, FiniteSets, ToolPolicy, Workers

CONSTANTS
  Agendas,       \* sets of tools: the calls that are made together
  MaxAttempts,   \* attempts of a call
  MaxAbandoned,  \* bound: attempts that are given up
  MaxElsewhere,  \* bound: calls of a tool that other sessions make
  MaxDied        \* bound: MCP servers that stop by themselves

ASSUME ToolAssumption ==
  /\ Agendas \subseteq SUBSET Tools
  /\ MaxAttempts \in Nat \ {0} /\ MaxAbandoned \in Nat
  /\ MaxElsewhere \in Nat /\ MaxDied \in Nat

Calls == UNION Agendas
Attempts == Calls \X (1..MaxAttempts)

NoAttempt == <<>>
NoSnapshot == {NoAttempt}

VARIABLES
  agenda,        \* the calls of this behaviour
  gate,          \* where handleToolCall is with a call
  args,          \* the arguments of a call, as proposed and then as approved
  edited,        \* history: calls approved with other arguments
  awaited,       \* the attempt the workflow waits for
  at,            \* the next statement of every attempt
  result,        \* what an attempt returns
  ledger,        \* idempotency_ledger.status
  invocation,    \* tool_invocations.status
  ref,           \* tool_invocations.resultRef: the attempt that spilled, or none
  workspace,     \* effects of calls and temporary patch files
  snapshots,     \* the workspace as an attempt recorded it
  files,         \* artifacts in the store, by the attempt that put them
  artifactRows,  \* rows of artifacts
  cachedClient,  \* the MCP client that the module of a server keeps
  using,         \* the client an attempt holds: the attempt that connected it
  elsewhere,     \* where the calls of other sessions are with their client
  connections,   \* MCP servers that run
  browsers,      \* attempts whose headless browser is open
  effects,       \* history: times a call changed something
  uncleaned,     \* history: attempts that left their patch file behind
  restored,      \* history: a snapshot was restored
  abandoned,     \* history: attempts given up
  died,          \* history: MCP servers that stopped
  crossed        \* history: kinds of server that were started twice at a time

door == <<agenda, gate, args, edited>>
records == <<ledger, invocation, ref>>
disk == <<workspace, snapshots, files>>
clients == <<cachedClient, using, elsewhere, connections, browsers, died, crossed>>
history == <<effects, uncleaned, restored, abandoned>>
vars == <<door, awaited, at, result, records, disk, artifactRows, clients, history>>

Effect(c) == <<c, 0>>
PatchFile(p) == p
Temporary == Attempts

(* The tools that talk to an MCP server, and the servers. *)
McpServer ==
  [t \in {"temporal.inspect", "temporal.mcp.call", "browser.mcp.call", "docs.lookup"} |->
     CASE t = "browser.mcp.call" -> "playwright" [] t = "docs.lookup" -> "context7"
       [] OTHER -> "temporal"]

Servers == {"temporal", "playwright", "context7"}

(* Calls of other sessions that want a client, numbered after the attempts. *)
Elsewhere ==
  (Calls \cap DOMAIN McpServer) \X ((MaxAttempts + 1)..(MaxAttempts + MaxElsewhere))

Init ==
  /\ agenda \in Agendas
  /\ gate = [c \in Calls |-> "new"]
  /\ args = [c \in Calls |-> "none"]
  /\ edited = {}
  /\ awaited = NoAttempt
  /\ at = [p \in Attempts |-> "off"]
  /\ result = [p \in Attempts |-> "none"]
  /\ ledger = [c \in Calls |-> "none"]
  /\ invocation = [c \in Calls |-> "none"]
  /\ ref = [c \in Calls |-> NoAttempt]
  /\ workspace = {}
  /\ snapshots = [p \in Attempts |-> NoSnapshot]
  /\ files = {} /\ artifactRows = {}
  /\ cachedClient = [s \in Servers |-> NoAttempt]
  /\ using = [p \in Attempts |-> NoAttempt]
  /\ elsewhere = [q \in Elsewhere |-> "off"]
  /\ connections = {} /\ browsers = {} /\ died = {} /\ crossed = {}
  /\ effects = [c \in Calls |-> 0]
  /\ uncleaned = {} /\ restored = FALSE /\ abandoned = {}

-----------------------------------------------------------------------------
(* The statements of the tools, in order.  "request" reads, here or over the network,
   and "resolve" is a read whose answer the next one needs; "send" changes something
   that is not the workspace: a process, a page, a message, a schedule, a memory row,
   the scratch database. *)

FileTools ==
  [t \in {"web.fetch", "workspace.readFile", "workspace.writeFile", "workspace.applyPatch"} |->
     CASE t = "workspace.writeFile" -> <<"snapshot", "effect">>
       [] t = "workspace.applyPatch" -> <<"temp", "snapshot", "effect", "cleanup">>
       [] OTHER -> <<"request">>]

CommandTools ==
  [t \in {"shell.exec", "process.start", "process.kill", "workspace.searchFiles"} |->
     CASE t = "shell.exec" -> <<"snapshot", "effect">>
       [] t = "workspace.searchFiles" -> <<"request">>
       [] OTHER -> <<"send">>]

VersionTools ==
  [t \in {"workspace.diff", "sandbox.snapshot", "sandbox.restore", "verification.run"} |->
     CASE t = "workspace.diff" -> <<"request", "put", "index">>
       [] t = "sandbox.snapshot" -> <<"snapshot">>
       [] t = "sandbox.restore" -> <<"restore">>
       [] t = "verification.run" -> <<"effect", "put", "index">>]

(* runBrowserAgent: a browser of its own for every call. *)
BrowserTools ==
  [t \in {"browser.inspect", "browser.act"} |-> <<"launch", "send", "put", "index", "close">>]

ReportTools ==
  [t \in {"repository.inspect", "temporal.inspect", "temporal.mcp.call",
          "artifact.createReport"} |->
     CASE t = "repository.inspect" -> <<"request">>
       [] t = "temporal.inspect" -> <<"connect", "triage", "put", "index">>
       [] t = "temporal.mcp.call" -> <<"connect", "request">>
       [] t = "artifact.createReport" -> <<"put", "index">>]

MemoryTools ==
  [t \in {"memory.search", "memory.writeCandidate"} |->
     IF t = "memory.search" THEN <<"request">> ELSE <<"send">>]

(* executeNewToolCall, but for the public data. *)
LocalTools ==
  [t \in {"session.sendMessage", "schedule.create", "schedule.list", "notify.user",
          "imessage.send"} |->
     IF t = "schedule.list" THEN <<"request">> ELSE <<"send">>]

(* One SQL statement in a database that is closed whatever happens. *)
ScratchTools == [t \in {"db.query"} |-> <<"send">>]

McpTools ==
  [t \in {"browser.mcp.call", "docs.lookup"} |->
     IF t = "docs.lookup" THEN <<"connect", "resolve", "request">> ELSE <<"connect", "send">>]

FeedTools ==
  [t \in {"feed.read", "hackernews.read"} |->
     IF t = "feed.read" THEN <<"request">> ELSE <<"resolve", "request">>]

WeatherTool == [t \in {"weather.lookup"} |-> <<"resolve", "request">>]

WikipediaTool == [t \in {"wikipedia.lookup"} |-> <<"resolve", "request">>]

Statements ==
  [t \in DOMAIN FileTools \cup DOMAIN CommandTools \cup DOMAIN VersionTools
           \cup DOMAIN BrowserTools \cup DOMAIN ReportTools \cup DOMAIN MemoryTools
           \cup DOMAIN LocalTools \cup DOMAIN ScratchTools \cup DOMAIN McpTools
           \cup DOMAIN FeedTools \cup DOMAIN WeatherTool \cup DOMAIN WikipediaTool |->
     CASE t \in DOMAIN FileTools -> FileTools[t]
       [] t \in DOMAIN CommandTools -> CommandTools[t]
       [] t \in DOMAIN VersionTools -> VersionTools[t]
       [] t \in DOMAIN BrowserTools -> BrowserTools[t]
       [] t \in DOMAIN ReportTools -> ReportTools[t]
       [] t \in DOMAIN MemoryTools -> MemoryTools[t]
       [] t \in DOMAIN LocalTools -> LocalTools[t]
       [] t \in DOMAIN ScratchTools -> ScratchTools[t]
       [] t \in DOMAIN McpTools -> McpTools[t]
       [] t \in DOMAIN FeedTools -> FeedTools[t]
       [] t \in DOMAIN WeatherTool -> WeatherTool[t]
       [] t \in DOMAIN WikipediaTool -> WikipediaTool[t]]

Body(c) == Head(Statements[c])

After(p) ==
  LET body == Statements[p[1]]
      here == CHOOSE i \in DOMAIN body : body[i] = at[p]
  IN IF here = Len(body) THEN "output" ELSE body[here + 1]

-----------------------------------------------------------------------------
(* handleToolCall: policy, approval, dispatch. *)

Idle == awaited = NoAttempt /\ \A c \in agenda : gate[c] \notin {"asked", "cleared"}

(* The model calls the tool and evaluateToolCallPolicy answers. *)
Evaluate(c) ==
  /\ gate[c] = "new" /\ Idle
  /\ \E shape \in Shapes(c) :
       /\ args' = [args EXCEPT ![c] = shape]
       /\ gate' = [gate EXCEPT ![c] =
            CASE Validate(c, shape) = "denied" -> "closed"
              [] Validate(c, shape) = "allowed" -> "cleared"
              [] Validate(c, shape) = "approval_required" -> "asked"]
  /\ UNCHANGED <<agenda, edited, awaited, at, result, records, disk, artifactRows, clients, history>>

(* Refused, cancelled, expired, or approved, as proposed or with other arguments. *)
Resolve(c) ==
  /\ gate[c] = "asked"
  /\ \/ gate' = [gate EXCEPT ![c] = "closed"] /\ UNCHANGED <<args, edited>>
     \/ gate' = [gate EXCEPT ![c] = "cleared"] /\ UNCHANGED <<args, edited>>
     \/ /\ gate' = [gate EXCEPT ![c] = "cleared"]
        /\ \E shape \in Shapes(c) \ {args[c]} : args' = [args EXCEPT ![c] = shape]
        /\ edited' = edited \cup {c}
  /\ UNCHANGED <<agenda, awaited, at, result, records, disk, artifactRows, clients, history>>

(* A timer or delegates, in the workflow itself; arguments it cannot read fail the run. *)
RunInWorkflow(c) ==
  /\ gate[c] = "cleared" /\ c \in InWorkflow
  /\ gate' = [gate EXCEPT ![c] = IF Readable(c, args[c]) THEN "ran" ELSE "failed"]
  /\ UNCHANGED <<agenda, args, edited, awaited, at, result, records, disk, artifactRows, clients,
                 history>>

(* validateToolCall again: what the approver wrote in place of the arguments may not parse. *)
Revalidated(c) == IF Validate(c, args[c]) = "denied" THEN "denied" ELSE "allowed"

Issue(c) ==
  /\ gate[c] = "cleared" /\ c \notin InWorkflow
  /\ gate' = [gate EXCEPT ![c] = "issued"]
  /\ IF Revalidated(c) = "allowed"
       THEN /\ awaited' = <<c, 1>>
            /\ at' = [at EXCEPT ![<<c, 1>>] = "row"]
            /\ UNCHANGED result
       ELSE /\ at' = [at EXCEPT ![<<c, 1>>] = "gone"]
            /\ result' = [result EXCEPT ![<<c, 1>>] = "denied"]
            /\ UNCHANGED awaited
  /\ UNCHANGED <<agenda, args, edited, records, disk, artifactRows, clients, history>>

-----------------------------------------------------------------------------
(* The activity and its attempts. *)

(* Time runs out or the worker is lost: the activity is tried again, if its proxy allows
   that, or fails. *)
Abandon ==
  /\ awaited # NoAttempt
  /\ Cardinality(abandoned) < MaxAbandoned
  /\ abandoned' = abandoned \cup {awaited}
  /\ \/ /\ awaited[2] < MaxAttempts
        /\ LET next == <<awaited[1], awaited[2] + 1>>
           IN awaited' = next /\ at' = [at EXCEPT ![next] = "row"]
     \/ awaited' = NoAttempt /\ at' = at
  /\ UNCHANGED <<door, result, records, disk, artifactRows, clients, effects, uncleaned, restored>>

Goto(p, next) ==
  /\ at' = [at EXCEPT ![p] = next]
  /\ UNCHANGED <<door, awaited, result, abandoned>>

UnlessPresent(c) == IF invocation[c] = "none" THEN "running" ELSE invocation[c]

(* The worker of the tool's queue takes the activity;
   insert(toolInvocations).onConflictDoNothing(). *)
InsertRow(p) ==
  /\ at[p] = "row"
  /\ IsServed(ProxyQueue(p[1]), "executeTool")
  /\ invocation' = [invocation EXCEPT ![p[1]] = UnlessPresent(p[1])]
  /\ Goto(p, IF Keyed(p[1]) THEN "lookup" ELSE Body(p[1]))
  /\ UNCHANGED <<ledger, ref, disk, artifactRows, clients, effects, uncleaned, restored>>

WaitsForPending(c) == ledger[c] \in {"complete", "failed"}

Replays(c) == ledger[c] # "none"

(* executeWithIdempotency: whatever the row says, the call is answered from it. *)
Lookup(p) ==
  /\ at[p] = "lookup"
  /\ \/ /\ Replays(p[1])
        /\ at' = [at EXCEPT ![p] = "record"]
        /\ result' = [result EXCEPT ![p] = "replayed"]
        /\ UNCHANGED <<door, awaited, abandoned>>
     \/ ledger[p[1]] = "none" /\ Goto(p, "reserve")
  /\ UNCHANGED <<records, disk, artifactRows, clients, effects, uncleaned, restored>>

Upserted(c) == FALSE

(* The key is unique: a second insert throws. *)
Reserved(c) == ledger[c] # "none"

Reserve(p) ==
  /\ at[p] = "reserve"
  /\ IF Reserved(p[1])
       THEN Goto(p, "catch") /\ UNCHANGED ledger
       ELSE Goto(p, Body(p[1])) /\ ledger' = [ledger EXCEPT ![p[1]] = "pending"]
  /\ UNCHANGED <<invocation, ref, disk, artifactRows, clients, effects, uncleaned, restored>>

-----------------------------------------------------------------------------
(* Tools that work on the workspace. *)

WriteTemp(p) ==
  /\ at[p] = "temp"
  /\ workspace' = workspace \cup {PatchFile(p)}
  /\ Goto(p, After(p))
  /\ UNCHANGED <<records, snapshots, files, artifactRows, clients, effects, uncleaned, restored>>

(* git add --all, git commit. *)
NewSnapshot(p) == [snapshots EXCEPT ![p] = workspace]

Snapshot(p) ==
  /\ at[p] = "snapshot"
  /\ snapshots' = NewSnapshot(p)
  /\ Goto(p, After(p))
  /\ UNCHANGED <<records, workspace, files, artifactRows, clients, effects, uncleaned, restored>>

(* writeFile, the command, or patch; the latter may leave the file alone and fail. *)
Change(p) ==
  /\ at[p] = "effect"
  /\ \/ /\ workspace' = workspace \cup {Effect(p[1])}
        /\ effects' = [effects EXCEPT ![p[1]] = @ + 1]
        /\ Goto(p, After(p))
     \/ /\ p[1] = "workspace.applyPatch"
        /\ Goto(p, "cleanup after failure")
        /\ UNCHANGED <<workspace, effects>>
  /\ UNCHANGED <<records, snapshots, files, artifactRows, clients, uncleaned, restored>>

CleansUpOnSuccess == {"cleanup"}

(* `finally`. *)
CleansUp == {"cleanup", "cleanup after failure"}

(* rm of the patch file, whose failure is ignored. *)
Cleanup(p) ==
  /\ at[p] \in {"cleanup", "cleanup after failure"}
  /\ \/ /\ workspace' = IF at[p] \in CleansUp THEN workspace \ {PatchFile(p)} ELSE workspace
        /\ UNCHANGED uncleaned
     \/ uncleaned' = uncleaned \cup {p} /\ UNCHANGED workspace
  /\ Goto(p, IF at[p] = "cleanup" THEN "output" ELSE "catch")
  /\ UNCHANGED <<records, snapshots, files, artifactRows, clients, effects, restored>>

Restore(p) ==
  /\ at[p] = "restore"
  /\ \E q \in Attempts : snapshots[q] # NoSnapshot /\ workspace' = snapshots[q]
  /\ restored' = TRUE
  /\ effects' = [effects EXCEPT ![p[1]] = @ + 1]
  /\ Goto(p, "output")
  /\ UNCHANGED <<records, snapshots, files, artifactRows, clients, uncleaned>>

(* git reset knows no such commit. *)
RestoreUnknown(p) ==
  /\ at[p] = "restore"
  /\ Goto(p, "catch")
  /\ UNCHANGED <<records, disk, artifactRows, clients, effects, uncleaned, restored>>

-----------------------------------------------------------------------------
(* MCP servers and browsers. *)

ConnectsAlways(p) == TRUE

(* `if (cachedClient) return cachedClient`. *)
HasNoClient(p) == cachedClient[McpServer[p[1]]] = NoAttempt

IsConnecting(q) == IF q \in Elsewhere THEN elsewhere[q] = "connecting" ELSE at[q] = "connecting"

(* A server of one's own, beside those that others start and that nobody can see yet. *)
Opens(q) ==
  /\ connections' = connections \cup {q}
  /\ crossed' = crossed \cup
       {s \in {McpServer[q[1]]} : \E r \in connections : McpServer[r[1]] = s /\ IsConnecting(r)}

(* The client is kept only when it has connected: of two that found none, the last stays. *)
Keeps(q) ==
  /\ cachedClient' = [cachedClient EXCEPT ![McpServer[q[1]]] = q]
  /\ UNCHANGED connections

(* Context7 also forgets the client it has, which another call may have put there. *)
Fails(q) ==
  /\ connections' = connections \ {q}
  /\ cachedClient' = IF McpServer[q[1]] = "context7" THEN [cachedClient EXCEPT !["context7"] = NoAttempt]
                     ELSE cachedClient

(* Reuse the client of the module, or start a server. *)
Connect(p) ==
  /\ at[p] = "connect"
  /\ IF HasNoClient(p)
       THEN Opens(p) /\ Goto(p, "connecting") /\ UNCHANGED using
       ELSE /\ using' = [using EXCEPT ![p] = cachedClient[McpServer[p[1]]]]
            /\ Goto(p, After(p))
            /\ UNCHANGED <<connections, crossed>>
  /\ UNCHANGED <<records, disk, artifactRows, cachedClient, elsewhere, browsers, died, effects,
                 uncleaned, restored>>

AfterConnecting(p) ==
  IF p[1] = "temporal.inspect" THEN "triage"
  ELSE IF p[1] = "docs.lookup" THEN "resolve"
  ELSE IF p[1] = "browser.mcp.call" THEN "send" ELSE "request"

(* A failure ends the call, but temporal.inspect notes it in its answer. *)
Connected(p) ==
  /\ at[p] = "connecting"
  /\ \/ /\ Keeps(p)
        /\ using' = [using EXCEPT ![p] = p]
        /\ Goto(p, AfterConnecting(p))
     \/ /\ Fails(p)
        /\ Goto(p, IF p[1] = "temporal.inspect" THEN "triage" ELSE "catch")
        /\ UNCHANGED using
  /\ UNCHANGED <<records, disk, artifactRows, elsewhere, browsers, died, crossed, effects,
                 uncleaned, restored>>

ConnectElsewhere(q) ==
  /\ elsewhere[q] = "off"
  /\ IF HasNoClient(q)
       THEN Opens(q) /\ elsewhere' = [elsewhere EXCEPT ![q] = "connecting"]
       ELSE elsewhere' = [elsewhere EXCEPT ![q] = "gone"] /\ UNCHANGED <<connections, crossed>>
  /\ UNCHANGED <<door, awaited, at, result, records, disk, artifactRows, cachedClient, using,
                 browsers, died, history>>

ConnectedElsewhere(q) ==
  /\ elsewhere[q] = "connecting"
  /\ elsewhere' = [elsewhere EXCEPT ![q] = "gone"]
  /\ Keeps(q) \/ Fails(q)
  /\ UNCHANGED <<door, awaited, at, result, records, disk, artifactRows, using, browsers, died,
                 crossed, history>>

(* A server stops by itself; nothing clears the client that is kept. *)
ServerDies ==
  /\ Cardinality(died) < MaxDied
  /\ \E q \in connections :
       ~IsConnecting(q) /\ connections' = connections \ {q} /\ died' = died \cup {q}
  /\ UNCHANGED <<door, awaited, at, result, records, disk, artifactRows, cachedClient, using,
                 elsewhere, browsers, crossed, history>>

(* A call over a server that stopped does not come back with an answer. *)
Answers(p) == p[1] \in DOMAIN McpServer => using[p] \in connections

(* A read, the two requests of docs.lookup, the requests of temporal.inspect, whose
   failures are part of its answer. *)
Request(p) ==
  /\ at[p] \in {"resolve", "request", "triage"}
  /\ at[p] = "triage" \/ Answers(p)
  /\ Goto(p, After(p))
  /\ UNCHANGED <<records, disk, artifactRows, clients, effects, uncleaned, restored>>

Send(p) ==
  /\ at[p] = "send"
  /\ Answers(p)
  /\ effects' = [effects EXCEPT ![p[1]] = @ + 1]
  /\ Goto(p, After(p))
  /\ UNCHANGED <<records, disk, artifactRows, clients, uncleaned, restored>>

Launch(p) ==
  /\ at[p] = "launch"
  /\ browsers' = browsers \cup {p}
  /\ Goto(p, After(p))
  /\ UNCHANGED <<records, disk, artifactRows, cachedClient, using, elsewhere, connections, died,
                 crossed, effects, uncleaned, restored>>

(* `finally`. *)
Closes == {"close", "close after failure"}

CloseBrowser(p) ==
  /\ at[p] \in {"close", "close after failure"}
  /\ browsers' = IF at[p] \in Closes THEN browsers \ {p} ELSE browsers
  /\ Goto(p, IF at[p] = "close" THEN "output" ELSE "catch")
  /\ UNCHANGED <<records, disk, artifactRows, cachedClient, using, elsewhere, connections, died,
                 crossed, effects, uncleaned, restored>>

-----------------------------------------------------------------------------
(* Artifacts. *)

(* putObject; artifact ids are fresh, an attempt is the id of what it stores. *)
Stored(p) == files \cup {p}

(* persistToolArtifact and spillLargeOutput write the file, then its row. *)
PutObject(p) ==
  /\ at[p] \in {"put", "spill put"}
  /\ files' = Stored(p)
  /\ Goto(p, CASE at[p] = "put" -> "index" [] at[p] = "spill put" -> "spill index")
  /\ UNCHANGED <<records, workspace, snapshots, artifactRows, clients, effects, uncleaned, restored>>

IndexObject(p) ==
  /\ at[p] \in {"index", "spill index"}
  /\ artifactRows' = artifactRows \cup {p}
  /\ Goto(p, CASE at[p] = "index" -> After(p) [] at[p] = "spill index" -> "spill ref")
  /\ UNCHANGED <<records, disk, clients, effects, uncleaned, restored>>

SetRef(p) ==
  /\ at[p] = "spill ref"
  /\ ref' = [ref EXCEPT ![p[1]] = p]
  /\ Goto(p, "settle")
  /\ UNCHANGED <<ledger, invocation, disk, artifactRows, clients, effects, uncleaned, restored>>

(* Within the inline limit, or spilled. *)
Output(p) ==
  /\ at[p] = "output"
  /\ \E next \in {"settle", "spill put"} : Goto(p, next)
  /\ UNCHANGED <<records, disk, artifactRows, clients, effects, uncleaned, restored>>

(* GET /api/artifacts: the artifacts it lists, each with a fresh token. *)
Listed == artifactRows

(* GET /api/artifacts/[artifactId] with such a token. *)
Serves(a) ==
  CASE a \notin artifactRows -> "not found"
    [] a \in artifactRows /\ a \in files -> "content"
    [] a \in artifactRows /\ a \notin files -> "broken stream"

-----------------------------------------------------------------------------
(* Settling. *)

Settle(p) ==
  /\ at[p] = "settle"
  /\ ledger' = IF Keyed(p[1]) THEN [ledger EXCEPT ![p[1]] = "complete"] ELSE ledger
  /\ at' = [at EXCEPT ![p] = "record"]
  /\ result' = [result EXCEPT ![p] = "success"]
  /\ UNCHANGED <<door, awaited, invocation, ref, disk, artifactRows, clients, history>>

Return(p, outcome) ==
  /\ at' = [at EXCEPT ![p] = "gone"]
  /\ result' = [result EXCEPT ![p] = outcome]
  /\ awaited' = IF awaited = p THEN NoAttempt ELSE awaited
  /\ using' = [using EXCEPT ![p] = NoAttempt]
  /\ UNCHANGED <<door, ledger, ref, disk, artifactRows, cachedClient, elsewhere, connections,
                 browsers, died, crossed, history>>

(* UPDATE ... WHERE toolCallId: there may be no such row. *)
Marked(c, status) == [invocation EXCEPT ![c] = IF @ = "none" THEN "none" ELSE status]

Record(p) ==
  /\ at[p] = "record"
  /\ invocation' = Marked(p[1], "complete")
  /\ Return(p, result[p])

(* Also when it is the insert of the row that threw. *)
Catch(p) ==
  /\ at[p] = "catch"
  /\ invocation' = Marked(p[1], "failed")
  /\ Return(p, "error")

(* Where a failure leads: out through the `finally` of the statement, if it has one.
   That of applyPatch covers the command only. *)
Handler(p) ==
  IF at[p] = "effect" /\ p[1] = "workspace.applyPatch" THEN "cleanup after failure"
  ELSE IF p \in browsers THEN "close after failure"
  ELSE "catch"

(* A statement of the tool, or of its bookkeeping, throws. *)
Throw(p) ==
  /\ at[p] \notin {"off", "gone", "catch", "cleanup", "cleanup after failure", "close",
                   "close after failure", "output", "connecting", "triage"}
  /\ uncleaned' = IF at[p] = "snapshot" /\ p[1] = "workspace.applyPatch"
                    THEN uncleaned \cup {p} ELSE uncleaned
  /\ Goto(p, Handler(p))
  /\ UNCHANGED <<records, disk, artifactRows, clients, effects, restored>>

Tool(p) ==
  \/ WriteTemp(p) \/ Snapshot(p) \/ Change(p) \/ Cleanup(p) \/ Restore(p) \/ RestoreUnknown(p)
  \/ Connect(p) \/ Connected(p) \/ Request(p) \/ Send(p) \/ Launch(p) \/ CloseBrowser(p)

Artifact(p) == PutObject(p) \/ IndexObject(p) \/ SetRef(p) \/ Output(p)

Step(p) ==
  \/ InsertRow(p) \/ Lookup(p) \/ Reserve(p)
  \/ Tool(p) \/ Artifact(p)
  \/ Settle(p) \/ Record(p) \/ Catch(p)

Gate(c) == Resolve(c) \/ RunInWorkflow(c) \/ Issue(c)

Next ==
  \/ \E c \in agenda : Evaluate(c) \/ Gate(c)
  \/ Abandon
  \/ \E p \in agenda \X (1..MaxAttempts) : Step(p) \/ Throw(p)
  \/ \E q \in Elsewhere : q[1] \in agenda /\ (ConnectElsewhere(q) \/ ConnectedElsewhere(q))
  \/ ServerDies

Spec == Init /\ [][Next]_vars

(* The worker runs the attempt that is waited for, and fails it when a server it needs
   is gone; an approval is resolved or expires.  An abandoned attempt owes nothing. *)
FairSpec ==
  /\ Spec
  /\ WF_vars(\/ \E p \in agenda \X (1..MaxAttempts) :
                  awaited = p /\ (Step(p) \/ (~Answers(p) /\ Throw(p)))
             \/ \E c \in agenda : Gate(c))

-----------------------------------------------------------------------------
Positions ==
  {"off", "gone", "row", "lookup", "reserve", "temp", "snapshot", "effect", "cleanup",
   "cleanup after failure", "restore", "connect", "connecting", "resolve", "request", "triage",
   "send", "launch", "close", "close after failure", "put", "index", "output", "spill put",
   "spill index", "spill ref", "settle", "record", "catch"}

TypeOK ==
  /\ agenda \in Agendas
  /\ gate \in [Calls -> {"new", "asked", "cleared", "issued", "ran", "failed", "closed"}]
  /\ args \in [Calls -> {"none", "valid", "malformed", "wide", "loose"}]
  /\ edited \subseteq Calls
  /\ awaited \in Attempts \cup {NoAttempt}
  /\ at \in [Attempts -> Positions]
  /\ result \in [Attempts -> {"none", "denied", "success", "replayed", "error"}]
  /\ ledger \in [Calls -> {"none", "pending", "complete"}]
  /\ invocation \in [Calls -> {"none", "running", "complete", "failed"}]
  /\ ref \in [Calls -> Attempts \cup {NoAttempt}]
  /\ workspace \subseteq {Effect(c) : c \in Calls} \cup Temporary
  /\ files \subseteq Attempts /\ artifactRows \subseteq Attempts
  /\ cachedClient \in [Servers -> Attempts \cup Elsewhere \cup {NoAttempt}]
  /\ using \in [Attempts -> Attempts \cup Elsewhere \cup {NoAttempt}]
  /\ elsewhere \in [Elsewhere -> {"off", "connecting", "gone"}]
  /\ connections \subseteq Attempts \cup Elsewhere /\ died \subseteq Attempts \cup Elsewhere
  /\ browsers \subseteq Attempts /\ crossed \subseteq Servers
  /\ effects \in [Calls -> Nat]
  /\ uncleaned \subseteq Attempts /\ abandoned \subseteq Attempts
  /\ restored \in BOOLEAN

(* Every activity a workflow asks for is served by the worker of the queue it asks, and
   every tool of the orchestrator's queue is taken out by the workflow: a tool that is
   added on one side only would wait for ever, or answer with a placeholder. *)
WiringIsComplete ==
  /\ \A ask \in Asked : IsServed(ask[1], ask[2])
  /\ \A t \in Tools :
       IF registeredTools[t].taskQueue = "orchestrator"
         THEN t \in InWorkflow ELSE t \in DOMAIN Statements /\ t \notin InWorkflow

(* A tool runs in an activity only with arguments that its schema accepts, whoever wrote
   them, and only delegates whose arguments the approver replaced run in the workflow
   with arguments that nothing checked against the schema. *)
OnlyParsedArgumentsRun ==
  /\ \A p \in Attempts : at[p] \notin {"off", "gone"} => Parses(p[1], args[p[1]])
  /\ \A c \in Calls : gate[c] = "ran" => Parses(c, args[c]) \/ c \in edited

(* A call with an idempotency key takes effect at most once, however its attempts
   overlap, fail or are tried again. *)
EffectAtMostOnce == \A c \in Calls : Keyed(c) => effects[c] <= 1

(* While no attempt runs that nobody waits for, a call is about to change exactly
   the workspace its snapshot holds. *)
Restorable ==
  \A p \in Attempts :
    at[p] = "effect" /\ abandoned = {} /\ p[1] # "verification.run" => workspace = snapshots[p]

(* A patch file outlives the attempt that wrote it only if its removal failed, the
   snapshot before the patch failed, or a snapshot that contains it was restored. *)
NoStrayPatchFile ==
  \A p \in Attempts :
    PatchFile(p) \in workspace /\ at[p] = "gone" => p \in uncleaned \/ restored

(* Every artifact that is listed can be downloaded, and a reference has its row, at every
   moment. *)
ArtifactsResolve ==
  /\ \A a \in Listed : Serves(a) = "content"
  /\ \A c \in Calls : ref[c] # NoAttempt => Serves(ref[c]) = "content"

(* What the records say of a call is so.  An answer leaves its invocation settled, and a
   success the ledger too, with the effect done once; only an error may leave no
   invocation, and then nothing was done and nothing reserved.  An invocation that runs
   has an attempt that runs: none stays open behind attempts that have all ended. *)
ResultsAreRecorded ==
  /\ \A p \in Attempts :
       at[p] = "gone" /\ result[p] \in {"success", "replayed"} =>
         /\ invocation[p[1]] \in {"complete", "failed"}
         /\ result[p] = "success" /\ Keyed(p[1]) /\ p[1] # "sandbox.snapshot" =>
              ledger[p[1]] = "complete" /\ effects[p[1]] = 1
  /\ \A c \in Calls : invocation[c] = "none" => effects[c] = 0 /\ ledger[c] = "none"
  /\ \A c \in Calls : invocation[c] = "running" =>
       \E p \in Attempts : p[1] = c /\ at[p] \notin {"off", "row", "gone"}

(* A second MCP server of a kind runs only if two calls were starting one at the same time,
   of whatever sessions, and a client is kept only after it connected. *)
ClientsAreShared ==
  /\ \A q, r \in connections :
       q # r /\ McpServer[q[1]] = McpServer[r[1]] => McpServer[q[1]] \in crossed
  /\ \A s \in Servers : cachedClient[s] \in connections \cup died \cup {NoAttempt}

(* No headless browser outlives the attempt that launched it. *)
BrowsersClose == \A p \in browsers : at[p] # "gone"

(* The workflow never waits for ever: every call is refused, answered or given up. *)
CallsReturn == []<>Idle

(* A call does what was asked, once, and leaves a record of it that a retry and a
   later restore can rely on (executeToolCall). *)
CallsDoOnce ==
  TypeOK /\ OnlyParsedArgumentsRun /\ EffectAtMostOnce /\ Restorable /\ ResultsAreRecorded

(* What calls leave beside their records is what the records name: reports exist,
   patch files do not, and every tool the manifest names has its worker. *)
LeavingsAreOwned == NoStrayPatchFile /\ ArtifactsResolve /\ WiringIsComplete

(* The clients of external servers are shared by the calls of all sessions, but for those
   that start one at the same time, and no browser outlives the attempt it is for. *)
ProcessesAreManaged == ClientsAreShared /\ BrowsersClose
=============================================================================
