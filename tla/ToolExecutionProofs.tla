------------------------ MODULE ToolExecutionProofs ------------------------
(***************************************************************************)
(* Theorems of ToolExecution: what calls do once, what they leave, and the *)
(* processes they run, for every set of calls and any number of attempts;  *)
(* and of Sandbox, where these processes are.                              *)
(*                                                                         *)
(* First what the tables of tools say, body by body; then how a step moves *)
(* an attempt (Moves, ToolGoes, FrameGoes); then the parts of the          *)
(* invariant, each kept by the steps of an attempt and by what happens     *)
(* beside it (Waits).  The invariant of Sandbox is about one process.      *)
(***************************************************************************)
EXTENDS ToolExecution, Sandbox, TLAPS

-----------------------------------------------------------------------------
(* What the tables of tools say. *)

(* The different sequences of statements. *)
Bodies ==
  {<<"request">>, <<"snapshot", "effect">>, <<"temp", "snapshot", "effect", "cleanup">>,
   <<"send">>, <<"request", "put", "index">>, <<"snapshot">>, <<"restore">>,
   <<"effect", "put", "index">>, <<"launch", "send", "put", "index", "close">>,
   <<"connect", "triage", "put", "index">>, <<"connect", "request">>, <<"put", "index">>,
   <<"connect", "resolve", "request">>, <<"connect", "send">>, <<"resolve", "request">>}

(* Those with a row in the ledger. *)
KeyedBodies ==
  {<<"snapshot", "effect">>, <<"temp", "snapshot", "effect", "cleanup">>, <<"send">>,
   <<"snapshot">>, <<"restore">>}

(* The tools that run in an activity and have a row in the ledger. *)
KeyedTools ==
  {"workspace.writeFile", "workspace.applyPatch", "process.start", "sandbox.snapshot",
   "sandbox.restore", "memory.writeCandidate", "schedule.create", "session.sendMessage",
   "imessage.send"}

(* What follows a statement of a body. *)
Following(body, i) == IF i = Len(body) THEN "output" ELSE body[i + 1]

(* Statement s is one of the tool t. *)
IsOf(s, t) ==
  t \in DOMAIN Statements /\ \E i \in DOMAIN Statements[t] : Statements[t][i] = s

(* The tools that only read. *)
Readers ==
  {"web.fetch", "workspace.readFile", "workspace.searchFiles", "repository.inspect",
   "memory.search", "schedule.list", "feed.read"}
(* Those that only change something outside the workspace. *)
Senders ==
  {"process.start", "process.kill", "memory.writeCandidate", "session.sendMessage",
   "schedule.create", "notify.user", "imessage.send", "db.query"}
(* Those that read in two requests. *)
Feeds ==
  {"hackernews.read", "weather.lookup", "wikipedia.lookup"}
(* Those that change the workspace after a snapshot. *)
Writers ==
  {"workspace.writeFile", "shell.exec"}
(* Those with a browser of their own. *)
Browsing ==
  {"browser.inspect", "browser.act"}

-----------------------------------------------------------------------------
(* The inductive invariant. *)

(* What snapshots hold: with it, every variable has its type. *)
Contents == {Effect(c) : c \in Calls} \cup Temporary

(* Every variable has its type. *)
Typed == TypeOK /\ snapshots \in [Attempts -> (SUBSET Contents) \cup {NoSnapshot}]

(* The statements of the tools; what follows them is the same for every tool. *)
ToolStatements ==
  {"temp", "snapshot", "effect", "cleanup", "restore", "connect", "resolve", "request", "triage",
   "send", "launch", "close", "put", "index"}

(* An attempt of tool t may be at position s. *)
Fits(s, t) ==
  /\ s \in ToolStatements => IsOf(s, t)
  /\ s \in {"lookup", "reserve"} => Keyed(t)
  /\ s = "connecting" => t \in DOMAIN McpServer
  /\ s = "cleanup after failure" => t = "workspace.applyPatch"

(* Every attempt is at a position of its tool. *)
Placed == \A p \in Attempts : Fits(at[p], p[1])

(* An attempt runs. *)
Runs(p) == at[p] \notin {"off", "gone"}

(* The gate: one call at a time is before it, behind it are calls whose arguments parse,
   and what runs is awaited or was given up. *)
Guarded ==
  /\ \A c \in Calls :
       /\ gate[c] \in {"asked", "cleared"} => c \in agenda /\ awaited = NoAttempt
       /\ gate[c] \in {"asked", "cleared", "ran"} => Parses(c, args[c]) \/ c \in edited
  /\ \A c, d \in Calls :
       gate[c] \in {"asked", "cleared"} /\ gate[d] \in {"asked", "cleared"} => c = d
  /\ \A p \in Attempts :
       /\ at[p] # "off" => gate[p[1]] = "issued"
       /\ Runs(p) => /\ Parses(p[1], args[p[1]])
                     /\ p[1] \in DOMAIN Statements
                     /\ awaited = p \/ p \in abandoned
       /\ awaited = p => Runs(p)
       /\ awaited # NoAttempt /\ awaited[1] = p[1] /\ awaited[2] < p[2] => at[p] = "off"

(* The positions between the reservation of a key and the effect. *)
Pre == {"temp", "snapshot", "effect", "send", "restore"}

(* Those from the effect to the settled row. *)
Post ==
  {"cleanup", "cleanup after failure", "output", "spill put", "spill index", "spill ref", "settle"}

(* An attempt is at one of them. *)
Holds(p) == at[p] \in Pre \cup Post

(* A call with a key takes effect once, and not before it is reserved. *)
Counted ==
  \A c \in Calls : Keyed(c) => effects[c] <= 1 /\ (ledger[c] = "none" => effects[c] = 0)

(* An attempt between reservation and settling has a row; before its effect there was
   none, after it and behind a reported success there was one. *)
Booked ==
  \A p \in Attempts :
    Keyed(p[1]) =>
      /\ Holds(p) => ledger[p[1]] # "none"
      /\ at[p] \in Pre => effects[p[1]] = 0
      /\ at[p] \in Post \ {"cleanup after failure"} /\ p[1] # "sandbox.snapshot" =>
           effects[p[1]] = 1
      /\ result[p] = "success" /\ p[1] # "sandbox.snapshot" =>
           ledger[p[1]] = "complete" /\ effects[p[1]] = 1

(* Of the attempts of a call, one at most is there. *)
Exclusive ==
  \A p, q \in Attempts : Keyed(p[1]) /\ p[1] = q[1] /\ Holds(p) /\ Holds(q) => p = q

(* What returns an answer recorded the call. *)
Answered ==
  \A p \in Attempts :
    /\ at[p] = "record" => result[p] \in {"success", "replayed"}
    /\ at[p] = "gone" /\ result[p] \in {"success", "replayed"} =>
         invocation[p[1]] \in {"complete", "failed"}

(* An attempt past the insert has its row, a call without a row did nothing, and one whose
   row says running has an attempt that runs. *)
Rowed ==
  /\ \A p \in Attempts : at[p] \notin {"off", "row", "catch", "gone"} => invocation[p[1]] # "none"
  /\ \A c \in Calls : invocation[c] = "none" => effects[c] = 0 /\ ledger[c] = "none"
  /\ \A c \in Calls : invocation[c] = "running" =>
       \E p \in Attempts : p[1] = c /\ at[p] \notin {"off", "row", "gone"}

(* The ledger: the one attempt that reserved the key of a call is the only one that
   comes to its effect, and is there when it reports success. *)
Settled == Counted /\ Booked /\ Exclusive /\ Answered

(* A patch file is that of an attempt between its temp file and its removal, unless the
   removal failed or a snapshot was restored. *)
Swept ==
  \A p \in Attempts :
    PatchFile(p) \in workspace =>
      \/ p \in uncleaned
      \/ restored
      \/ /\ p[1] = "workspace.applyPatch"
         /\ at[p] \in {"snapshot", "effect", "cleanup", "cleanup after failure"}

(* An artifact has its file before its row, and its row before a reference. *)
Stocked ==
  /\ artifactRows \subseteq files
  /\ \A p \in Attempts :
       /\ at[p] \in {"index", "spill index"} => p \in files
       /\ at[p] = "spill ref" => p \in artifactRows
  /\ \A c \in Calls : ref[c] # NoAttempt => ref[c] \in artifactRows

(* Before its client is kept. *)
Unconnected == {"off", "row", "lookup", "reserve", "connect", "connecting"}

(* Who may start a server. *)
Callers == Attempts \cup Elsewhere

(* The client of a caller is still to come. *)
Before(q) == IF q \in Elsewhere THEN elsewhere[q] # "gone" ELSE at[q] \in Unconnected

(* Every server runs for its tool, and a client is kept after it connected. *)
Kept ==
  /\ \A q \in connections : q[1] \in DOMAIN McpServer
  /\ \A q \in Callers : IsConnecting(q) => q \in connections
  /\ \A s \in Servers :
       /\ cachedClient[s] \in connections \cup died \cup {NoAttempt}
       /\ \A q \in Callers : Before(q) => cachedClient[s] # q

(* Of a kind that was never started twice at a time, one server runs, and its client is
   kept or on its way. *)
Shared ==
  \A q \in connections :
    McpServer[q[1]] \notin crossed =>
      /\ IsConnecting(q) \/ cachedClient[McpServer[q[1]]] # NoAttempt
      /\ \A r \in connections : McpServer[r[1]] = McpServer[q[1]] => r = q

(* A browser belongs to an attempt that has still to close it. *)
Browsed ==
  \A p \in browsers :
    p[1] \in Browsing /\ at[p] \in {"send", "put", "index", "close", "close after failure"}

(* Processes are accounted for. *)
Managed == Kept /\ Shared /\ Browsed

(* All of it. *)
ToolInv ==
  /\ Typed /\ Placed /\ Guarded /\ Restorable
  /\ Settled /\ Rowed /\ Swept /\ Stocked /\ Managed

-----------------------------------------------------------------------------
(* Lemmas about the tables. *)

(* The statements of every tool of an activity. *)
LEMMA StatementsOfTools ==
  /\ DOMAIN Statements = Readers \cup Senders \cup Feeds \cup Writers \cup Browsing \cup
       {"workspace.applyPatch", "workspace.diff", "sandbox.snapshot",
        "sandbox.restore", "verification.run", "temporal.inspect",
        "temporal.mcp.call", "artifact.createReport", "docs.lookup",
        "browser.mcp.call"}
  /\ \A t \in Readers : Statements[t] = <<"request">>
  /\ \A t \in Senders : Statements[t] = <<"send">>
  /\ \A t \in Feeds : Statements[t] = <<"resolve", "request">>
  /\ \A t \in Writers : Statements[t] = <<"snapshot", "effect">>
  /\ \A t \in Browsing : Statements[t] = <<"launch", "send", "put", "index", "close">>
  /\ Statements["workspace.applyPatch"] = <<"temp", "snapshot", "effect", "cleanup">>
  /\ Statements["workspace.diff"] = <<"request", "put", "index">>
  /\ Statements["sandbox.snapshot"] = <<"snapshot">>
  /\ Statements["sandbox.restore"] = <<"restore">>
  /\ Statements["verification.run"] = <<"effect", "put", "index">>
  /\ Statements["temporal.inspect"] = <<"connect", "triage", "put", "index">>
  /\ Statements["temporal.mcp.call"] = <<"connect", "request">>
  /\ Statements["artifact.createReport"] = <<"put", "index">>
  /\ Statements["docs.lookup"] = <<"connect", "resolve", "request">>
  /\ Statements["browser.mcp.call"] = <<"connect", "send">>
<1> USE DEF Statements, FileTools, CommandTools, VersionTools, BrowserTools, ReportTools,
        MemoryTools, LocalTools, ScratchTools, McpTools, FeedTools, WeatherTool, WikipediaTool,
        Readers, Senders, Feeds, Writers, Browsing
<1>1. DOMAIN Statements = Readers \cup Senders \cup Feeds \cup Writers \cup Browsing \cup
        {"workspace.applyPatch", "workspace.diff", "sandbox.snapshot",
         "sandbox.restore", "verification.run", "temporal.inspect",
         "temporal.mcp.call", "artifact.createReport", "docs.lookup",
         "browser.mcp.call"}
  OBVIOUS
<1>2. \A t \in Readers : Statements[t] = <<"request">>
  OBVIOUS
<1>3. \A t \in Senders : Statements[t] = <<"send">>
  OBVIOUS
<1>4. \A t \in Feeds : Statements[t] = <<"resolve", "request">>
  OBVIOUS
<1>5. \A t \in Writers : Statements[t] = <<"snapshot", "effect">>
  OBVIOUS
<1>6. \A t \in Browsing : Statements[t] = <<"launch", "send", "put", "index", "close">>
  OBVIOUS
<1>7. Statements["workspace.applyPatch"] = <<"temp", "snapshot", "effect", "cleanup">>
  OBVIOUS
<1>8. Statements["workspace.diff"] = <<"request", "put", "index">>
  OBVIOUS
<1>9. Statements["sandbox.snapshot"] = <<"snapshot">>
  OBVIOUS
<1>10. Statements["sandbox.restore"] = <<"restore">>
  OBVIOUS
<1>11. Statements["verification.run"] = <<"effect", "put", "index">>
  OBVIOUS
<1>12. Statements["temporal.inspect"] = <<"connect", "triage", "put", "index">>
  OBVIOUS
<1>13. Statements["temporal.mcp.call"] = <<"connect", "request">>
  OBVIOUS
<1>14. Statements["artifact.createReport"] = <<"put", "index">>
  OBVIOUS
<1>15. Statements["docs.lookup"] = <<"connect", "resolve", "request">>
  OBVIOUS
<1>16. Statements["browser.mcp.call"] = <<"connect", "send">>
  OBVIOUS
<1> HIDE DEF Statements
<1> QED BY <1>1, <1>2, <1>3, <1>4, <1>5, <1>6, <1>7, <1>8, <1>9, <1>10, <1>11, <1>12, <1>13,
   <1>14, <1>15, <1>16

(* Each of them has one of the bodies. *)
LEMMA BodiesOfTools ==
  ASSUME NEW t \in DOMAIN Statements
  PROVE  Statements[t] \in Bodies
BY StatementsOfTools DEF Bodies

(* The tools with a row in the ledger: those of the activities, and delegates. *)
LEMMA ToolsWithKey ==
  ASSUME NEW t \in Tools, Keyed(t)
  PROVE  t \in KeyedTools \cup DelegateTools
BY DEF Tools, Keyed, KeyedTools, DelegateTools, registeredTools, CoreTools, ExtendedTools,
   TimerTools, SessionMessagingTools, ScheduleTools, PublicDataTools, LocalNotificationTools,
   PlaywrightMcpTools, Context7Tools, ScratchDbTools, Meta, LowRisk, RepositoryInspect,
   BrowserInspect, TemporalMcp, SafeArtifact, MutatingWorkspace, SandboxRestore, Verification,
   BrowserAction, ShellExec, ProcessStart, ProcessKill, SandboxSnapshot, MemoryCandidate,
   Delegate, PublicData, DocsLookup, Timer, ScheduleCreate, SessionMessage, Notify, Messaging,
   BrowserMcp, DbQuery

(* Their bodies. *)
LEMMA BodiesWithKey ==
  ASSUME NEW t \in KeyedTools
  PROVE  t \in DOMAIN Statements /\ Statements[t] \in KeyedBodies
BY StatementsOfTools DEF KeyedBodies, KeyedTools, Senders, Writers

(* A tool runs in the workflow or has statements, and no other. *)
LEMMA ToolsAreServed ==
  ASSUME NEW t \in Tools
  PROVE  /\ t \in InWorkflow \/ t \in DOMAIN Statements
         /\ ~(t \in InWorkflow /\ t \in DOMAIN Statements)
         /\ t \in DelegateTools => t \in InWorkflow
         /\ registeredTools[t].taskQueue = "orchestrator" <=> t \in InWorkflow
BY DEF Tools, InWorkflow, SingleDelegates, DelegateTools, Statements,
   registeredTools, CoreTools, ExtendedTools,
   TimerTools, SessionMessagingTools, ScheduleTools, PublicDataTools, LocalNotificationTools,
   PlaywrightMcpTools, Context7Tools, ScratchDbTools, Meta, LowRisk, RepositoryInspect,
   BrowserInspect, TemporalMcp, SafeArtifact, MutatingWorkspace, SandboxRestore, Verification,
   BrowserAction, ShellExec, ProcessStart, ProcessKill, SandboxSnapshot, MemoryCandidate,
   Delegate, PublicData, DocsLookup, Timer, ScheduleCreate, SessionMessage, Notify, Messaging,
   BrowserMcp, DbQuery,
   FileTools, CommandTools, VersionTools, BrowserTools,
   ReportTools, MemoryTools, LocalTools, ScratchTools, McpTools, FeedTools, WeatherTool,
   WikipediaTool

(* No statement occurs twice in a body. *)
LEMMA Distinct ==
  ASSUME NEW body \in Bodies, NEW i \in DOMAIN body, NEW j \in DOMAIN body, body[i] = body[j]
  PROVE  i = j
BY DEF Bodies

(* A body is short. *)
LEMMA Short ==
  ASSUME NEW body \in Bodies
  PROVE  Len(body) \in 1..5 /\ DOMAIN body = 1..Len(body) /\ Head(body) = body[1]
BY DEF Bodies

(* The tools that the invariant tells apart have a body of their own. *)
LEMMA BodiesTell ==
  ASSUME NEW t \in DOMAIN Statements
  PROVE  /\ t \in Browsing <=> Statements[t] = <<"launch", "send", "put", "index", "close">>
         /\ t = "workspace.applyPatch" <=>
              Statements[t] = <<"temp", "snapshot", "effect", "cleanup">>
         /\ t = "sandbox.snapshot" <=> Statements[t] = <<"snapshot">>
         /\ t = "verification.run" <=> Statements[t] = <<"effect", "put", "index">>
         /\ t = "temporal.inspect" <=> Statements[t] = <<"connect", "triage", "put", "index">>
         /\ t = "temporal.mcp.call" <=> Statements[t] = <<"connect", "request">>
         /\ t = "docs.lookup" <=> Statements[t] = <<"connect", "resolve", "request">>
         /\ t = "browser.mcp.call" <=> Statements[t] = <<"connect", "send">>
BY StatementsOfTools DEF Readers, Senders, Feeds, Writers, Browsing

(* What a statement is followed by. *)
LEMMA Follows ==
  ASSUME NEW body \in Bodies, NEW i \in DOMAIN body
  PROVE  /\ body[i] \in ToolStatements
         /\ Following(body, i) \in ToolStatements \cup {"output"}
         /\ Following(body, i) # "output" => \E j \in DOMAIN body : body[j] = Following(body, i)
         /\ Following(body, i) \notin {"temp", "restore", "connect", "launch"}
         /\ Following(body, i) = "effect" => body[i] = "snapshot"
<1>0. i \in 1..5 /\ i <= Len(body)
  BY Short
<1>1. body[i] \in ToolStatements
  BY <1>0 DEF Bodies, ToolStatements
<1>2. Following(body, i) \in ToolStatements \cup {"output"}
  BY <1>0 DEF Bodies, Following, ToolStatements
<1>3. ASSUME Following(body, i) # "output"
      PROVE  \E j \in DOMAIN body : body[j] = Following(body, i)
  <2>1. i # Len(body)
    BY <1>3 DEF Following
  <2>2. i + 1 \in DOMAIN body /\ Following(body, i) = body[i + 1]
    BY <1>0, <2>1, Short DEF Following
  <2> QED BY <2>2
<1>4. Following(body, i) \notin {"temp", "restore", "connect", "launch"}
  BY <1>0 DEF Bodies, Following
<1>5. Following(body, i) = "effect" => body[i] = "snapshot"
  BY <1>0 DEF Bodies, Following
<1> QED BY <1>1, <1>2, <1>3, <1>4, <1>5

(* The next statement of an attempt is the one that follows where it is. *)
LEMMA AfterIs ==
  ASSUME NEW p, p[1] \in DOMAIN Statements, NEW i \in DOMAIN Statements[p[1]],
         Statements[p[1]][i] = at[p]
  PROVE  After(p) = Following(Statements[p[1]], i)
<1> DEFINE body == Statements[p[1]]
           here == CHOOSE j \in DOMAIN body : body[j] = at[p]
<1>1. here \in DOMAIN body /\ body[here] = at[p]
  OBVIOUS
<1>2. body \in Bodies
  BY BodiesOfTools
<1>3. here = i
  <2> HIDE DEF here, body
  <2>1. i \in DOMAIN body /\ body[i] = at[p]
    BY DEF body
  <2> QED BY <1>1, <1>2, <2>1, Distinct
<1> QED BY <1>3 DEF After, Following

(* The servers of the tools with a client. *)
LEMMA ServersOfTools ==
  /\ DOMAIN McpServer = {"temporal.inspect", "temporal.mcp.call", "browser.mcp.call", "docs.lookup"}
  /\ \A t \in DOMAIN McpServer : McpServer[t] \in Servers
BY DEF McpServer, Servers

(* Everything a workflow asks for is served. *)
LEMMA Wired == \A ask \in Asked : IsServed(ask[1], ask[2])
BY DEF Asked, AskedByRun, AskedBySession, AskedBySubagents, AskedByCompaction, AskedBySchedule,
   IsServed, Served, ModelQueue, ToolsQueue, SandboxQueue, MemoryQueue

(* The next statement is one of the tool, or the tool is done. *)
LEMMA AfterFits ==
  ASSUME NEW p, p[1] \in DOMAIN Statements, IsOf(at[p], p[1])
  PROVE  /\ After(p) \in ToolStatements \cup {"output"}
         /\ After(p) # "output" => IsOf(After(p), p[1])
         /\ After(p) \notin {"temp", "restore", "connect", "launch"}
         /\ After(p) = "effect" => at[p] = "snapshot"
<1>1. PICK i \in DOMAIN Statements[p[1]] : Statements[p[1]][i] = at[p]
  BY DEF IsOf
<1>2. After(p) = Following(Statements[p[1]], i)
  BY <1>1, AfterIs
<1>3. Statements[p[1]] \in Bodies
  BY BodiesOfTools
<1> QED BY <1>1, <1>2, <1>3, Follows DEF IsOf

(* The tools that connect do so first. *)
LEMMA ConnectsFirst ==
  ASSUME NEW t \in DOMAIN Statements, NEW i \in DOMAIN Statements[t], Statements[t][i] = "connect"
  PROVE  /\ t \in DOMAIN McpServer
         /\ Following(Statements[t], i) = IF t = "temporal.inspect" THEN "triage"
                                          ELSE IF t = "docs.lookup" THEN "resolve"
                                          ELSE IF t = "browser.mcp.call" THEN "send" ELSE "request"
<1> DEFINE body == Statements[t]
<1>1. body \in Bodies /\ i \in 1..5 /\ i <= Len(body) /\ body[i] = "connect"
  BY BodiesOfTools, Short
<1> HIDE DEF body
<1>2. /\ i = 1
      /\ body \in {<<"connect", "triage", "put", "index">>, <<"connect", "request">>,
                   <<"connect", "resolve", "request">>, <<"connect", "send">>}
  BY <1>1 DEF Bodies
<1>3. t \in {"temporal.inspect", "temporal.mcp.call", "docs.lookup", "browser.mcp.call"}
  BY <1>2, BodiesTell DEF body
<1>4. t \in DOMAIN McpServer
  BY <1>3, ServersOfTools
<1> QED BY <1>2, <1>3, <1>4, StatementsOfTools DEF Following

(* What it is, for the statements that leave something. *)
LEMMA AfterEach ==
  ASSUME NEW p, p[1] \in DOMAIN Statements, IsOf(at[p], p[1])
  PROVE  /\ at[p] = "temp" => p[1] = "workspace.applyPatch" /\ After(p) = "snapshot"
         /\ at[p] = "snapshot" =>
              After(p) = IF p[1] = "sandbox.snapshot" THEN "output" ELSE "effect"
         /\ at[p] = "effect" =>
              After(p) = IF p[1] = "workspace.applyPatch" THEN "cleanup"
                         ELSE IF p[1] = "verification.run" THEN "put" ELSE "output"
         /\ at[p] = "cleanup" => p[1] = "workspace.applyPatch"
         /\ at[p] = "send" => After(p) = IF p[1] \in Browsing THEN "put" ELSE "output"
         /\ at[p] = "launch" => p[1] \in Browsing /\ After(p) = "send"
         /\ at[p] = "put" => IsOf("index", p[1])
         /\ at[p] = "index" => After(p) = IF p[1] \in Browsing THEN "close" ELSE "output"
         /\ at[p] \in {"resolve", "request", "triage"} => After(p) \in {"request", "put", "output"}
         /\ at[p] = "connect" => p[1] \in DOMAIN McpServer /\ After(p) = AfterConnecting(p)
<1>1. PICK i \in DOMAIN Statements[p[1]] : Statements[p[1]][i] = at[p]
  BY DEF IsOf
<1>2. After(p) = Following(Statements[p[1]], i)
  BY <1>1, AfterIs
<1> DEFINE body == Statements[p[1]]
           t == p[1]
<1>3. body \in Bodies /\ i \in 1..5 /\ i <= Len(body)
  BY BodiesOfTools, Short
<1>4. /\ t \in Browsing <=> body = <<"launch", "send", "put", "index", "close">>
      /\ t = "workspace.applyPatch" <=> body = <<"temp", "snapshot", "effect", "cleanup">>
      /\ t = "sandbox.snapshot" <=> body = <<"snapshot">>
      /\ t = "verification.run" <=> body = <<"effect", "put", "index">>
      /\ t = "temporal.inspect" <=> body = <<"connect", "triage", "put", "index">>
      /\ t = "temporal.mcp.call" <=> body = <<"connect", "request">>
      /\ t = "docs.lookup" <=> body = <<"connect", "resolve", "request">>
      /\ t = "browser.mcp.call" <=> body = <<"connect", "send">>
  BY BodiesTell
<1>5. at[p] = body[i] /\ After(p) = Following(body, i)
  BY <1>1, <1>2
<1> HIDE DEF body, t
<1>6. /\ body = <<"launch", "send", "put", "index", "close">> <=> body[1] = "launch"
      /\ body = <<"temp", "snapshot", "effect", "cleanup">> <=> body[1] = "temp"
      /\ body = <<"snapshot">> <=> body[1] = "snapshot" /\ Len(body) = 1
      /\ body = <<"effect", "put", "index">> <=> body[1] = "effect"
  BY <1>3 DEF Bodies
<1>7. /\ t \in Browsing <=> body[1] = "launch"
      /\ t = "workspace.applyPatch" <=> body[1] = "temp"
      /\ t = "sandbox.snapshot" <=> body[1] = "snapshot" /\ Len(body) = 1
      /\ t = "verification.run" <=> body[1] = "effect"
  BY <1>4, <1>6
<1>8. /\ body[i] = "temp" => body[1] = "temp" /\ Following(body, i) = "snapshot"
      /\ body[i] = "snapshot" =>
           Following(body, i) = IF body[1] = "snapshot" /\ Len(body) = 1 THEN "output" ELSE "effect"
      /\ body[i] = "effect" =>
           Following(body, i) = IF body[1] = "temp" THEN "cleanup"
                                ELSE IF body[1] = "effect" THEN "put" ELSE "output"
      /\ body[i] = "cleanup" => body[1] = "temp"
      /\ body[i] = "send" => Following(body, i) = IF body[1] = "launch" THEN "put" ELSE "output"
      /\ body[i] = "launch" => body[1] = "launch" /\ Following(body, i) = "send"
      /\ body[i] = "put" => i + 1 <= Len(body) /\ body[i + 1] = "index"
      /\ body[i] = "index" => Following(body, i) = IF body[1] = "launch" THEN "close" ELSE "output"
      /\ body[i] \in {"resolve", "request", "triage"} =>
           Following(body, i) \in {"request", "put", "output"}
  <2>1. CASE body = <<"request">>
    BY <1>3, <2>1 DEF Following
  <2>2. CASE body = <<"snapshot", "effect">>
    BY <1>3, <2>2 DEF Following
  <2>3. CASE body = <<"temp", "snapshot", "effect", "cleanup">>
    BY <1>3, <2>3 DEF Following
  <2>4. CASE body = <<"send">>
    BY <1>3, <2>4 DEF Following
  <2>5. CASE body = <<"request", "put", "index">>
    BY <1>3, <2>5 DEF Following
  <2>6. CASE body = <<"snapshot">>
    BY <1>3, <2>6 DEF Following
  <2>7. CASE body = <<"restore">>
    BY <1>3, <2>7 DEF Following
  <2>8. CASE body = <<"effect", "put", "index">>
    BY <1>3, <2>8 DEF Following
  <2>9. CASE body = <<"launch", "send", "put", "index", "close">>
    BY <1>3, <2>9 DEF Following
  <2>10. CASE body = <<"connect", "triage", "put", "index">>
    BY <1>3, <2>10 DEF Following
  <2>11. CASE body = <<"connect", "request">>
    BY <1>3, <2>11 DEF Following
  <2>12. CASE body = <<"put", "index">>
    BY <1>3, <2>12 DEF Following
  <2>13. CASE body = <<"connect", "resolve", "request">>
    BY <1>3, <2>13 DEF Following
  <2>14. CASE body = <<"connect", "send">>
    BY <1>3, <2>14 DEF Following
  <2>15. CASE body = <<"resolve", "request">>
    BY <1>3, <2>15 DEF Following
  <2> QED BY <1>3, <2>1, <2>2, <2>3, <2>4, <2>5, <2>6, <2>7, <2>8, <2>9, <2>10, <2>11, <2>12,
     <2>13, <2>14, <2>15 DEF Bodies
<1>9. body[i] = "put" => IsOf("index", p[1])
  BY <1>3, <1>8, Short DEF IsOf, body
<1>10. ASSUME at[p] = "connect"
       PROVE  p[1] \in DOMAIN McpServer /\ After(p) = AfterConnecting(p)
  BY <1>10, <1>1, <1>2, ConnectsFirst DEF AfterConnecting
<1> QED BY <1>5, <1>7, <1>8, <1>9, <1>10 DEF t

(* The first statement of a tool. *)
LEMMA BodyFits ==
  ASSUME NEW t \in DOMAIN Statements
  PROVE  /\ Body(t) \in ToolStatements /\ IsOf(Body(t), t)
         /\ Body(t) \notin {"cleanup", "close", "index", "triage"}
         /\ Body(t) = "effect" => t = "verification.run"
<1>1. Statements[t] \in Bodies /\ Body(t) = Statements[t][1] /\ 1 \in DOMAIN Statements[t]
  BY BodiesOfTools, Short DEF Body
<1>2. t = "verification.run" <=> Statements[t] = <<"effect", "put", "index">>
  BY BodiesTell
<1>3. IsOf(Body(t), t)
  BY <1>1 DEF IsOf
<1> DEFINE body == Statements[t]
<1> HIDE DEF body
<1>4. body \in Bodies /\ (t = "verification.run" <=> body = <<"effect", "put", "index">>)
  BY <1>1, <1>2 DEF body
<1>5. /\ body[1] \in ToolStatements
      /\ body[1] \notin {"cleanup", "close", "index", "triage"}
      /\ body[1] = "effect" => t = "verification.run"
  BY <1>4 DEF Bodies, ToolStatements
<1> QED BY <1>1, <1>3, <1>5 DEF body

(* The statements of a tool with a row in the ledger. *)
LEMMA KeyedStatements ==
  ASSUME NEW t \in Tools, Keyed(t), t \in DOMAIN Statements, NEW s, IsOf(s, t)
  PROVE  s \in Pre \cup {"cleanup"}
<1>1. t \in KeyedTools
  BY ToolsWithKey, ToolsAreServed
<1>2. Statements[t] \in KeyedBodies
  BY <1>1, BodiesWithKey
<1>3. PICK i \in DOMAIN Statements[t] : Statements[t][i] = s
  BY DEF IsOf
<1> DEFINE body == Statements[t]
<1>4. body \in KeyedBodies /\ i \in DOMAIN body /\ body[i] = s
  BY <1>2, <1>3
<1> HIDE DEF body
<1>5. \A b \in KeyedBodies : \A j \in DOMAIN b : b[j] \in Pre \cup {"cleanup"}
  BY DEF KeyedBodies, Pre
<1> QED BY <1>4, <1>5

(* What follows the connection of a client. *)
LEMMA AfterConnectingFits ==
  ASSUME NEW p, p[1] \in DOMAIN McpServer
  PROVE  /\ p[1] \in DOMAIN Statements
         /\ AfterConnecting(p) \in {"triage", "resolve", "send", "request"}
         /\ IsOf(AfterConnecting(p), p[1])
<1>1. p[1] \in {"temporal.inspect", "temporal.mcp.call", "browser.mcp.call", "docs.lookup"}
  BY ServersOfTools
<1>2. p[1] \in DOMAIN Statements
  BY <1>1, StatementsOfTools
<1>3. Statements[p[1]][2] = AfterConnecting(p) /\ 2 \in DOMAIN Statements[p[1]]
  BY <1>1, StatementsOfTools DEF AfterConnecting
<1> QED BY <1>1, <1>2, <1>3 DEF IsOf, AfterConnecting

-----------------------------------------------------------------------------
(* How an attempt moves. *)

(* An attempt is a call and a number. *)
LEMMA Pairs ==
  ASSUME NEW p \in Attempts
  PROVE  /\ p[1] \in Calls /\ p[2] \in 1..MaxAttempts /\ p = <<p[1], p[2]>>
         /\ p # NoAttempt
         /\ \A c \in Calls : Effect(c) # PatchFile(p)
BY ToolAssumption DEF Attempts, NoAttempt, Effect, PatchFile

(* Calls are of tools. *)
LEMMA CallsAreTools == Calls \subseteq Tools
BY ToolAssumption DEF Calls

(* A step of an attempt that runs: it goes to a position of its tool, and is awaited no
   more when it returns. *)
Moves(p) ==
  /\ Runs(p)
  /\ at' = [at EXCEPT ![p] = at'[p]]
  /\ at'[p] \in Positions \ {"off", "row"}
  /\ Fits(at'[p], p[1])
  /\ UNCHANGED <<agenda, gate, args, edited, abandoned>>
  /\ awaited' = IF at'[p] = "gone" /\ awaited = p THEN NoAttempt ELSE awaited

(* It went on, and is awaited as before. *)
LEMMA GotoMoves ==
  ASSUME Typed, NEW p \in Attempts, Runs(p), NEW next \in Positions \ {"off", "row", "gone"},
         Goto(p, next), Fits(next, p[1])
  PROVE  Moves(p) /\ at'[p] = next /\ UNCHANGED result
<1>1. at \in [Attempts -> Positions]
  BY DEF Typed, TypeOK
<1>2. at'[p] = next /\ at' = [at EXCEPT ![p] = next]
  BY <1>1 DEF Goto
<1> QED BY <1>2, Zenon DEF Goto, Moves, door

(* It returned. *)
LEMMA ReturnMoves ==
  ASSUME Typed, NEW p \in Attempts, Runs(p), NEW outcome, Return(p, outcome)
  PROVE  Moves(p) /\ at'[p] = "gone"
<1>1. at \in [Attempts -> Positions]
  BY DEF Typed, TypeOK
<1>2. at'[p] = "gone" /\ at' = [at EXCEPT ![p] = "gone"]
  BY <1>1 DEF Return
<1>3. Fits("gone", p[1]) /\ "gone" \in Positions \ {"off", "row"}
  BY DEF Fits, ToolStatements, Positions
<1> QED BY <1>2, <1>3 DEF Return, Moves, door, history

(* The statements of a tool are positions. *)
LEMMA StatementsArePositions ==
  /\ ToolStatements \cup {"output"} \subseteq Positions \ {"off", "row", "gone"}
  /\ \A s \in Positions : \A t :
       s \notin ToolStatements \cup {"lookup", "reserve", "connecting", "cleanup after failure"} =>
         Fits(s, t)
  /\ \A s \in ToolStatements : \A t : IsOf(s, t) => Fits(s, t)
BY DEF ToolStatements, Positions, Fits

(* At a statement of the tool, the next one is a position of it. *)
LEMMA AfterIsPosition ==
  ASSUME NEW p \in Attempts, p[1] \in DOMAIN Statements, Fits(at[p], p[1]),
         at[p] \in ToolStatements
  PROVE  /\ IsOf(at[p], p[1])
         /\ After(p) \in Positions \ {"off", "row", "gone"} /\ Fits(After(p), p[1])
<1>1. IsOf(at[p], p[1])
  BY DEF Fits
<1>2. After(p) \in ToolStatements \cup {"output"} /\ (After(p) # "output" => IsOf(After(p), p[1]))
  BY <1>1, AfterFits
<1>3. After(p) = "output" => Fits(After(p), p[1])
  BY DEF Fits, ToolStatements
<1> QED BY <1>1, <1>2, <1>3, StatementsArePositions

(* Every step of an attempt moves it. *)
LEMMA StepMoves ==
  ASSUME Typed, Placed, Guarded, NEW p \in Attempts, Step(p) \/ Throw(p)
  PROVE  Moves(p)
<1> DEFINE t == p[1]
           Free == Positions \ (ToolStatements \cup {"off", "row", "gone", "lookup", "reserve",
                                                     "connecting", "cleanup after failure"})
<1>1. Fits(at[p], t) /\ (Runs(p) => t \in DOMAIN Statements)
  BY DEF Placed, Guarded
<1>2. \A next \in Free : Runs(p) /\ Goto(p, next) => Moves(p)
  <2> SUFFICES ASSUME NEW next \in Free, Runs(p), Goto(p, next)
               PROVE  Moves(p)
    OBVIOUS
  <2>1. Fits(next, t)
    BY StatementsArePositions
  <2> QED BY <2>1, GotoMoves
<1>3. \A next \in ToolStatements : Runs(p) /\ Goto(p, next) /\ IsOf(next, t) => Moves(p)
  <2> SUFFICES ASSUME NEW next \in ToolStatements, Runs(p), Goto(p, next), IsOf(next, t)
               PROVE  Moves(p)
    OBVIOUS
  <2>1. Fits(next, t) /\ next \in Positions \ {"off", "row", "gone"}
    BY StatementsArePositions
  <2> QED BY <2>1, GotoMoves
<1>4. Runs(p) /\ at[p] \in ToolStatements /\ Goto(p, After(p)) => Moves(p)
  <2> SUFFICES ASSUME Runs(p), at[p] \in ToolStatements, Goto(p, After(p))
               PROVE  Moves(p)
    OBVIOUS
  <2>1. After(p) \in Positions \ {"off", "row", "gone"} /\ Fits(After(p), t)
    BY <1>1, AfterIsPosition
  <2> QED BY <2>1, GotoMoves
<1>5. Runs(p) /\ Goto(p, Body(t)) => Moves(p)
  BY <1>1, <1>3, BodyFits
<1>6. {"output", "settle", "record", "catch", "spill put", "spill index", "spill ref",
       "close after failure"} \subseteq Free
  BY DEF Positions, ToolStatements
<1> HIDE DEF Free
<1>7. CASE InsertRow(p)
  <2>1. Runs(p)
    BY <1>7 DEF InsertRow, Runs
  <2>2. CASE Keyed(t)
    <3>1. Goto(p, "lookup")
      BY <1>7, <2>2 DEF InsertRow
    <3>2. Fits("lookup", t) /\ "lookup" \in Positions \ {"off", "row", "gone"}
      BY <2>2 DEF Fits, ToolStatements, Positions
    <3> QED BY <2>1, <3>1, <3>2, GotoMoves
  <2>3. CASE ~Keyed(t)
    <3>1. Goto(p, Body(t))
      BY <1>7, <2>3 DEF InsertRow
    <3> QED BY <2>1, <3>1, <1>5
  <2> QED BY <2>2, <2>3
<1>8. CASE Lookup(p)
  <2>1. Runs(p) /\ Keyed(t)
    BY <1>1, <1>8 DEF Lookup, Runs, Fits
  <2>2. CASE Goto(p, "reserve")
    <3>1. Fits("reserve", t) /\ "reserve" \in Positions \ {"off", "row", "gone"}
      BY <2>1 DEF Fits, ToolStatements, Positions
    <3> QED BY <2>1, <2>2, <3>1, GotoMoves
  <2>3. CASE at' = [at EXCEPT ![p] = "record"] /\ UNCHANGED <<door, awaited, abandoned>>
    <3>1. at'[p] = "record"
      BY <2>3 DEF Typed, TypeOK
    <3>2. Fits("record", t) /\ "record" \in Positions \ {"off", "row", "gone"}
      BY DEF Fits, ToolStatements, Positions
    <3> QED BY <2>1, <2>3, <3>1, <3>2, Zenon DEF Moves, door
  <2> QED BY <1>8, <2>2, <2>3 DEF Lookup
<1>9. CASE Reserve(p)
  <2>1. Runs(p)
    BY <1>9 DEF Reserve, Runs
  <2> QED BY <1>9, <2>1, <1>2, <1>5, <1>6 DEF Reserve
<1>10. CASE Tool(p)
  <2>1. CASE WriteTemp(p) \/ Snapshot(p) \/ Send(p) \/ Launch(p) \/ Request(p)
    <3>1. Runs(p) /\ at[p] \in ToolStatements /\ Goto(p, After(p))
      BY <2>1 DEF WriteTemp, Snapshot, Send, Launch, Request, Runs, ToolStatements
    <3> QED BY <3>1, <1>4
  <2>2. CASE Change(p)
    <3>1. Runs(p) /\ at[p] \in ToolStatements
      BY <2>2 DEF Change, Runs, ToolStatements
    <3>2. CASE Goto(p, "cleanup after failure") /\ t = "workspace.applyPatch"
      <4>1. /\ Fits("cleanup after failure", t)
            /\ "cleanup after failure" \in Positions \ {"off", "row", "gone"}
        BY <3>2 DEF Fits, ToolStatements, Positions
      <4> QED BY <3>1, <3>2, <4>1, GotoMoves
    <3> QED BY <2>2, <3>1, <3>2, <1>4 DEF Change
  <2>3. CASE Cleanup(p) \/ CloseBrowser(p) \/ Restore(p) \/ RestoreUnknown(p)
    <3>1. Runs(p) /\ \E next \in {"output", "catch"} : Goto(p, next)
      BY <2>3 DEF Cleanup, CloseBrowser, Restore, RestoreUnknown, Runs
    <3> QED BY <3>1, <1>2, <1>6
  <2>4. CASE Connect(p)
    <3>1. Runs(p) /\ at[p] \in ToolStatements
      BY <2>4 DEF Connect, Runs, ToolStatements
    <3>2. CASE Goto(p, "connecting")
      <4>1. t \in DOMAIN McpServer
        BY <2>4, <3>1, <1>1, AfterEach DEF Connect, Fits
      <4>2. Fits("connecting", t) /\ "connecting" \in Positions \ {"off", "row", "gone"}
        BY <4>1 DEF Fits, ToolStatements, Positions
      <4> QED BY <3>1, <3>2, <4>2, GotoMoves
    <3> QED BY <2>4, <3>1, <3>2, <1>4 DEF Connect
  <2>5. CASE Connected(p)
    <3>1. Runs(p) /\ t \in DOMAIN McpServer
      BY <2>5, <1>1 DEF Connected, Runs, Fits
    <3>2. IsOf(AfterConnecting(p), t) /\ AfterConnecting(p) \in ToolStatements
      BY <3>1, AfterConnectingFits DEF ToolStatements
    <3>3. t = "temporal.inspect" => AfterConnecting(p) = "triage"
      BY DEF AfterConnecting
    <3> QED BY <2>5, <3>1, <3>2, <3>3, <1>2, <1>3, <1>6 DEF Connected
  <2> QED BY <1>10, <2>1, <2>2, <2>3, <2>4, <2>5 DEF Tool
<1>11. CASE Artifact(p)
  <2>1. CASE PutObject(p)
    <3>1. Runs(p)
      BY <2>1 DEF PutObject, Runs
    <3>2. CASE at[p] = "put"
      <4>1. IsOf("index", t) /\ Goto(p, "index") /\ "index" \in ToolStatements
        BY <2>1, <3>1, <3>2, <1>1, AfterEach DEF PutObject, Fits, ToolStatements
      <4> QED BY <3>1, <4>1, <1>3
    <3> QED BY <2>1, <3>1, <3>2, <1>2, <1>6 DEF PutObject
  <2>2. CASE IndexObject(p)
    BY <2>2, <1>2, <1>4, <1>6 DEF IndexObject, Runs, ToolStatements
  <2>3. CASE SetRef(p) \/ Output(p)
    BY <2>3, <1>2, <1>6 DEF SetRef, Output, Runs
  <2> QED BY <1>11, <2>1, <2>2, <2>3 DEF Artifact
<1>12. CASE Settle(p)
  <2>1. Runs(p) /\ at' = [at EXCEPT ![p] = "record"] /\ UNCHANGED <<door, awaited, abandoned>>
    BY <1>12 DEF Settle, Runs, history
  <2>2. at'[p] = "record"
    BY <2>1 DEF Typed, TypeOK
  <2>3. Fits("record", t) /\ "record" \in Positions \ {"off", "row", "gone"}
    BY DEF Fits, ToolStatements, Positions
  <2> QED BY <2>1, <2>2, <2>3, Zenon DEF Moves, door
<1>13. CASE Record(p) \/ Catch(p)
  BY <1>13, ReturnMoves DEF Record, Catch, Runs
<1>14. CASE Throw(p)
  <2>1. Runs(p) /\ Goto(p, Handler(p))
    BY <1>14 DEF Throw, Runs
  <2>2. CASE at[p] = "effect" /\ t = "workspace.applyPatch"
    <3>1. Goto(p, "cleanup after failure")
      BY <2>1, <2>2 DEF Handler
    <3>2. /\ Fits("cleanup after failure", t)
          /\ "cleanup after failure" \in Positions \ {"off", "row", "gone"}
      BY <2>2 DEF Fits, ToolStatements, Positions
    <3> QED BY <2>1, <3>1, <3>2, GotoMoves
  <2>3. CASE ~(at[p] = "effect" /\ t = "workspace.applyPatch")
    BY <2>1, <2>3, <1>2, <1>6 DEF Handler
  <2> QED BY <2>2, <2>3
<1> QED BY <1>7, <1>8, <1>9, <1>10, <1>11, <1>12, <1>13, <1>14 DEF Step

-----------------------------------------------------------------------------
(* Positions and the gate. *)

(* A move of an attempt leaves the others where they are. *)
LEMMA MovesOthers ==
  ASSUME Typed, NEW p \in Attempts, Moves(p), NEW q \in Attempts
  PROVE  at'[q] = IF q = p THEN at'[p] ELSE at[q]
<1>1. at \in [Attempts -> Positions]
  BY DEF Typed, TypeOK
<1> DEFINE next == at'[p]
<1>2. at' = [at EXCEPT ![p] = next]
  BY DEF Moves
<1> HIDE DEF next
<1>3. at'[q] = IF q = p THEN next ELSE at[q]
  BY <1>1, <1>2
<1> QED BY <1>3 DEF next

(* An attempt that moves stays at positions of its tool. *)
LEMMA MovesPlaced ==
  ASSUME Typed, Placed, NEW p \in Attempts, Moves(p)
  PROVE  Placed'
<1> SUFFICES ASSUME NEW q \in Attempts
             PROVE  Fits(at'[q], q[1])
  BY DEF Placed, Fits, IsOf
<1> QED BY MovesOthers DEF Moves, Placed

(* Nothing passes the gate when an attempt moves. *)
LEMMA MovesGuarded ==
  ASSUME Typed, Guarded, NEW p \in Attempts, Moves(p)
  PROVE  Guarded'
<1>1. UNCHANGED <<agenda, gate, args, edited, abandoned>> /\ Runs(p) /\ at'[p] # "off"
  BY DEF Moves
<1>2. awaited' \in {awaited, NoAttempt}
  BY DEF Moves
<1>3. ASSUME NEW c \in Calls
      PROVE  /\ gate'[c] \in {"asked", "cleared"} => c \in agenda' /\ awaited' = NoAttempt
             /\ gate'[c] \in {"asked", "cleared", "ran"} => Parses(c, args'[c]) \/ c \in edited'
             /\ \A d \in Calls :
                  gate'[c] \in {"asked", "cleared"} /\ gate'[d] \in {"asked", "cleared"} => c = d
  BY <1>1, <1>2 DEF Guarded
<1>4. ASSUME NEW q \in Attempts
      PROVE  /\ at'[q] # "off" => gate'[q[1]] = "issued"
             /\ Runs(q)' => /\ Parses(q[1], args'[q[1]])
                            /\ q[1] \in DOMAIN Statements
                            /\ awaited' = q \/ q \in abandoned'
             /\ awaited' = q => Runs(q)'
             /\ awaited' # NoAttempt /\ awaited'[1] = q[1] /\ awaited'[2] < q[2] => at'[q] = "off"
  <2>1. at'[q] = IF q = p THEN at'[p] ELSE at[q]
    BY MovesOthers
  <2>2. Runs(q)' => Runs(q)
    BY <2>1, <1>1 DEF Runs
  <2>3. at'[q] # "off" => gate'[q[1]] = "issued"
    BY <2>1, <1>1 DEF Guarded, Runs
  <2>4. Runs(q)' => /\ Parses(q[1], args'[q[1]])
                    /\ q[1] \in DOMAIN Statements
    BY <2>2, <1>1 DEF Guarded
  <2>5. Runs(q)' => awaited' = q \/ q \in abandoned'
    BY <2>1, <2>2, <1>1, Pairs DEF Guarded, Moves, Runs
  <2>6. awaited' = q => Runs(q)'
    BY <2>1, Pairs DEF Guarded, Moves, Runs
  <2>7. awaited' # NoAttempt /\ awaited'[1] = q[1] /\ awaited'[2] < q[2] => at'[q] = "off"
    BY <2>1, <1>1, <1>2 DEF Guarded, Runs
  <2> QED BY <2>3, <2>4, <2>5, <2>6, <2>7
<1> QED BY <1>3, <1>4 DEF Guarded, Runs

(* Before the gate a call has no attempt that moves. *)
LEMMA DoorGuarded ==
  ASSUME Typed, Guarded, NEW c \in agenda, c \in Calls,
         Evaluate(c) \/ Resolve(c) \/ RunInWorkflow(c)
  PROVE  Guarded' /\ UNCHANGED <<at, awaited, abandoned, agenda>>
<1>1. UNCHANGED <<at, awaited, abandoned, agenda>> /\ edited \subseteq edited'
  BY DEF Evaluate, Resolve, RunInWorkflow, history
<1>2. gate[c] # "issued" /\ gate'[c] # "issued" /\ awaited = NoAttempt
  <2>1. c \in DOMAIN gate
    BY DEF Typed, TypeOK
  <2>2. CASE Evaluate(c)
    <3>1. \A shape : Validate(c, shape) \in {"denied", "allowed", "approval_required"}
      BY DEF Validate
    <3>2. gate'[c] \in {"closed", "cleared", "asked"}
      BY <2>1, <2>2, <3>1 DEF Evaluate
    <3> QED BY <2>2, <3>2 DEF Evaluate, Idle
  <2>3. CASE Resolve(c) \/ RunInWorkflow(c)
    BY <2>1, <2>3 DEF Resolve, RunInWorkflow, Guarded
  <2> QED BY <2>2, <2>3
<1>3. \A d \in Calls : d # c => gate'[d] = gate[d] /\ args'[d] = args[d]
  <2>1. /\ \E g : gate' = [gate EXCEPT ![c] = g]
        /\ args' = args \/ \E a : args' = [args EXCEPT ![c] = a]
    BY DEF Evaluate, Resolve, RunInWorkflow
  <2> QED BY <2>1 DEF Typed, TypeOK
<1>4. gate'[c] \in {"asked", "cleared"} =>
        \A d \in Calls : d # c => gate[d] \notin {"asked", "cleared"}
  <2>1. CASE Evaluate(c)
    BY <2>1 DEF Evaluate, Idle, Guarded
  <2>2. CASE Resolve(c) \/ RunInWorkflow(c)
    BY <2>2 DEF Resolve, RunInWorkflow, Guarded
  <2> QED BY <2>1, <2>2
<1>5. gate'[c] \in {"asked", "cleared", "ran"} => Parses(c, args'[c]) \/ c \in edited'
  <2>1. CASE Evaluate(c)
    <3>1. PICK shape \in Shapes(c) :
            /\ args' = [args EXCEPT ![c] = shape]
            /\ gate' = [gate EXCEPT ![c] =
                 CASE Validate(c, shape) = "denied" -> "closed"
                   [] Validate(c, shape) = "allowed" -> "cleared"
                   [] Validate(c, shape) = "approval_required" -> "asked"]
      BY <2>1 DEF Evaluate
    <3>2. args'[c] = shape
      BY <3>1 DEF Typed, TypeOK
    <3>3. CASE Parses(c, shape)
      BY <3>2, <3>3
    <3>4. CASE ~Parses(c, shape)
      <4>1. Validate(c, shape) = "denied"
        BY <3>4 DEF Validate
      <4>2. gate'[c] = "closed"
        BY <3>1, <4>1 DEF Typed, TypeOK
      <4> QED BY <4>2
    <3> QED BY <3>3, <3>4
  <2>2. CASE Resolve(c)
    BY <2>2 DEF Resolve, Guarded, Typed, TypeOK
  <2>3. CASE RunInWorkflow(c)
    BY <2>3 DEF RunInWorkflow, Guarded, Typed, TypeOK
  <2> QED BY <2>1, <2>2, <2>3
<1>6. \A p \in Attempts : Runs(p)' <=> Runs(p)
  BY <1>1 DEF Runs
<1>7. ASSUME NEW d \in Calls
      PROVE  /\ gate'[d] \in {"asked", "cleared"} => d \in agenda' /\ awaited' = NoAttempt
             /\ gate'[d] \in {"asked", "cleared", "ran"} => Parses(d, args'[d]) \/ d \in edited'
  BY <1>1, <1>2, <1>3, <1>5 DEF Guarded
<1>8. ASSUME NEW d \in Calls, NEW e \in Calls,
             gate'[d] \in {"asked", "cleared"}, gate'[e] \in {"asked", "cleared"}
      PROVE  d = e
  BY <1>3, <1>4, <1>8 DEF Guarded
<1>9. ASSUME NEW p \in Attempts
      PROVE  /\ at'[p] # "off" => gate'[p[1]] = "issued"
             /\ Runs(p)' => /\ Parses(p[1], args'[p[1]])
                            /\ p[1] \in DOMAIN Statements
                            /\ awaited' = p \/ p \in abandoned'
             /\ awaited' = p => Runs(p)'
             /\ awaited' # NoAttempt /\ awaited'[1] = p[1] /\ awaited'[2] < p[2] => at'[p] = "off"
  <2>1. p[1] \in Calls
    BY Pairs
  <2>2. at[p] # "off" => gate[p[1]] = "issued" /\ p[1] # c
    BY <1>2 DEF Guarded
  <2>3. at[p] # "off" => gate'[p[1]] = "issued" /\ args'[p[1]] = args[p[1]]
    BY <1>3, <2>1, <2>2
  <2> QED BY <1>1, <1>6, <2>3 DEF Guarded, Runs
<1> QED BY <1>1, <1>7, <1>8, <1>9 DEF Guarded, Runs

(* Issued calls parse, are tools of an activity, and are the only ones awaited. *)
LEMMA IssueGuarded ==
  ASSUME Typed, Guarded, NEW c \in Calls, Issue(c)
  PROVE  /\ Guarded' /\ <<c, 1>> \in Attempts /\ at[<<c, 1>>] = "off"
         /\ at' = [at EXCEPT ![<<c, 1>>] = at'[<<c, 1>>]] /\ at'[<<c, 1>>] \in {"row", "gone"}
<1> DEFINE p == <<c, 1>>
<1>1. p \in Attempts /\ p[1] = c /\ p[2] = 1
  BY ToolAssumption DEF Attempts
<1>2. /\ gate[c] = "cleared" /\ c \notin InWorkflow /\ gate' = [gate EXCEPT ![c] = "issued"]
      /\ UNCHANGED <<agenda, args, edited, abandoned>> /\ awaited = NoAttempt
  BY DEF Issue, Guarded, history
<1>3. gate'[c] = "issued" /\ \A d \in Calls : d # c => gate'[d] = gate[d]
  BY <1>2 DEF Typed, TypeOK
<1>4. \A q \in Attempts : q[1] = c => at[q] = "off"
  BY <1>2 DEF Guarded
<1>5. \/ /\ Revalidated(c) = "allowed" /\ awaited' = p /\ at' = [at EXCEPT ![p] = "row"]
      \/ awaited' = NoAttempt /\ at' = [at EXCEPT ![p] = "gone"]
  BY <1>2 DEF Issue
<1>6. at \in [Attempts -> Positions]
  BY DEF Typed, TypeOK
<1>7. /\ at' = [at EXCEPT ![p] = at'[p]]
      /\ \/ awaited' = p /\ at'[p] = "row" /\ Revalidated(c) = "allowed"
         \/ awaited' = NoAttempt /\ at'[p] = "gone"
  BY <1>1, <1>5, <1>6
<1> HIDE DEF p
<1>8. \A q \in Attempts : q # p => at'[q] = at[q]
  BY <1>1, <1>5, <1>6
<1>9. Revalidated(c) = "allowed" => Parses(c, args[c]) /\ c \in DOMAIN Statements
  BY <1>2, CallsAreTools, ToolsAreServed DEF Revalidated, Validate
<1>10. ASSUME NEW d \in Calls
       PROVE  /\ gate'[d] \notin {"asked", "cleared"}
              /\ gate'[d] = "ran" => Parses(d, args'[d]) \/ d \in edited'
  BY <1>2, <1>3 DEF Guarded
<1>11. ASSUME NEW q \in Attempts
       PROVE  /\ at'[q] # "off" => gate'[q[1]] = "issued"
              /\ Runs(q)' => /\ Parses(q[1], args'[q[1]])
                             /\ q[1] \in DOMAIN Statements
                             /\ awaited' = q \/ q \in abandoned'
              /\ awaited' = q => Runs(q)'
              /\ awaited' # NoAttempt /\ awaited'[1] = q[1] /\ awaited'[2] < q[2] => at'[q] = "off"
  <2>1. CASE q = p
    BY <2>1, <1>1, <1>2, <1>3, <1>7, <1>9, Pairs DEF Runs
  <2>2. CASE q # p
    <3>1. at'[q] = at[q] /\ q[1] \in Calls
      BY <1>8, <2>2, Pairs
    <3>2. Runs(q) => q \in abandoned
      BY <1>2, Pairs DEF Guarded
    <3>3. Runs(q)' <=> Runs(q)
      BY <3>1 DEF Runs
    <3> QED BY <2>2, <3>1, <3>2, <3>3, <1>1, <1>2, <1>3, <1>4, <1>7, Pairs DEF Guarded, Runs
  <2> QED BY <2>1, <2>2
<1> QED BY <1>1, <1>4, <1>7, <1>10, <1>11 DEF Guarded, Runs, p

(* An attempt that is given up runs on, and the next one of its call starts. *)
LEMMA AbandonGuarded ==
  ASSUME Typed, Guarded, Abandon
  PROVE  /\ Guarded'
         /\ \/ at' = at
            \/ \E q \in Attempts : at[q] = "off" /\ at' = [at EXCEPT ![q] = "row"]
<1> DEFINE p == awaited
           q == <<p[1], p[2] + 1>>
<1>1. p \in Attempts /\ abandoned' = abandoned \cup {p} /\ UNCHANGED <<agenda, gate, args, edited>>
  BY DEF Abandon, Typed, TypeOK, door
<1>2. Runs(p) /\ gate[p[1]] = "issued" /\ Parses(p[1], args[p[1]]) /\ p[1] \in DOMAIN Statements
  BY <1>1 DEF Guarded, Runs
<1>3. at \in [Attempts -> Positions]
  BY DEF Typed, TypeOK
<1>4. \A c \in Calls : gate[c] \notin {"asked", "cleared"}
  BY <1>1, Pairs DEF Guarded
<1>5. ASSUME NEW c \in Calls
      PROVE  /\ gate'[c] \notin {"asked", "cleared"}
             /\ gate'[c] = "ran" => Parses(c, args'[c]) \/ c \in edited'
  BY <1>1, <1>4 DEF Guarded
<1>6. CASE awaited' = NoAttempt /\ at' = at
  <2>1. ASSUME NEW r \in Attempts
        PROVE  /\ at'[r] # "off" => gate'[r[1]] = "issued"
               /\ Runs(r)' => /\ Parses(r[1], args'[r[1]])
                              /\ r[1] \in DOMAIN Statements
                              /\ r \in abandoned'
               /\ awaited' # r
    BY <1>1, <1>6, Pairs DEF Guarded, Runs
  <2> QED BY <1>5, <1>6, <2>1 DEF Guarded, Runs
<1>7. CASE p[2] < MaxAttempts /\ awaited' = q /\ at' = [at EXCEPT ![q] = "row"]
  <2>1. q \in Attempts /\ q[1] = p[1] /\ q[2] = p[2] + 1 /\ p[2] \in Nat
    BY <1>1, <1>7, Pairs, ToolAssumption DEF Attempts
  <2> HIDE DEF p, q
  <2>2. at[q] = "off"
    BY <1>1, <2>1, Pairs DEF Guarded, p
  <2>3. at'[q] = "row" /\ \A r \in Attempts : r # q => at'[r] = at[r]
    BY <1>3, <1>7, <2>1
  <2>4. ASSUME NEW r \in Attempts
        PROVE  /\ at'[r] # "off" => gate'[r[1]] = "issued"
               /\ Runs(r)' => /\ Parses(r[1], args'[r[1]])
                              /\ r[1] \in DOMAIN Statements
                              /\ awaited' = r \/ r \in abandoned'
               /\ awaited' = r => Runs(r)'
               /\ awaited' # NoAttempt /\ awaited'[1] = r[1] /\ awaited'[2] < r[2] => at'[r] = "off"
    <3>1. CASE r = q
      BY <3>1, <1>1, <1>2, <1>7, <2>1, <2>3, Pairs DEF Runs
    <3>2. CASE r # q
      <4>1. at'[r] = at[r] /\ (Runs(r)' <=> Runs(r)) /\ r[1] \in Calls /\ r[2] \in Nat
        BY <2>3, <3>2, Pairs DEF Runs
      <4>2. Runs(r) => r \in abandoned'
        BY <1>1 DEF Guarded, p
      <4>3. awaited'[1] = r[1] /\ awaited'[2] < r[2] => at[r] = "off"
        BY <1>1, <1>7, <2>1, <4>1, Pairs DEF Guarded, p
      <4> QED BY <1>1, <1>7, <3>2, <4>1, <4>2, <4>3 DEF Guarded
    <3> QED BY <3>1, <3>2
  <2>5. Guarded'
    BY <1>5, <2>4 DEF Guarded, Runs
  <2> QED BY <1>7, <2>1, <2>2, <2>5
<1> QED BY <1>6, <1>7 DEF Abandon

(* What happens beside the attempts that run: at most, one starts or is refused. *)
Waits ==
  /\ \/ at' = at /\ result' = result
     \/ \E q \in Attempts :
          /\ at[q] = "off"
          /\ \/ at' = [at EXCEPT ![q] = "row"] /\ result' = result
             \/ at' = [at EXCEPT ![q] = "gone"] /\ result' = [result EXCEPT ![q] = "denied"]
  /\ UNCHANGED <<ledger, invocation, ref, workspace, snapshots, files, artifactRows>>
  /\ UNCHANGED <<cachedClient, using, elsewhere, browsers, crossed, effects, uncleaned, restored>>
  /\ abandoned \subseteq abandoned' /\ died \subseteq died'

(* The steps of the workflow and of the servers. *)
Apart ==
  \/ \E c \in agenda : Evaluate(c) \/ Gate(c)
  \/ Abandon
  \/ ServerDies
  \/ UNCHANGED vars

(* They are of that kind, and keep to the gate. *)
LEMMA ApartWaits ==
  ASSUME Typed, Guarded, Apart
  PROVE  Waits /\ Guarded' /\ (ServerDies \/ UNCHANGED <<connections, died>>)
<1>1. agenda \subseteq Calls
  BY ToolAssumption DEF Typed, TypeOK, Calls
<1>2. ASSUME NEW c \in agenda, Evaluate(c) \/ Resolve(c) \/ RunInWorkflow(c)
      PROVE  Waits /\ Guarded' /\ UNCHANGED <<connections, died>>
  <2>1. Guarded' /\ UNCHANGED at
    BY <1>1, <1>2, DoorGuarded
  <2>2. UNCHANGED <<result, records, disk, artifactRows, clients, history>>
    BY <1>2 DEF Evaluate, Resolve, RunInWorkflow
  <2> QED BY <2>1, <2>2 DEF Waits, records, disk, clients, history
<1>3. ASSUME NEW c \in agenda, Issue(c)
      PROVE  Waits /\ Guarded' /\ UNCHANGED <<connections, died>>
  <2>1. Guarded' /\ <<c, 1>> \in Attempts /\ at[<<c, 1>>] = "off"
    BY <1>1, <1>3, IssueGuarded
  <2>2. /\ UNCHANGED <<records, disk, artifactRows, clients, history>>
        /\ \/ at' = [at EXCEPT ![<<c, 1>>] = "row"] /\ result' = result
           \/ /\ at' = [at EXCEPT ![<<c, 1>>] = "gone"]
              /\ result' = [result EXCEPT ![<<c, 1>>] = "denied"]
    BY <1>3 DEF Issue
  <2>3. UNCHANGED <<ledger, invocation, ref, workspace, snapshots, files, artifactRows>>
    BY <2>2 DEF records, disk
  <2>4. UNCHANGED <<cachedClient, using, elsewhere, connections, browsers, died, crossed, effects,
                    uncleaned, restored, abandoned>>
    BY <2>2 DEF clients, history
  <2>5. Waits
    BY <2>1, <2>2, <2>3, <2>4 DEF Waits
  <2> QED BY <2>1, <2>4, <2>5
<1>4. CASE Abandon
  <2>1. UNCHANGED <<result, records, disk, artifactRows, clients, effects, uncleaned, restored>>
    BY <1>4 DEF Abandon
  <2>2. abandoned \subseteq abandoned'
    BY <1>4 DEF Abandon
  <2> QED BY <1>4, <2>1, <2>2, AbandonGuarded DEF Waits, records, disk, clients
<1>5. CASE ServerDies
  <2>1. /\ UNCHANGED <<door, awaited, at, result, records, disk, artifactRows, cachedClient, using,
                      elsewhere, browsers, crossed, history>>
        /\ died \subseteq died'
    BY <1>5 DEF ServerDies
  <2>2. Guarded'
    BY <2>1 DEF Guarded, Runs, door, history
  <2> QED BY <1>5, <2>1, <2>2 DEF Waits, records, disk, history
<1>6. CASE UNCHANGED vars
  <2>1. Guarded'
    BY <1>6 DEF vars, Guarded, Runs, door, history
  <2> QED BY <1>6, <2>1 DEF Waits, vars, records, disk, clients, history
<1> QED BY <1>2, <1>3, <1>4, <1>5, <1>6 DEF Apart, Gate

(* An attempt that starts or is refused is at a position of its tool. *)
LEMMA WaitsPlaced ==
  ASSUME Typed, Placed, Waits
  PROVE  Placed'
<1> SUFFICES ASSUME NEW q \in Attempts
             PROVE  Fits(at'[q], q[1])
  BY DEF Placed, Fits, IsOf
<1>1. at'[q] \in {at[q], "row", "gone"}
  BY DEF Waits, Typed, TypeOK
<1> QED BY <1>1 DEF Placed, Fits, ToolStatements

-----------------------------------------------------------------------------
(* The ledger. *)

(* A step that touches no record of its call, and passes no effect if the call has a key. *)
Quiet(p) ==
  /\ UNCHANGED <<ledger, effects, invocation, result>>
  /\ at'[p] \notin {"record", "gone"}
  /\ Keyed(p[1]) =>
       \/ at'[p] \notin Pre \cup Post
       \/ at[p] \in Pre /\ at'[p] \in Pre
       \/ /\ at[p] \in Post \ {"cleanup after failure"}
          /\ at'[p] \in Post \ {"cleanup after failure"}
       \/ Holds(p) /\ at'[p] = "cleanup after failure"
       \/ Holds(p) /\ at'[p] \in Post /\ p[1] = "sandbox.snapshot"

(* A step that is the effect of its call. *)
Takes(p) ==
  /\ UNCHANGED <<ledger, invocation, result>>
  /\ effects' = [effects EXCEPT ![p[1]] = @ + 1]
  /\ at'[p] \notin {"record", "gone"}
  /\ Keyed(p[1]) => at[p] \in Pre /\ at'[p] \in Post

(* The two kinds of statement are different. *)
LEMMA PreIsNotPost == Pre \cap Post = {}
BY DEF Pre, Post

(* A quiet step leaves the books as they are. *)
LEMMA QuietSettled ==
  ASSUME Typed, Settled, NEW p \in Attempts, Moves(p), Quiet(p)
  PROVE  Settled'
<1>1. ASSUME NEW q \in Attempts, Keyed(q[1]), Holds(q)'
      PROVE  Holds(q)
  BY <1>1, MovesOthers DEF Quiet, Holds
<1>2. ASSUME NEW c \in Calls, Keyed(c)
      PROVE  effects'[c] <= 1 /\ (ledger'[c] = "none" => effects'[c] = 0)
  BY <1>2 DEF Quiet, Settled, Counted
<1>3. ASSUME NEW q \in Attempts, Keyed(q[1])
      PROVE  /\ Holds(q)' => ledger'[q[1]] # "none"
             /\ at'[q] \in Pre => effects'[q[1]] = 0
             /\ at'[q] \in Post \ {"cleanup after failure"} /\ q[1] # "sandbox.snapshot" =>
                  effects'[q[1]] = 1
             /\ result'[q] = "success" /\ q[1] # "sandbox.snapshot" =>
                  ledger'[q[1]] = "complete" /\ effects'[q[1]] = 1
  <2>1. Holds(q)' => ledger'[q[1]] # "none"
    BY <1>1, <1>3 DEF Quiet, Settled, Booked
  <2>2. at'[q] \in Pre => at[q] \in Pre
    BY <1>3, MovesOthers, PreIsNotPost DEF Quiet, Post
  <2>3. at'[q] \in Post \ {"cleanup after failure"} /\ q[1] # "sandbox.snapshot" =>
          at[q] \in Post \ {"cleanup after failure"}
    BY <1>3, MovesOthers, PreIsNotPost DEF Quiet
  <2> QED BY <1>3, <2>1, <2>2, <2>3 DEF Quiet, Settled, Booked
<1>4. ASSUME NEW q \in Attempts, NEW r \in Attempts,
             Keyed(q[1]), q[1] = r[1], Holds(q)', Holds(r)'
      PROVE  q = r
  BY <1>1, <1>4 DEF Settled, Exclusive
<1>5. ASSUME NEW q \in Attempts
      PROVE  /\ at'[q] = "record" => result'[q] \in {"success", "replayed"}
             /\ at'[q] = "gone" /\ result'[q] \in {"success", "replayed"} =>
                  invocation'[q[1]] \in {"complete", "failed"}
  BY MovesOthers DEF Quiet, Settled, Answered
<1> QED BY <1>2, <1>3, <1>4, <1>5 DEF Settled, Counted, Booked, Exclusive, Answered, Holds

(* The effect of a call is the first. *)
LEMMA TakesSettled ==
  ASSUME Typed, Settled, NEW p \in Attempts, Moves(p), Takes(p)
  PROVE  Settled'
<1>1. ASSUME NEW q \in Attempts, Keyed(q[1]), Holds(q)'
      PROVE  Holds(q)
  BY <1>1, MovesOthers DEF Takes, Holds
<1>2. p[1] \in Calls /\ effects \in [Calls -> Nat]
  BY Pairs DEF Typed, TypeOK
<1>3. effects'[p[1]] = effects[p[1]] + 1 /\ \A c \in Calls : c # p[1] => effects'[c] = effects[c]
  BY <1>2 DEF Takes
<1>4. Keyed(p[1]) => effects[p[1]] = 0 /\ ledger[p[1]] # "none"
  BY DEF Takes, Settled, Booked, Holds
<1>5. ASSUME NEW c \in Calls, Keyed(c)
      PROVE  effects'[c] <= 1 /\ (ledger'[c] = "none" => effects'[c] = 0)
  <2>1. CASE c = p[1]
    BY <2>1, <1>3, <1>4, <1>5 DEF Takes
  <2>2. CASE c # p[1]
    BY <2>2, <1>3, <1>5 DEF Takes, Settled, Counted
  <2> QED BY <2>1, <2>2
<1>6. ASSUME NEW q \in Attempts, Keyed(q[1])
      PROVE  /\ Holds(q)' => ledger'[q[1]] # "none"
             /\ at'[q] \in Pre => effects'[q[1]] = 0
             /\ at'[q] \in Post \ {"cleanup after failure"} /\ q[1] # "sandbox.snapshot" =>
                  effects'[q[1]] = 1
             /\ result'[q] = "success" /\ q[1] # "sandbox.snapshot" =>
                  ledger'[q[1]] = "complete" /\ effects'[q[1]] = 1
  <2>1. Holds(q)' => ledger'[q[1]] # "none"
    BY <1>1, <1>6 DEF Takes, Settled, Booked
  <2>2. CASE q[1] = p[1]
    <3>1. at'[q] \notin Pre
      <4>1. CASE q = p
        BY <4>1, <1>6, PreIsNotPost DEF Takes
      <4>2. CASE q # p
        <5>1. Holds(p) /\ at'[q] = at[q]
          BY <4>2, <1>6, <2>2, MovesOthers DEF Takes, Holds
        <5>2. ~Holds(q)
          BY <4>2, <5>1, <1>6, <2>2 DEF Settled, Exclusive
        <5> QED BY <5>1, <5>2 DEF Holds
      <4> QED BY <4>1, <4>2
    <3>2. effects'[q[1]] = 1
      BY <1>3, <1>4, <1>6, <2>2
    <3>3. result'[q] = "success" /\ q[1] # "sandbox.snapshot" => ledger'[q[1]] = "complete"
      BY <1>6 DEF Takes, Settled, Booked
    <3> QED BY <2>1, <3>1, <3>2, <3>3
  <2>3. CASE q[1] # p[1]
    <3>1. at'[q] = at[q] /\ effects'[q[1]] = effects[q[1]]
      BY <2>3, <1>3, MovesOthers, Pairs
    <3> QED BY <2>1, <3>1, <1>6 DEF Takes, Settled, Booked
  <2> QED BY <2>2, <2>3
<1>7. ASSUME NEW q \in Attempts, NEW r \in Attempts,
             Keyed(q[1]), q[1] = r[1], Holds(q)', Holds(r)'
      PROVE  q = r
  BY <1>1, <1>7 DEF Settled, Exclusive
<1>8. ASSUME NEW q \in Attempts
      PROVE  /\ at'[q] = "record" => result'[q] \in {"success", "replayed"}
             /\ at'[q] = "gone" /\ result'[q] \in {"success", "replayed"} =>
                  invocation'[q[1]] \in {"complete", "failed"}
  BY MovesOthers DEF Takes, Settled, Answered
<1> QED BY <1>5, <1>6, <1>7, <1>8 DEF Settled, Counted, Booked, Exclusive, Answered, Holds

(* A reservation is the first of its call. *)
LEMMA ReserveSettled ==
  ASSUME Typed, Placed, Guarded, Settled, NEW p \in Attempts, Moves(p), Reserve(p)
  PROVE  Settled'
<1> DEFINE t == p[1]
<1>1. Keyed(t) /\ t \in DOMAIN Statements /\ t \in Calls /\ ~Holds(p)
  BY Pairs DEF Reserve, Placed, Fits, Guarded, Runs, Holds, Pre, Post
<1>2. CASE ledger[t] # "none"
  <2>1. Goto(p, "catch") /\ UNCHANGED <<ledger, invocation, effects>>
    BY <1>2 DEF Reserve, Reserved
  <2>2. at'[p] = "catch" /\ result' = result
    BY <2>1 DEF Goto, Typed, TypeOK
  <2>3. Quiet(p)
    BY <2>1, <2>2 DEF Quiet, Pre, Post
  <2> QED BY <2>3, QuietSettled
<1>3. CASE ledger[t] = "none"
  <2>1. /\ Goto(p, Body(t)) /\ ledger' = [ledger EXCEPT ![t] = "pending"]
        /\ UNCHANGED <<invocation, effects, result>>
    BY <1>3 DEF Reserve, Reserved, Goto
  <2>2. at'[p] = Body(t)
    BY <2>1 DEF Goto, Typed, TypeOK
  <2>3. Body(t) \in Pre
    BY <1>1, BodyFits, KeyedStatements, CallsAreTools
  <2>4. ledger'[t] = "pending" /\ \A c \in Calls : c # t => ledger'[c] = ledger[c]
    BY <1>1, <2>1 DEF Typed, TypeOK
  <2>5. /\ effects[t] = 0
        /\ \A q \in Attempts :
             q[1] = t => ~Holds(q) /\ (result[q] = "success" => t = "sandbox.snapshot")
    BY <1>1, <1>3 DEF Settled, Counted, Booked
  <2>6. at'[p] \in Pre /\ at'[p] \notin Post /\ at'[p] \notin {"record", "gone"}
    BY <2>2, <2>3, PreIsNotPost DEF Pre
  <2>7. ASSUME NEW c \in Calls, Keyed(c)
        PROVE  effects'[c] <= 1 /\ (ledger'[c] = "none" => effects'[c] = 0)
    BY <2>7, <2>1, <2>4 DEF Settled, Counted
  <2>8. ASSUME NEW q \in Attempts, Keyed(q[1])
        PROVE  /\ Holds(q)' => ledger'[q[1]] # "none"
               /\ at'[q] \in Pre => effects'[q[1]] = 0
               /\ at'[q] \in Post \ {"cleanup after failure"} /\ q[1] # "sandbox.snapshot" =>
                    effects'[q[1]] = 1
               /\ result'[q] = "success" /\ q[1] # "sandbox.snapshot" =>
                    ledger'[q[1]] = "complete" /\ effects'[q[1]] = 1
    <3>1. CASE q[1] = t
      <4>1. at'[q] \notin Post
        BY <3>1, <2>5, <2>6, MovesOthers DEF Holds
      <4> QED BY <3>1, <4>1, <2>1, <2>4, <2>5
    <3>2. CASE q[1] # t
      <4>1. at'[q] = at[q] /\ ledger'[q[1]] = ledger[q[1]]
        BY <3>2, <2>4, MovesOthers, Pairs
      <4>2. Holds(q)' <=> Holds(q)
        BY <4>1 DEF Holds
      <4> QED BY <4>1, <4>2, <2>8, <2>1 DEF Settled, Booked
    <3> QED BY <3>1, <3>2
  <2>9. ASSUME NEW q \in Attempts, NEW r \in Attempts,
               Keyed(q[1]), q[1] = r[1], Holds(q)', Holds(r)'
        PROVE  q = r
    <3>1. \A s \in Attempts : s # p => at'[s] = at[s]
      BY MovesOthers
    <3>2. CASE q[1] = t
      BY <3>1, <3>2, <2>5, <2>9 DEF Holds
    <3>3. CASE q[1] # t
      BY <3>1, <3>3, <2>9 DEF Holds, Settled, Exclusive
    <3> QED BY <3>2, <3>3
  <2>10. ASSUME NEW q \in Attempts
         PROVE  /\ at'[q] = "record" => result'[q] \in {"success", "replayed"}
                /\ at'[q] = "gone" /\ result'[q] \in {"success", "replayed"} =>
                     invocation'[q[1]] \in {"complete", "failed"}
    BY <2>1, <2>6, MovesOthers DEF Settled, Answered
  <2> QED BY <2>7, <2>8, <2>9, <2>10 DEF Settled, Counted, Booked, Exclusive, Answered, Holds
<1> QED BY <1>2, <1>3

(* A settled call is complete, and was before if it takes effect at all. *)
LEMMA SettleSettled ==
  ASSUME Typed, Settled, NEW p \in Attempts, Moves(p), Settle(p)
  PROVE  Settled'
<1> DEFINE t == p[1]
<1>1. /\ at[p] = "settle" /\ at' = [at EXCEPT ![p] = "record"]
      /\ result' = [result EXCEPT ![p] = "success"] /\ UNCHANGED <<invocation, effects>>
      /\ ledger' = IF Keyed(t) THEN [ledger EXCEPT ![t] = "complete"] ELSE ledger
  BY DEF Settle, history
<1>2. /\ at'[p] = "record" /\ result'[p] = "success"
      /\ \A q \in Attempts : q # p => at'[q] = at[q] /\ result'[q] = result[q]
  BY <1>1 DEF Typed, TypeOK
<1>3. ASSUME NEW c \in Calls, Keyed(c)
      PROVE  /\ ledger'[c] # ledger[c] => c = t
             /\ c = t => ledger'[c] = "complete"
             /\ ledger[c] = "complete" => ledger'[c] = "complete"
  BY <1>1, <1>3 DEF Typed, TypeOK
<1>4. Keyed(t) /\ t # "sandbox.snapshot" => effects[t] = 1
  BY <1>1 DEF Settled, Booked, Post
<1>5. ASSUME NEW q \in Attempts, Holds(q)'
      PROVE  Holds(q) /\ at'[q] = at[q]
  BY <1>2, <1>5 DEF Holds, Pre, Post
<1>6. ASSUME NEW c \in Calls, Keyed(c)
      PROVE  effects'[c] <= 1 /\ (ledger'[c] = "none" => effects'[c] = 0)
  BY <1>1, <1>3, <1>6 DEF Settled, Counted
<1>7. ASSUME NEW q \in Attempts, Keyed(q[1])
      PROVE  /\ Holds(q)' => ledger'[q[1]] # "none"
             /\ at'[q] \in Pre => effects'[q[1]] = 0
             /\ at'[q] \in Post \ {"cleanup after failure"} /\ q[1] # "sandbox.snapshot" =>
                  effects'[q[1]] = 1
             /\ result'[q] = "success" /\ q[1] # "sandbox.snapshot" =>
                  ledger'[q[1]] = "complete" /\ effects'[q[1]] = 1
  <2>1. q[1] \in Calls
    BY Pairs
  <2>2. Holds(q)' => ledger'[q[1]] # "none"
    BY <2>1, <1>3, <1>5, <1>7 DEF Settled, Booked
  <2>3. at'[q] \in Pre => effects'[q[1]] = 0
    BY <1>1, <1>5, <1>7 DEF Settled, Booked, Holds
  <2>4. at'[q] \in Post \ {"cleanup after failure"} /\ q[1] # "sandbox.snapshot" =>
          effects'[q[1]] = 1
    BY <1>1, <1>5, <1>7 DEF Settled, Booked, Holds
  <2>5. result'[q] = "success" /\ q[1] # "sandbox.snapshot" =>
          ledger'[q[1]] = "complete" /\ effects'[q[1]] = 1
    <3>1. effects'[q[1]] = effects[q[1]]
      BY <1>1
    <3>2. CASE q = p
      BY <3>1, <3>2, <2>1, <1>3, <1>4, <1>7
    <3>3. CASE q # p
      BY <3>1, <3>3, <2>1, <1>2, <1>3, <1>7 DEF Settled, Booked
    <3> QED BY <3>2, <3>3
  <2> QED BY <2>2, <2>3, <2>4, <2>5
<1>8. ASSUME NEW q \in Attempts, NEW r \in Attempts,
             Keyed(q[1]), q[1] = r[1], Holds(q)', Holds(r)'
      PROVE  q = r
  BY <1>5, <1>8 DEF Settled, Exclusive
<1>9. ASSUME NEW q \in Attempts
      PROVE  /\ at'[q] = "record" => result'[q] \in {"success", "replayed"}
             /\ at'[q] = "gone" /\ result'[q] \in {"success", "replayed"} =>
                  invocation'[q[1]] \in {"complete", "failed"}
  BY <1>1, <1>2 DEF Settled, Answered
<1> QED BY <1>6, <1>7, <1>8, <1>9 DEF Settled, Counted, Booked, Exclusive, Answered, Holds

(* What returns has recorded its call. *)
LEMMA ReturnSettled ==
  ASSUME Typed, Settled, Rowed, NEW p \in Attempts, Moves(p), Record(p) \/ Catch(p)
  PROVE  Settled'
<1> DEFINE t == p[1]
<1>1. /\ at' = [at EXCEPT ![p] = "gone"] /\ UNCHANGED <<ledger, effects>>
      /\ \E status \in {"complete", "failed"} : invocation' = Marked(t, status)
      /\ \/ result' = [result EXCEPT ![p] = result[p]] /\ at[p] = "record"
         \/ result' = [result EXCEPT ![p] = "error"]
  BY DEF Record, Catch, Return, history
<1>2. /\ at'[p] = "gone" /\ \A q \in Attempts : q # p => at'[q] = at[q]
      /\ \A q \in Attempts :
           result'[q] \in {result[q], "error"} /\ (q # p => result'[q] = result[q])
      /\ result'[p] \in {"success", "replayed"} => invocation'[t] \in {"complete", "failed"}
      /\ \A c \in Calls : invocation[c] \in {"complete", "failed"} =>
           invocation'[c] \in {"complete", "failed"}
  <2>1. at'[p] = "gone" /\ \A q \in Attempts : q # p => at'[q] = at[q]
    BY <1>1 DEF Typed, TypeOK
  <2>2. \A q \in Attempts : result'[q] \in {result[q], "error"} /\ (q # p => result'[q] = result[q])
    BY <1>1 DEF Typed, TypeOK
  <2>3. t \in Calls
    BY Pairs
  <2>4. /\ invocation[t] # "none" => invocation'[t] \in {"complete", "failed"}
        /\ \A c \in Calls : invocation[c] \in {"complete", "failed"} =>
             invocation'[c] \in {"complete", "failed"}
    BY <1>1, <2>3 DEF Marked, Typed, TypeOK
  <2>5. result'[p] \in {"success", "replayed"} => at[p] = "record"
    BY <1>1 DEF Typed, TypeOK
  <2>6. at[p] = "record" => invocation[t] # "none"
    BY DEF Rowed
  <2> QED BY <2>1, <2>2, <2>4, <2>5, <2>6
<1>3. ASSUME NEW q \in Attempts
      PROVE  at'[q] \in Pre \cup Post => at'[q] = at[q]
  BY <1>2 DEF Pre, Post
<1>4. Counted'
  BY <1>1 DEF Settled, Counted
<1>5. Booked'
  <2> SUFFICES ASSUME NEW q \in Attempts, Keyed(q[1])
               PROVE  /\ Holds(q)' => ledger'[q[1]] # "none"
                      /\ at'[q] \in Pre => effects'[q[1]] = 0
                      /\ at'[q] \in Post \ {"cleanup after failure"} /\ q[1] # "sandbox.snapshot" =>
                           effects'[q[1]] = 1
                      /\ result'[q] = "success" /\ q[1] # "sandbox.snapshot" =>
                           ledger'[q[1]] = "complete" /\ effects'[q[1]] = 1
    BY DEF Booked, Holds
  <2>1. result'[q] = "success" => result[q] = "success"
    BY <1>2
  <2> QED BY <1>1, <1>3, <2>1 DEF Settled, Booked, Holds
<1>6. Exclusive'
  <2>1. \A q \in Attempts : Holds(q)' => Holds(q)
    BY <1>3 DEF Holds
  <2> QED BY <2>1 DEF Settled, Exclusive
<1>7. Answered'
  <2> SUFFICES ASSUME NEW q \in Attempts
               PROVE  /\ at'[q] = "record" => result'[q] \in {"success", "replayed"}
                      /\ at'[q] = "gone" /\ result'[q] \in {"success", "replayed"} =>
                           invocation'[q[1]] \in {"complete", "failed"}
    BY DEF Answered
  <2>1. q[1] \in Calls
    BY Pairs
  <2> QED BY <2>1, <1>2 DEF Settled, Answered
<1> QED BY <1>4, <1>5, <1>6, <1>7 DEF Settled

(* A call that is answered from the ledger, and a row that is there already. *)
LEMMA EntrySettled ==
  ASSUME Typed, Settled, NEW p \in Attempts, Moves(p), Lookup(p) \/ InsertRow(p),
         p[1] \in DOMAIN Statements
  PROVE  Settled'
<1> DEFINE t == p[1]
<1>1. CASE Lookup(p) /\ Goto(p, "reserve")
  <2>1. at'[p] = "reserve" /\ result' = result
    BY <1>1 DEF Goto, Typed, TypeOK
  <2>2. Quiet(p)
    BY <1>1, <2>1 DEF Lookup, Quiet, records, Pre, Post
  <2> QED BY <2>2, QuietSettled
<1>2. CASE Lookup(p) /\ ~Goto(p, "reserve")
  <2>1. /\ at' = [at EXCEPT ![p] = "record"] /\ result' = [result EXCEPT ![p] = "replayed"]
        /\ UNCHANGED <<ledger, invocation, effects>>
    BY <1>2 DEF Lookup, records
  <2>2. /\ at'[p] = "record" /\ result'[p] = "replayed"
        /\ \A q \in Attempts : q # p => at'[q] = at[q] /\ result'[q] = result[q]
    BY <2>1 DEF Typed, TypeOK
  <2>3. \A q \in Attempts : at'[q] \in Pre \cup Post => at'[q] = at[q]
    BY <2>2 DEF Pre, Post
  <2>4. Counted'
    BY <2>1 DEF Settled, Counted
  <2>5. Booked'
    <3> SUFFICES ASSUME NEW q \in Attempts, Keyed(q[1])
                 PROVE  /\ Holds(q)' => ledger'[q[1]] # "none"
                        /\ at'[q] \in Pre => effects'[q[1]] = 0
                        /\ at'[q] \in Post \ {"cleanup after failure"}
                             /\ q[1] # "sandbox.snapshot" => effects'[q[1]] = 1
                        /\ result'[q] = "success" /\ q[1] # "sandbox.snapshot" =>
                             ledger'[q[1]] = "complete" /\ effects'[q[1]] = 1
      BY DEF Booked, Holds
    <3>1. result'[q] = "success" => result[q] = "success"
      BY <2>2
    <3> QED BY <2>1, <2>3, <3>1 DEF Settled, Booked, Holds
  <2>6. Exclusive'
    BY <2>3 DEF Settled, Exclusive, Holds
  <2>7. Answered'
    BY <2>1, <2>2 DEF Settled, Answered
  <2> QED BY <2>4, <2>5, <2>6, <2>7 DEF Settled
<1>3. CASE InsertRow(p)
  <2>1. /\ Goto(p, IF Keyed(t) THEN "lookup" ELSE Body(t)) /\ UNCHANGED <<ledger, effects>>
        /\ invocation' = [invocation EXCEPT ![t] = UnlessPresent(t)]
    BY <1>3 DEF InsertRow
  <2>2. /\ at'[p] = (IF Keyed(t) THEN "lookup" ELSE Body(t)) /\ result' = result
        /\ \A q \in Attempts : q # p => at'[q] = at[q]
    BY <2>1 DEF Goto, Typed, TypeOK
  <2>3. at'[p] \notin {"record", "gone"} /\ (Keyed(t) => at'[p] \notin Pre \cup Post)
    BY <2>2, BodyFits DEF Pre, Post, ToolStatements
  <2>4. \A c \in Calls : invocation[c] \in {"complete", "failed"} => invocation'[c] = invocation[c]
    BY <2>1 DEF UnlessPresent, Typed, TypeOK
  <2>5. \A q \in Attempts : Keyed(q[1]) /\ at'[q] \in Pre \cup Post => at'[q] = at[q]
    BY <2>2, <2>3
  <2>6. Counted'
    BY <2>1 DEF Settled, Counted
  <2>7. Booked'
    <3> SUFFICES ASSUME NEW q \in Attempts, Keyed(q[1])
                 PROVE  /\ Holds(q)' => ledger'[q[1]] # "none"
                        /\ at'[q] \in Pre => effects'[q[1]] = 0
                        /\ at'[q] \in Post \ {"cleanup after failure"}
                             /\ q[1] # "sandbox.snapshot" => effects'[q[1]] = 1
                        /\ result'[q] = "success" /\ q[1] # "sandbox.snapshot" =>
                             ledger'[q[1]] = "complete" /\ effects'[q[1]] = 1
      BY DEF Booked, Holds
    <3> QED BY <2>1, <2>2, <2>5 DEF Settled, Booked, Holds
  <2>8. Exclusive'
    BY <2>5 DEF Settled, Exclusive, Holds
  <2>9. Answered'
    <3> SUFFICES ASSUME NEW q \in Attempts
                 PROVE  /\ at'[q] = "record" => result'[q] \in {"success", "replayed"}
                        /\ at'[q] = "gone" /\ result'[q] \in {"success", "replayed"} =>
                             invocation'[q[1]] \in {"complete", "failed"}
      BY DEF Answered
    <3> QED BY <2>2, <2>3, <2>4, Pairs DEF Settled, Answered
  <2> QED BY <2>6, <2>7, <2>8, <2>9 DEF Settled
<1> QED BY <1>1, <1>2, <1>3

(* An attempt that starts or is refused has no row yet. *)
LEMMA WaitsSettled ==
  ASSUME Typed, Settled, Waits
  PROVE  Settled'
<1>1. UNCHANGED <<ledger, invocation, effects>>
  BY DEF Waits
<1>2. ASSUME NEW q \in Attempts
      PROVE  /\ at'[q] \in {at[q], "row", "gone"}
             /\ at'[q] # at[q] /\ at'[q] = "gone" => result'[q] = "denied"
             /\ result'[q] \in {result[q], "denied"}
  BY DEF Waits, Typed, TypeOK
<1>3. \A q \in Attempts : at'[q] \in Pre \cup Post => at'[q] = at[q]
  BY <1>2 DEF Pre, Post
<1>4. Counted'
  BY <1>1 DEF Settled, Counted
<1>5. Booked'
  <2> SUFFICES ASSUME NEW q \in Attempts, Keyed(q[1])
               PROVE  /\ Holds(q)' => ledger'[q[1]] # "none"
                      /\ at'[q] \in Pre => effects'[q[1]] = 0
                      /\ at'[q] \in Post \ {"cleanup after failure"} /\ q[1] # "sandbox.snapshot" =>
                           effects'[q[1]] = 1
                      /\ result'[q] = "success" /\ q[1] # "sandbox.snapshot" =>
                           ledger'[q[1]] = "complete" /\ effects'[q[1]] = 1
    BY DEF Booked, Holds
  <2>1. result'[q] = "success" => result[q] = "success"
    BY <1>2
  <2> QED BY <1>1, <1>3, <2>1 DEF Settled, Booked, Holds
<1>6. Exclusive'
  BY <1>3 DEF Settled, Exclusive, Holds
<1>7. Answered'
  <2> SUFFICES ASSUME NEW q \in Attempts
               PROVE  /\ at'[q] = "record" => result'[q] \in {"success", "replayed"}
                      /\ at'[q] = "gone" /\ result'[q] \in {"success", "replayed"} =>
                           invocation'[q[1]] \in {"complete", "failed"}
    BY DEF Answered
  <2>1. at[q] = "record" /\ at'[q] = "record" => result'[q] = result[q]
    BY DEF Waits, Typed, TypeOK
  <2> QED BY <2>1, <1>1, <1>2 DEF Settled, Answered
<1> QED BY <1>4, <1>5, <1>6, <1>7 DEF Settled

(* The statements of a tool, its artifacts and its failures are quiet, or the effect. *)
LEMMA ToolIsQuiet ==
  ASSUME Typed, Placed, Guarded, NEW p \in Attempts, Moves(p), Tool(p) \/ Artifact(p) \/ Throw(p)
  PROVE  Quiet(p) \/ Takes(p)
<1> DEFINE t == p[1]
<1>1. t \in Tools /\ t \in DOMAIN Statements /\ Fits(at[p], t)
  BY Pairs, CallsAreTools DEF Placed, Guarded, Moves
<1>2. at[p] \in ToolStatements => IsOf(at[p], t)
  BY <1>1 DEF Fits
<1>3. at[p] \in ToolStatements /\ Keyed(t) =>
        at[p] \in Pre \cup {"cleanup"} /\ After(p) \in Pre \cup {"cleanup", "output"}
  BY <1>1, <1>2, KeyedStatements, AfterFits
<1>4. \A next \in Positions : Goto(p, next) => at'[p] = next /\ result' = result
  BY DEF Goto, Typed, TypeOK
<1>5. {"output", "catch", "cleanup after failure", "close after failure", "settle", "spill put",
       "spill index", "spill ref", "connecting", "index"} \subseteq Positions
  BY DEF Positions
<1>6. at[p] \in ToolStatements => After(p) \in Positions
  BY <1>1, AfterIsPosition
<1>7. CASE Tool(p)
  <2>1. CASE WriteTemp(p)
    <3>1. /\ at[p] = "temp" /\ After(p) = "snapshot" /\ Goto(p, After(p))
          /\ UNCHANGED <<ledger, effects, invocation>>
      BY <2>1, <1>1, <1>2, AfterEach DEF WriteTemp, records, ToolStatements
    <3>2. at'[p] = "snapshot" /\ result' = result
      BY <3>1, <1>4, <1>6 DEF ToolStatements
    <3> QED BY <3>1, <3>2 DEF Quiet, Pre
  <2>2. CASE Snapshot(p)
    <3>1. /\ at[p] = "snapshot" /\ Goto(p, After(p)) /\ UNCHANGED <<ledger, effects, invocation>>
          /\ After(p) = IF t = "sandbox.snapshot" THEN "output" ELSE "effect"
      BY <2>2, <1>1, <1>2, AfterEach DEF Snapshot, records, ToolStatements
    <3>2. at'[p] = After(p) /\ result' = result
      BY <3>1, <1>4, <1>6 DEF ToolStatements
    <3> QED BY <3>1, <3>2 DEF Quiet, Holds, Pre, Post
  <2>3. CASE Change(p)
    <3>1. at[p] = "effect" /\ at[p] \in ToolStatements
      BY <2>3 DEF Change, ToolStatements
    <3>2. CASE Goto(p, "cleanup after failure") /\ UNCHANGED effects
      <4>1. at'[p] = "cleanup after failure" /\ result' = result
        BY <3>2, <1>4, <1>5
      <4> QED BY <2>3, <3>1, <3>2, <4>1 DEF Change, Quiet, Holds, Pre, records
    <3>3. CASE Goto(p, After(p)) /\ effects' = [effects EXCEPT ![t] = @ + 1]
      <4>1. at'[p] = After(p) /\ result' = result
        BY <3>1, <3>3, <1>4, <1>6
      <4>2. After(p) \in {"cleanup", "put", "output"}
        BY <3>1, <1>1, <1>2, AfterEach
      <4>3. UNCHANGED <<ledger, invocation>>
        BY <2>3 DEF Change, records
      <4> QED BY <3>1, <3>3, <4>1, <4>2, <4>3, <1>3 DEF Takes, Pre, Post
    <3> QED BY <2>3, <3>2, <3>3 DEF Change
  <2>4. CASE Cleanup(p)
    <3>1. /\ at[p] \in {"cleanup", "cleanup after failure"}
          /\ Goto(p, IF at[p] = "cleanup" THEN "output" ELSE "catch")
          /\ UNCHANGED <<ledger, effects, invocation>>
      BY <2>4 DEF Cleanup, records
    <3>2. at'[p] = (IF at[p] = "cleanup" THEN "output" ELSE "catch") /\ result' = result
      BY <3>1, <1>4, <1>5
    <3> QED BY <3>1, <3>2 DEF Quiet, Pre, Post
  <2>5. CASE Restore(p)
    <3>1. /\ at[p] = "restore" /\ Goto(p, "output") /\ effects' = [effects EXCEPT ![t] = @ + 1]
          /\ UNCHANGED <<ledger, invocation>>
      BY <2>5 DEF Restore, records
    <3>2. at'[p] = "output" /\ result' = result
      BY <3>1, <1>4, <1>5
    <3> QED BY <3>1, <3>2 DEF Takes, Pre, Post
  <2>6. CASE RestoreUnknown(p)
    <3>1. Goto(p, "catch") /\ UNCHANGED <<ledger, effects, invocation>>
      BY <2>6 DEF RestoreUnknown, records
    <3>2. at'[p] = "catch" /\ result' = result
      BY <3>1, <1>4, <1>5
    <3> QED BY <3>1, <3>2 DEF Quiet, Pre, Post
  <2>7. CASE Connect(p)
    <3>1. /\ at[p] = "connect" /\ UNCHANGED <<ledger, effects, invocation>>
          /\ Goto(p, "connecting") \/ Goto(p, After(p))
      BY <2>7 DEF Connect, records
    <3>2. ~Keyed(t)
      BY <3>1, <1>3 DEF ToolStatements, Pre
    <3>3. at'[p] \in ToolStatements \cup {"connecting", "output"} /\ result' = result
      BY <3>1, <1>1, <1>2, <1>4, <1>5, <1>6, AfterFits DEF ToolStatements
    <3> QED BY <3>1, <3>2, <3>3 DEF Quiet, ToolStatements
  <2>8. CASE Connected(p)
    <3>1. /\ at[p] = "connecting" /\ UNCHANGED <<ledger, effects, invocation>>
          /\ t \in DOMAIN McpServer
      BY <2>8, <1>1 DEF Connected, records, Fits
    <3>2. IsOf("connect", t)
      BY <3>1, ServersOfTools, StatementsOfTools DEF IsOf
    <3>3. ~Keyed(t)
      BY <3>2, <1>1, KeyedStatements DEF Pre
    <3>4. \E next \in {"triage", "resolve", "send", "request", "catch"} : Goto(p, next)
      BY <2>8, <3>1, AfterConnectingFits DEF Connected
    <3>5. at'[p] \in {"triage", "resolve", "send", "request", "catch"} /\ result' = result
      BY <3>4, <1>4 DEF Positions
    <3> QED BY <3>1, <3>3, <3>5 DEF Quiet
  <2>9. CASE Request(p)
    <3>1. /\ at[p] \in {"resolve", "request", "triage"} /\ Goto(p, After(p))
          /\ UNCHANGED <<ledger, effects, invocation>>
      BY <2>9 DEF Request, records
    <3>2. ~Keyed(t)
      BY <3>1, <1>3 DEF ToolStatements, Pre
    <3>3. at'[p] \in ToolStatements \cup {"output"} /\ result' = result
      BY <3>1, <1>1, <1>2, <1>4, <1>6, AfterFits DEF ToolStatements
    <3> QED BY <3>1, <3>2, <3>3 DEF Quiet, ToolStatements
  <2>10. CASE Send(p)
    <3>1. /\ at[p] = "send" /\ Goto(p, After(p)) /\ effects' = [effects EXCEPT ![t] = @ + 1]
          /\ UNCHANGED <<ledger, invocation>>
      BY <2>10 DEF Send, records
    <3>2. After(p) \in {"put", "output"} /\ at[p] \in ToolStatements
      BY <3>1, <1>1, <1>2, AfterEach DEF ToolStatements
    <3>3. at'[p] = After(p) /\ result' = result
      BY <3>1, <3>2, <1>4, <1>6
    <3> QED BY <3>1, <3>2, <3>3, <1>3 DEF Takes, Pre, Post
  <2>11. CASE Launch(p)
    <3>1. at[p] = "launch" /\ Goto(p, After(p)) /\ UNCHANGED <<ledger, effects, invocation>>
      BY <2>11 DEF Launch, records
    <3>2. ~Keyed(t)
      BY <3>1, <1>3 DEF ToolStatements, Pre
    <3>3. at'[p] \in ToolStatements \cup {"output"} /\ result' = result
      BY <3>1, <1>1, <1>2, <1>4, <1>6, AfterFits DEF ToolStatements
    <3> QED BY <3>1, <3>2, <3>3 DEF Quiet, ToolStatements
  <2>12. CASE CloseBrowser(p)
    <3>1. /\ at[p] \in {"close", "close after failure"}
          /\ Goto(p, IF at[p] = "close" THEN "output" ELSE "catch")
          /\ UNCHANGED <<ledger, effects, invocation>>
      BY <2>12 DEF CloseBrowser, records
    <3>2. at[p] = "close" => ~Keyed(t)
      BY <3>1, <1>3 DEF ToolStatements, Pre
    <3>3. at'[p] = (IF at[p] = "close" THEN "output" ELSE "catch") /\ result' = result
      BY <3>1, <1>4, <1>5
    <3> QED BY <3>1, <3>2, <3>3 DEF Quiet, Pre, Post
  <2> QED BY <1>7, <2>1, <2>2, <2>3, <2>4, <2>5, <2>6, <2>7, <2>8, <2>9, <2>10, <2>11,
     <2>12 DEF Tool
<1>8. CASE Artifact(p)
  <2>1. CASE PutObject(p) \/ IndexObject(p)
    <3>1. UNCHANGED <<ledger, effects, invocation>>
      BY <2>1 DEF PutObject, IndexObject, records
    <3>2. CASE at[p] \in {"put", "index"}
      <4>1. ~Keyed(t)
        BY <3>2, <1>3 DEF ToolStatements, Pre
      <4>2. Goto(p, "index") \/ Goto(p, After(p))
        BY <2>1, <3>2 DEF PutObject, IndexObject
      <4>3. at'[p] \in ToolStatements \cup {"output"} /\ result' = result
        BY <3>2, <4>2, <1>1, <1>2, <1>4, <1>5, <1>6, AfterFits DEF ToolStatements
      <4> QED BY <3>1, <4>1, <4>3 DEF Quiet, ToolStatements
    <3>3. CASE at[p] \in {"spill put", "spill index"}
      <4>1. Goto(p, "spill index") \/ Goto(p, "spill ref")
        BY <2>1, <3>3 DEF PutObject, IndexObject
      <4>2. at'[p] \in {"spill index", "spill ref"} /\ result' = result
        BY <4>1, <1>4, <1>5
      <4> QED BY <3>1, <3>3, <4>2 DEF Quiet, Post
    <3> QED BY <2>1, <3>2, <3>3 DEF PutObject, IndexObject
  <2>2. CASE SetRef(p) \/ Output(p)
    <3>1. /\ UNCHANGED <<ledger, effects, invocation>> /\ at[p] \in {"spill ref", "output"}
          /\ Goto(p, "settle") \/ Goto(p, "spill put")
      BY <2>2 DEF SetRef, Output, records
    <3>2. at'[p] \in {"settle", "spill put"} /\ result' = result
      BY <3>1, <1>4, <1>5
    <3> QED BY <3>1, <3>2 DEF Quiet, Post
  <2> QED BY <1>8, <2>1, <2>2 DEF Artifact
<1>9. CASE Throw(p)
  <2>1. UNCHANGED <<ledger, effects, invocation>> /\ Goto(p, Handler(p))
    BY <1>9 DEF Throw, records
  <2>2. /\ Handler(p) \in {"cleanup after failure", "close after failure", "catch"}
        /\ Handler(p) = "cleanup after failure" => at[p] = "effect"
    BY DEF Handler
  <2>3. at'[p] = Handler(p) /\ result' = result
    BY <2>1, <2>2, <1>4, <1>5
  <2> QED BY <2>1, <2>2, <2>3 DEF Quiet, Holds, Pre, Post
<1> QED BY <1>7, <1>8, <1>9

(* No step of an attempt takes effect twice or settles what another settles. *)
LEMMA StepSettled ==
  ASSUME Typed, Placed, Guarded, Settled, Rowed, NEW p \in Attempts, Step(p) \/ Throw(p)
  PROVE  Settled'
<1>1. Moves(p)
  BY StepMoves
<1>2. CASE Tool(p) \/ Artifact(p) \/ Throw(p)
  BY <1>1, <1>2, ToolIsQuiet, QuietSettled, TakesSettled
<1>3. CASE InsertRow(p) \/ Lookup(p)
  <2>1. p[1] \in DOMAIN Statements
    BY <1>1 DEF Moves, Guarded
  <2> QED BY <1>1, <1>3, <2>1, EntrySettled
<1>4. CASE Reserve(p)
  BY <1>1, <1>4, ReserveSettled
<1>5. CASE Settle(p)
  BY <1>1, <1>5, SettleSettled
<1>6. CASE Record(p) \/ Catch(p)
  BY <1>1, <1>6, ReturnSettled
<1> QED BY <1>2, <1>3, <1>4, <1>5, <1>6 DEF Step


-----------------------------------------------------------------------------
(* Types, in five parts. *)

(* What the records hold. *)
RecordTypes ==
  /\ ledger \in [Calls -> {"none", "pending", "complete"}]
  /\ invocation \in [Calls -> {"none", "running", "complete", "failed"}]
  /\ ref \in [Calls -> Attempts \cup {NoAttempt}]

(* What the disk and the store hold. *)
DiskTypes ==
  /\ workspace \subseteq Contents
  /\ snapshots \in [Attempts -> (SUBSET Contents) \cup {NoSnapshot}]
  /\ files \subseteq Attempts /\ artifactRows \subseteq Attempts

(* Who runs which process. *)
ClientTypes ==
  /\ cachedClient \in [Servers -> Attempts \cup Elsewhere \cup {NoAttempt}]
  /\ using \in [Attempts -> Attempts \cup Elsewhere \cup {NoAttempt}]
  /\ elsewhere \in [Elsewhere -> {"off", "connecting", "gone"}]
  /\ connections \subseteq Attempts \cup Elsewhere /\ died \subseteq Attempts \cup Elsewhere
  /\ browsers \subseteq Attempts /\ crossed \subseteq Servers

(* What is remembered. *)
HistoryTypes ==
  /\ effects \in [Calls -> Nat]
  /\ uncleaned \subseteq Attempts /\ restored \in BOOLEAN

(* Calls and attempts. *)
DoorTypes ==
  /\ agenda \in Agendas
  /\ gate \in [Calls -> {"new", "asked", "cleared", "issued", "ran", "failed", "closed"}]
  /\ args \in [Calls -> {"none", "valid", "malformed", "wide", "loose"}]
  /\ edited \subseteq Calls
  /\ awaited \in Attempts \cup {NoAttempt}
  /\ at \in [Attempts -> Positions]
  /\ result \in [Attempts -> {"none", "denied", "success", "replayed", "error"}]
  /\ abandoned \subseteq Attempts

(* They are all types. *)
LEMMA TypedParts ==
  /\ Typed <=> RecordTypes /\ DiskTypes /\ ClientTypes /\ HistoryTypes /\ DoorTypes
  /\ Typed' <=> RecordTypes' /\ DiskTypes' /\ ClientTypes' /\ HistoryTypes' /\ DoorTypes'
<1>1. Typed <=> RecordTypes /\ DiskTypes /\ ClientTypes /\ HistoryTypes /\ DoorTypes
  BY DEF Typed, TypeOK, Contents, RecordTypes, DiskTypes, ClientTypes, HistoryTypes, DoorTypes
<1>2. Typed' <=> RecordTypes' /\ DiskTypes' /\ ClientTypes' /\ HistoryTypes' /\ DoorTypes'
  BY DEF Typed, TypeOK, Contents, RecordTypes, DiskTypes, ClientTypes, HistoryTypes, DoorTypes
<1> QED BY <1>1, <1>2

(* A step keeps the types of the records. *)
LEMMA StepRecordTypes ==
  ASSUME Typed, Placed, NEW p \in Attempts, Step(p) \/ Throw(p)
  PROVE  RecordTypes'
<1>0. RecordTypes
  BY TypedParts
<1>1. CASE InsertRow(p)
  BY <1>0, <1>1 DEF InsertRow, UnlessPresent, RecordTypes, records
<1>2. CASE Reserve(p)
  BY <1>0, <1>2 DEF Reserve, RecordTypes, records
<1>3. CASE SetRef(p)
  BY <1>0, <1>3 DEF SetRef, RecordTypes, records
<1>4. CASE Settle(p)
  BY <1>0, <1>4 DEF Settle, RecordTypes, records
<1>5. CASE Record(p)
  BY <1>0, <1>5 DEF Record, Marked, Return, RecordTypes, records
<1>6. CASE Catch(p)
  BY <1>0, <1>6 DEF Catch, Marked, Return, RecordTypes, records
<1>7. CASE Lookup(p) \/ WriteTemp(p) \/ Snapshot(p) \/ Change(p) \/ Cleanup(p) \/ Restore(p) \/
     RestoreUnknown(p) \/ Connect(p) \/ Connected(p) \/ Request(p) \/ Send(p) \/ Launch(p) \/
     CloseBrowser(p) \/ PutObject(p) \/ IndexObject(p) \/ Output(p) \/ Throw(p)
  <2>1. UNCHANGED <<ledger, invocation, ref>>
    BY <1>7 DEF Lookup, WriteTemp, Snapshot, Change, Cleanup, Restore, RestoreUnknown, Connect,
         Connected, Request, Send, Launch, CloseBrowser, PutObject, IndexObject, Output, Throw,
         Goto, records, disk, clients, history
  <2> QED BY <1>0, <2>1 DEF RecordTypes
<1> QED BY <1>1, <1>2, <1>3, <1>4, <1>5, <1>6, <1>7 DEF Step, Tool, Artifact

(* A step keeps the types of the disk. *)
LEMMA StepDiskTypes ==
  ASSUME Typed, Placed, NEW p \in Attempts, Step(p) \/ Throw(p)
  PROVE  DiskTypes'
<1>0. DiskTypes
  BY TypedParts
<1>1. CASE WriteTemp(p)
  BY <1>0, <1>1, Pairs DEF WriteTemp, DiskTypes, disk, Contents, Temporary, PatchFile, Effect
<1>2. CASE Snapshot(p)
  BY <1>0, <1>2 DEF Snapshot, NewSnapshot, DiskTypes, disk
<1>3. CASE Change(p)
  BY <1>0, <1>3, Pairs DEF Change, DiskTypes, disk, Contents, Temporary, PatchFile, Effect
<1>4. CASE Cleanup(p)
  BY <1>0, <1>4, Pairs DEF Cleanup, DiskTypes, disk, Contents, Temporary, PatchFile, Effect,
       CleansUp
<1>5. CASE Restore(p)
  <2>1. UNCHANGED <<snapshots, files, artifactRows>>
    BY <1>5 DEF Restore
  <2>2. PICK q \in Attempts : snapshots[q] # NoSnapshot /\ workspace' = snapshots[q]
    BY <1>5 DEF Restore
  <2>3. snapshots[q] \in SUBSET Contents
    BY <1>0, <2>2 DEF DiskTypes
  <2> QED BY <1>0, <2>1, <2>2, <2>3 DEF DiskTypes
<1>6. CASE PutObject(p)
  BY <1>0, <1>6 DEF PutObject, Stored, DiskTypes, disk
<1>7. CASE IndexObject(p)
  BY <1>0, <1>7 DEF IndexObject, DiskTypes, disk
<1>8. CASE InsertRow(p) \/ Lookup(p) \/ Reserve(p) \/ RestoreUnknown(p) \/ Connect(p) \/
     Connected(p) \/ Request(p) \/ Send(p) \/ Launch(p) \/ CloseBrowser(p) \/ SetRef(p) \/
     Output(p) \/ Settle(p) \/ Record(p) \/ Catch(p) \/ Throw(p)
  <2>1. UNCHANGED <<workspace, snapshots, files, artifactRows>>
    BY <1>8 DEF InsertRow, Lookup, Reserve, RestoreUnknown, Connect, Connected, Request, Send,
         Launch, CloseBrowser, SetRef, Output, Settle, Record, Catch, Throw, Return, Goto,
         records, disk, clients, history
  <2> QED BY <1>0, <2>1 DEF DiskTypes
<1> QED BY <1>1, <1>2, <1>3, <1>4, <1>5, <1>6, <1>7, <1>8 DEF Step, Tool, Artifact

(* A step keeps the types of the processes. *)
LEMMA StepClientTypes ==
  ASSUME Typed, Placed, NEW p \in Attempts, Step(p) \/ Throw(p)
  PROVE  ClientTypes'
<1>0. ClientTypes
  BY TypedParts
<1>1. CASE Connect(p)
  <2>1. at[p] = "connect" /\ IsOf(at[p], p[1])
    BY <1>1 DEF Connect, Placed, Fits, ToolStatements
  <2>2. p[1] \in DOMAIN McpServer
    BY <2>1, AfterEach DEF IsOf
  <2>3. /\ McpServer[p[1]] \in Servers
        /\ cachedClient[McpServer[p[1]]] \in Attempts \cup Elsewhere \cup {NoAttempt}
    BY <1>0, <2>2, ServersOfTools DEF ClientTypes
  <2>4. /\ connections' \subseteq connections \cup {p} /\ crossed' \subseteq Servers
        /\ UNCHANGED <<cachedClient, elsewhere, browsers, died>>
        /\ using' = using \/ using' = [using EXCEPT ![p] = cachedClient[McpServer[p[1]]]]
    BY <1>0, <1>1, <2>3 DEF Connect, Opens, ClientTypes
  <2> QED BY <1>0, <2>3, <2>4 DEF ClientTypes
<1>2. CASE Connected(p)
  <2>1. McpServer[p[1]] \in Servers /\ "context7" \in Servers
    BY <1>2, ServersOfTools DEF Connected, Placed, Fits, Servers
  <2>2. /\ connections' \subseteq connections /\ UNCHANGED <<elsewhere, browsers, died, crossed>>
        /\ using' = using \/ using' = [using EXCEPT ![p] = p]
        /\ \/ cachedClient' = cachedClient
           \/ cachedClient' = [cachedClient EXCEPT ![McpServer[p[1]]] = p]
           \/ cachedClient' = [cachedClient EXCEPT !["context7"] = NoAttempt]
    BY <1>2 DEF Connected, Keeps, Fails
  <2> QED BY <1>0, <2>1, <2>2 DEF ClientTypes
<1>3. CASE Launch(p)
  BY <1>0, <1>3 DEF Launch, ClientTypes, clients
<1>4. CASE CloseBrowser(p)
  BY <1>0, <1>4 DEF CloseBrowser, ClientTypes, clients
<1>5. CASE Record(p)
  BY <1>0, <1>5 DEF Record, Return, ClientTypes, clients
<1>6. CASE Catch(p)
  BY <1>0, <1>6 DEF Catch, Return, ClientTypes, clients
<1>7. CASE InsertRow(p) \/ Lookup(p) \/ Reserve(p) \/ WriteTemp(p) \/ Snapshot(p) \/ Change(p)
     \/ Cleanup(p) \/ Restore(p) \/ RestoreUnknown(p) \/ Request(p) \/ Send(p) \/ PutObject(p)
     \/ IndexObject(p) \/ SetRef(p) \/ Output(p) \/ Settle(p) \/ Throw(p)
  <2>1. UNCHANGED <<cachedClient, using, elsewhere, connections, browsers, died, crossed>>
    BY <1>7 DEF InsertRow, Lookup, Reserve, WriteTemp, Snapshot, Change, Cleanup, Restore,
         RestoreUnknown, Request, Send, PutObject, IndexObject, SetRef, Output, Settle, Throw,
         Goto, records, disk, clients, history
  <2> QED BY <1>0, <2>1 DEF ClientTypes
<1> QED BY <1>1, <1>2, <1>3, <1>4, <1>5, <1>6, <1>7 DEF Step, Tool, Artifact

(* A step keeps the types of the history. *)
LEMMA StepHistoryTypes ==
  ASSUME Typed, Placed, NEW p \in Attempts, Step(p) \/ Throw(p)
  PROVE  HistoryTypes'
<1>0. HistoryTypes
  BY TypedParts
<1>1. CASE Change(p)
  <2>1. p[1] \in Calls
    BY Pairs
  <2>2. /\ effects' = effects \/ effects' = [effects EXCEPT ![p[1]] = @ + 1]
        /\ UNCHANGED <<uncleaned, restored>>
    BY <1>1 DEF Change
  <2> QED BY <1>0, <2>1, <2>2 DEF HistoryTypes
<1>2. CASE Restore(p)
  <2>1. p[1] \in Calls
    BY Pairs
  <2> QED BY <1>0, <1>2, <2>1 DEF Restore, HistoryTypes, history
<1>3. CASE Send(p)
  <2>1. p[1] \in Calls
    BY Pairs
  <2> QED BY <1>0, <1>3, <2>1 DEF Send, HistoryTypes, history
<1>4. CASE Cleanup(p)
  BY <1>0, <1>4 DEF Cleanup, HistoryTypes, history
<1>5. CASE Throw(p)
  BY <1>0, <1>5 DEF Throw, HistoryTypes, history
<1>6. CASE InsertRow(p) \/ Lookup(p) \/ Reserve(p) \/ WriteTemp(p) \/ Snapshot(p) \/
     RestoreUnknown(p) \/ Connect(p) \/ Connected(p) \/ Request(p) \/ Launch(p) \/
     CloseBrowser(p) \/ PutObject(p) \/ IndexObject(p) \/ SetRef(p) \/ Output(p) \/ Settle(p) \/
     Record(p) \/ Catch(p)
  <2>1. UNCHANGED <<effects, uncleaned, restored>>
    BY <1>6 DEF InsertRow, Lookup, Reserve, WriteTemp, Snapshot, RestoreUnknown, Connect,
         Connected, Request, Launch, CloseBrowser, PutObject, IndexObject, SetRef, Output,
         Settle, Record, Catch, Return, Goto, records, disk, clients, history
  <2> QED BY <1>0, <2>1 DEF HistoryTypes
<1> QED BY <1>1, <1>2, <1>3, <1>4, <1>5, <1>6 DEF Step, Tool, Artifact
(* A step keeps all types. *)
LEMMA StepTyped ==
  ASSUME Typed, Placed, Guarded, NEW p \in Attempts, Step(p) \/ Throw(p)
  PROVE  Typed'
<1>1. DoorTypes /\ Moves(p)
  BY TypedParts, StepMoves
<1>2. RecordTypes' /\ DiskTypes' /\ ClientTypes' /\ HistoryTypes'
  BY StepRecordTypes, StepDiskTypes, StepClientTypes, StepHistoryTypes
<1>3. UNCHANGED <<agenda, gate, args, edited, abandoned>>
  BY <1>1 DEF Moves
<1>4. awaited' \in Attempts \cup {NoAttempt}
  BY <1>1 DEF Moves, DoorTypes
<1>5. at' \in [Attempts -> Positions]
  <2> DEFINE next == at'[p]
  <2>1. at' = [at EXCEPT ![p] = next] /\ next \in Positions
    BY <1>1 DEF Moves
  <2> HIDE DEF next
  <2> QED BY <1>1, <2>1 DEF DoorTypes
<1>6. result' \in [Attempts -> {"none", "denied", "success", "replayed", "error"}]
  <2>1. \/ result' = result
        \/ \E outcome \in {"none", "denied", "success", "replayed", "error"} :
             result' = [result EXCEPT ![p] = outcome]
    <3>1. CASE Tool(p) \/ Artifact(p) \/ Throw(p)
      BY <1>1, <3>1, ToolIsQuiet DEF Quiet, Takes
    <3>2. CASE InsertRow(p) \/ Reserve(p)
      BY <3>2 DEF InsertRow, Reserve, Goto
    <3>3. CASE Lookup(p)
      BY <3>3 DEF Lookup, Goto
    <3>4. CASE Settle(p)
      BY <3>4 DEF Settle
    <3>5. CASE Record(p)
      <4>1. result' = [result EXCEPT ![p] = result[p]]
        BY <3>5 DEF Record, Return
      <4> QED BY <1>1, <4>1 DEF DoorTypes
    <3>6. CASE Catch(p)
      BY <3>6 DEF Catch, Return
    <3> QED BY <3>1, <3>2, <3>3, <3>4, <3>5, <3>6 DEF Step
  <2> QED BY <1>1, <2>1 DEF DoorTypes
<1>7. DoorTypes'
  BY <1>1, <1>3, <1>4, <1>5, <1>6 DEF DoorTypes
<1> QED BY <1>2, <1>7, TypedParts

(* The gate keeps its types. *)
LEMMA DoorTyped ==
  ASSUME Typed, NEW c \in Calls, Evaluate(c) \/ Gate(c)
  PROVE  /\ gate' \in [Calls -> {"new", "asked", "cleared", "issued", "ran", "failed", "closed"}]
         /\ args' \in [Calls -> {"none", "valid", "malformed", "wide", "loose"}]
         /\ edited' \subseteq Calls /\ agenda' = agenda
         /\ awaited' \in Attempts \cup {NoAttempt}
<1>1. DoorTypes
  BY TypedParts
<1>2. Shapes(c) \subseteq {"none", "valid", "malformed", "wide", "loose"}
  BY DEF Shapes
<1>3. CASE Evaluate(c)
  <2>1. \A shape : Validate(c, shape) \in {"denied", "allowed", "approval_required"}
    BY DEF Validate
  <2>2. \E g \in {"closed", "cleared", "asked"} : gate' = [gate EXCEPT ![c] = g]
    BY <1>3, <2>1 DEF Evaluate
  <2>3. \E shape \in Shapes(c) : args' = [args EXCEPT ![c] = shape]
    BY <1>3 DEF Evaluate
  <2>4. UNCHANGED <<agenda, edited, awaited>>
    BY <1>3 DEF Evaluate
  <2> QED BY <1>1, <1>2, <2>2, <2>3, <2>4 DEF DoorTypes
<1>4. CASE Resolve(c)
  <2>1. \E g \in {"closed", "cleared"} : gate' = [gate EXCEPT ![c] = g]
    BY <1>4 DEF Resolve
  <2>2. args' = args \/ \E shape \in Shapes(c) : args' = [args EXCEPT ![c] = shape]
    BY <1>4 DEF Resolve
  <2>3. edited' \subseteq edited \cup {c} /\ UNCHANGED <<agenda, awaited>>
    BY <1>4 DEF Resolve
  <2> QED BY <1>1, <1>2, <2>1, <2>2, <2>3 DEF DoorTypes
<1>5. CASE RunInWorkflow(c)
  BY <1>1, <1>5 DEF RunInWorkflow, DoorTypes
<1>6. CASE Issue(c)
  <2>1. <<c, 1>> \in Attempts
    BY ToolAssumption DEF Attempts
  <2>2. gate' = [gate EXCEPT ![c] = "issued"] /\ UNCHANGED <<agenda, args, edited>>
        /\ awaited' \in {awaited, <<c, 1>>}
    BY <1>6 DEF Issue
  <2> QED BY <1>1, <2>1, <2>2 DEF DoorTypes
<1> QED BY <1>3, <1>4, <1>5, <1>6 DEF Gate

(* What happens beside the attempts keeps all types. *)
LEMMA ApartTyped ==
  ASSUME Typed, Guarded, Apart
  PROVE  Typed'
<1>1. DoorTypes /\ RecordTypes /\ DiskTypes /\ ClientTypes /\ HistoryTypes /\ Waits
  BY TypedParts, ApartWaits
<1>2. agenda \subseteq Calls
  BY <1>1, ToolAssumption DEF DoorTypes, Calls
<1>3. at' \in [Attempts -> Positions]
  <2>1. at \in [Attempts -> Positions]
    BY <1>1 DEF DoorTypes
  <2>2. "row" \in Positions /\ "gone" \in Positions
    BY DEF Positions
  <2>3. \/ at' = at
        \/ \E q \in Attempts : at' = [at EXCEPT ![q] = "row"] \/ at' = [at EXCEPT ![q] = "gone"]
    BY <1>1 DEF Waits
  <2> QED BY <2>1, <2>2, <2>3
<1>4. result' \in [Attempts -> {"none", "denied", "success", "replayed", "error"}]
  BY <1>1 DEF Waits, DoorTypes
<1>5. RecordTypes' /\ DiskTypes' /\ HistoryTypes'
  BY <1>1 DEF Waits, RecordTypes, DiskTypes, HistoryTypes, Contents
<1>6. abandoned' \subseteq Attempts /\ awaited' \in Attempts \cup {NoAttempt} /\ agenda' \in Agendas
      /\ gate' \in [Calls -> {"new", "asked", "cleared", "issued", "ran", "failed", "closed"}]
      /\ args' \in [Calls -> {"none", "valid", "malformed", "wide", "loose"}]
      /\ edited' \subseteq Calls
  <2>1. CASE \E c \in agenda : Evaluate(c) \/ Gate(c)
    <3>1. PICK c \in agenda : Evaluate(c) \/ Gate(c)
      BY <2>1
    <3>2. abandoned' = abandoned
      BY <3>1 DEF Evaluate, Gate, Resolve, RunInWorkflow, Issue, history
    <3> QED BY <1>1, <1>2, <3>1, <3>2, DoorTyped DEF DoorTypes
  <2>2. CASE Abandon
    <3>1. UNCHANGED <<agenda, gate, args, edited>> /\ awaited \in Attempts
          /\ abandoned' = abandoned \cup {awaited}
      BY <1>1, <2>2 DEF Abandon, door, DoorTypes
    <3>2. awaited' \in Attempts \cup {NoAttempt}
      BY <2>2, <3>1, Pairs, ToolAssumption DEF Abandon, Attempts
    <3> QED BY <1>1, <3>1, <3>2 DEF DoorTypes
  <2>3. CASE ServerDies
    BY <1>1, <2>3 DEF ServerDies, DoorTypes, door, history
  <2>4. CASE UNCHANGED vars
    BY <1>1, <2>4 DEF vars, DoorTypes, door, history
  <2> QED BY <2>1, <2>2, <2>3, <2>4 DEF Apart
<1>7. connections' \subseteq Attempts \cup Elsewhere /\ died' \subseteq Attempts \cup Elsewhere
  BY <1>1, ApartWaits DEF ServerDies, ClientTypes
<1>8. DoorTypes' /\ ClientTypes'
  BY <1>1, <1>3, <1>4, <1>6, <1>7 DEF Waits, DoorTypes, ClientTypes
<1> QED BY <1>5, <1>8, TypedParts

-----------------------------------------------------------------------------
(* Where each step leads. *)

(* The statements of a tool, by the action that executes them. *)
LEMMA ToolGoes ==
  ASSUME Typed, Placed, Guarded, NEW p \in Attempts
  PROVE  /\ WriteTemp(p) => p[1] = "workspace.applyPatch" /\ at'[p] = "snapshot"
         /\ Snapshot(p) => at'[p] = IF p[1] = "sandbox.snapshot" THEN "output" ELSE "effect"
         /\ Change(p) =>
              IF p[1] = "workspace.applyPatch" THEN at'[p] \in {"cleanup", "cleanup after failure"}
                                               ELSE at'[p] \in {"put", "output"}
         /\ Cleanup(p) => at'[p] = IF at[p] = "cleanup" THEN "output" ELSE "catch"
         /\ Restore(p) => at'[p] = "output"
         /\ RestoreUnknown(p) => at'[p] = "catch"
         /\ Connect(p) => /\ p[1] \in DOMAIN McpServer
                          /\ at'[p] = IF HasNoClient(p) THEN "connecting" ELSE AfterConnecting(p)
         /\ Connected(p) => /\ p[1] \in DOMAIN McpServer
                            /\ at'[p] \in {"triage", "resolve", "send", "request", "catch"}
         /\ Request(p) => at'[p] \in {"request", "put", "output"}
         /\ Send(p) => at'[p] = IF p[1] \in Browsing THEN "put" ELSE "output"
         /\ Launch(p) => p[1] \in Browsing /\ at'[p] = "send"
         /\ CloseBrowser(p) => at'[p] = IF at[p] = "close" THEN "output" ELSE "catch"
         /\ IndexObject(p) =>
              at'[p] = IF at[p] = "spill index" THEN "spill ref"
                       ELSE IF p[1] \in Browsing THEN "close" ELSE "output"
<1> DEFINE t == p[1]
<1>1. Fits(at[p], t) /\ (Runs(p) => t \in DOMAIN Statements)
  BY DEF Placed, Guarded
<1>2. at \in [Attempts -> Positions]
  BY DEF Typed, TypeOK
<1>3. \A next : Goto(p, next) => at'[p] = next
  BY <1>2 DEF Goto
<1>4. at[p] \in ToolStatements => IsOf(at[p], t) /\ t \in DOMAIN Statements
  BY <1>1 DEF Fits, IsOf
<1>5. WriteTemp(p) => t = "workspace.applyPatch" /\ at'[p] = "snapshot"
  BY <1>3, <1>4, AfterEach DEF WriteTemp, ToolStatements
<1>6. Snapshot(p) => at'[p] = IF t = "sandbox.snapshot" THEN "output" ELSE "effect"
  BY <1>3, <1>4, AfterEach DEF Snapshot, ToolStatements
<1>7. Change(p) =>
        IF t = "workspace.applyPatch" THEN at'[p] \in {"cleanup", "cleanup after failure"}
                                      ELSE at'[p] \in {"put", "output"}
  <2> SUFFICES ASSUME Change(p)
               PROVE  IF t = "workspace.applyPatch"
                        THEN at'[p] \in {"cleanup", "cleanup after failure"}
                        ELSE at'[p] \in {"put", "output"}
    OBVIOUS
  <2>1. at[p] = "effect" /\ at[p] \in ToolStatements
    BY DEF Change, ToolStatements
  <2>2. After(p) = IF t = "workspace.applyPatch" THEN "cleanup"
                   ELSE IF t = "verification.run" THEN "put" ELSE "output"
    BY <2>1, <1>4, AfterEach
  <2>3. at'[p] = After(p) \/ (t = "workspace.applyPatch" /\ at'[p] = "cleanup after failure")
    BY <1>3 DEF Change
  <2> QED BY <2>2, <2>3
<1>8. /\ Cleanup(p) => at'[p] = IF at[p] = "cleanup" THEN "output" ELSE "catch"
      /\ Restore(p) => at'[p] = "output"
      /\ RestoreUnknown(p) => at'[p] = "catch"
      /\ CloseBrowser(p) => at'[p] = IF at[p] = "close" THEN "output" ELSE "catch"
  BY <1>3 DEF Cleanup, Restore, RestoreUnknown, CloseBrowser
<1>9. ASSUME Connect(p)
      PROVE  /\ t \in DOMAIN McpServer
             /\ at'[p] = IF HasNoClient(p) THEN "connecting" ELSE AfterConnecting(p)
  <2>1. at[p] = "connect" /\ at[p] \in ToolStatements
    BY <1>9 DEF Connect, ToolStatements
  <2>2. t \in DOMAIN McpServer /\ After(p) = AfterConnecting(p)
    BY <2>1, <1>4, AfterEach
  <2>3. at'[p] = IF HasNoClient(p) THEN "connecting" ELSE After(p)
    BY <1>3, <1>9 DEF Connect
  <2> QED BY <2>2, <2>3
<1>10. ASSUME Connected(p)
       PROVE  /\ t \in DOMAIN McpServer
              /\ at'[p] \in {"triage", "resolve", "send", "request", "catch"}
  <2>1. t \in DOMAIN McpServer
    BY <1>1, <1>10 DEF Connected, Fits
  <2>2. at'[p] \in {AfterConnecting(p), "triage", "catch"}
    BY <1>3, <1>10 DEF Connected
  <2> QED BY <2>1, <2>2, AfterConnectingFits
<1>11. Request(p) => at'[p] \in {"request", "put", "output"}
  BY <1>3, <1>4, AfterEach DEF Request, ToolStatements
<1>12. Send(p) => at'[p] = IF t \in Browsing THEN "put" ELSE "output"
  BY <1>3, <1>4, AfterEach DEF Send, ToolStatements
<1>13. Launch(p) => t \in Browsing /\ at'[p] = "send"
  BY <1>3, <1>4, AfterEach DEF Launch, ToolStatements
<1>14. ASSUME IndexObject(p)
       PROVE  at'[p] = IF at[p] = "spill index" THEN "spill ref"
                       ELSE IF t \in Browsing THEN "close" ELSE "output"
  <2>1. CASE at[p] = "spill index"
    BY <1>3, <1>14, <2>1 DEF IndexObject
  <2>2. CASE at[p] = "index"
    BY <1>3, <1>4, <1>14, <2>2, AfterEach DEF IndexObject, ToolStatements
  <2> QED BY <1>14, <2>1, <2>2 DEF IndexObject
<1> QED BY <1>5, <1>6, <1>7, <1>8, <1>9, <1>10, <1>11, <1>12, <1>13, <1>14

(* The steps around them. *)
LEMMA FrameGoes ==
  ASSUME Typed, Placed, Guarded, NEW p \in Attempts
  PROVE  /\ InsertRow(p) \/ Reserve(p) =>
              at'[p] \in {"lookup", "catch", Body(p[1])} /\ p[1] \in DOMAIN Statements
         /\ Lookup(p) => at'[p] \in {"record", "reserve"}
         /\ PutObject(p) => at'[p] = IF at[p] = "put" THEN "index" ELSE "spill index"
         /\ SetRef(p) => at'[p] = "settle"
         /\ Output(p) => at'[p] \in {"settle", "spill put"}
         /\ Settle(p) => at'[p] = "record"
         /\ Record(p) \/ Catch(p) => at'[p] = "gone"
         /\ Throw(p) => at'[p] = Handler(p)
<1>1. at \in [Attempts -> Positions]
  BY DEF Typed, TypeOK
<1>2. \A next : Goto(p, next) => at'[p] = next
  BY <1>1 DEF Goto
<1>3. InsertRow(p) \/ Reserve(p) => Runs(p)
  BY DEF InsertRow, Reserve, Runs
<1>4. InsertRow(p) \/ Reserve(p) =>
        at'[p] \in {"lookup", "catch", Body(p[1])} /\ p[1] \in DOMAIN Statements
  BY <1>2, <1>3 DEF InsertRow, Reserve, Guarded
<1>5. Lookup(p) => at'[p] \in {"record", "reserve"}
  BY <1>1, <1>2 DEF Lookup
<1>6. PutObject(p) => at'[p] = IF at[p] = "put" THEN "index" ELSE "spill index"
  BY <1>2 DEF PutObject
<1>7. /\ SetRef(p) => at'[p] = "settle"
      /\ Output(p) => at'[p] \in {"settle", "spill put"}
      /\ Throw(p) => at'[p] = Handler(p)
  BY <1>2 DEF SetRef, Output, Throw
<1>8. /\ Settle(p) => at'[p] = "record"
      /\ Record(p) \/ Catch(p) => at'[p] = "gone"
  BY <1>1 DEF Settle, Record, Catch, Return
<1> QED BY <1>4, <1>5, <1>6, <1>7, <1>8

(* Some positions are reached in one way only. *)
LEMMA OneWay ==
  ASSUME Typed, Placed, Guarded, NEW p \in Attempts, Step(p) \/ Throw(p)
  PROVE  /\ at'[p] = "effect" => Snapshot(p) \/ p[1] = "verification.run"
         /\ at'[p] \in {"index", "spill index"} => PutObject(p)
         /\ at'[p] = "spill ref" => IndexObject(p)
         /\ at'[p] = "connecting" => Connect(p) /\ HasNoClient(p)
         /\ at'[p] \in Unconnected => at[p] \in Unconnected
<1>1. at'[p] = Body(p[1]) /\ p[1] \in DOMAIN Statements =>
        /\ at'[p] = "effect" => p[1] = "verification.run"
        /\ at'[p] \notin {"index", "spill index", "spill ref", "connecting", "row", "lookup"}
  BY BodyFits DEF ToolStatements
<1>2. p[1] \in DOMAIN McpServer =>
        AfterConnecting(p) \in {"triage", "resolve", "send", "request"}
  BY AfterConnectingFits
<1>3. CASE InsertRow(p) \/ Reserve(p)
  BY <1>1, <1>3, FrameGoes DEF Unconnected, InsertRow, Reserve
<1>4. CASE Lookup(p)
  BY <1>4, FrameGoes DEF Unconnected, Lookup
<1>5. CASE WriteTemp(p) \/ Snapshot(p) \/ Change(p) \/ Cleanup(p) \/ Restore(p) \/ RestoreUnknown(p)
  BY <1>5, ToolGoes DEF Unconnected
<1>6. CASE Connect(p)
  BY <1>2, <1>6, ToolGoes DEF Unconnected, Connect
<1>7. CASE Connected(p) \/ Request(p) \/ Send(p) \/ Launch(p) \/ CloseBrowser(p) \/ IndexObject(p)
  BY <1>7, ToolGoes DEF Unconnected
<1>8. CASE PutObject(p) \/ SetRef(p) \/ Output(p) \/ Settle(p) \/ Record(p) \/ Catch(p)
  BY <1>8, FrameGoes DEF Unconnected
<1>9. CASE Throw(p)
  BY <1>9, FrameGoes DEF Unconnected, Handler
<1> QED BY <1>3, <1>4, <1>5, <1>6, <1>7, <1>8, <1>9 DEF Step, Tool, Artifact

-----------------------------------------------------------------------------
(* Invocations. *)

(* The row is there before anything is done, and is closed by the attempt that ends. *)
LEMMA StepRowed ==
  ASSUME Typed, Placed, Guarded, Browsed, Rowed, NEW p \in Attempts, Step(p) \/ Throw(p)
  PROVE  Rowed'
<1> DEFINE t == p[1]
<1>1. /\ Moves(p) /\ t \in Calls /\ at'[p] \notin {"off", "row"}
      /\ \A q \in Attempts : q # p => at'[q] = at[q]
      /\ t \in DOMAIN Statements
  BY StepMoves, MovesOthers, Pairs DEF Moves, Guarded
<1>2. CASE InsertRow(p)
  <2>1. /\ invocation' = [invocation EXCEPT ![t] = UnlessPresent(t)]
        /\ at'[p] \in {"lookup", "catch", Body(t)} /\ UNCHANGED <<effects, ledger>>
    BY <1>2, FrameGoes DEF InsertRow
  <2>2. at'[p] # "gone"
    BY <1>1, <2>1, BodyFits DEF ToolStatements
  <2>3. /\ invocation'[t] # "none"
        /\ \A c \in Calls : c # t => invocation'[c] = invocation[c]
    BY <1>1, <2>1 DEF UnlessPresent, Typed, TypeOK
  <2>4. ASSUME NEW q \in Attempts, at'[q] \notin {"off", "row", "catch", "gone"}
        PROVE  invocation'[q[1]] # "none"
    BY <1>1, <2>3, <2>4, Pairs DEF Rowed
  <2>5. ASSUME NEW c \in Calls, invocation'[c] = "none"
        PROVE  effects'[c] = 0 /\ ledger'[c] = "none"
    BY <2>1, <2>3, <2>5 DEF Rowed
  <2>6. ASSUME NEW c \in Calls, invocation'[c] = "running"
        PROVE  \E q \in Attempts : q[1] = c /\ at'[q] \notin {"off", "row", "gone"}
    <3>1. CASE c = t
      BY <1>1, <2>2, <3>1
    <3>2. CASE c # t
      <4>1. PICK q \in Attempts : q[1] = c /\ at[q] \notin {"off", "row", "gone"}
        BY <2>3, <2>6, <3>2 DEF Rowed
      <4> QED BY <1>1, <3>2, <4>1
    <3> QED BY <3>1, <3>2
  <2> QED BY <2>4, <2>5, <2>6 DEF Rowed
<1>3. CASE Record(p) \/ Catch(p)
  <2>1. /\ \E status \in {"complete", "failed"} : invocation' = Marked(t, status)
        /\ at'[p] = "gone" /\ UNCHANGED <<effects, ledger>>
    BY <1>3, FrameGoes DEF Record, Catch, Return, history
  <2>2. /\ \A c \in Calls : invocation'[c] = "none" <=> invocation[c] = "none"
        /\ invocation'[t] # "running"
        /\ \A c \in Calls : c # t => invocation'[c] = invocation[c]
    BY <1>1, <2>1 DEF Marked, Typed, TypeOK
  <2>3. ASSUME NEW q \in Attempts, at'[q] \notin {"off", "row", "catch", "gone"}
        PROVE  invocation'[q[1]] # "none"
    BY <1>1, <2>1, <2>2, <2>3, Pairs DEF Rowed
  <2>4. ASSUME NEW c \in Calls, invocation'[c] = "none"
        PROVE  effects'[c] = 0 /\ ledger'[c] = "none"
    BY <2>1, <2>2, <2>4 DEF Rowed
  <2>5. ASSUME NEW c \in Calls, invocation'[c] = "running"
        PROVE  \E q \in Attempts : q[1] = c /\ at'[q] \notin {"off", "row", "gone"}
    <3>1. c # t /\ invocation[c] = "running"
      BY <2>2, <2>5
    <3>2. PICK q \in Attempts : q[1] = c /\ at[q] \notin {"off", "row", "gone"}
      BY <3>1 DEF Rowed
    <3> QED BY <1>1, <3>1, <3>2
  <2> QED BY <2>3, <2>4, <2>5 DEF Rowed
<1>4. CASE ~InsertRow(p) /\ ~Record(p) /\ ~Catch(p)
  <2>1. /\ invocation' = invocation /\ at'[p] # "gone"
        /\ \A c \in Calls : c # t => effects'[c] = effects[c] /\ ledger'[c] = ledger[c]
    <3>1. CASE Tool(p) \/ Artifact(p) \/ Throw(p)
      <4>1. Quiet(p) \/ Takes(p)
        BY <1>1, <3>1, ToolIsQuiet
      <4>2. CASE Quiet(p)
        BY <4>2 DEF Quiet
      <4>3. CASE Takes(p)
        <5>1. /\ UNCHANGED <<ledger, invocation>> /\ at'[p] # "gone"
              /\ effects' = [effects EXCEPT ![t] = @ + 1]
          BY <4>3 DEF Takes
        <5>2. DOMAIN effects = Calls
          BY DEF Typed, TypeOK
        <5> QED BY <5>1, <5>2
      <4> QED BY <4>1, <4>2, <4>3
    <3>2. CASE Lookup(p)
      BY <3>2, FrameGoes DEF Lookup, records
    <3>3. CASE Reserve(p)
      <4>1. at'[p] # "gone"
        BY <1>1, <3>3, FrameGoes, BodyFits DEF ToolStatements
      <4> QED BY <1>1, <3>3, <4>1 DEF Reserve, Typed, TypeOK
    <3>4. CASE Settle(p)
      <4>1. at'[p] # "gone"
        BY <3>4, FrameGoes
      <4> QED BY <1>1, <3>4, <4>1 DEF Settle, history, Typed, TypeOK
    <3> QED BY <1>4, <3>1, <3>2, <3>3, <3>4 DEF Step
  <2>2. \/ at'[p] = "catch" /\ UNCHANGED <<effects, ledger>>
        \/ invocation[t] # "none"
    <3>1. CASE Throw(p)
      <4>1. at'[p] = Handler(p) /\ UNCHANGED <<effects, ledger>>
        BY <3>1, FrameGoes DEF Throw, records
      <4>2. at[p] \notin {"off", "catch", "gone"}
        BY <3>1 DEF Throw
      <4>3. at[p] = "row" => Handler(p) = "catch"
        BY DEF Handler, Browsed
      <4> QED BY <4>1, <4>2, <4>3 DEF Rowed
    <3>2. CASE Tool(p) \/ Artifact(p)
      <4>1. at[p] \notin {"off", "row", "catch", "gone"}
        BY <3>2 DEF Tool, Artifact, WriteTemp, Snapshot, Change, Cleanup, Restore, RestoreUnknown,
           Connect, Connected, Request, Send, Launch, CloseBrowser, PutObject, IndexObject,
           SetRef, Output
      <4> QED BY <4>1 DEF Rowed
    <3>3. CASE Lookup(p) \/ Reserve(p) \/ Settle(p)
      <4>1. at[p] \notin {"off", "row", "catch", "gone"}
        BY <3>3 DEF Lookup, Reserve, Settle
      <4> QED BY <4>1 DEF Rowed
    <3> QED BY <1>4, <3>1, <3>2, <3>3 DEF Step
  <2>3. ASSUME NEW q \in Attempts, at'[q] \notin {"off", "row", "catch", "gone"}
        PROVE  invocation'[q[1]] # "none"
    BY <1>1, <2>1, <2>2, <2>3 DEF Rowed
  <2>4. ASSUME NEW c \in Calls, invocation'[c] = "none"
        PROVE  effects'[c] = 0 /\ ledger'[c] = "none"
    BY <2>1, <2>2, <2>4 DEF Rowed
  <2>5. ASSUME NEW c \in Calls, invocation'[c] = "running"
        PROVE  \E q \in Attempts : q[1] = c /\ at'[q] \notin {"off", "row", "gone"}
    <3>1. PICK q \in Attempts : q[1] = c /\ at[q] \notin {"off", "row", "gone"}
      BY <2>1, <2>5 DEF Rowed
    <3> QED BY <1>1, <2>1, <3>1
  <2> QED BY <2>3, <2>4, <2>5 DEF Rowed
<1> QED BY <1>2, <1>3, <1>4

(* An attempt that starts or is refused runs no other out. *)
LEMMA WaitsRowed ==
  ASSUME Typed, Rowed, Waits
  PROVE  Rowed'
<1>1. UNCHANGED <<invocation, ledger, effects>>
  BY DEF Waits
<1>2. \A q \in Attempts : at'[q] = at[q] \/ (at[q] = "off" /\ at'[q] \in {"row", "gone"})
  BY DEF Waits, Typed, TypeOK
<1>3. ASSUME NEW c \in Calls, invocation'[c] = "running"
      PROVE  \E q \in Attempts : q[1] = c /\ at'[q] \notin {"off", "row", "gone"}
  <2>1. PICK q \in Attempts : q[1] = c /\ at[q] \notin {"off", "row", "gone"}
    BY <1>1, <1>3 DEF Rowed
  <2> QED BY <1>2, <2>1
<1> QED BY <1>1, <1>2, <1>3 DEF Rowed

-----------------------------------------------------------------------------
(* Snapshots, patch files and artifacts. *)

(* While nothing was given up, the one attempt that runs has just taken its snapshot. *)
LEMMA StepRestorable ==
  ASSUME Typed, Placed, Guarded, Restorable, NEW p \in Attempts, Step(p) \/ Throw(p)
  PROVE  Restorable'
<1> SUFFICES ASSUME NEW q \in Attempts, at'[q] = "effect", abandoned' = {},
                    q[1] # "verification.run"
             PROVE  workspace' = snapshots'[q]
  BY DEF Restorable
<1>1. Moves(p)
  BY StepMoves
<1>2. Runs(p) /\ awaited = p
  BY <1>1 DEF Moves, Guarded
<1>3. q = p
  <2>1. ASSUME q # p
        PROVE  FALSE
    <3>1. Runs(q)
      BY <1>1, <2>1, MovesOthers DEF Runs
    <3>2. awaited = q
      BY <1>1, <3>1 DEF Moves, Guarded
    <3> QED BY <1>2, <2>1, <3>2
  <2> QED BY <2>1
<1>4. Snapshot(p)
  BY <1>3, OneWay
<1>5. workspace' = workspace /\ snapshots' = [snapshots EXCEPT ![p] = workspace]
  BY <1>4 DEF Snapshot, NewSnapshot
<1> QED BY <1>3, <1>5 DEF Typed

(* Nothing else comes between a snapshot and its change. *)
LEMMA WaitsRestorable ==
  ASSUME Typed, Restorable, Waits
  PROVE  Restorable'
<1> SUFFICES ASSUME NEW q \in Attempts, at'[q] = "effect", abandoned' = {},
                    q[1] # "verification.run"
             PROVE  workspace' = snapshots'[q]
  BY DEF Restorable
<1>1. at[q] = "effect"
  BY DEF Waits, Typed, TypeOK
<1>2. abandoned = {} /\ UNCHANGED <<workspace, snapshots>>
  BY DEF Waits
<1> QED BY <1>1, <1>2 DEF Restorable

(* A patch file is swept up by the attempt that wrote it. *)
LEMMA StepSwept ==
  ASSUME Typed, Placed, Guarded, Swept, NEW p \in Attempts, Step(p) \/ Throw(p)
  PROVE  Swept'
<1> DEFINE Working == {"snapshot", "effect", "cleanup", "cleanup after failure"}
<1> SUFFICES ASSUME NEW q \in Attempts, q \in workspace', q \notin uncleaned', ~restored'
             PROVE  q[1] = "workspace.applyPatch" /\ at'[q] \in Working
  BY DEF Swept, PatchFile
<1>1. Moves(p)
  BY StepMoves
<1>2. q # p => at'[q] = at[q]
  BY <1>1, MovesOthers
<1>3. q \in workspace /\ q \notin uncleaned /\ ~restored =>
        q[1] = "workspace.applyPatch" /\ at[q] \in Working
  BY DEF Swept, PatchFile
<1>4. CASE WriteTemp(p)
  <2>1. workspace' = workspace \cup {p} /\ UNCHANGED <<uncleaned, restored>>
    BY <1>4 DEF WriteTemp, PatchFile
  <2> QED BY <1>2, <1>3, <1>4, <2>1, ToolGoes
<1>5. CASE Snapshot(p)
  <2>1. UNCHANGED <<workspace, uncleaned, restored>>
    BY <1>5 DEF Snapshot
  <2> QED BY <1>2, <1>3, <1>5, <2>1, ToolGoes
<1>6. CASE Change(p)
  <2>1. /\ workspace' \in {workspace, workspace \cup {Effect(p[1])}}
        /\ UNCHANGED <<uncleaned, restored>>
    BY <1>6 DEF Change
  <2>2. q \in workspace
    BY <2>1, Pairs DEF PatchFile
  <2> QED BY <1>2, <1>3, <1>6, <2>1, <2>2, ToolGoes
<1>7. CASE Cleanup(p)
  <2>1. /\ UNCHANGED restored
        /\ \/ workspace' = workspace \ {p} /\ uncleaned' = uncleaned
           \/ workspace' = workspace /\ uncleaned' = uncleaned \cup {p}
    BY <1>7 DEF Cleanup, CleansUp, PatchFile
  <2> QED BY <1>2, <1>3, <2>1
<1>8. CASE Restore(p)
  BY <1>8 DEF Restore
<1>9. CASE Throw(p)
  <2>1. UNCHANGED <<workspace, restored>> /\ uncleaned \subseteq uncleaned'
    BY <1>9 DEF Throw, disk
  <2>2. CASE q # p
    BY <1>2, <1>3, <2>1, <2>2
  <2>3. CASE q = p
    <3>1. p[1] = "workspace.applyPatch" /\ at[p] \in Working
      BY <1>3, <2>1, <2>3
    <3>2. at[p] # "snapshot"
      BY <1>9, <2>3, <3>1 DEF Throw
    <3>3. at[p] = "effect"
      BY <1>9, <3>1, <3>2 DEF Throw
    <3> QED BY <1>9, <2>3, <3>1, <3>3, FrameGoes DEF Handler
  <2> QED BY <2>2, <2>3
<1>10. CASE \/ InsertRow(p) \/ Lookup(p) \/ Reserve(p) \/ RestoreUnknown(p) \/ Connect(p)
            \/ Connected(p) \/ Request(p) \/ Send(p) \/ Launch(p) \/ CloseBrowser(p)
            \/ PutObject(p) \/ IndexObject(p) \/ SetRef(p) \/ Output(p)
            \/ Settle(p) \/ Record(p) \/ Catch(p)
  <2>1. UNCHANGED <<workspace, uncleaned, restored>>
    BY <1>10 DEF InsertRow, Lookup, Reserve, RestoreUnknown, Connect, Connected, Request, Send,
       Launch, CloseBrowser, PutObject, IndexObject, SetRef, Output, Settle, Record, Catch,
       Return, disk, history
  <2>2. at[p] \notin Working
    BY <1>10 DEF InsertRow, Lookup, Reserve, RestoreUnknown, Connect, Connected, Request, Send,
       Launch, CloseBrowser, PutObject, IndexObject, SetRef, Output, Settle, Record, Catch
  <2> QED BY <1>2, <1>3, <2>1, <2>2
<1> QED BY <1>4, <1>5, <1>6, <1>7, <1>8, <1>9, <1>10 DEF Step, Tool, Artifact

(* A call that starts has no patch file. *)
LEMMA WaitsSwept ==
  ASSUME Typed, Swept, Waits
  PROVE  Swept'
<1> SUFFICES ASSUME NEW q \in Attempts, q \in workspace', q \notin uncleaned', ~restored'
             PROVE  /\ q[1] = "workspace.applyPatch"
                    /\ at'[q] \in {"snapshot", "effect", "cleanup", "cleanup after failure"}
  BY DEF Swept, PatchFile
<1>1. UNCHANGED <<workspace, uncleaned, restored>>
  BY DEF Waits
<1>2. at[q] \in {"snapshot", "effect", "cleanup", "cleanup after failure"}
  BY <1>1 DEF Swept, PatchFile
<1>3. at'[q] = at[q]
  BY <1>2 DEF Waits, Typed, TypeOK
<1> QED BY <1>1, <1>3 DEF Swept, PatchFile

(* File, row, reference: in that order. *)
LEMMA StepStocked ==
  ASSUME Typed, Placed, Guarded, Stocked, NEW p \in Attempts, Step(p) \/ Throw(p)
  PROVE  Stocked'
<1>1. Moves(p)
  BY StepMoves
<1>2. \A q \in Attempts : q # p => at'[q] = at[q]
  BY <1>1, MovesOthers
<1>3. /\ at'[p] \in {"index", "spill index"} => PutObject(p)
      /\ at'[p] = "spill ref" => IndexObject(p)
  BY OneWay
<1>4. CASE PutObject(p)
  <2>1. files' = files \cup {p} /\ UNCHANGED <<artifactRows, ref>>
    BY <1>4 DEF PutObject, Stored, records
  <2>2. at'[p] # "spill ref"
    BY <1>4, FrameGoes
  <2> QED BY <1>2, <2>1, <2>2 DEF Stocked
<1>5. CASE IndexObject(p)
  <2>1. artifactRows' = artifactRows \cup {p} /\ UNCHANGED <<files, ref>> /\ p \in files
    BY <1>5 DEF IndexObject, records, disk, Stocked
  <2>2. at'[p] \notin {"index", "spill index"}
    BY <1>5, ToolGoes
  <2> QED BY <1>2, <2>1, <2>2 DEF Stocked
<1>6. CASE SetRef(p)
  <2>1. ref' = [ref EXCEPT ![p[1]] = p] /\ UNCHANGED <<files, artifactRows>> /\ p \in artifactRows
    BY <1>6 DEF SetRef, disk, Stocked
  <2>2. at'[p] = "settle"
    BY <1>6, FrameGoes
  <2>3. \A c \in Calls : ref'[c] \in {ref[c], p}
    BY <2>1 DEF Typed, TypeOK
  <2>4. ASSUME NEW c \in Calls, ref'[c] # NoAttempt
        PROVE  ref'[c] \in artifactRows'
    <3>1. ref[c] # NoAttempt => ref[c] \in artifactRows
      BY DEF Stocked
    <3>2. ref'[c] = ref[c] \/ ref'[c] = p
      BY <2>3
    <3> QED BY <2>1, <2>4, <3>1, <3>2
  <2>5. \A q \in Attempts :
          /\ at'[q] \in {"index", "spill index"} => q \in files'
          /\ at'[q] = "spill ref" => q \in artifactRows'
    BY <1>2, <2>1, <2>2 DEF Stocked
  <2> QED BY <2>1, <2>4, <2>5 DEF Stocked
<1>7. CASE ~PutObject(p) /\ ~IndexObject(p) /\ ~SetRef(p)
  <2>1. UNCHANGED <<files, artifactRows, ref>>
    <3>1. CASE Tool(p)
      BY <3>1 DEF Tool, WriteTemp, Snapshot, Change, Cleanup, Restore, RestoreUnknown, Connect,
         Connected, Request, Send, Launch, CloseBrowser, records, disk
    <3>2. CASE InsertRow(p) \/ Lookup(p) \/ Reserve(p) \/ Output(p) \/ Settle(p) \/ Throw(p)
      BY <3>2 DEF InsertRow, Lookup, Reserve, Output, Settle, Throw, records, disk
    <3>3. CASE Record(p) \/ Catch(p)
      BY <3>3 DEF Record, Catch, Return, disk
    <3> QED BY <1>7, <3>1, <3>2, <3>3 DEF Step, Artifact
  <2>2. at'[p] \notin {"index", "spill index", "spill ref"}
    BY <1>3, <1>7
  <2> QED BY <1>2, <2>1, <2>2 DEF Stocked
<1> QED BY <1>4, <1>5, <1>6, <1>7

(* A call that starts has no artifact. *)
LEMMA WaitsStocked ==
  ASSUME Typed, Stocked, Waits
  PROVE  Stocked'
<1>1. UNCHANGED <<files, artifactRows, ref>>
  BY DEF Waits
<1>2. \A q \in Attempts : at'[q] \in {at[q], "row", "gone"}
  BY DEF Waits, Typed, TypeOK
<1> QED BY <1>1, <1>2 DEF Stocked

-----------------------------------------------------------------------------
(* Processes. *)

(* A caller of another session is no attempt of this one. *)
LEMMA Apartness ==
  /\ Attempts \cap Elsewhere = {}
  /\ \A q \in Elsewhere : q # NoAttempt /\ q[1] \in DOMAIN McpServer
BY ToolAssumption DEF Attempts, Elsewhere, NoAttempt

(* The steps that leave the clients alone. *)
LEMMA ClientsRest ==
  ASSUME NEW p \in Attempts, Step(p) \/ Throw(p), ~Connect(p), ~Connected(p)
  PROVE  UNCHANGED <<cachedClient, elsewhere, connections, died, crossed>> /\ at[p] # "connecting"
<1>1. CASE Tool(p)
  BY <1>1 DEF Tool, WriteTemp, Snapshot, Change, Cleanup, Restore, RestoreUnknown,
     Request, Send, Launch, CloseBrowser, clients
<1>2. CASE Artifact(p)
  BY <1>2 DEF Artifact, PutObject, IndexObject, SetRef, Output, clients
<1>3. CASE InsertRow(p) \/ Lookup(p) \/ Reserve(p) \/ Settle(p) \/ Throw(p)
  BY <1>3 DEF InsertRow, Lookup, Reserve, Settle, Throw, clients
<1>4. CASE Record(p) \/ Catch(p)
  BY <1>4 DEF Record, Catch, Return
<1> QED BY <1>1, <1>2, <1>3, <1>4 DEF Step

(* What a caller does with the clients: it starts a server, ends connecting, or nothing. *)
Begins(q) ==
  /\ ~IsConnecting(q) /\ IsConnecting(q)' /\ Before(q) /\ q[1] \in DOMAIN McpServer
  /\ HasNoClient(q) /\ Opens(q) /\ UNCHANGED <<cachedClient, died>>

Ends(q) ==
  /\ IsConnecting(q) /\ ~IsConnecting(q)' /\ ~Before(q)' /\ q[1] \in DOMAIN McpServer
  /\ Keeps(q) \/ Fails(q)
  /\ UNCHANGED <<died, crossed>>

Rests(q) ==
  /\ ~IsConnecting(q) /\ ~IsConnecting(q)' /\ (Before(q)' => Before(q))
  /\ UNCHANGED <<cachedClient, connections, died, crossed>>

(* The other callers are where they were. *)
Alone(q) ==
  \A r \in Callers \ {q} : (IsConnecting(r)' <=> IsConnecting(r)) /\ (Before(r)' <=> Before(r))

(* A server that starts beside another of its kind marks the kind. *)
LEMMA BeginsShared ==
  ASSUME Typed, Kept, Shared, NEW p \in Callers, Alone(p), Begins(p)
  PROVE  Kept' /\ Shared'
<1> DEFINE kind == McpServer[p[1]]
<1>1. /\ connections' = connections \cup {p} /\ UNCHANGED <<cachedClient, died>>
      /\ crossed \subseteq crossed'
      /\ \A r \in connections : McpServer[r[1]] = kind /\ IsConnecting(r) => kind \in crossed'
      /\ cachedClient[kind] = NoAttempt
  BY DEF Begins, Opens, HasNoClient
<1>2. connections \subseteq Callers
  BY DEF Typed, TypeOK, Callers
<1>3. ASSUME NEW r \in connections, McpServer[r[1]] = kind
      PROVE  kind \in crossed'
  BY <1>1, <1>3 DEF Shared
<1>4. ASSUME NEW q \in connections, q # p
      PROVE  IsConnecting(q)' <=> IsConnecting(q)
  BY <1>2, <1>4 DEF Alone
<1>5. Kept'
  <2>1. \A q \in connections' : q[1] \in DOMAIN McpServer
    BY <1>1 DEF Kept, Begins
  <2>2. \A q \in Callers : IsConnecting(q)' => q \in connections'
    BY <1>1 DEF Kept, Alone
  <2>3. \A s \in Servers :
          /\ cachedClient'[s] \in connections' \cup died' \cup {NoAttempt}
          /\ \A q \in Callers : Before(q)' => cachedClient'[s] # q
    BY <1>1 DEF Kept, Alone, Begins
  <2> QED BY <2>1, <2>2, <2>3 DEF Kept, Callers
<1>6. Shared'
  <2> SUFFICES ASSUME NEW q \in connections', McpServer[q[1]] \notin crossed'
               PROVE  /\ IsConnecting(q)' \/ cachedClient'[McpServer[q[1]]] # NoAttempt
                      /\ \A r \in connections' : McpServer[r[1]] = McpServer[q[1]] => r = q
    BY DEF Shared
  <2>1. CASE q = p
    BY <1>1, <1>3, <2>1 DEF Begins
  <2>2. CASE q # p
    <3>1. q \in connections /\ McpServer[q[1]] # kind
      BY <1>1, <1>3, <2>2
    <3> QED BY <1>1, <1>4, <2>2, <3>1 DEF Shared
  <2> QED BY <2>1, <2>2
<1> QED BY <1>5, <1>6

(* A client that connected is kept, one that failed leaves none of its kind behind. *)
LEMMA EndsShared ==
  ASSUME Typed, Kept, Shared, NEW p \in Callers, Alone(p), Ends(p)
  PROVE  Kept' /\ Shared'
<1> DEFINE kind == McpServer[p[1]]
<1>1. /\ UNCHANGED <<died, crossed>>
      /\ p \in connections /\ Before(p) /\ kind \in Servers
  BY ServersOfTools DEF Ends, Kept, IsConnecting, Before, Unconnected
<1>2. connections \subseteq Callers /\ p # NoAttempt
  BY Pairs, Apartness DEF Typed, TypeOK, Callers
<1>3. /\ connections' \subseteq connections /\ connections \ {p} \subseteq connections'
      /\ \A s \in Servers : s # kind => cachedClient'[s] = cachedClient[s]
      /\ cachedClient'[kind] \in {cachedClient[kind], NoAttempt, p}
      /\ cachedClient'[kind] = p \/ p \notin connections'
      /\ cachedClient'[kind] = p => p \in connections'
  <2>1. cachedClient \in [Servers -> Attempts \cup Elsewhere \cup {NoAttempt}]
    BY DEF Typed, TypeOK
  <2>2. CASE Keeps(p)
    BY <1>1, <2>1, <2>2 DEF Keeps
  <2>3. CASE Fails(p)
    <3>1. cachedClient[kind] # p
      BY <1>1 DEF Kept
    <3> QED BY <1>1, <1>2, <2>1, <2>3, <3>1 DEF Fails
  <2> QED BY <2>2, <2>3 DEF Ends
<1>4. ASSUME NEW q \in connections, q # p
      PROVE  IsConnecting(q)' <=> IsConnecting(q)
  BY <1>2, <1>4 DEF Alone
<1>5. Kept'
  <2>1. \A q \in connections' : q[1] \in DOMAIN McpServer
    BY <1>3 DEF Kept
  <2>2. \A q \in Callers : IsConnecting(q)' => q \in connections'
    BY <1>3 DEF Kept, Alone, Ends
  <2>3. ASSUME NEW s \in Servers
        PROVE  /\ cachedClient'[s] \in connections' \cup died' \cup {NoAttempt}
               /\ \A q \in Callers : Before(q)' => cachedClient'[s] # q
    <3>1. cachedClient'[s] \in {cachedClient[s], NoAttempt, p}
      BY <1>3
    <3>2. cachedClient'[s] = p => p \in connections'
      BY <1>1, <1>3 DEF Kept
    <3>3. cachedClient[s] # p /\ cachedClient[s] \in connections \cup died \cup {NoAttempt}
      BY <1>1 DEF Kept
    <3>4. cachedClient'[s] \in connections' \cup died' \cup {NoAttempt}
      BY <1>1, <1>3, <3>1, <3>2, <3>3
    <3>5. ASSUME NEW q \in Callers, Before(q)'
          PROVE  cachedClient'[s] # q
      <4>1. q # p /\ q # NoAttempt
        BY <3>5, Pairs, Apartness DEF Ends, Callers
      <4>2. Before(q)
        BY <3>5, <4>1 DEF Alone
      <4> QED BY <3>1, <4>1, <4>2 DEF Kept
    <3> QED BY <3>4, <3>5
  <2> QED BY <2>1, <2>2, <2>3 DEF Kept, Callers
<1>6. Shared'
  <2> SUFFICES ASSUME NEW q \in connections', McpServer[q[1]] \notin crossed'
               PROVE  /\ IsConnecting(q)' \/ cachedClient'[McpServer[q[1]]] # NoAttempt
                      /\ \A r \in connections' : McpServer[r[1]] = McpServer[q[1]] => r = q
    BY DEF Shared
  <2>1. q \in connections /\ McpServer[q[1]] \notin crossed /\ McpServer[q[1]] \in Servers
    BY <1>1, <1>3, ServersOfTools DEF Kept
  <2>2. \A r \in connections' : McpServer[r[1]] = McpServer[q[1]] => r = q
    BY <1>3, <2>1 DEF Shared
  <2>3. CASE McpServer[q[1]] = kind
    <3>1. q = p
      BY <1>1, <2>1, <2>3 DEF Shared
    <3>2. cachedClient'[kind] = p
      BY <1>3, <3>1
    <3> QED BY <1>2, <2>2, <2>3, <3>2
  <2>4. CASE McpServer[q[1]] # kind
    <3>1. q # p
      BY <2>4
    <3> QED BY <1>3, <1>4, <2>1, <2>2, <2>4, <3>1 DEF Shared
  <2> QED BY <2>3, <2>4
<1> QED BY <1>5, <1>6

(* A caller that does neither changes nothing. *)
LEMMA RestsShared ==
  ASSUME Typed, Kept, Shared, NEW p \in Callers, Alone(p), Rests(p)
  PROVE  Kept' /\ Shared'
<1>1. connections \subseteq Callers /\ UNCHANGED <<cachedClient, connections, died, crossed>>
  BY DEF Typed, TypeOK, Callers, Rests
<1>2. \A q \in Callers : (IsConnecting(q)' <=> IsConnecting(q)) /\ (Before(q)' => Before(q))
  BY DEF Alone, Rests
<1>3. Kept'
  <2>1. \A q \in Callers : IsConnecting(q)' => q \in connections'
    BY <1>1, <1>2 DEF Kept
  <2>2. \A s \in Servers : \A q \in Callers : Before(q)' => cachedClient'[s] # q
    BY <1>1, <1>2 DEF Kept
  <2> QED BY <1>1, <2>1, <2>2 DEF Kept, Callers
<1>4. \A q \in connections : IsConnecting(q)' <=> IsConnecting(q)
  BY <1>1, <1>2
<1>5. Shared'
  BY <1>1, <1>4 DEF Shared
<1> QED BY <1>3, <1>5

(* What a step of an attempt does with the clients. *)
LEMMA Connecting ==
  ASSUME Typed, Placed, Guarded, NEW p \in Attempts, Step(p) \/ Throw(p)
  PROVE  Alone(p) /\ (Begins(p) \/ Ends(p) \/ Rests(p))
<1>1. \A q \in Attempts : q \notin Elsewhere
  BY Apartness
<1>2. elsewhere' = elsewhere
  BY ClientsRest DEF Connect, Connected
<1>3. /\ \A q \in Attempts : IsConnecting(q) <=> at[q] = "connecting"
      /\ \A q \in Attempts : IsConnecting(q)' <=> at'[q] = "connecting"
      /\ \A q \in Attempts : Before(q) <=> at[q] \in Unconnected
      /\ \A q \in Attempts : Before(q)' <=> at'[q] \in Unconnected
  BY <1>1 DEF IsConnecting, Before
<1>4. /\ \A q \in Elsewhere : IsConnecting(q)' <=> IsConnecting(q)
      /\ \A q \in Elsewhere : Before(q)' <=> Before(q)
  BY <1>2 DEF IsConnecting, Before
<1>5. \A q \in Attempts : q # p => at'[q] = at[q]
  BY StepMoves, MovesOthers
<1>6. Alone(p)
  BY <1>3, <1>4, <1>5 DEF Alone, Callers
<1>7. /\ at'[p] = "connecting" => Connect(p) /\ HasNoClient(p)
      /\ at'[p] \in Unconnected => at[p] \in Unconnected
  BY OneWay
<1>8. CASE Connect(p)
  <2>1. p[1] \in DOMAIN McpServer /\ at[p] = "connect" /\ UNCHANGED <<cachedClient, died>>
    BY <1>8, ToolGoes DEF Connect
  <2>2. CASE HasNoClient(p)
    <3>1. Opens(p) /\ at'[p] = "connecting"
      BY <1>8, <2>2, ToolGoes DEF Connect
    <3> QED BY <1>3, <1>6, <2>1, <2>2, <3>1 DEF Begins, Unconnected
  <2>3. CASE ~HasNoClient(p)
    <3>1. UNCHANGED <<connections, crossed>>
      BY <1>8, <2>3 DEF Connect
    <3> QED BY <1>3, <1>6, <1>7, <2>1, <2>3, <3>1 DEF Rests
  <2> QED BY <2>2, <2>3
<1>9. CASE Connected(p)
  <2>1. /\ p[1] \in DOMAIN McpServer /\ at[p] = "connecting" /\ UNCHANGED <<died, crossed>>
        /\ at'[p] \in {"triage", "resolve", "send", "request", "catch"}
        /\ Keeps(p) \/ Fails(p)
    BY <1>9, ToolGoes DEF Connected
  <2>2. at'[p] \notin Unconnected /\ at'[p] # "connecting"
    BY <2>1 DEF Unconnected
  <2> QED BY <1>3, <1>6, <2>1, <2>2 DEF Ends
<1>10. CASE ~Connect(p) /\ ~Connected(p)
  <2>1. UNCHANGED <<cachedClient, connections, died, crossed>> /\ at[p] # "connecting"
    BY <1>10, ClientsRest
  <2> QED BY <1>3, <1>6, <1>7, <1>10, <2>1 DEF Rests
<1> QED BY <1>8, <1>9, <1>10

(* A step of an attempt keeps what is said of clients. *)
LEMMA StepClients ==
  ASSUME Typed, Placed, Guarded, Kept, Shared, NEW p \in Attempts, Step(p) \/ Throw(p)
  PROVE  Kept' /\ Shared'
<1>1. p \in Callers
  BY DEF Callers
<1> QED BY <1>1, Connecting, BeginsShared, EndsShared, RestsShared

(* So does a call of another session. *)
LEMMA ElsewhereClients ==
  ASSUME Typed, Kept, Shared, NEW q \in Elsewhere, ConnectElsewhere(q) \/ ConnectedElsewhere(q)
  PROVE  Typed' /\ Kept' /\ Shared'
<1>1. /\ q \in Callers /\ q[1] \in DOMAIN McpServer /\ McpServer[q[1]] \in Servers
      /\ "context7" \in Servers /\ \A r \in Attempts : r \notin Elsewhere
  BY Apartness, ServersOfTools DEF Callers, Servers
<1>2. UNCHANGED <<door, awaited, at, result, records, disk, artifactRows, using, browsers, died,
                  history>>
  BY DEF ConnectElsewhere, ConnectedElsewhere
<1>3. ClientTypes /\ RecordTypes /\ DiskTypes /\ HistoryTypes /\ DoorTypes
  BY TypedParts
<1>4. ClientTypes'
  <2>1. CASE ConnectElsewhere(q)
    <3>1. /\ connections' \subseteq connections \cup {q} /\ crossed' \subseteq Servers
          /\ UNCHANGED cachedClient
          /\ \E stage \in {"connecting", "gone"} : elsewhere' = [elsewhere EXCEPT ![q] = stage]
      BY <1>1, <1>3, <2>1 DEF ConnectElsewhere, Opens, ClientTypes
    <3> QED BY <1>2, <1>3, <3>1 DEF ClientTypes
  <2>2. CASE ConnectedElsewhere(q)
    <3>1. /\ connections' \subseteq connections /\ UNCHANGED crossed
          /\ elsewhere' = [elsewhere EXCEPT ![q] = "gone"]
          /\ \/ cachedClient' = cachedClient
             \/ cachedClient' = [cachedClient EXCEPT ![McpServer[q[1]]] = q]
             \/ cachedClient' = [cachedClient EXCEPT !["context7"] = NoAttempt]
      BY <2>2 DEF ConnectedElsewhere, Keeps, Fails
    <3> QED BY <1>1, <1>2, <1>3, <3>1 DEF ClientTypes
  <2> QED BY <2>1, <2>2
<1>5. Typed'
  <2>1. RecordTypes' /\ DiskTypes' /\ HistoryTypes'
    BY <1>2, <1>3 DEF RecordTypes, DiskTypes, HistoryTypes, records, disk, history
  <2>2. DoorTypes'
    BY <1>2, <1>3 DEF DoorTypes, door, history
  <2> QED BY <1>4, <2>1, <2>2, TypedParts
<1>6. \E stage \in {"connecting", "gone"} :
        elsewhere'[q] = stage /\ \A r \in Elsewhere : r # q => elsewhere'[r] = elsewhere[r]
  BY <1>3 DEF ConnectElsewhere, ConnectedElsewhere, ClientTypes
<1>7. Alone(q)
  <2> SUFFICES ASSUME NEW r \in Callers, r # q
               PROVE  (IsConnecting(r)' <=> IsConnecting(r)) /\ (Before(r)' <=> Before(r))
    BY DEF Alone
  <2>1. CASE r \in Elsewhere
    BY <1>6, <2>1 DEF IsConnecting, Before
  <2>2. CASE r \notin Elsewhere
    BY <1>2, <2>2 DEF IsConnecting, Before
  <2> QED BY <2>1, <2>2
<1>8. Begins(q) \/ Ends(q) \/ Rests(q)
  <2>1. CASE ConnectElsewhere(q) /\ HasNoClient(q)
    <3>1. elsewhere[q] = "off" /\ elsewhere'[q] = "connecting" /\ Opens(q) /\ UNCHANGED cachedClient
      BY <1>3, <2>1 DEF ConnectElsewhere, ClientTypes
    <3> QED BY <1>1, <1>2, <2>1, <3>1 DEF Begins, IsConnecting, Before
  <2>2. CASE ConnectElsewhere(q) /\ ~HasNoClient(q)
    <3>1. /\ elsewhere[q] = "off" /\ elsewhere'[q] = "gone"
          /\ UNCHANGED <<connections, crossed, cachedClient>>
      BY <1>3, <2>2 DEF ConnectElsewhere, ClientTypes
    <3> QED BY <1>2, <3>1 DEF Rests, IsConnecting, Before
  <2>3. CASE ConnectedElsewhere(q)
    <3>1. /\ elsewhere[q] = "connecting" /\ elsewhere'[q] = "gone" /\ UNCHANGED crossed
          /\ Keeps(q) \/ Fails(q)
      BY <1>3, <2>3 DEF ConnectedElsewhere, ClientTypes
    <3> QED BY <1>1, <1>2, <3>1 DEF Ends, IsConnecting, Before
  <2> QED BY <2>1, <2>2, <2>3
<1>9. Kept' /\ Shared'
  BY <1>1, <1>7, <1>8, BeginsShared, EndsShared, RestsShared
<1> QED BY <1>5, <1>9

(* An attempt with a browser comes to close it, whatever fails. *)
LEMMA StepBrowsed ==
  ASSUME Typed, Placed, Guarded, Browsed, NEW p \in Attempts, Step(p) \/ Throw(p)
  PROVE  Browsed'
<1> DEFINE Open == {"send", "put", "index", "close", "close after failure"}
<1>1. browsers \subseteq Attempts /\ \A q \in Attempts : q # p => at'[q] = at[q]
  BY StepMoves, MovesOthers DEF Typed, TypeOK
<1>2. CASE Launch(p)
  <2>1. browsers' = browsers \cup {p} /\ p[1] \in Browsing /\ at'[p] = "send"
    BY <1>2, ToolGoes DEF Launch
  <2> QED BY <1>1, <2>1 DEF Browsed
<1>3. CASE CloseBrowser(p)
  <2>1. browsers' = browsers \ {p}
    BY <1>3 DEF CloseBrowser, Closes
  <2> QED BY <1>1, <2>1 DEF Browsed
<1>4. CASE ~Launch(p) /\ ~CloseBrowser(p)
  <2>1. browsers' = browsers
    <3>1. CASE Tool(p)
      BY <1>4, <3>1 DEF Tool, WriteTemp, Snapshot, Change, Cleanup, Restore, RestoreUnknown,
         Connect, Connected, Request, Send, clients
    <3>2. CASE Artifact(p)
      BY <3>2 DEF Artifact, PutObject, IndexObject, SetRef, Output, clients
    <3>3. CASE InsertRow(p) \/ Lookup(p) \/ Reserve(p) \/ Settle(p) \/ Throw(p)
      BY <3>3 DEF InsertRow, Lookup, Reserve, Settle, Throw, clients
    <3>4. CASE Record(p) \/ Catch(p)
      BY <3>4 DEF Record, Catch, Return
    <3> QED BY <3>1, <3>2, <3>3, <3>4 DEF Step
  <2>2. ASSUME p \in browsers
        PROVE  at'[p] \in Open
    <3>1. p[1] \in Browsing /\ at[p] \in Open
      BY <2>2 DEF Browsed
    <3>2. CASE Throw(p)
      <4>1. at'[p] = Handler(p)
        BY <3>2, FrameGoes
      <4> QED BY <2>2, <3>1, <4>1 DEF Handler
    <3>3. CASE Step(p)
      <4>1. Send(p) \/ PutObject(p) \/ IndexObject(p)
        BY <1>4, <3>1, <3>3 DEF Step, Tool, Artifact, InsertRow, Lookup, Reserve, WriteTemp,
           Snapshot, Change, Cleanup, Restore, RestoreUnknown, Connect, Connected, Request, Launch,
           CloseBrowser, SetRef, Output, Settle, Record, Catch
      <4>2. CASE Send(p)
        BY <3>1, <4>2, ToolGoes
      <4>3. CASE PutObject(p)
        BY <3>1, <4>3, FrameGoes DEF PutObject
      <4>4. CASE IndexObject(p)
        BY <3>1, <4>4, ToolGoes
      <4> QED BY <4>1, <4>2, <4>3, <4>4
    <3> QED BY <3>2, <3>3
  <2> QED BY <1>1, <2>1, <2>2 DEF Browsed
<1> QED BY <1>2, <1>3, <1>4

(* A call that starts has no process, and a server that stopped is remembered. *)
LEMMA WaitsManaged ==
  ASSUME Typed, Managed, Waits, ServerDies \/ UNCHANGED <<connections, died>>
  PROVE  Managed'
<1>1. /\ UNCHANGED <<cachedClient, elsewhere, browsers, crossed>>
      /\ abandoned \subseteq abandoned' /\ died \subseteq died'
  BY DEF Waits
<1>2. connections \subseteq Callers /\ browsers \subseteq Attempts
  BY DEF Typed, TypeOK, Callers
<1>3. ASSUME NEW q \in Attempts
      PROVE  /\ at'[q] = at[q] \/ (at[q] = "off" /\ at'[q] \in {"row", "gone"})
             /\ at'[q] \in Unconnected => at[q] \in Unconnected
             /\ at'[q] = "connecting" <=> at[q] = "connecting"
  <2>1. at'[q] = at[q] \/ (at[q] = "off" /\ at'[q] \in {"row", "gone"})
    BY DEF Waits, Typed, TypeOK
  <2> QED BY <2>1 DEF Unconnected
<1>4. ASSUME NEW q \in Callers
      PROVE  (IsConnecting(q)' <=> IsConnecting(q)) /\ (Before(q)' => Before(q))
  <2>1. CASE q \in Elsewhere
    BY <1>1, <2>1 DEF IsConnecting, Before
  <2>2. CASE q \notin Elsewhere
    <3>1. q \in Attempts
      BY <2>2 DEF Callers
    <3> QED BY <1>3, <2>2, <3>1 DEF IsConnecting, Before
  <2> QED BY <2>1, <2>2
<1>5. /\ connections' \subseteq connections
      /\ connections \cup died \subseteq connections' \cup died'
      /\ \A q \in connections : IsConnecting(q) => q \in connections'
  BY DEF ServerDies
<1>6. Kept'
  <2>1. \A q \in connections' : q[1] \in DOMAIN McpServer
    BY <1>5 DEF Managed, Kept
  <2>2. \A q \in Callers : IsConnecting(q)' => q \in connections'
    BY <1>4, <1>5 DEF Managed, Kept
  <2>3. \A s \in Servers :
          /\ cachedClient'[s] \in connections' \cup died' \cup {NoAttempt}
          /\ \A q \in Callers : Before(q)' => cachedClient'[s] # q
    BY <1>1, <1>4, <1>5 DEF Managed, Kept
  <2> QED BY <2>1, <2>2, <2>3 DEF Kept, Callers
<1>7. Shared'
  <2>1. \A q \in connections' : q \in connections /\ (IsConnecting(q)' <=> IsConnecting(q))
    BY <1>2, <1>4, <1>5
  <2> QED BY <1>1, <2>1 DEF Managed, Shared
<1>8. Browsed'
  BY <1>1, <1>2, <1>3 DEF Managed, Browsed
<1> QED BY <1>6, <1>7, <1>8 DEF Managed

-----------------------------------------------------------------------------
(* The invariant and its theorems. *)

(* It holds at first. *)
LEMMA InitInv == Init => ToolInv
<1> SUFFICES ASSUME Init
             PROVE  ToolInv
  OBVIOUS
<1>1. RecordTypes /\ DiskTypes /\ HistoryTypes
  BY DEF Init, RecordTypes, DiskTypes, HistoryTypes
<1>2. ClientTypes
  BY DEF Init, ClientTypes
<1>3. DoorTypes
  BY DEF Init, DoorTypes, Positions
<1>4. Typed
  BY <1>1, <1>2, <1>3, TypedParts
<1>5. \A p \in Attempts : at[p] = "off" /\ result[p] = "none"
  BY DEF Init
<1>6. \A c \in Calls : gate[c] = "new" /\ effects[c] = 0 /\ ref[c] = NoAttempt /\ ledger[c] = "none"
  BY DEF Init
<1>7. Placed
  BY <1>5 DEF Placed, Fits, ToolStatements
<1>8. Guarded
  BY <1>5, <1>6, Pairs DEF Init, Guarded, Runs
<1>9. Restorable
  BY <1>5 DEF Restorable
<1>10. Settled
  <2>1. Counted
    BY <1>6 DEF Counted
  <2>2. \A p \in Attempts : ~Holds(p)
    BY <1>5 DEF Holds, Pre, Post
  <2>3. Booked /\ Exclusive
    BY <1>5, <2>2 DEF Booked, Exclusive, Holds
  <2>4. Answered
    BY <1>5 DEF Answered
  <2> QED BY <2>1, <2>3, <2>4 DEF Settled
<1>11. Swept
  BY DEF Init, Swept
<1>12. Stocked
  BY <1>5, <1>6 DEF Init, Stocked
<1>13. Kept
  <2>1. \A q \in Callers : ~IsConnecting(q) /\ q # NoAttempt
    BY <1>5, Pairs, Apartness DEF Init, IsConnecting, Callers
  <2> QED BY <2>1 DEF Init, Kept
<1>14. Shared /\ Browsed
  BY <1>5 DEF Init, Shared, Browsed
<1>15. Rowed
  BY <1>5, <1>6 DEF Init, Rowed
<1> QED BY <1>4, <1>7, <1>8, <1>9, <1>10, <1>11, <1>12, <1>13, <1>14, <1>15 DEF ToolInv, Managed

(* Every step keeps it. *)
LEMMA NextInv == ToolInv /\ [Next]_vars => ToolInv'
<1> SUFFICES ASSUME ToolInv, [Next]_vars
             PROVE  ToolInv'
  OBVIOUS
<1>1. Typed /\ Placed /\ Guarded /\ Restorable /\ Settled /\ Rowed /\ Swept /\ Stocked /\ Kept
      /\ Shared /\ Browsed
  BY DEF ToolInv, Managed
<1>2. CASE Apart
  <2>1. Waits /\ Guarded' /\ (ServerDies \/ UNCHANGED <<connections, died>>)
    BY <1>1, <1>2, ApartWaits
  <2>2. Typed'
    BY <1>1, <1>2, ApartTyped
  <2>3. Placed' /\ Restorable' /\ Settled' /\ Rowed' /\ Swept' /\ Stocked'
    BY <1>1, <2>1, WaitsPlaced, WaitsRestorable, WaitsSettled, WaitsRowed, WaitsSwept, WaitsStocked
  <2>4. Managed'
    BY <1>1, <2>1, WaitsManaged DEF Managed
  <2> QED BY <2>1, <2>2, <2>3, <2>4 DEF ToolInv
<1>3. ASSUME NEW p \in agenda \X (1..MaxAttempts), Step(p) \/ Throw(p)
      PROVE  ToolInv'
  <2>1. p \in Attempts
    BY <1>1, ToolAssumption DEF Typed, TypeOK, Attempts, Calls
  <2>2. Typed'
    BY <1>1, <1>3, <2>1, StepTyped
  <2>3. Placed' /\ Guarded'
    BY <1>1, <1>3, <2>1, StepMoves, MovesPlaced, MovesGuarded
  <2>4. Restorable' /\ Settled' /\ Rowed' /\ Swept' /\ Stocked'
    BY <1>1, <1>3, <2>1, StepRestorable, StepSettled, StepRowed, StepSwept, StepStocked
  <2>5. Kept' /\ Shared' /\ Browsed'
    BY <1>1, <1>3, <2>1, StepClients, StepBrowsed
  <2> QED BY <2>2, <2>3, <2>4, <2>5 DEF ToolInv, Managed
<1>4. ASSUME NEW q \in Elsewhere, ConnectElsewhere(q) \/ ConnectedElsewhere(q)
      PROVE  ToolInv'
  <2>1. Typed' /\ Kept' /\ Shared'
    BY <1>1, <1>4, ElsewhereClients
  <2>2. UNCHANGED <<agenda, gate, args, edited, awaited, at, result, ledger, invocation, ref,
                    workspace, snapshots, files, artifactRows, browsers, effects, uncleaned, restored,
                    abandoned>>
    BY <1>4 DEF ConnectElsewhere, ConnectedElsewhere, door, records, disk, history
  <2>3. Placed' /\ Guarded' /\ Restorable'
    BY <1>1, <2>2 DEF Placed, Guarded, Runs, Restorable
  <2>4. Settled' /\ Rowed'
    BY <1>1, <2>2 DEF Settled, Counted, Booked, Exclusive, Answered, Holds, Rowed
  <2>5. Swept' /\ Stocked' /\ Browsed'
    BY <1>1, <2>2 DEF Swept, Stocked, Browsed
  <2> QED BY <2>1, <2>3, <2>4, <2>5 DEF ToolInv, Managed
<1> QED BY <1>2, <1>3, <1>4 DEF Next, Apart

(* The invariant of every behaviour. *)
THEOREM AlwaysTools == Spec => []ToolInv
<1>1. Init => ToolInv
  BY InitInv
<1>2. ToolInv /\ [Next]_vars => ToolInv'
  BY NextInv
<1> QED BY <1>1, <1>2, PTL DEF Spec

(* A call runs with arguments that its schema accepts, takes effect at most once, has
   before it the snapshot it can be undone with, and its records agree with what was
   done and returned: for every set of calls, and any number of attempts and of those
   given up. *)
THEOREM CallsAreDoneOnce == Spec => []CallsDoOnce
<1>1. ToolInv => CallsDoOnce
  <2> SUFFICES ASSUME ToolInv
               PROVE  CallsDoOnce
    OBVIOUS
  <2>1. TypeOK /\ Restorable
    BY DEF ToolInv, Typed
  <2>2. OnlyParsedArgumentsRun
    BY DEF ToolInv, Guarded, Runs, OnlyParsedArgumentsRun
  <2>3. EffectAtMostOnce
    BY DEF ToolInv, Settled, Counted, EffectAtMostOnce
  <2>4. ResultsAreRecorded
    BY DEF ToolInv, Settled, Booked, Answered, Rowed, ResultsAreRecorded
  <2> QED BY <2>1, <2>2, <2>3, <2>4 DEF CallsDoOnce
<1> QED BY <1>1, AlwaysTools, PTL

(* A patch file is left only by a failure that the attempt knows of, an artifact that is
   listed can be read, and every tool of the manifest has its worker. *)
THEOREM LeavingsHaveOwners == Spec => []LeavingsAreOwned
<1>1. ToolInv => LeavingsAreOwned
  <2> SUFFICES ASSUME ToolInv
               PROVE  LeavingsAreOwned
    OBVIOUS
  <2>1. NoStrayPatchFile
    BY DEF ToolInv, Swept, NoStrayPatchFile
  <2>2. ArtifactsResolve
    BY DEF ToolInv, Stocked, ArtifactsResolve, Listed, Serves
  <2>3. WiringIsComplete
    BY Wired, ToolsAreServed DEF WiringIsComplete
  <2> QED BY <2>1, <2>2, <2>3 DEF LeavingsAreOwned
<1> QED BY <1>1, AlwaysTools, PTL

(* A second server of a kind runs only after two calls started one at the same time, and no
   browser outlives its attempt: for any number of calls of other sessions. *)
THEOREM ProcessesHaveOwners == Spec => []ProcessesAreManaged
<1>1. ToolInv => ProcessesAreManaged
  <2> SUFFICES ASSUME ToolInv
               PROVE  ProcessesAreManaged
    OBVIOUS
  <2>1. ClientsAreShared
    BY DEF ToolInv, Managed, Kept, Shared, ClientsAreShared
  <2>2. BrowsersClose
    BY DEF ToolInv, Managed, Browsed, BrowsersClose
  <2> QED BY <2>1, <2>2 DEF ProcessesAreManaged
<1> QED BY <1>1, AlwaysTools, PTL

-----------------------------------------------------------------------------
(* Sandbox: rows, tracking maps and processes agree, and no signal goes astray.
   A row may say complete or failed of a process that was not signalled because, while
   it is tracked, every signal left it among the killed, and once it is not, no more are
   sent. *)

(* What the provider remembers, the row and the process itself say of each other. *)
ProcessInv(p) ==
  /\ p \in waiting => p \in listening
  /\ p \in listening => p \in tracked /\ row[p] \in {"running", "killed"}
  /\ p \in killed \cup timedOut \cup timers => p \in tracked
  /\ os[p] = "none" => row[p] = "none" /\ p \notin tracked /\ p \notin signalled
  /\ Running(p) => p \in tracked \cup orphans
  /\ p \in signalled /\ p \in tracked => p \in killed
  /\ row[p] \in {"complete", "failed", "timeout"} => p \notin tracked /\ ~Running(p)
  /\ row[p] \in {"complete", "failed"} => p \notin signalled
  /\ row[p] = "complete" => os[p] = "ended"
  /\ row[p] = "killed" /\ Running(p) => p \in timers \cup orphans
  /\ p \in Ephemeral /\ Running(p) => p \in directories /\ (p \in orphans \/ p \in waiting)

(* The inductive invariant. *)
SandboxInv == SandboxTypeOK /\ KillsAreScoped /\ \A p \in Processes : ProcessInv(p)

(* Starting: the process is tracked from its first moment, recorded or not. *)
LEMMA StartKeeps ==
  ASSUME SandboxInv, NEW p \in Processes,
         StartProcess(p) \/ StartUnrecorded(p) \/ RunCommand(p)
  PROVE  SandboxInv'
<1>1. /\ os[p] = "none" /\ tracked' = tracked \cup {p}
      /\ \E next \in {"running", "failed"} : os' = [os EXCEPT ![p] = next]
      /\ UNCHANGED <<killed, timedOut, timers, processHistory>>
      /\ listening' \in {listening, listening \cup {p}}
      /\ waiting' \in {waiting, waiting \cup {p}}
      /\ directories' \in {directories, directories \cup ({p} \cap Ephemeral)}
      /\ row' = row \/ row' = [row EXCEPT ![p] = "running"]
      /\ listening' # listening => row' = [row EXCEPT ![p] = "running"]
      /\ waiting' # waiting => listening' = listening \cup {p}
      /\ p \in Ephemeral => waiting' = waiting \cup {p} /\ directories' = directories \cup {p}
  BY SandboxAssumption DEF StartProcess, StartUnrecorded, RunCommand, Spawn, Recorded
<1>2. SandboxTypeOK'
  BY <1>1 DEF SandboxInv, SandboxTypeOK, processHistory
<1>3. KillsAreScoped'
  BY <1>1 DEF SandboxInv, KillsAreScoped, processHistory
<1>4. ASSUME NEW q \in Processes  PROVE ProcessInv(q)'
  <2>1. CASE q = p
    BY <1>1, <2>1 DEF SandboxInv, SandboxTypeOK, ProcessInv, Running, processHistory
  <2>2. CASE q # p
    BY <1>1, <2>2 DEF SandboxInv, SandboxTypeOK, ProcessInv, Running, processHistory
  <2> QED BY <2>1, <2>2
<1> QED BY <1>2, <1>3, <1>4 DEF SandboxInv

(* killTrackedProcess for tracked processes that are all meant: a timer stays behind
   for each that still runs. *)
LEMMA KillKeeps ==
  ASSUME SandboxInv, NEW K \in SUBSET tracked, NEW M, K \subseteq M, KillTracked(K, M),
         UNCHANGED <<tracked, listening, waiting, orphans, crashes>>,
         \A p \in Processes :
           row'[p] = row[p] \/ (p \in K /\ row[p] # "none" /\ row'[p] = "killed"),
         row' \in [Processes -> {"none", "running", "complete", "failed", "killed", "timeout"}],
         timedOut' \subseteq timedOut \cup K,
         directories' \subseteq directories,
         \A p \in directories \ directories' : p \notin waiting /\ p \notin orphans,
         cancelled' \subseteq Processes
  PROVE  SandboxInv'
<1> DEFINE S == {p \in K : os[p] # "failed"}
<1>1. /\ killed' = killed \cup K /\ signalled' = signalled \cup S
      /\ astray' = astray \cup (S \ M) /\ timers' = timers \cup S
  BY DEF KillTracked
<1>2. PICK D \in SUBSET S : os' = [p \in Processes |-> IF p \in D THEN "ended" ELSE os[p]]
  BY DEF KillTracked, SignalAll
<1>3. K \subseteq Processes /\ \A p \in K : os[p] # "none"
  BY DEF SandboxInv, SandboxTypeOK, ProcessInv
<1>4. SandboxTypeOK'
  BY <1>1, <1>2, <1>3 DEF SandboxInv, SandboxTypeOK
<1>5. KillsAreScoped'
  BY <1>1 DEF SandboxInv, KillsAreScoped
<1>6. ASSUME NEW p \in Processes  PROVE ProcessInv(p)'
  <2>1. /\ os'[p] = os[p] \/ (os'[p] = "ended" /\ os[p] \notin {"none", "failed"})
        /\ p \in D => p \in S
    BY <1>2, <1>3
  <2>2. ProcessInv(p)
    BY DEF SandboxInv
  <2>3. p \in S => p \in K /\ p \in tracked /\ os[p] \notin {"none", "failed"}
    BY <1>3
  <2>4. p \in K /\ Running(p) => p \in S
    BY DEF Running
  <2> HIDE DEF S
  <2> QED BY <1>1, <2>1, <2>2, <2>3, <2>4 DEF ProcessInv, Running
<1> QED BY <1>4, <1>5, <1>6 DEF SandboxInv

(* The kills: by cancellation, by the timer of the command, by killProcess, at the end
   of a run of the session, and of what a temporary workspace leaves. *)
LEMMA KillingKeeps ==
  ASSUME SandboxInv
  PROVE  /\ \A p \in Processes :
              Abort(p) \/ Timeout(p) \/ KillProcess(p) \/ Terminate(p) => SandboxInv'
         /\ CancelSession => SandboxInv'
<1>0. SandboxTypeOK
  BY DEF SandboxInv
<1>1. ASSUME NEW p \in Processes, Abort(p)  PROVE SandboxInv'
  BY <1>0, <1>1, KillKeeps DEF Abort, SandboxTypeOK
<1>2. ASSUME NEW p \in Processes, Timeout(p)  PROVE SandboxInv'
  BY <1>0, <1>2, KillKeeps DEF Timeout, SandboxTypeOK
<1>3. ASSUME NEW p \in Processes, KillProcess(p)  PROVE SandboxInv'
  <2>1. /\ row' \in [Processes -> {"none", "running", "complete", "failed", "killed", "timeout"}]
        /\ \A q \in Processes :
             row'[q] = row[q] \/ (q \in {p} /\ row[q] # "none" /\ row'[q] = "killed")
    BY <1>0, <1>3 DEF KillProcess, MarkKilled, SandboxTypeOK
  <2> QED BY <1>0, <1>3, <2>1, KillKeeps DEF KillProcess, SandboxTypeOK
<1>4. ASSUME NEW p \in Processes, Terminate(p)  PROVE SandboxInv'
  BY <1>0, <1>4, KillKeeps DEF Terminate, Finished, SandboxTypeOK
<1>5. ASSUME CancelSession  PROVE SandboxInv'
  <2>1. OfSession \subseteq tracked /\ OfSession \subseteq Mine
    BY DEF OfSession
  <2>2. cancelled' \subseteq Processes
    BY <1>0, <1>5 DEF CancelSession, SandboxTypeOK, Mine
  <2> QED BY <1>0, <1>5, <2>1, <2>2, KillKeeps DEF CancelSession, SandboxTypeOK
<1> QED BY <1>1, <1>2, <1>3, <1>4, <1>5

(* A process ends by itself, by its timer or by a signal through its recorded group. *)
LEMMA EndKeeps ==
  ASSUME SandboxInv, NEW p \in Processes, Exit(p) \/ ForceKill(p) \/ KillPersisted(p)
  PROVE  SandboxInv'
<1>1. PICK q \in Processes, last \in {"ended", "running"} :
        Running(q) /\ os' = [os EXCEPT ![q] = last]
  BY DEF Exit, ForceKill, KillPersisted
<1>2. /\ UNCHANGED <<memory, directories, processHistory>>
      /\ row' = row \/ (row' = [row EXCEPT ![p] = "killed"] /\ row[p] # "none" /\ p \notin tracked)
  BY DEF Exit, ForceKill, KillPersisted, MarkKilled
<1>3. SandboxTypeOK'
  BY <1>1, <1>2 DEF SandboxInv, SandboxTypeOK, memory, processHistory
<1>4. KillsAreScoped'
  BY <1>2 DEF SandboxInv, KillsAreScoped, processHistory
<1>5. ASSUME NEW r \in Processes  PROVE ProcessInv(r)'
  <2>1. /\ os'[r] = os[r] \/ (os'[r] = "ended" /\ Running(r))
        /\ row'[r] = row[r] \/ (row'[r] = "killed" /\ row[r] # "none" /\ r \notin tracked)
    BY <1>1, <1>2 DEF SandboxInv, SandboxTypeOK, Running
  <2> QED BY <1>2, <2>1 DEF SandboxInv, ProcessInv, Running, memory, processHistory
<1> QED BY <1>3, <1>4, <1>5 DEF SandboxInv

(* The close event: what was signalled is not recorded as complete or failed. *)
LEMMA CloseKeeps ==
  ASSUME SandboxInv, NEW p \in Processes, Close(p)
  PROVE  SandboxInv'
<1>1. /\ os[p] \in {"ended", "failed"} /\ p \in listening
      /\ listening' = listening \ {p} /\ tracked' = tracked \ {p} /\ timers' = timers \ {p}
      /\ killed' = killed \ {p} /\ timedOut' = timedOut \ {p} /\ waiting' = waiting \ {p}
      /\ UNCHANGED <<os, directories, processHistory>>
  BY DEF Close
<1>2. PICK s \in ClosingStatus(p) : row' = [row EXCEPT ![p] = s]
  BY DEF Close, Recorded
<1>3. /\ s \in {"timeout", "killed", "complete", "failed"}
      /\ s \in {"complete", "failed"} => p \notin killed
      /\ s = "complete" => os[p] # "failed"
  BY DEF ClosingStatus
<1>4. SandboxTypeOK'
  BY <1>1, <1>2, <1>3 DEF SandboxInv, SandboxTypeOK, processHistory
<1>5. KillsAreScoped'
  BY <1>1 DEF SandboxInv, KillsAreScoped, processHistory
<1>6. ASSUME NEW q \in Processes  PROVE ProcessInv(q)'
  <2>1. CASE q = p
    BY <1>1, <1>2, <1>3, <2>1 DEF SandboxInv, SandboxTypeOK, ProcessInv, Running, processHistory
  <2>2. CASE q # p
    BY <1>1, <1>2, <2>2 DEF SandboxInv, SandboxTypeOK, ProcessInv, Running, processHistory
  <2> QED BY <2>1, <2>2
<1> QED BY <1>4, <1>5, <1>6 DEF SandboxInv

(* The worker is lost: what it knew of a process that runs is gone with it. *)
LEMMA CrashKeeps ==
  ASSUME SandboxInv, Crash
  PROVE  SandboxInv'
<1>1. SandboxTypeOK'
  BY SandboxAssumption DEF SandboxInv, SandboxTypeOK, Crash
<1>2. KillsAreScoped'
  BY DEF SandboxInv, KillsAreScoped, Crash
<1>3. ASSUME NEW p \in Processes  PROVE ProcessInv(p)'
  BY DEF SandboxInv, ProcessInv, Running, Crash
<1> QED BY <1>1, <1>2, <1>3 DEF SandboxInv

(* SandboxInv holds whatever is started, killed, cancelled, closed or lost. *)
THEOREM SandboxIsKept == SandboxSpec => []SandboxInv
<1>1. SandboxInit => SandboxInv
  <2> SUFFICES ASSUME SandboxInit  PROVE SandboxInv
    OBVIOUS
  <2>1. SandboxTypeOK
    BY SandboxAssumption DEF SandboxInit, SandboxTypeOK
  <2>2. KillsAreScoped /\ \A p \in Processes : ProcessInv(p)
    BY DEF SandboxInit, KillsAreScoped, ProcessInv, Running
  <2> QED BY <2>1, <2>2 DEF SandboxInv
<1>2. SandboxInv /\ [SandboxNext]_sandboxVars => SandboxInv'
  <2> SUFFICES ASSUME SandboxInv, [SandboxNext]_sandboxVars  PROVE SandboxInv'
    OBVIOUS
  <2>1. ASSUME NEW p \in Processes, StartProcess(p) \/ StartUnrecorded(p) \/ RunCommand(p)
        PROVE  SandboxInv'
    BY <2>1, StartKeeps
  <2>2. ASSUME NEW p \in Processes, Exit(p) \/ ForceKill(p) \/ KillPersisted(p)
        PROVE  SandboxInv'
    BY <2>2, EndKeeps
  <2>3. ASSUME NEW p \in Processes, Abort(p) \/ Timeout(p) \/ KillProcess(p) \/ Terminate(p)
        PROVE  SandboxInv'
    BY <2>3, KillingKeeps
  <2>4. ASSUME NEW p \in Processes, Close(p)  PROVE SandboxInv'
    BY <2>4, CloseKeeps
  <2>5. CASE CancelSession \/ Crash
    BY <2>5, KillingKeeps, CrashKeeps
  <2>6. CASE UNCHANGED sandboxVars
    BY <2>6 DEF SandboxInv, SandboxTypeOK, KillsAreScoped, ProcessInv, Running, sandboxVars, memory, processHistory
  <2> QED BY <2>1, <2>2, <2>3, <2>4, <2>5, <2>6 DEF SandboxNext
<1> QED BY <1>1, <1>2, PTL DEF SandboxSpec

(* Rows are true of their processes, no listening process is forgotten, no workspace is
   removed under a command, and no signal but those through a recorded group goes to a
   process it is not meant for. *)
THEOREM AccountsForProcesses == SandboxSpec => []ProcessesAccounted
<1>1. SandboxInv => ProcessesAccounted
  <2> SUFFICES ASSUME SandboxInv  PROVE ProcessesAccounted
    OBVIOUS
  <2>1. RowsAreTrue
    BY DEF SandboxInv, ProcessInv, RowsAreTrue
  <2>2. TrackedUntilClosed
    BY DEF SandboxInv, ProcessInv, TrackedUntilClosed
  <2>3. WorkspaceOutlivesCommand
    BY DEF SandboxInv, ProcessInv, WorkspaceOutlivesCommand, Processes
  <2> QED BY <2>1, <2>2, <2>3 DEF SandboxInv, ProcessesAccounted
<1> QED BY SandboxIsKept, <1>1, PTL
=============================================================================
