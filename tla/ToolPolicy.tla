----------------------------- MODULE ToolPolicy -----------------------------
(***************************************************************************)
(* The registered tools and what the policy says of a call: which tools    *)
(* there are, with the metadata of risk.ts; whether the arguments parse;   *)
(* whether the call is denied, allowed or needs an approval; who executes  *)
(* it; and what the workflow reads again by hand.                          *)
(*                                                                         *)
(* A name is a tool.  Of the metadata, timeoutMs and retry are left out:   *)
(* no code reads them, the proxies of the workflow have limits of their    *)
(* own.  Arguments are told apart by who accepts them, and by nothing else.*)
(***************************************************************************)
CONSTANT
  MacOS          \* the worker runs on macOS

Meta(risk, requiresApproval, taskQueue, idempotencyBehavior) ==
  [risk |-> risk, requiresApproval |-> requiresApproval, taskQueue |-> taskQueue,
   idempotencyBehavior |-> idempotencyBehavior]

LowRisk == Meta("low", FALSE, "tools-general", "safe")
RepositoryInspect == LowRisk
BrowserInspect == [LowRisk EXCEPT !.taskQueue = "tools-sandbox"]
TemporalMcp == LowRisk
SafeArtifact == LowRisk
MutatingWorkspace == Meta("high", TRUE, "tools-sandbox", "key-required")
SandboxRestore == Meta("high", TRUE, "tools-sandbox", "key-required")
Verification == Meta("medium", TRUE, "tools-sandbox", "unsafe")
BrowserAction == Meta("medium", TRUE, "tools-sandbox", "unsafe")
ShellExec == Meta("high", TRUE, "tools-sandbox", "unsafe")
ProcessStart == Meta("high", TRUE, "tools-sandbox", "key-required")
ProcessKill == Meta("medium", TRUE, "tools-sandbox", "unsafe")
SandboxSnapshot == Meta("medium", TRUE, "tools-sandbox", "key-required")
MemoryCandidate == Meta("medium", TRUE, "memory", "key-required")
Delegate == Meta("medium", TRUE, "orchestrator", "key-required")
PublicData == LowRisk
DocsLookup == LowRisk
Timer == [LowRisk EXCEPT !.taskQueue = "orchestrator"]
ScheduleCreate == Meta("medium", TRUE, "tools-general", "key-required")
SessionMessage == Meta("medium", TRUE, "tools-general", "key-required")
Notify == LowRisk
Messaging == Meta("high", TRUE, "tools-general", "key-required")
BrowserMcp == Meta("medium", TRUE, "tools-sandbox", "unsafe")
DbQuery == LowRisk

CoreTools ==
  [t \in {"web.fetch", "workspace.readFile", "workspace.writeFile", "workspace.applyPatch",
          "workspace.diff", "shell.exec"} |->
     CASE t \in {"workspace.writeFile", "workspace.applyPatch"} -> MutatingWorkspace
       [] t = "workspace.diff" -> RepositoryInspect
       [] t = "shell.exec" -> ShellExec
       [] OTHER -> LowRisk]

DelegateTools == {"delegate.research", "delegate.code", "delegate.critic", "delegate.parallel"}

ExtendedTools ==
  [t \in {"workspace.searchFiles", "memory.search", "process.start", "process.kill",
          "sandbox.snapshot", "sandbox.restore", "verification.run", "browser.inspect",
          "browser.act", "repository.inspect", "temporal.inspect", "temporal.mcp.call",
          "artifact.createReport", "memory.writeCandidate"} \cup DelegateTools |->
     CASE t = "process.start" -> ProcessStart
       [] t = "process.kill" -> ProcessKill
       [] t = "sandbox.snapshot" -> SandboxSnapshot
       [] t = "sandbox.restore" -> SandboxRestore
       [] t = "verification.run" -> Verification
       [] t = "browser.inspect" -> BrowserInspect
       [] t = "browser.act" -> BrowserAction
       [] t = "repository.inspect" -> RepositoryInspect
       [] t \in {"temporal.inspect", "temporal.mcp.call"} -> TemporalMcp
       [] t = "artifact.createReport" -> SafeArtifact
       [] t = "memory.writeCandidate" -> MemoryCandidate
       [] t \in DelegateTools -> Delegate
       [] OTHER -> LowRisk]

TimerTools == [t \in {"timer.wait"} |-> Timer]
SessionMessagingTools == [t \in {"session.sendMessage"} |-> SessionMessage]
ScheduleTools ==
  [t \in {"schedule.create", "schedule.list"} |->
     IF t = "schedule.create" THEN ScheduleCreate ELSE LowRisk]
PublicDataTools ==
  [t \in {"feed.read", "hackernews.read", "weather.lookup", "wikipedia.lookup"} |-> PublicData]
LocalNotificationTools ==
  [t \in {"notify.user", "imessage.send"} |-> IF t = "notify.user" THEN Notify ELSE Messaging]
PlaywrightMcpTools == [t \in {"browser.mcp.call"} |-> BrowserMcp]
Context7Tools == [t \in {"docs.lookup"} |-> DocsLookup]
ScratchDbTools == [t \in {"db.query"} |-> DbQuery]

registeredTools ==
  [t \in DOMAIN CoreTools \cup DOMAIN ExtendedTools \cup DOMAIN TimerTools
           \cup DOMAIN SessionMessagingTools \cup DOMAIN ScheduleTools
           \cup DOMAIN PublicDataTools \cup DOMAIN LocalNotificationTools
           \cup DOMAIN PlaywrightMcpTools \cup DOMAIN Context7Tools
           \cup DOMAIN ScratchDbTools |->
     CASE t \in DOMAIN CoreTools -> CoreTools[t]
       [] t \in DOMAIN ExtendedTools -> ExtendedTools[t]
       [] t \in DOMAIN TimerTools -> TimerTools[t]
       [] t \in DOMAIN SessionMessagingTools -> SessionMessagingTools[t]
       [] t \in DOMAIN ScheduleTools -> ScheduleTools[t]
       [] t \in DOMAIN PublicDataTools -> PublicDataTools[t]
       [] t \in DOMAIN LocalNotificationTools -> LocalNotificationTools[t]
       [] t \in DOMAIN PlaywrightMcpTools -> PlaywrightMcpTools[t]
       [] t \in DOMAIN Context7Tools -> Context7Tools[t]
       [] t \in DOMAIN ScratchDbTools -> ScratchDbTools[t]]

Tools == DOMAIN registeredTools

ConfiguredTools == IF MacOS THEN Tools ELSE Tools \ {"notify.user", "imessage.send"}

RiskRequiresApproval(risk) == risk \in {"medium", "high"}

(* requiresApproval, or a risk that implies it. *)
Gated(t) ==
  registeredTools[t].requiresApproval \/ RiskRequiresApproval(registeredTools[t].risk)

(* idempotencyBehavior 'key-required': the call has a row in the ledger. *)
Keyed(t) == registeredTools[t].idempotencyBehavior = "key-required"

-----------------------------------------------------------------------------
(* Who executes a tool. *)

SingleDelegates == {"delegate.research", "delegate.code", "delegate.critic"}

(* isTimerWaitToolName, isDelegateToolName, isDelegateParallelToolName: the calls that
   the workflow takes out before any activity. *)
InWorkflow == {"timer.wait", "delegate.parallel"} \cup SingleDelegates

(* toolActivitiesForTaskQueue: everything unknown goes to the sandbox worker. *)
ProxyQueue(t) ==
  IF registeredTools[t].taskQueue \in {"tools-general", "memory"}
    THEN registeredTools[t].taskQueue
    ELSE "tools-sandbox"

-----------------------------------------------------------------------------
(* Arguments.  The zod schema of delegate.parallel wants 2 to 6 tasks with a label
   each, of any kinds; the workflow wants 1 to 3 tasks of different kinds.  The
   schema of the single delegates bounds maxTokens, the workflow does not.  "wide"
   arguments pass only the schema, "loose" ones only the workflow. *)

Shapes(t) ==
  {"valid", "malformed"} \cup
  (IF t = "delegate.parallel" THEN {"wide", "loose"}
   ELSE IF t \in SingleDelegates THEN {"loose"} ELSE {})

(* tool.schema.safeParse, and the `parse` of the same schema in the tool. *)
Parses(t, shape) == shape \in {"valid", "wide"}

(* readTimerWaitArguments, readDelegateArguments, readDelegateParallelArguments. *)
Readable(t, shape) == shape \in {"valid", "loose"}

(* validateToolCall on the configured tools. *)
Validate(t, shape) ==
  IF t \notin ConfiguredTools \/ ~Parses(t, shape) THEN "denied"
  ELSE IF Gated(t) THEN "approval_required"
  ELSE "allowed"
=============================================================================
