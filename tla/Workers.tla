------------------------------ MODULE Workers -------------------------------
(***************************************************************************)
(* The task queues, what the workers of one process serve on each, and     *)
(* what the workflows ask of each.  The queue names are written out again  *)
(* in every workflow file, since workflow code cannot import them; an      *)
(* activity asked of a queue that does not serve it waits for ever.        *)
(***************************************************************************)

ModelQueue == {"callModel"}

ToolsQueue ==
  {"evaluateToolCallPolicy", "executeTool", "forwardApprovalToRun", "listToolManifest",
   "persistToolResult", "recordApprovalRequest", "recordApprovalResolution",
   "recordRunCompleted", "recordRunStarted", "recordSubagentCompleted",
   "recordSubagentStarted"}

SandboxQueue ==
  {"cancelSandboxSession", "ensureSandboxWorkspace", "executeTool", "killSandboxProcess",
   "readSandboxFile", "restoreSandbox", "runEphemeralSandboxCommand", "runSandboxCommand",
   "snapshotSandbox", "startSandboxProcess", "writeSandboxFile"}

MemoryQueue ==
  {"confirmMemoryCandidate", "executeTool", "generateEmbedding", "listMemoryNotes",
   "loadMemoryCompactionInput", "persistMemoryCompaction", "readMemoryNote", "searchMemory",
   "submitScheduledTurn", "summarizeMemoryCompaction", "writeMemoryCandidate"}

(* Worker.create of main: the activities of each queue. *)
Served == [queue \in {"tools-general", "tools-sandbox", "memory", "model-calls"} |->
  CASE queue = "tools-general" -> ToolsQueue
    [] queue = "tools-sandbox" -> SandboxQueue
    [] queue = "model-calls" -> ModelQueue
    [] queue = "memory" -> MemoryQueue]

(* The proxies of agentRunWorkflow, and the methods of each that it calls. *)
AskedByRun ==
  ({"tools-general"} \X
     {"evaluateToolCallPolicy", "recordApprovalRequest", "recordApprovalResolution",
      "executeTool", "recordRunStarted", "recordRunCompleted", "recordSubagentStarted",
      "recordSubagentCompleted", "persistToolResult"})
  \cup ({"tools-sandbox"} \X {"executeTool", "cancelSandboxSession"})
  \cup ({"memory"} \X {"executeTool", "writeMemoryCandidate", "searchMemory"})
  \cup {<<"model-calls", "callModel">>}

(* agentSessionWorkflow. *)
AskedBySession == {"tools-general"} \X {"forwardApprovalToRun", "listToolManifest"}

(* The subagent workflows. *)
AskedBySubagents == {<<"model-calls", "callModel">>}

(* memoryCompactionWorkflow. *)
AskedByCompaction ==
  {"memory"} \X
    {"loadMemoryCompactionInput", "summarizeMemoryCompaction", "persistMemoryCompaction"}

(* scheduledAgentWorkflow. *)
AskedBySchedule == {<<"memory", "submitScheduledTurn">>}

Asked ==
  AskedByRun \cup AskedBySession \cup AskedBySubagents \cup AskedByCompaction \cup AskedBySchedule

(* main: the process starts only against a coherent Temporal target, and stops when
   one of its workers does. *)
IsServed(queue, activity) == queue \in DOMAIN Served /\ activity \in Served[queue]
=============================================================================
