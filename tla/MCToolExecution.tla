-------------------------- MODULE MCToolExecution --------------------------
(* Agendas for TLC: calls that share a workspace, a server, or nothing. *)
EXTENDS ToolExecution

MCAgendas ==
  {{"workspace.applyPatch", "sandbox.restore"},
   {"workspace.applyPatch", "artifact.createReport"},
   {"browser.act", "memory.writeCandidate"},
   {"temporal.inspect"},
   {"temporal.mcp.call", "timer.wait"},
   {"browser.mcp.call"},
   {"docs.lookup"},
   {"db.query", "delegate.code"},
   {"delegate.parallel"}}
=============================================================================
