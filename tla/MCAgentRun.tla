----------------------------- MODULE MCAgentRun -----------------------------
(* An orchestrator that delegates and polls, a specialist that navigates,  *)
(* polls and asks for a comparison report.                                 *)
EXTENDS AgentRun

AgentTools == [orchestrator |-> {"delegate", "poll"}, specialist |-> {"navigate", "poll"}]

=============================================================================
