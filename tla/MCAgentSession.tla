--------------------------- MODULE MCAgentSession ---------------------------
(* AgentSession on small instances; the constants are given in the cfgs. *)
EXTENDS AgentSession

AnyResponse == Outcome \ {"aborted"}
=============================================================================
