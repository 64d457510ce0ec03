---------------------------- MODULE MCAgentJobs ----------------------------
(* AgentJobs on small instances; the constants are given in the cfgs. *)
EXTENDS AgentJobs
=============================================================================
