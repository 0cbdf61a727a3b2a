---------------------------- MODULE MCAgentSocket ----------------------------
(* Instances of AgentSocket for TLC. *)
EXTENDS AgentSocket
=============================================================================
