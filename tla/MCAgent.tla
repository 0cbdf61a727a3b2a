------------------------------- MODULE MCAgent -------------------------------
(* Instances of Agent for TLC. *)
EXTENDS Agent, TLC

CONSTANT a

OneId == <<a>>

NoFault == {{}}

=============================================================================
