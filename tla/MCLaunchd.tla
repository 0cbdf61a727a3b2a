------------------------------ MODULE MCLaunchd ------------------------------
(* Instances of Launchd for TLC. *)
EXTENDS Launchd, TLC

=============================================================================
