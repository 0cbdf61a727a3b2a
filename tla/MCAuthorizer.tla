----------------------------- MODULE MCAuthorizer -----------------------------
(* Instances of Authorizer for TLC. *)
EXTENDS Authorizer, TLC

EitherFault == {{"sleep"}, {"step"}}
BothFaults == {{"sleep", "step"}}

Symmetry == Permutations(Calls) \cup Permutations(Fingerprints)
=============================================================================
