----------------------------- MODULE MCKeyService -----------------------------
(* Instances of KeyService for TLC. *)
EXTENDS KeyService, TLC

CONSTANTS a, b

TwoIds == <<a, b>>

SessionSymmetry == Permutations(Sessions)
=============================================================================
