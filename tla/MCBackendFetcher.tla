--------------------------- MODULE MCBackendFetcher ---------------------------
(* Instances of BackendFetcher for TLC. *)
EXTENDS BackendFetcher
=============================================================================
