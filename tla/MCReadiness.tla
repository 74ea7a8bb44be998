----------------------------- MODULE MCReadiness -----------------------------
(* Readiness on the instances of MCCircuitReload. *)
EXTENDS Readiness, MCCircuitReload
=============================================================================
