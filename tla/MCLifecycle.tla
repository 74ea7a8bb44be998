---------------------------- MODULE MCLifecycle ----------------------------
(* FirstStart, with Lifecycle, on small instances. *)
EXTENDS FirstStart, TLC
=============================================================================
