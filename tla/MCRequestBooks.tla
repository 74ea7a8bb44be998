--------------------------- MODULE MCRequestBooks ---------------------------
(* RequestBooks on small instances. *)
EXTENDS RequestBooks, TLC

Symmetry == Permutations(Requests)
=============================================================================
