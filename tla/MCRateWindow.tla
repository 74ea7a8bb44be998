---------------------------- MODULE MCRateWindow ----------------------------
(* RateWindow on small instances. *)
EXTENDS RateWindow, TLC

OneTwoUnlimited == {0, 1, 2}
Symmetry == Permutations(Requests)
=============================================================================
