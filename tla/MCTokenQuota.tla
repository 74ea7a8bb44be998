---------------------------- MODULE MCTokenQuota ----------------------------
(* TokenQuota on small instances. *)
EXTENDS TokenQuota, TLC

Symmetry == Permutations(Requests) \union Permutations(Tokens)
=============================================================================
