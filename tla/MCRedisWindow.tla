---------------------------- MODULE MCRedisWindow ----------------------------
(* RedisWindow on small instances. *)
EXTENDS RedisWindow, TLC

OneOrTwo == {1, 2}
Symmetry == Permutations(Requests)
=============================================================================
