------------------------- MODULE MCProviderTransport -------------------------
(* ProviderTransport on small instances. *)
EXTENDS ProviderTransport, TLC

MCPolicy == [enabled |-> TRUE, failureThreshold |-> 2, openFor |-> 2]
Symmetry == Permutations(Requests)
=============================================================================
