--------------------------- MODULE MCCircuitReload ---------------------------
(* CircuitReload on small instances. *)
EXTENDS CircuitReload, TLC

Patient == [enabled |-> TRUE, failureThreshold |-> 2, openFor |-> 2]
Strict == [enabled |-> TRUE, failureThreshold |-> 1, openFor |-> 1]
Off == [enabled |-> FALSE, failureThreshold |-> 1, openFor |-> 1]

AllPolicies == {Patient, Strict, Off}
OnePolicy == {Strict}
=============================================================================
