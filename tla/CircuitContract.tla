--------------------------- MODULE CircuitContract ---------------------------
(***************************************************************************)
(* What the circuit breaker promises its callers (docs/ARCHITECTURE.md,    *)
(* "Provider observability and circuit breaker"): ordinary requests go     *)
(* upstream only while the circuit is closed, an open circuit lets exactly *)
(* one trial request through, nothing else goes upstream until that        *)
(* trial's verdict, and only that verdict ends the trial.                  *)
(***************************************************************************)
CONSTANT Requests

VARIABLES
  phase,    \* "closed", "open" or "half_open"
  passing,  \* ordinary requests admitted and not yet accounted
  trial     \* the trial request, if there is one

vars == <<phase, passing, trial>>

Init == phase = "closed" /\ passing = {} /\ trial = {}

Pass(r) ==
  /\ phase = "closed"
  /\ r \notin passing
  /\ passing' = passing \union {r}
  /\ UNCHANGED <<phase, trial>>

\* An ordinary request is accounted; a failure may trip a closed circuit.
Return(r) ==
  /\ r \in passing
  /\ passing' = passing \ {r}
  /\ phase' = phase \/ (phase = "closed" /\ phase' = "open")
  /\ UNCHANGED trial

Try(r) ==
  /\ phase = "open"
  /\ phase' = "half_open"
  /\ trial' = {r}
  /\ UNCHANGED passing

Verdict(r) ==
  /\ trial = {r}
  /\ phase = "half_open"
  /\ phase' \in {"closed", "open"}
  /\ trial' = {}
  /\ UNCHANGED passing

Next == \E r \in Requests : Pass(r) \/ Return(r) \/ Try(r) \/ Verdict(r)

Spec == Init /\ [][Next]_vars
=============================================================================
