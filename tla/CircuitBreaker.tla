--------------------------- MODULE CircuitBreaker ---------------------------
(***************************************************************************)
(* The circuit breaker of one provider in one runtime snapshot             *)
(* (internal/gateway/circuitbreaker.go), as operators on its fields.  Every *)
(* method of the code runs under the breaker's mutex, so each operator is  *)
(* one atomic step of the machines that use it (ProviderTransport,         *)
(* CircuitReload).                                                         *)
(*                                                                         *)
(* Instants are integers counted from the present: 0 is now, negative      *)
(* instants are past, and a tick of the clock moves every stored instant   *)
(* one unit back.  A goroutine may read the clock and reach the mutex      *)
(* later, but at most MaxLag ticks later, so every instant compared by the *)
(* code is at least LongAgo; all instants at or before LongAgo compare     *)
(* alike and are represented by it.                                        *)
(***************************************************************************)
EXTENDS Integers

CONSTANTS
  DefaultFailureThreshold,  \* circuitbreaker.go:9
  DefaultOpenFor,           \* circuitbreaker.go:10, in ticks
  MaxLag                    \* bound: ticks between time.Now() and the mutex

ASSUME DefaultsAssumption ==
  /\ DefaultFailureThreshold \in Nat \ {0}
  /\ DefaultOpenFor \in Nat \ {0}

ASSUME MaxLagAssumption == MaxLag \in Nat

LongAgo == -MaxLag
Instants == {t \in Int : t >= LongAgo}
Lags == LongAgo .. 0

\* One tick of the clock, seen from a stored instant.
Older(t) == IF t > LongAgo THEN t - 1 ELSE LongAgo

CircuitStates == {"closed", "open", "half_open"}
CircuitPolicies == [enabled : BOOLEAN, failureThreshold : Int, openFor : Int]

Breakers ==
  [enabled : BOOLEAN, state : CircuitStates, failures : Nat,
   failureThreshold : Nat \ {0}, openFor : Nat \ {0}, openUntil : Instants]

PositiveOr(x, default) == IF x > 0 THEN x ELSE default

\* newCircuitBreakerWithPolicy: a closed breaker with no failures.
NewBreaker(policy) ==
  [enabled          |-> policy.enabled,
   state            |-> "closed",
   failures         |-> 0,
   failureThreshold |-> PositiveOr(policy.failureThreshold, DefaultFailureThreshold),
   openFor          |-> PositiveOr(policy.openFor, DefaultOpenFor),
   openUntil        |-> LongAgo]

\* Mutants of Refuses: half open lets everybody pass; the open period never ends.
RefusesOnlyOpen(b, now) == b.enabled /\ b.state = "open" /\ now < b.openUntil
RefusesUntilReset(b, now) == b.enabled /\ b.state # "closed"

\* allow: the breaker refuses the request with a local 503 ...
Refuses(b, now) ==
  b.enabled /\ (b.state = "half_open" \/ (b.state = "open" /\ now < b.openUntil))

\* ... or hands out the probe permit and goes half open ...
StartsProbe(b, now) ==
  b.enabled /\ b.state = "open" /\ b.openUntil <= now

\* ... or lets an ordinary request pass and does not change.
AfterAllow(b, now) ==
  IF StartsProbe(b, now) THEN [b EXCEPT !.state = "half_open"] ELSE b

\* Mutant of AfterProbe: success does not close.
AfterProbeStaysHalfOpen(b, failed, now) ==
  IF failed
  THEN [b EXCEPT !.state     = "open",
                 !.failures  = b.failureThreshold,
                 !.openUntil = now + b.openFor]
  ELSE [b EXCEPT !.failures = 0, !.openUntil = LongAgo]

\* finish of the request that holds the probe permit.
AfterProbe(b, failed, now) ==
  IF failed
  THEN [b EXCEPT !.state     = "open",
                 !.failures  = b.failureThreshold,
                 !.openUntil = now + b.openFor]
  ELSE [b EXCEPT !.state = "closed", !.failures = 0, !.openUntil = LongAgo]

\* Mutants of CountsCompletion: late completions count as well.
CountsWhenHalfOpen(b) == b.state # "open"
CountsAlways(b) == TRUE

\* finish of an ordinary request; it counts only while the breaker is closed.
CountsCompletion(b) == b.state = "closed"

AfterOrdinary(b, failed, now) ==
  LET failures == IF failed THEN b.failures + 1 ELSE 0
  IN CASE ~CountsCompletion(b) -> b
       [] CountsCompletion(b) /\ failed /\ failures >= b.failureThreshold ->
            [b EXCEPT !.state = "open", !.failures = failures,
                      !.openUntil = now + b.openFor]
       [] OTHER -> [b EXCEPT !.failures = failures]

AfterFinish(b, probe, failed, now) ==
  CASE ~b.enabled          -> b
    [] b.enabled /\ probe  -> AfterProbe(b, failed, now)
    [] b.enabled /\ ~probe -> AfterOrdinary(b, failed, now)

\* cloneWithPolicy: the breaker of the next snapshot.  State carries over only
\* between two enabled breakers; an expired open breaker is cloned half open,
\* and a closed one that already reached a lowered threshold is cloned open.
CloneWithPolicy(b, policy, now) ==
  LET fresh  == NewBreaker(policy)
      copied == [fresh EXCEPT !.state = b.state, !.failures = b.failures,
                              !.openUntil = b.openUntil]
  IN CASE ~fresh.enabled \/ ~b.enabled -> fresh
       [] fresh.enabled /\ StartsProbe(b, now) ->
            [copied EXCEPT !.state = "half_open", !.openUntil = LongAgo]
       [] fresh.enabled /\ b.enabled /\ b.state = "closed"
            /\ b.failures >= fresh.failureThreshold ->
            [copied EXCEPT !.state = "open", !.openUntil = now + fresh.openFor]
       [] OTHER -> copied

AgedBreaker(b) == [b EXCEPT !.openUntil = Older(@)]
=============================================================================
