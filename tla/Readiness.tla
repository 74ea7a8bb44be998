------------------------------ MODULE Readiness ------------------------------
(***************************************************************************)
(* Passive readiness (internal/gateway/readiness.go) of the default        *)
(* provider whose circuit CircuitReload has: /_readyz answers 503 while    *)
(* the circuit of the snapshot it captured is open or half open, and only  *)
(* application traffic moves a circuit.  A load balancer may follow the    *)
(* answers and keep traffic away, which closes a circle.                   *)
(***************************************************************************)
EXTENDS CircuitReload

VARIABLES
  balancer,  \* "ignores", or what /_readyz last told one that follows it
  poll       \* the snapshot that the answer under way looks at, NoPoll if none

readinessVars == <<breakers, born, reload, call, balancer, poll>>

NoPoll == 0

\* Mutant of NotReady: an open circuit whose period is over counts as closed.
NotReadyWhileRefusing(b) ==
  b.enabled /\ (b.state = "half_open" \/ (b.state = "open" /\ 0 < b.openUntil))

\* circuitBreaker.snapshot with writeReadiness: an open circuit is unready also
\* when its period is over, as it is then reported half open.
NotReady(b) == b.enabled /\ b.state \in {"open", "half_open"}

InitReadiness ==
  /\ Init
  /\ balancer \in {"ignores", "ready"}
  /\ poll = NoPoll

\* The balancer asks; ServeHTTP takes the snapshot ...
CaptureForReadiness ==
  /\ balancer # "ignores" /\ poll = NoPoll
  /\ poll' = current
  /\ UNCHANGED <<vars, balancer>>

\* ... and writeReadiness reads its breaker, under that breaker's mutex.
WriteReadiness ==
  /\ poll # NoPoll
  /\ balancer' = IF NotReady(breakers[poll]) THEN "unready" ELSE "ready"
  /\ poll' = NoPoll
  /\ UNCHANGED vars

Routes(r) == balancer # "unready" /\ ServeHTTP(r)

Traffic ==
  \/ Tick \/ Reload
  \/ \E r \in Requests : Routes(r) \/ RoundTrip(r) \/ Continue(r)

NextReadiness ==
  \/ Traffic /\ UNCHANGED <<balancer, poll>>
  \/ CaptureForReadiness
  \/ WriteReadiness

SpecReadiness == InitReadiness /\ [][NextReadiness]_readinessVars

\* As in CircuitReload; the balancer has a period.
FairSpecReadiness ==
  /\ SpecReadiness
  /\ WF_vars(Tick)
  /\ \A r \in Requests : WF_vars(Continue(r))
  /\ WF_vars(CloneBreaker \/ SwapSnapshot)
  /\ WF_readinessVars(CaptureForReadiness)
  /\ WF_readinessVars(WriteReadiness)

-----------------------------------------------------------------------------
\* From some time on the provider serves every request.
Recovers == <>[](\A r \in Requests : At(r, "finishing") => ~call[r].failed)

\* Readiness follows a provider that recovers, as long as some requests still come
\* in: an unready snapshot becomes ready or is replaced, unless a reload bore it
\* half open (readiness.go:40; circuitbreaker.go:107-146, 164-180).
ReadyAgain ==
  Demand /\ Recovers =>
    \A g \in 1..(MaxReloads + 1) :
      (g = current /\ NotReady(breakers[g]) /\ born[g] # "half_open")
        ~> (g # current \/ ~NotReady(breakers[g]))

Drained == balancer = "unready" /\ \A r \in Requests : At(r, "idle")

\* Without requests readiness does not come back: once a balancer that was told
\* 503 has drained the gateway, the provider may recover and the open period may
\* end, yet only a reload makes an unready snapshot ready (readiness.go:21-43
\* reads the circuits and probes nothing).
DrainedStaysUnready ==
  [][Drained /\ NotReady(breakers[current]) /\ current' = current
       => NotReady(breakers'[current])]_readinessVars
=============================================================================
