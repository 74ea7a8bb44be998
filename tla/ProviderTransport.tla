-------------------------- MODULE ProviderTransport --------------------------
(***************************************************************************)
(* providerMetricsTransport and providerMetricsBody                        *)
(* (internal/gateway/provider_metrics_transport.go): concurrent round      *)
(* trips through one provider's breaker, with the provider's in-flight     *)
(* gauge.  A round trip takes the breaker's mutex twice (allow, finish)    *)
(* and the gauge's mutex twice (providerBegin, providerFinish); between    *)
(* any two of these the other round trips may run and time may pass.       *)
(***************************************************************************)
EXTENDS CircuitBreaker, FiniteSets

CONSTANTS
  Requests,  \* the goroutines that call RoundTrip, again and again
  Policy     \* the provider's circuit policy

ASSUME RequestsAssumption == IsFiniteSet(Requests)
ASSUME PolicyAssumption == Policy \in CircuitPolicies

VARIABLES
  breaker,   \* t.breaker
  inFlight,  \* providerMetrics.inFlight
  call,      \* call[r]: where goroutine r is in its round trip
  cooled     \* history: ticks since the circuit last opened, up to CooledCap

vars == <<breaker, inFlight, call, cooled>>

CooledCap == breaker.openFor + MaxLag

Stages == {"idle", "entering", "admitted", "upstream", "streaming", "ending", "finishing"}

Calls ==
  [stage    : Stages,
   clock    : Lags,                  \* the time.Now() it carries to a mutex
   probe    : BOOLEAN,               \* permit.probe
   failed   : BOOLEAN,               \* what it will tell the breaker
   bodyDone : BOOLEAN,               \* providerMetricsBody.once has run
   resume   : {"idle", "streaming"}] \* where it continues after finish

Idle == [stage |-> "idle", clock |-> 0, probe |-> FALSE, failed |-> FALSE,
         bodyDone |-> FALSE, resume |-> "idle"]

Init ==
  /\ breaker = NewBreaker(Policy)
  /\ inFlight = 0
  /\ call = [r \in Requests |-> Idle]
  /\ cooled = 0

At(r, stage) == call[r].stage = stage
Moves(r, c) == call' = [call EXCEPT ![r] = c]

-----------------------------------------------------------------------------
\* RoundTrip begins: time.Now() is read before allow takes the mutex.
RoundTrip(r) ==
  /\ At(r, "idle")
  /\ Moves(r, [Idle EXCEPT !.stage = "entering"])
  /\ UNCHANGED <<breaker, inFlight, cooled>>

\* allow says no: the local 503 touches neither the metrics nor upstream.
Refuse(r) ==
  /\ At(r, "entering")
  /\ Refuses(breaker, call[r].clock)
  /\ Moves(r, Idle)
  /\ UNCHANGED <<breaker, inFlight, cooled>>

Admit(r) ==
  /\ At(r, "entering")
  /\ ~Refuses(breaker, call[r].clock)
  /\ breaker' = AfterAllow(breaker, call[r].clock)
  /\ Moves(r, [Idle EXCEPT !.stage = "admitted",
                           !.probe = StartsProbe(breaker, call[r].clock)])
  /\ UNCHANGED <<inFlight, cooled>>

ProviderBegin(r) ==
  /\ At(r, "admitted")
  /\ inFlight' = inFlight + 1
  /\ Moves(r, [call[r] EXCEPT !.stage = "upstream"])
  /\ UNCHANGED <<breaker, cooled>>

-----------------------------------------------------------------------------
\* The round trip is over; its accounting starts.
Ends(r, failed, resume) ==
  /\ Moves(r, [call[r] EXCEPT !.stage = "ending", !.failed = failed,
                              !.bodyDone = (resume = "streaming"),
                              !.resume = resume])
  /\ UNCHANGED <<breaker, inFlight, cooled>>

\* base.RoundTrip returns an error: a provider failure unless the caller left.
RoundTripError(r) ==
  /\ At(r, "upstream")
  /\ \E downstreamAborted \in BOOLEAN : Ends(r, ~downstreamAborted, "idle")

ResponseWithoutBody(r) ==
  /\ At(r, "upstream")
  /\ \E serverError \in BOOLEAN : Ends(r, serverError, "idle")

ResponseHeaders(r) ==
  /\ At(r, "upstream")
  /\ \E serverError \in BOOLEAN :
       Moves(r, [call[r] EXCEPT !.stage = "streaming", !.failed = serverError])
  /\ UNCHANGED <<breaker, inFlight, cooled>>

\* providerMetricsBody.Read meets EOF or an error: done runs, and the reader
\* (copyAndFlush) still has to close the body.
BodyReadEnds(r) ==
  /\ At(r, "streaming")
  /\ ~call[r].bodyDone
  /\ \E transportError \in BOOLEAN : Ends(r, transportError \/ call[r].failed, "streaming")

\* providerMetricsBody.Close before the body ended, as after a failed write to
\* the client: done runs with Close's error.
BodyCloseEarly(r) ==
  /\ At(r, "streaming")
  /\ ~call[r].bodyDone
  /\ \E transportError \in BOOLEAN : Ends(r, transportError \/ call[r].failed, "idle")

\* Mutant of BodyClose: without providerMetricsBody.once, Close runs done again.
BodyCloseCountsAgain(r) ==
  /\ At(r, "streaming")
  /\ call[r].bodyDone
  /\ Ends(r, call[r].failed, "idle")

\* Close after the end of the body: once.Do has nothing left to do.
BodyClose(r) ==
  /\ At(r, "streaming")
  /\ call[r].bodyDone
  /\ Moves(r, Idle)
  /\ UNCHANGED <<breaker, inFlight, cooled>>

ProviderFinish(r) ==
  /\ At(r, "ending")
  /\ inFlight' = IF inFlight > 0 THEN inFlight - 1 ELSE inFlight
  /\ Moves(r, [call[r] EXCEPT !.stage = "finishing", !.clock = 0])
  /\ UNCHANGED <<breaker, cooled>>

FinishBreaker(r) ==
  /\ At(r, "finishing")
  /\ breaker' = AfterFinish(breaker, call[r].probe, call[r].failed, call[r].clock)
  /\ Moves(r, [Idle EXCEPT !.stage = call[r].resume, !.bodyDone = call[r].bodyDone])
  /\ cooled' = IF breaker.state # "open" /\ breaker'.state = "open" THEN 0 ELSE cooled
  /\ UNCHANGED inFlight

-----------------------------------------------------------------------------
\* The clock of the process.
HoldsClock(r) == call[r].stage \in {"entering", "finishing"}

Tick ==
  /\ \A r \in Requests : HoldsClock(r) => call[r].clock > LongAgo
  /\ breaker' = AgedBreaker(breaker)
  /\ call' = [r \in Requests |->
                IF HoldsClock(r) THEN [call[r] EXCEPT !.clock = @ - 1] ELSE call[r]]
  /\ cooled' = IF cooled < CooledCap THEN cooled + 1 ELSE cooled
  /\ UNCHANGED inFlight

\* What goes on by itself once RoundTrip was called.
Continue(r) ==
  \/ Refuse(r) \/ Admit(r) \/ ProviderBegin(r)
  \/ RoundTripError(r) \/ ResponseWithoutBody(r) \/ ResponseHeaders(r)
  \/ BodyReadEnds(r) \/ BodyCloseEarly(r) \/ BodyClose(r)
  \/ ProviderFinish(r) \/ FinishBreaker(r)

Step(r) == RoundTrip(r) \/ Continue(r)

Next == Tick \/ \E r \in Requests : Step(r)

Spec == Init /\ [][Next]_vars

\* Time passes, goroutines run, and exchanges with the provider end (a provider
\* timeout is configured or the caller gives up); nobody has to call.
FairSpec == Spec /\ WF_vars(Tick) /\ \A r \in Requests : WF_vars(Continue(r))

-----------------------------------------------------------------------------
Outstanding(r) ==
  \/ call[r].stage \in {"admitted", "upstream", "ending", "finishing"}
  \/ At(r, "streaming") /\ ~call[r].bodyDone

TypeOK ==
  /\ breaker \in Breakers
  /\ inFlight \in Nat
  /\ call \in [Requests -> Calls]
  /\ cooled \in Nat

\* A half-open circuit belongs to exactly one round trip, the one holding the
\* probe permit; no completion of an ordinary request and no later allow can
\* take it away or hand out a second permit (circuitbreaker.go:107-162).
OneProbe ==
  /\ \A r, s \in Requests : call[r].probe /\ call[s].probe => r = s
  /\ breaker.state = "half_open" <=> \E r \in Requests : call[r].probe

\* Counted from the moment the circuit opens, the open period is the policy's
\* openFor less the delay between the failing request's time.Now() and its turn
\* at the mutex; requests that were admitted earlier and fail meanwhile neither
\* extend nor shorten it (circuitbreaker.go:148-161).
OpenForItsPeriod ==
  breaker.state = "open" =>
    breaker.openUntil + cooled \in (breaker.openFor - MaxLag) .. breaker.openFor

\* gemgate_provider_inflight is the number of round trips between
\* providerBegin and providerFinish: every begin is matched by one finish
\* however the exchange ends, so the guard of metrics.go:120 never hides a
\* surplus (provider_metrics_transport.go:75-121).
InFlightExact ==
  inFlight = Cardinality({r \in Requests :
                \/ call[r].stage \in {"upstream", "ending"}
                \/ At(r, "streaming") /\ ~call[r].bodyDone})

\* The breaker implements its contract: once it is open nothing but the single
\* trial goes upstream, and late completions do not end the open or the
\* half-open phase (circuitbreaker.go:148-152).
Contract == INSTANCE CircuitContract WITH
  phase   <- breaker.state,
  passing <- {r \in Requests : Outstanding(r) /\ ~call[r].probe},
  trial   <- {r \in Requests : call[r].probe}

ImplementsContract == Contract!Spec

\* A probe always reaches a verdict, whatever ends its exchange: no round trip
\* keeps the circuit half open forever (circuitbreaker.go:135-146).
ProbeIsJudged == breaker.state = "half_open" ~> breaker.state \in {"open", "closed"}
=============================================================================
