---------------------------- MODULE RequestBooks ----------------------------
(***************************************************************************)
(* One request after another through ServeHTTP (internal/gateway/gateway.go *)
(* and proxy.go), and the books kept about them: the process counters and  *)
(* gauges (metrics.go), which are separate atomics, the provider's gauge,  *)
(* and the log ring, which the TUI summarises.  The client may go away at  *)
(* any moment; the transport and the handler each ask whether it has, at   *)
(* different times.                                                        *)
(***************************************************************************)
EXTENDS Integers, FiniteSets

CONSTANTS
  Requests,  \* goroutines that serve connections, one request after another
  MaxServed  \* bound: requests that arrive

ASSUME RequestsAssumption == IsFiniteSet(Requests)
ASSUME MaxServedAssumption == MaxServed \in Nat

VARIABLES
  failOpen,          \* rateLimitManager.failOpen
  call,              \* call[r]: where request r is
  arrived,           \* bound: requests so far
  requests,          \* Metrics.Requests
  byClass,           \* Metrics.Requests2xx, 4xx and 5xx
  upstreamErrors,    \* Metrics.UpstreamErrors
  authFailures,      \* Metrics.AuthFailures
  rateLimited,       \* Metrics.RateLimited
  backendErrors,     \* Metrics.RateLimitBackendErrors
  inFlight,          \* Metrics.InFlight
  providerInFlight,  \* providerMetrics.inFlight
  logged             \* log entries that carry a status, by class

counters == <<requests, byClass, upstreamErrors, authFailures, rateLimited, backendErrors>>
gauges == <<inFlight, providerInFlight>>
vars == <<failOpen, call, arrived, counters, gauges, logged>>

\* recordStatus counts the other statuses in Requests only.
Classes == {"2xx", "4xx", "5xx", "other"}
Counted == Classes \ {"other"}

Handling == {"routing", "limiting", "entering"}
Proxying == {"proxying", "upstream", "copying", "copied", "judging"}
Closing == {"counting", "recording", "classing", "logging", "leaving"}
Stages == {"idle"} \union Handling \union Proxying \union Closing

Calls ==
  [stage   : Stages,
   gone    : BOOLEAN,                         \* r.Context() is cancelled
   class   : Classes,                         \* of proxyResult.status
   err     : BOOLEAN,                         \* the error proxy returns
   aborted : BOOLEAN,                         \* clientAborted
   verdict : {"none", "excused", "charged"},  \* the transport's word on the exchange
   proxied : BOOLEAN,                         \* the request is in InFlight
   begun   : BOOLEAN]                         \* the exchange is in the provider's gauge

Idle == [stage |-> "idle", gone |-> FALSE, class |-> "other", err |-> FALSE,
         aborted |-> FALSE, verdict |-> "none", proxied |-> FALSE, begun |-> FALSE]

Init ==
  /\ failOpen \in BOOLEAN
  /\ call = [r \in Requests |-> Idle]
  /\ arrived = 0
  /\ requests = 0
  /\ byClass = [c \in Counted |-> 0]
  /\ upstreamErrors = 0 /\ authFailures = 0 /\ rateLimited = 0 /\ backendErrors = 0
  /\ inFlight = 0 /\ providerInFlight = 0
  /\ logged = [c \in Classes |-> 0]

At(r, stage) == call[r].stage = stage
Goes(r, stage) == call' = [call EXCEPT ![r].stage = stage]
Becomes(r, c) == call' = [call EXCEPT ![r] = c]

-----------------------------------------------------------------------------
\* A request that is not a preflight, OPTIONS, or public operations request.
ServeHTTP(r) ==
  /\ At(r, "idle")
  /\ arrived < MaxServed
  /\ arrived' = arrived + 1
  /\ Goes(r, "routing")
  /\ UNCHANGED <<counters, gauges, logged>>

ClientLeaves(r) ==
  /\ ~At(r, "idle") /\ ~call[r].gone
  /\ call' = [call EXCEPT ![r].gone = TRUE]
  /\ UNCHANGED <<arrived, counters, gauges, logged>>

\* An authorized operations request is answered and leaves no trace.
ServeOperations(r) ==
  /\ At(r, "routing")
  /\ Becomes(r, Idle)
  /\ UNCHANGED <<arrived, counters, gauges, logged>>

\* Either token check fails.
Unauthorized(r) ==
  /\ At(r, "routing")
  /\ authFailures' = authFailures + 1
  /\ Becomes(r, [call[r] EXCEPT !.stage = "recording", !.class = "4xx"])
  /\ UNCHANGED <<arrived, requests, byClass, upstreamErrors, rateLimited, backendErrors,
                 gauges, logged>>

Authenticate(r) ==
  /\ At(r, "routing")
  /\ Goes(r, "limiting")
  /\ UNCHANGED <<arrived, counters, gauges, logged>>

LimiterAllows(r) ==
  /\ At(r, "limiting")
  /\ Goes(r, "entering")
  /\ UNCHANGED <<arrived, counters, gauges, logged>>

LimiterRejects(r) ==
  /\ At(r, "limiting")
  /\ rateLimited' = rateLimited + 1
  /\ Becomes(r, [call[r] EXCEPT !.stage = "recording", !.class = "4xx"])
  /\ UNCHANGED <<arrived, requests, byClass, upstreamErrors, authFailures, backendErrors,
                 gauges, logged>>

\* The backend fails: 503, or a log entry without a status and on.
LimiterFails(r) ==
  /\ At(r, "limiting")
  /\ backendErrors' = backendErrors + 1
  /\ Becomes(r, IF failOpen
                THEN [call[r] EXCEPT !.stage = "entering"]
                ELSE [call[r] EXCEPT !.stage = "recording", !.class = "5xx"])
  /\ UNCHANGED <<arrived, requests, byClass, upstreamErrors, authFailures, rateLimited,
                 gauges, logged>>

-----------------------------------------------------------------------------
EnterProxy(r) ==
  /\ At(r, "entering")
  /\ inFlight' = inFlight + 1
  /\ Becomes(r, [call[r] EXCEPT !.stage = "proxying", !.proxied = TRUE])
  /\ UNCHANGED <<arrived, counters, providerInFlight, logged>>

\* The provider is not known, or the body is too long or ends early, or the
\* provider's credentials cannot be applied.
LocalError(r) ==
  /\ At(r, "proxying")
  /\ \E class \in {"4xx", "5xx"} :
       Becomes(r, [call[r] EXCEPT !.stage = "judging", !.err = TRUE, !.class = class])
  /\ UNCHANGED <<arrived, counters, gauges, logged>>

\* The circuit's 503 is a response like any other, without the provider's books.
CircuitRefuses(r) ==
  /\ At(r, "proxying")
  /\ Becomes(r, [call[r] EXCEPT !.stage = "copying", !.class = "5xx"])
  /\ UNCHANGED <<arrived, counters, gauges, logged>>

ProviderBegin(r) ==
  /\ At(r, "proxying")
  /\ providerInFlight' = providerInFlight + 1
  /\ Becomes(r, [call[r] EXCEPT !.stage = "upstream", !.begun = TRUE])
  /\ UNCHANGED <<arrived, counters, inFlight, logged>>

\* The exchange is over; the transport excuses a failure if the client is gone.
ExchangeOver(r, failed, c) ==
  /\ Becomes(r, [c EXCEPT
       !.begun   = FALSE,
       !.verdict = CASE failed /\ c.gone  -> "excused"
                     [] failed /\ ~c.gone -> "charged"
                     [] ~failed           -> "none"])
  /\ providerInFlight' =
       IF c.begun /\ providerInFlight > 0 THEN providerInFlight - 1 ELSE providerInFlight
  /\ UNCHANGED <<arrived, counters, inFlight, logged>>

\* client.Do fails, whoever's fault it is: 502.
RoundTripError(r) ==
  /\ At(r, "upstream")
  /\ ExchangeOver(r, TRUE, [call[r] EXCEPT !.stage = "judging", !.err = TRUE, !.class = "5xx"])

\* The headers are passed on; from now on the status cannot be changed.
ResponseHeaders(r) ==
  /\ At(r, "upstream")
  /\ \E class \in Classes :
       Becomes(r, [call[r] EXCEPT !.stage = "copying", !.class = class])
  /\ UNCHANGED <<arrived, counters, gauges, logged>>

\* copyAndFlush reads to the end of the body.
BodyEnds(r) ==
  /\ At(r, "copying")
  /\ ExchangeOver(r, FALSE, [call[r] EXCEPT !.stage = "copied"])

BodyBreaks(r) ==
  /\ At(r, "copying") /\ call[r].begun
  /\ ExchangeOver(r, TRUE, [call[r] EXCEPT !.stage = "judging", !.err = TRUE])

\* A failed write to the client cancels its context; the body is closed.
ClientWriteFails(r) ==
  /\ At(r, "copying") /\ call[r].gone
  /\ ExchangeOver(r, FALSE, [call[r] EXCEPT !.stage = "judging", !.err = TRUE])

\* proxy looks at the context once more after a complete copy.
ProxyReturns(r) ==
  /\ At(r, "copied")
  /\ Becomes(r, [call[r] EXCEPT !.stage = "judging", !.err = call[r].gone])
  /\ UNCHANGED <<arrived, counters, gauges, logged>>

\* Mutant of Judge: an error is an error even if the client has left.
JudgeIgnoringClient(r) ==
  /\ At(r, "judging")
  /\ Becomes(r, [call[r] EXCEPT !.stage = IF call[r].err THEN "counting" ELSE "recording"])
  /\ UNCHANGED <<arrived, counters, gauges, logged>>

\* clientAborted := err != nil && r.Context().Err() != nil
Judge(r) ==
  /\ At(r, "judging")
  /\ LET aborted == call[r].err /\ call[r].gone
     IN Becomes(r, [call[r] EXCEPT
          !.aborted = aborted,
          !.stage   = CASE aborted                -> "logging"
                        [] call[r].err /\ ~aborted -> "counting"
                        [] ~call[r].err            -> "recording"])
  /\ UNCHANGED <<arrived, counters, gauges, logged>>

CountError(r) ==
  /\ At(r, "counting")
  /\ upstreamErrors' = upstreamErrors + 1
  /\ Goes(r, "recording")
  /\ UNCHANGED <<arrived, requests, byClass, authFailures, rateLimited, backendErrors,
                 gauges, logged>>

-----------------------------------------------------------------------------
\* recordStatus: two additions, the second by class.
RecordRequest(r) ==
  /\ At(r, "recording")
  /\ requests' = requests + 1
  /\ Goes(r, "classing")
  /\ UNCHANGED <<arrived, byClass, upstreamErrors, authFailures, rateLimited, backendErrors,
                 gauges, logged>>

RecordClass(r) ==
  /\ At(r, "classing")
  /\ byClass' = [c \in Counted |-> IF c = call[r].class THEN byClass[c] + 1 ELSE byClass[c]]
  /\ Goes(r, "logging")
  /\ UNCHANGED <<arrived, requests, upstreamErrors, authFailures, rateLimited, backendErrors,
                 gauges, logged>>

AfterLog(r) ==
  Becomes(r, IF call[r].proxied THEN [call[r] EXCEPT !.stage = "leaving"] ELSE Idle)

\* Mutant of LogRequest: the entry of an aborted request keeps its status.
LogWithStatus(r) ==
  /\ At(r, "logging")
  /\ logged' = [logged EXCEPT ![call[r].class] = @ + 1]
  /\ AfterLog(r)
  /\ UNCHANGED <<arrived, counters, gauges>>

\* The entry of an aborted request has status 0.
LogRequest(r) ==
  /\ At(r, "logging")
  /\ logged' = IF call[r].aborted THEN logged ELSE [logged EXCEPT ![call[r].class] = @ + 1]
  /\ AfterLog(r)
  /\ UNCHANGED <<arrived, counters, gauges>>

\* Mutant of Leave: InFlight is left as it is for an aborted request.
LeaveUnlessAborted(r) ==
  /\ At(r, "leaving")
  /\ inFlight' = IF call[r].aborted THEN inFlight ELSE inFlight - 1
  /\ Becomes(r, Idle)
  /\ UNCHANGED <<arrived, counters, providerInFlight, logged>>

\* The deferred InFlight.Add(-1).
Leave(r) ==
  /\ At(r, "leaving")
  /\ inFlight' = inFlight - 1
  /\ Becomes(r, Idle)
  /\ UNCHANGED <<arrived, counters, providerInFlight, logged>>

Step(r) ==
  \/ ServeHTTP(r) \/ ClientLeaves(r)
  \/ ServeOperations(r) \/ Unauthorized(r) \/ Authenticate(r)
  \/ LimiterAllows(r) \/ LimiterRejects(r) \/ LimiterFails(r)
  \/ EnterProxy(r) \/ LocalError(r) \/ CircuitRefuses(r) \/ ProviderBegin(r)
  \/ RoundTripError(r) \/ ResponseHeaders(r) \/ BodyEnds(r) \/ BodyBreaks(r)
  \/ ClientWriteFails(r) \/ ProxyReturns(r) \/ Judge(r) \/ CountError(r)
  \/ RecordRequest(r) \/ RecordClass(r) \/ LogRequest(r) \/ Leave(r)

Next == (\E r \in Requests : Step(r)) /\ UNCHANGED failOpen

Spec == Init /\ [][Next]_vars

-----------------------------------------------------------------------------
TypeOK ==
  /\ failOpen \in BOOLEAN
  /\ call \in [Requests -> Calls]
  /\ {arrived, requests, upstreamErrors, authFailures, rateLimited, backendErrors} \subseteq Nat
  /\ byClass \in [Counted -> Nat]
  /\ {inFlight, providerInFlight} \subseteq Nat
  /\ logged \in [Classes -> Nat]

\* Whatever path a request takes through the handler, the gauges are exact, and
\* no exchange is in a provider's gauge whose request is not in the process's
\* (gateway.go:315-316; metrics.go:103-122).
GaugesNest ==
  /\ inFlight = Cardinality({r \in Requests : call[r].proxied})
  /\ providerInFlight = Cardinality({r \in Requests : call[r].begun})
  /\ \A r \in Requests : call[r].begun => call[r].proxied

\* "Downstream cancellation is not classified as provider failure"
\* (docs/ARCHITECTURE.md:142), in the handler's books as well: a request whose
\* failure the transport excused because its client had left is never counted as
\* an upstream error or as an answer by the handler, which asks later
\* (provider_metrics_transport.go:79, 105; gateway.go:319-332).
ExcusedIsSilent ==
  \A r \in Requests :
    call[r].verdict = "excused" => call[r].stage \notin {"counting", "recording", "classing"}

\* The metrics and the log the TUI counts agree request by request: what differs
\* is only what is between recordStatus and its log entry
\* (gateway.go:282-312, 330-348; metrics.go:297-307).
LogsMatchMetrics ==
  /\ \A c \in Counted :
       byClass[c] = logged[c]
         + Cardinality({r \in Requests : At(r, "logging") /\ ~call[r].aborted
                                           /\ call[r].class = c})
  /\ requests = logged["2xx"] + logged["4xx"] + logged["5xx"] + logged["other"]
         + Cardinality({r \in Requests : \/ At(r, "classing")
                                         \/ At(r, "logging") /\ ~call[r].aborted})
=============================================================================
