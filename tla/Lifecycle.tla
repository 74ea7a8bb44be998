------------------------------ MODULE Lifecycle ------------------------------
(***************************************************************************)
(* The life of one GemGate process (cmd/gemgate/main.go): binding the      *)
(* application listener and the optional operations listener, composing    *)
(* the handlers, serving, and shutting both servers down under one shared  *)
(* deadline.  The two servers are net/http's.  run's main goroutine, the   *)
(* goroutines that serve, and the requests interleave.                     *)
(***************************************************************************)
EXTENDS Naturals, FiniteSets

CONSTANT Requests  \* connections that send requests, again and again

VARIABLES
  mode,       \* the command line: with the TUI? with -operations-listen?
  main,       \* where run is
  listener,   \* listener[s]: the socket of server s
  isolated,   \* IsolateOperationsEndpoints was called
  serving,    \* serving[s]: the goroutine that serves on s
  stopping,   \* stopping[s]: http.Server.Shutdown was called
  serverErr,  \* number of values in the channel serverErr
  stop,       \* a signal is waiting in the channel stop
  expired,    \* the context of shutdown is past its deadline
  limiter,    \* the rate-limit backend: "open" or "closed"
  request,    \* request[r]: where request r is
  answered    \* history: what each server did with requests of each kind

vars == <<mode, main, listener, isolated, serving, stopping, serverErr, stop, expired,
          limiter, request, answered>>
servers == <<listener, serving, stopping, serverErr>>
clients == <<request, answered>>

Servers == {"application", "operations"}
Kinds == {"proxy", "operational"}
Used == IF mode.operations THEN Servers ELSE {"application"}

Stages == {"listen", "listenOperations", "compose", "waiting", "stopOperations",
           "drainOperations", "stopApplication", "drainApplication", "closeLimiter", "flushTelemetry",
           "exit"}

Idle == [stage |-> "idle", on |-> "application", kind |-> "proxy"]
Calls == [stage : {"idle", "accepted", "limiting", "proxying"}, on : Servers, kind : Kinds]
Answers == [on : Servers, kind : Kinds, how : {"served", "notFound", "limited"}]

Init ==
  /\ mode \in [tui : BOOLEAN, operations : BOOLEAN]
  /\ main = "listen"
  /\ listener = [s \in Servers |-> "free"]
  /\ isolated = FALSE
  /\ serving = [s \in Servers |-> "none"]
  /\ stopping = [s \in Servers |-> FALSE]
  /\ serverErr = 0
  /\ stop = FALSE
  /\ expired = FALSE
  /\ limiter = "open"
  /\ request = [r \in Requests |-> Idle]
  /\ answered = {}

-----------------------------------------------------------------------------
\* run, up to the point where requests are accepted.
ListenApplication ==
  /\ main = "listen"
  /\ listener' = [listener EXCEPT !["application"] = "bound"]
  /\ main' = IF mode.operations THEN "listenOperations" ELSE "compose"
  /\ UNCHANGED <<mode, isolated, serving, stopping, serverErr, stop, expired, limiter, clients>>

\* gw.Shutdown on a server that never served, with a context that never ends.
ListenApplicationFails ==
  /\ main = "listen"
  /\ stopping' = [stopping EXCEPT !["application"] = TRUE]
  /\ main' = "closeLimiter"
  /\ UNCHANGED <<mode, listener, isolated, serving, serverErr, stop, expired, limiter, clients>>

\* Mutant of ListenOperations: the handler is composed once everything serves.
ListenOperationsOnly ==
  /\ main = "listenOperations"
  /\ listener' = [listener EXCEPT !["operations"] = "bound"]
  /\ main' = "compose"
  /\ UNCHANGED <<mode, isolated, serving, stopping, serverErr, stop, expired, limiter, clients>>

ListenOperations ==
  /\ main = "listenOperations"
  /\ listener' = [listener EXCEPT !["operations"] = "bound"]
  /\ isolated' = TRUE
  /\ main' = "compose"
  /\ UNCHANGED <<mode, serving, stopping, serverErr, stop, expired, limiter, clients>>

\* The address is taken, or is the application's.
ListenOperationsFails ==
  /\ main = "listenOperations"
  /\ listener' = [listener EXCEPT !["application"] = "closed"]
  /\ stopping' = [stopping EXCEPT !["application"] = TRUE]
  /\ main' = "closeLimiter"
  /\ UNCHANGED <<mode, isolated, serving, serverErr, stop, expired, limiter, clients>>

StartServing ==
  /\ main = "compose"
  /\ serving' = [s \in Servers |-> IF s \in Used THEN "started" ELSE "none"]
  /\ main' = "waiting"
  /\ UNCHANGED <<mode, listener, isolated, stopping, serverErr, stop, expired, limiter, clients>>

-----------------------------------------------------------------------------
\* The goroutine calls http.Server.Serve: closed at once if Shutdown came first.
Serve(s) ==
  /\ serving[s] = "started"
  /\ serving' = [serving EXCEPT ![s] = IF stopping[s] THEN "returned" ELSE "accepting"]
  /\ listener' = [listener EXCEPT ![s] = IF stopping[s] THEN "closed" ELSE @]
  /\ serverErr' = IF stopping[s] THEN serverErr + 1 ELSE serverErr
  /\ UNCHANGED <<mode, main, isolated, stopping, stop, expired, limiter, clients>>

\* Mutant of ServeReturns: http.ErrServerClosed is sent as well as the result.
ServeReturnsTwice(s) ==
  /\ serving[s] = "accepting"
  /\ serving' = [serving EXCEPT ![s] = "returned"]
  /\ listener' = [listener EXCEPT ![s] = "closed"]
  /\ serverErr' = serverErr + 2
  /\ UNCHANGED <<mode, main, isolated, stopping, stop, expired, limiter, clients>>

\* Serve returns: Shutdown was called, or accepting connections failed.
ServeReturns(s) ==
  /\ serving[s] = "accepting"
  /\ serving' = [serving EXCEPT ![s] = "returned"]
  /\ listener' = [listener EXCEPT ![s] = "closed"]
  /\ serverErr' = serverErr + 1
  /\ UNCHANGED <<mode, main, isolated, stopping, stop, expired, limiter, clients>>

\* SIGINT or SIGTERM; the TUI handles its own quit key instead.
Signal ==
  /\ main = "waiting" /\ ~mode.tui /\ ~stop
  /\ stop' = TRUE
  /\ UNCHANGED <<mode, main, servers, isolated, expired, limiter, clients>>

-----------------------------------------------------------------------------
ToShutdown == main' = IF mode.operations THEN "stopOperations" ELSE "stopApplication"

StopOnSignal ==
  /\ main = "waiting" /\ stop
  /\ ToShutdown
  /\ stop' = FALSE
  /\ UNCHANGED <<mode, servers, isolated, expired, limiter, clients>>

StopOnServerError ==
  /\ main = "waiting" /\ ~mode.tui /\ serverErr > 0
  /\ serverErr' = serverErr - 1
  /\ ToShutdown
  /\ UNCHANGED <<mode, listener, serving, stopping, isolated, stop, expired, limiter, clients>>

QuitTui ==
  /\ main = "waiting" /\ mode.tui
  /\ ToShutdown
  /\ UNCHANGED <<mode, servers, isolated, stop, expired, limiter, clients>>

\* http.Server.Shutdown closes the listeners that Serve has registered ...
Shutdown(s, from, to) ==
  /\ main = from
  /\ stopping' = [stopping EXCEPT ![s] = TRUE]
  /\ listener' = [listener EXCEPT ![s] = IF serving[s] = "accepting" THEN "closed" ELSE @]
  /\ main' = to
  /\ UNCHANGED <<mode, isolated, serving, serverErr, stop, expired, limiter, clients>>

Busy(s) == {r \in Requests : request[r].stage # "idle" /\ request[r].on = s}

\* Mutants of Drained: Close in place of Shutdown; a context without a deadline.
DrainedAtOnce(s, from, to) ==
  /\ main = from /\ serving[s] # "accepting"
  /\ main' = to
  /\ UNCHANGED <<mode, servers, isolated, stop, expired, limiter, clients>>

DrainedWithoutDeadline(s, from, to) ==
  /\ main = from /\ serving[s] # "accepting"
  /\ Busy(s) = {}
  /\ main' = to
  /\ UNCHANGED <<mode, servers, isolated, stop, expired, limiter, clients>>

\* ... waits until Serve has returned, then until the connections are idle or the
\* deadline has passed.
Drained(s, from, to) ==
  /\ main = from /\ serving[s] # "accepting"
  /\ Busy(s) = {} \/ expired
  /\ main' = to
  /\ UNCHANGED <<mode, servers, isolated, stop, expired, limiter, clients>>

ShutdownOperations == Shutdown("operations", "stopOperations", "drainOperations")
OperationsDrained == Drained("operations", "drainOperations", "stopApplication")
ShutdownApplication == Shutdown("application", "stopApplication", "drainApplication")
ApplicationDrained == Drained("application", "drainApplication", "closeLimiter")

\* The ten seconds of shutdown, shared by both servers.
Expire ==
  /\ main \in {"drainOperations", "stopApplication", "drainApplication"} /\ ~expired
  /\ expired' = TRUE
  /\ UNCHANGED <<mode, main, servers, isolated, stop, limiter, clients>>

CloseLimiter ==
  /\ main = "closeLimiter"
  /\ limiter' = "closed"
  /\ main' = "flushTelemetry"
  /\ UNCHANGED <<mode, servers, isolated, stop, expired, clients>>

\* The deferred shutdownTelemetry takes a while: requests that outlived the deadline go
\* on, without a limiter.
FlushTelemetry ==
  /\ main = "flushTelemetry"
  /\ main' = "exit"
  /\ UNCHANGED <<mode, servers, isolated, stop, expired, limiter, clients>>

-----------------------------------------------------------------------------
\* Requests: a connection is accepted while Serve runs, whatever Shutdown does.
Moves(r, stage) ==
  /\ request' = [request EXCEPT ![r].stage = stage]
  /\ UNCHANGED <<mode, main, servers, isolated, stop, expired, limiter, answered>>

Answer(r, how) ==
  /\ request' = [request EXCEPT ![r] = Idle]
  /\ answered' = answered \union {[on |-> request[r].on, kind |-> request[r].kind, how |-> how]}
  /\ UNCHANGED <<mode, main, servers, isolated, stop, expired, limiter>>

At(r, stage) == request[r].stage = stage /\ main # "exit"

\* A request on a new connection, or on one that is kept alive.  (The few that
\* begin on a kept connection after Serve returned are left out.)
Accept(r, s, k) ==
  /\ At(r, "idle") /\ serving[s] = "accepting"
  /\ request' = [request EXCEPT ![r] = [stage |-> "accepted", on |-> s, kind |-> k]]
  /\ UNCHANGED <<mode, main, servers, isolated, stop, expired, limiter, answered>>

\* The operations handler, or the one IsolateOperationsEndpoints wrapped.
NotFound(r) ==
  /\ At(r, "accepted")
  /\ IF request[r].on = "operations"
     THEN request[r].kind = "proxy"
     ELSE isolated /\ request[r].kind = "operational"
  /\ Answer(r, "notFound")

ServeOperational(r) ==
  /\ At(r, "accepted") /\ request[r].kind = "operational"
  /\ request[r].on = "operations" \/ ~isolated
  /\ Answer(r, "served")

ToLimiter(r) ==
  /\ At(r, "accepted") /\ request[r].kind = "proxy" /\ request[r].on = "application"
  /\ Moves(r, "limiting")

\* A closed Redis client fails every call, which fail-open lets pass.
LimiterError(r) ==
  /\ At(r, "limiting") /\ limiter = "closed"
  /\ Answer(r, "limited")

LimiterPasses(r) ==
  /\ At(r, "limiting")
  /\ Moves(r, "proxying")

ProxyAnswers(r) ==
  /\ At(r, "proxying")
  /\ Answer(r, "served")

-----------------------------------------------------------------------------
Startup ==
  \/ ListenApplication \/ ListenApplicationFails
  \/ ListenOperations \/ ListenOperationsFails \/ StartServing

Stop == StopOnSignal \/ StopOnServerError \/ QuitTui

Stopping ==
  \/ ShutdownOperations \/ OperationsDrained \/ ShutdownApplication \/ ApplicationDrained
  \/ CloseLimiter \/ FlushTelemetry

Handle(r) ==
  \/ \E s \in Servers, k \in Kinds : Accept(r, s, k)
  \/ NotFound(r) \/ ServeOperational(r) \/ ToLimiter(r)
  \/ LimiterError(r) \/ LimiterPasses(r) \/ ProxyAnswers(r)

Next ==
  \/ Startup \/ Stop \/ Stopping \/ Signal \/ Expire
  \/ \E s \in Servers : Serve(s) \/ ServeReturns(s)
  \/ \E r \in Requests : Handle(r)

Spec == Init /\ [][Next]_vars

\* run goes on, time passes, goroutines are scheduled, and closing a listener
\* makes its Serve return.  Nothing is assumed of the requests or of the user.
FairSpec ==
  /\ Spec
  /\ WF_vars(Startup) /\ WF_vars(StopOnSignal \/ StopOnServerError) /\ WF_vars(Stopping)
  /\ WF_vars(Expire)
  /\ \A s \in Servers : WF_vars(Serve(s)) /\ WF_vars(stopping[s] /\ ServeReturns(s))

-----------------------------------------------------------------------------
\* serverErr has room for every value, so no serving goroutine blocks for ever.
TypeOK ==
  /\ mode \in [tui : BOOLEAN, operations : BOOLEAN]
  /\ main \in Stages
  /\ listener \in [Servers -> {"free", "bound", "closed"}]
  /\ {isolated, stop, expired} \subseteq BOOLEAN
  /\ serving \in [Servers -> {"none", "started", "accepting", "returned"}]
  /\ stopping \in [Servers -> BOOLEAN]
  /\ serverErr \in 0 .. Cardinality({s \in Used : serving[s] = "returned"})
  /\ limiter \in {"open", "closed"}
  /\ request \in [Requests -> Calls]
  /\ answered \subseteq Answers

\* "There is no startup interval where the application listener still exposes
\* operational routes" (docs/OPERATIONS.md), nor any later one, and the operations
\* listener never proxies (operations_listener.go:10-24; main.go:107-147).
Isolation ==
  mode.operations =>
    /\ [on |-> "application", kind |-> "operational", how |-> "served"] \notin answered
    /\ [on |-> "operations", kind |-> "proxy", how |-> "served"] \notin answered

\* The rate-limit backend is closed under a request only if the deadline that both
\* servers share has passed (main.go:257-270; gateway.go:151-159).
LimiterOutlivesRequests ==
  limiter = "closed" => expired \/ \A s \in Servers : Busy(s) = {}

\* A signal, or without the TUI the end of either server, ends the process, though
\* a request may hang and a server may not have been served yet
\* (main.go:173-183, 257-270).
StopEnds ==
  /\ stop ~> main = "exit"
  /\ \A s \in Servers : (serving[s] = "returned" /\ ~mode.tui) ~> main = "exit"
=============================================================================
