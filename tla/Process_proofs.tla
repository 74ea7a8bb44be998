--------------------------- MODULE Process_proofs ---------------------------
(***************************************************************************)
(* Proofs about the process of cmd/gemgate/main.go: its first start and    *)
(* its life (FirstStart, Lifecycle), for any requests, any length of life  *)
(* and any number of starts; and its configuration watcher (HotReload),    *)
(* for every number of clients, every set of secrets and start-up          *)
(* settings, and any number of edits.  The two share no state.             *)
(***************************************************************************)
EXTENDS FirstStart, HotReload, FiniteSetTheorems, TLAPS

-----------------------------------------------------------------------------
(* The life of the process.                                                *)

\* Before StartServing nothing serves, and servers that are not used never do.
Starting == main \in {"listen", "listenOperations", "compose"}

ServingFollows ==
  /\ Starting => \A s \in Servers : serving[s] = "none"
  /\ \A s \in Servers : serving[s] = "none" \/ s \in Used

Returned == {s \in Used : serving[s] = "returned"}

\* What the type says, part by part.
LEMMA TypeParts ==
  ASSUME TypeOK
  PROVE  /\ serving \in [Servers -> {"none", "started", "accepting", "returned"}]
         /\ request \in [Requests -> Calls]
         /\ stopping \in [Servers -> BOOLEAN]
         /\ IsFiniteSet(Returned) /\ Cardinality(Returned) \in Nat
         /\ serverErr \in Nat /\ serverErr <= Cardinality(Returned)
<1>1. IsFiniteSet(Servers)
  <2>1. IsFiniteSet({"application"}) /\ Servers = {"application"} \union {"operations"}
    BY FS_Singleton DEF Servers
  <2> QED BY <2>1, FS_AddElement
<1>2. Returned \in SUBSET Servers
  BY DEF Returned, Used, Servers
<1>3. IsFiniteSet(Returned)
  BY <1>1, <1>2, FS_Subset
<1>4. Cardinality(Returned) \in Nat
  BY <1>3, FS_CardinalityType
<1> QED BY <1>3, <1>4 DEF TypeOK, Returned

\* The serving goroutine that returns puts one value into serverErr.
LEMMA OneMoreReturned ==
  ASSUME TypeOK, NEW s \in Used, serving[s] # "returned", mode' = mode,
         serving' = [serving EXCEPT ![s] = "returned"], serverErr' = serverErr + 1
  PROVE  serverErr' \in 0 .. Cardinality({t \in Used : serving[t] = "returned"})'
<1>1. Returned' = Returned \union {s}
  <2>1. s \in Servers /\ Used' = Used /\ Used \subseteq Servers
    BY DEF Used, Servers
  <2>2. \A t \in Servers : serving'[t] = IF t = s THEN "returned" ELSE serving[t]
    BY <2>1, TypeParts
  <2> QED BY <2>1, <2>2 DEF Returned
<1>2. s \notin Returned
  BY DEF Returned
<1>3. Cardinality(Returned') = Cardinality(Returned) + 1
  BY <1>1, <1>2, TypeParts, FS_AddElement
<1> QED BY <1>3, TypeParts DEF Returned

TypeInv == TypeOK /\ ServingFollows

\* The process starts with well-typed variables.
LEMMA TypeInit == Init => TypeInv
<1> SUFFICES ASSUME Init PROVE TypeInv
  OBVIOUS
<1>1. {s \in Used : serving[s] = "returned"} = {} /\ 0 \in 0 .. Cardinality({})
  BY FS_EmptySet DEF Init, Used, Servers
<1>2. Idle \in Calls
  BY DEF Idle, Calls, Servers, Kinds
<1> QED BY <1>1, <1>2 DEF Init, TypeInv, TypeOK, ServingFollows, Stages, Servers

\* A request moves between stages, and so does nothing else.
LEMMA HandleType ==
  ASSUME TypeOK, NEW r \in Requests, Handle(r)
  PROVE  /\ UNCHANGED <<mode, main, servers, isolated, stop, expired, limiter>>
         /\ request' \in [Requests -> Calls] /\ answered' \subseteq Answers
<1>0. request[r] \in Calls /\ Idle \in Calls
  BY TypeParts DEF Idle, Calls, Servers, Kinds
<1>1. ASSUME NEW how \in {"served", "notFound", "limited"}, Answer(r, how)
      PROVE  /\ UNCHANGED <<mode, main, servers, isolated, stop, expired, limiter>>
             /\ request' \in [Requests -> Calls] /\ answered' \subseteq Answers
  <2>1. [on |-> request[r].on, kind |-> request[r].kind, how |-> how] \in Answers
    BY <1>0 DEF Calls, Answers
  <2> QED BY <1>0, <1>1, <2>1, TypeParts DEF Answer, TypeOK
<1>2. ASSUME NEW stage \in {"limiting", "proxying"}, Moves(r, stage)
      PROVE  /\ UNCHANGED <<mode, main, servers, isolated, stop, expired, limiter>>
             /\ request' \in [Requests -> Calls] /\ answered' \subseteq Answers
  <2>1. [request[r] EXCEPT !.stage = stage] \in Calls
    BY <1>0 DEF Calls
  <2>2. request' = [request EXCEPT ![r] = [request[r] EXCEPT !.stage = stage]]
    BY <1>2, TypeParts DEF Moves
  <2> QED BY <1>2, <2>1, <2>2, TypeParts DEF Moves, TypeOK
<1>3. ASSUME NEW s \in Servers, NEW k \in Kinds, Accept(r, s, k)
      PROVE  /\ UNCHANGED <<mode, main, servers, isolated, stop, expired, limiter>>
             /\ request' \in [Requests -> Calls] /\ answered' \subseteq Answers
  <2>1. [stage |-> "accepted", on |-> s, kind |-> k] \in Calls
    BY DEF Calls
  <2> QED BY <1>3, <2>1, TypeParts DEF Accept, TypeOK
<1> QED BY <1>1, <1>2, <1>3
        DEF Handle, NotFound, ServeOperational, ToLimiter, LimiterError, LimiterPasses,
            ProxyAnswers

\* Every step of main, of the servers and of the requests keeps the types.
LEMMA TypeStep == TypeInv /\ [Next]_vars => TypeInv'
<1> SUFFICES ASSUME TypeOK, ServingFollows, [Next]_vars PROVE TypeInv'
  BY DEF TypeInv
<1>s. /\ "application" \in Servers /\ "operations" \in Servers
      /\ Used \subseteq Servers /\ (mode' = mode => Used' = Used)
  BY DEF Servers, Used
<1>t. serverErr \in 0 .. Cardinality({s \in Used : serving[s] = "returned"})
  BY DEF TypeOK
\* Steps that leave serving and serverErr as they are.
<1>q. ASSUME mode' = mode, serving' = serving, serverErr' = serverErr
      PROVE  /\ serverErr' \in 0 .. Cardinality({s \in Used : serving[s] = "returned"})'
             /\ (Starting' => Starting) => ServingFollows'
  <2>1. {s \in Used : serving[s] = "returned"}' = {s \in Used : serving[s] = "returned"}
    BY <1>q, <1>s
  <2> QED BY <1>q, <1>s, <1>t, <2>1 DEF ServingFollows
<1>1. CASE ListenApplication
  <2>1. serverErr' \in 0 .. Cardinality({s \in Used : serving[s] = "returned"})' /\ ServingFollows'
    BY <1>1, <1>q DEF ListenApplication, Starting
  <2> QED BY <1>1, <1>s, <2>1 DEF ListenApplication, TypeInv, TypeOK, clients, Stages
<1>2. CASE ListenApplicationFails
  <2>1. serverErr' \in 0 .. Cardinality({s \in Used : serving[s] = "returned"})' /\ ServingFollows'
    BY <1>2, <1>q DEF ListenApplicationFails, Starting
  <2> QED BY <1>2, <1>s, <2>1 DEF ListenApplicationFails, TypeInv, TypeOK, clients, Stages
<1>3. CASE ListenOperations
  <2>1. serverErr' \in 0 .. Cardinality({s \in Used : serving[s] = "returned"})' /\ ServingFollows'
    BY <1>3, <1>q DEF ListenOperations, Starting
  <2> QED BY <1>3, <1>s, <2>1 DEF ListenOperations, TypeInv, TypeOK, clients, Stages
<1>4. CASE ListenOperationsFails
  <2>1. serverErr' \in 0 .. Cardinality({s \in Used : serving[s] = "returned"})' /\ ServingFollows'
    BY <1>4, <1>q DEF ListenOperationsFails, Starting
  <2> QED BY <1>4, <1>s, <2>1 DEF ListenOperationsFails, TypeInv, TypeOK, clients, Stages
<1>5. CASE StartServing
  <2>1. \A s \in Servers : serving[s] = "none" /\ serving'[s] = IF s \in Used THEN "started" ELSE "none"
    BY <1>5 DEF StartServing, ServingFollows, Starting
  <2>2. {s \in Used : serving[s] = "returned"} = {} /\ {s \in Used : serving[s] = "returned"}' = {}
    BY <1>5, <1>s, <2>1 DEF StartServing
  <2>3. serverErr' \in 0 .. Cardinality({s \in Used : serving[s] = "returned"})'
    BY <1>5, <1>t, <2>2 DEF StartServing
  <2>4. ServingFollows'
    BY <1>5, <1>s, <2>1 DEF StartServing, ServingFollows, Starting
  <2> QED BY <1>5, <2>3, <2>4 DEF StartServing, TypeInv, TypeOK, clients, Stages
<1>6. CASE Signal \/ StopOnSignal \/ QuitTui \/ Expire \/ CloseLimiter \/ FlushTelemetry
  <2>1. mode' = mode /\ UNCHANGED servers /\ (~Starting' \/ main' = main)
    BY <1>6 DEF Signal, StopOnSignal, QuitTui, Expire, CloseLimiter, FlushTelemetry,
                ToShutdown, Starting
  <2>2. mode' = mode /\ serving' = serving /\ serverErr' = serverErr
    BY <1>6 DEF Signal, StopOnSignal, QuitTui, Expire, CloseLimiter, FlushTelemetry, servers
  <2>3. serverErr' \in 0 .. Cardinality({s \in Used : serving[s] = "returned"})' /\ ServingFollows'
    BY <1>q, <2>1, <2>2 DEF Starting
  <2> QED BY <1>6, <2>3
          DEF Signal, StopOnSignal, QuitTui, Expire, CloseLimiter, FlushTelemetry, ToShutdown,
              TypeInv, TypeOK, servers, clients, Stages
<1>7. CASE StopOnServerError
  <2>1. {s \in Used : serving[s] = "returned"}' = {s \in Used : serving[s] = "returned"}
    BY <1>7, <1>s DEF StopOnServerError
  <2>2. serverErr' \in 0 .. Cardinality({s \in Used : serving[s] = "returned"})'
    <3> DEFINE n == Cardinality({s \in Used : serving[s] = "returned"})
    <3>1. n \in Nat /\ serverErr' \in 0 .. n
      BY <1>7, TypeParts DEF StopOnServerError, Returned
    <3>2. Cardinality({s \in Used : serving[s] = "returned"})' = n
      BY <2>1
    <3> HIDE DEF n
    <3> QED BY <3>1, <3>2
  <2>3. ServingFollows'
    BY <1>7, <1>s DEF StopOnServerError, ToShutdown, ServingFollows, Starting
  <2> QED BY <1>7, <2>2, <2>3
          DEF StopOnServerError, ToShutdown, TypeInv, TypeOK, clients, Stages
<1>8. ASSUME NEW s \in Servers, NEW from, NEW to \in Stages, Shutdown(s, from, to),
             to \notin {"listen", "listenOperations", "compose"}
      PROVE  TypeInv'
  <2>1. serverErr' \in 0 .. Cardinality({t \in Used : serving[t] = "returned"})' /\ ServingFollows'
    BY <1>8, <1>q DEF Shutdown, Starting
  <2> QED BY <1>8, <2>1 DEF Shutdown, TypeInv, TypeOK, clients
<1>9. ASSUME NEW s \in Servers, NEW from, NEW to \in Stages, Drained(s, from, to),
             to \notin {"listen", "listenOperations", "compose"}
      PROVE  TypeInv'
  <2>1. serverErr' \in 0 .. Cardinality({t \in Used : serving[t] = "returned"})' /\ ServingFollows'
    BY <1>9, <1>q DEF Drained, Starting, servers
  <2> QED BY <1>9, <2>1 DEF Drained, TypeInv, TypeOK, servers, clients
<1>10. ASSUME NEW s \in Servers, Serve(s) \/ ServeReturns(s) PROVE TypeInv'
  <2>1. s \in Used /\ mode' = mode /\ main' = main
    BY <1>10 DEF Serve, ServeReturns, ServingFollows
  <2>2. serverErr' \in 0 .. Cardinality({t \in Used : serving[t] = "returned"})'
    <3>1. CASE serving' = [serving EXCEPT ![s] = "accepting"] /\ serverErr' = serverErr
      <4>1. {t \in Used : serving[t] = "returned"}' = {t \in Used : serving[t] = "returned"}
        BY <1>10, <1>s, <2>1, <3>1, TypeParts DEF Serve, ServeReturns
      <4> QED BY <1>t, <3>1, <4>1
    <3>2. CASE serving' = [serving EXCEPT ![s] = "returned"] /\ serverErr' = serverErr + 1
      BY <1>10, <2>1, <3>2, OneMoreReturned DEF Serve, ServeReturns
    <3> QED BY <1>10, <3>1, <3>2 DEF Serve, ServeReturns
  <2>3. ServingFollows'
    BY <1>10, <1>s, <2>1, TypeParts DEF Serve, ServeReturns, ServingFollows, Starting
  <2> QED BY <1>10, <2>2, <2>3 DEF Serve, ServeReturns, TypeInv, TypeOK, clients
<1>11. ASSUME NEW r \in Requests, Handle(r) PROVE TypeInv'
  <2>1. serverErr' \in 0 .. Cardinality({s \in Used : serving[s] = "returned"})' /\ ServingFollows'
    BY <1>11, <1>q, HandleType DEF Starting, servers
  <2> QED BY <1>11, <2>1, HandleType DEF TypeInv, TypeOK, servers
<1>12. CASE UNCHANGED vars
  <2>1. serverErr' \in 0 .. Cardinality({s \in Used : serving[s] = "returned"})' /\ ServingFollows'
    BY <1>12, <1>q DEF vars, Starting
  <2> QED BY <1>12, <2>1 DEF vars, TypeInv, TypeOK
<1> QED BY <1>1, <1>2, <1>3, <1>4, <1>5, <1>6, <1>7, <1>8, <1>9, <1>10, <1>11, <1>12, <1>s
        DEF Next, Startup, Stop, Stopping, ShutdownOperations, OperationsDrained,
            ShutdownApplication, ApplicationDrained, Stages

\* The process's variables keep their types, and serverErr never holds more values
\* than servers have returned (main.go:139-175).
THEOREM LifecycleTypes == Spec => []TypeOK
<1>1. TypeInv => TypeOK
  BY DEF TypeInv
<1> QED BY <1>1, TypeInit, TypeStep, PTL DEF Spec

-----------------------------------------------------------------------------
(* Isolation: with an operations listener nothing serves and no request is *)
(* under way before the application's handler was wrapped, and only proxy  *)
(* requests of the application listener get past its handler.              *)

IsolatedFirst ==
  mode.operations /\ ~isolated =>
    /\ main \in {"listen", "listenOperations", "closeLimiter", "flushTelemetry", "exit"}
    /\ \A s \in Servers : serving[s] = "none"
    /\ \A r \in Requests : request[r].stage = "idle"

ProxiesAreApplication ==
  \A r \in Requests :
    request[r].stage \in {"limiting", "proxying"} =>
      request[r].on = "application" /\ request[r].kind = "proxy"

IsolationInv == IsolatedFirst /\ ProxiesAreApplication /\ Isolation

\* What a step of request r does to the requests.
LEMMA RequestAfter ==
  ASSUME TypeOK, NEW r \in Requests, NEW c, request' = [request EXCEPT ![r] = c]
  PROVE  \A q \in Requests : request'[q] = IF q = r THEN c ELSE request[q]
BY TypeParts

\* No listener opens before isolation, and no step takes a request to the wrong handler.
LEMMA IsolationStep == TypeOK /\ IsolationInv /\ [Next]_vars => IsolationInv'
<1> SUFFICES ASSUME TypeOK, IsolationInv, [Next]_vars PROVE IsolationInv'
  OBVIOUS
<1>0. TypeOK /\ IsolatedFirst /\ ProxiesAreApplication /\ Isolation
  BY DEF IsolationInv
\* Steps of the process leave the requests alone.
<1>q. ASSUME mode' = mode, UNCHANGED clients, IsolatedFirst' PROVE IsolationInv'
  BY <1>0, <1>q DEF clients, IsolationInv, ProxiesAreApplication, Isolation
<1>1. CASE Startup
  <2>1. mode' = mode /\ UNCHANGED clients
    BY <1>1 DEF Startup, ListenApplication, ListenApplicationFails, ListenOperations,
                ListenOperationsFails, StartServing
  <2>2. IsolatedFirst'
    BY <1>0, <1>1
       DEF Startup, ListenApplication, ListenApplicationFails, ListenOperations,
           ListenOperationsFails, StartServing, clients, IsolatedFirst
  <2> QED BY <1>q, <2>1, <2>2
<1>2. CASE Stop \/ Signal \/ Expire \/ Stopping
  <2>1. mode' = mode /\ isolated' = isolated /\ serving' = serving /\ UNCHANGED clients
    BY <1>2 DEF Stop, StopOnSignal, StopOnServerError, QuitTui, Signal, Expire, Stopping,
                ShutdownOperations, OperationsDrained, ShutdownApplication, ApplicationDrained,
                Shutdown, Drained, CloseLimiter, FlushTelemetry, servers
  <2>2. \/ main' = main
        \/ main \notin {"listen", "listenOperations", "closeLimiter", "flushTelemetry", "exit"}
        \/ main' \in {"closeLimiter", "flushTelemetry", "exit"}
    BY <1>2 DEF Stop, StopOnSignal, StopOnServerError, QuitTui, Signal, Expire, Stopping,
                ShutdownOperations, OperationsDrained, ShutdownApplication, ApplicationDrained,
                Shutdown, Drained, CloseLimiter, FlushTelemetry
  <2>3. IsolatedFirst'
    BY <1>0, <2>1, <2>2 DEF IsolatedFirst, clients
  <2> QED BY <1>q, <2>1, <2>3
<1>3. ASSUME NEW s \in Servers, Serve(s) \/ ServeReturns(s) PROVE IsolationInv'
  <2>1. serving[s] # "none" /\ mode' = mode /\ isolated' = isolated /\ UNCHANGED clients
    BY <1>3 DEF Serve, ServeReturns
  <2>2. IsolatedFirst'
    BY <1>0, <2>1 DEF IsolatedFirst
  <2> QED BY <1>q, <2>1, <2>2
<1>4. ASSUME NEW r \in Requests, Handle(r) PROVE IsolationInv'
  <2>0. request[r] \in Calls /\ mode' = mode /\ main' = main /\ serving' = serving /\ isolated' = isolated
    BY <1>4, HandleType, TypeParts DEF servers
  <2>1. ASSUME NEW s \in Servers, NEW k \in Kinds, Accept(r, s, k) PROVE IsolationInv'
    <3> DEFINE c == [stage |-> "accepted", on |-> s, kind |-> k]
    <3>1. c.stage = "accepted" /\ request' = [request EXCEPT ![r] = c] /\ answered' = answered
      BY <2>1 DEF Accept
    <3>2. serving[s] # "none"
      BY <2>1 DEF Accept
    <3> HIDE DEF c
    <3> QED BY <1>0, <2>0, <3>1, <3>2, RequestAfter
            DEF IsolationInv, IsolatedFirst, ProxiesAreApplication, Isolation
  \* A request that is answered is idle again.
  <2>2. ASSUME NEW how, Answer(r, how), request[r].stage # "idle",
               mode.operations /\ how = "served" =>
                 (request[r].on = "application" <=> request[r].kind = "proxy")
        PROVE  IsolationInv'
    <3> DEFINE new == [on |-> request[r].on, kind |-> request[r].kind, how |-> how]
    <3>1. request' = [request EXCEPT ![r] = Idle] /\ answered' = answered \union {new}
      BY <2>2 DEF Answer
    <3>2. Idle.stage = "idle"
      BY DEF Idle
    <3>3. IsolatedFirst' /\ ProxiesAreApplication'
      BY <1>0, <2>0, <3>1, <3>2, RequestAfter DEF IsolatedFirst, ProxiesAreApplication
    <3>4. mode.operations =>
            /\ new # [on |-> "application", kind |-> "operational", how |-> "served"]
            /\ new # [on |-> "operations", kind |-> "proxy", how |-> "served"]
      BY <2>2
    <3> HIDE DEF new
    <3>5. Isolation'
      BY <1>0, <2>0, <3>1, <3>4 DEF Isolation
    <3> QED BY <3>3, <3>5 DEF IsolationInv
  <2>3. ASSUME NEW stage, Moves(r, stage), request[r].stage # "idle",
               stage \in {"limiting", "proxying"},
               request[r].on = "application" /\ request[r].kind = "proxy"
        PROVE  IsolationInv'
    <3> DEFINE c == [request[r] EXCEPT !.stage = stage]
    <3>1. request' = [request EXCEPT ![r] = c] /\ answered' = answered
      BY <2>3, TypeParts DEF Moves
    <3>2. c.stage = stage /\ c.on = request[r].on /\ c.kind = request[r].kind
      BY <2>0 DEF Calls
    <3> HIDE DEF c
    <3> QED BY <1>0, <2>0, <2>3, <3>1, <3>2, RequestAfter
            DEF IsolationInv, IsolatedFirst, ProxiesAreApplication, Isolation
  <2>4. CASE NotFound(r) \/ LimiterError(r)
    BY <2>2, <2>4 DEF NotFound, LimiterError, At
  <2>5. CASE ServeOperational(r)
    <3>1. request[r].stage # "idle"
      BY <2>5 DEF ServeOperational, At
    <3>2. mode.operations => isolated
      BY <1>0, <3>1 DEF IsolatedFirst
    <3>3. Answer(r, "served") /\ request[r].kind = "operational"
          /\ (mode.operations => request[r].on = "operations")
      BY <2>5, <3>2 DEF ServeOperational
    <3> QED BY <2>2, <3>1, <3>3
  <2>6. CASE ToLimiter(r)
    BY <2>3, <2>6 DEF ToLimiter, At
  <2>7. CASE LimiterPasses(r)
    BY <1>0, <2>3, <2>7 DEF LimiterPasses, At, ProxiesAreApplication
  <2>8. CASE ProxyAnswers(r)
    BY <1>0, <2>2, <2>8 DEF ProxyAnswers, At, ProxiesAreApplication
  <2> QED BY <1>4, <2>1, <2>4, <2>5, <2>6, <2>7, <2>8 DEF Handle
<1>5. CASE UNCHANGED vars
  BY <1>0, <1>5 DEF vars, IsolationInv, IsolatedFirst, ProxiesAreApplication, Isolation
<1> QED BY <1>1, <1>2, <1>3, <1>4, <1>5 DEF Next

\* With an operations listener, operational paths are never served on the application
\* listener and the operations listener never proxies, from the first instant on.
THEOREM IsolationHolds == Spec => []Isolation
<1>1. Init => IsolationInv
  BY DEF Init, Idle, IsolationInv, IsolatedFirst, ProxiesAreApplication, Isolation
<1>2. IsolationInv => Isolation
  BY DEF IsolationInv
<1> QED BY <1>1, <1>2, LifecycleTypes, IsolationStep, PTL DEF Spec

-----------------------------------------------------------------------------
(* The limiter: a server that is shut down accepts no more, so that what   *)
(* its drain saw stays true until the limiter is closed.                   *)

\* Nothing is under way on s, and nothing will be.
Quiet(s) ==
  /\ Busy(s) = {}
  /\ serving[s] # "accepting"
  /\ stopping[s] \/ (serving[s] = "none" /\ ~Starting)

DrainedInTurn ==
  /\ Starting => \A s \in Servers : Busy(s) = {}
  /\ ~mode.operations => Busy("operations") = {}
  /\ main = "drainOperations" => stopping["operations"]
  /\ main = "drainApplication" => stopping["application"]
  /\ main \in {"stopApplication", "drainApplication"} => expired \/ Quiet("operations")
  /\ main \in {"closeLimiter", "flushTelemetry", "exit"} => expired \/ \A s \in Servers : Quiet(s)
  /\ limiter = "closed" => main \in {"flushTelemetry", "exit"}

\* A handler's step makes no server busier that has stopped accepting.
LEMMA BusyAfter ==
  ASSUME TypeOK, NEW r \in Requests, Handle(r)
  PROVE  \A s \in Servers : serving[s] = "accepting" \/ Busy(s)' \subseteq Busy(s)
<1>0. request[r] \in Calls /\ Idle.stage = "idle"
  BY TypeParts DEF Idle
<1>1. ASSUME NEW s \in Servers, NEW k, Accept(r, s, k)
      PROVE  \A t \in Servers : serving[t] = "accepting" \/ Busy(t)' \subseteq Busy(t)
  <2> DEFINE c == [stage |-> "accepted", on |-> s, kind |-> k]
  <2>1. c.on = s /\ request' = [request EXCEPT ![r] = c] /\ serving[s] = "accepting"
    BY <1>1 DEF Accept
  <2> HIDE DEF c
  <2> QED BY <2>1, RequestAfter DEF Busy
<1>2. ASSUME request' = [request EXCEPT ![r] = Idle]
      PROVE  \A t \in Servers : serving[t] = "accepting" \/ Busy(t)' \subseteq Busy(t)
  BY <1>0, <1>2, RequestAfter DEF Busy
<1>3. ASSUME NEW stage, Moves(r, stage), request[r].stage # "idle"
      PROVE  \A t \in Servers : serving[t] = "accepting" \/ Busy(t)' \subseteq Busy(t)
  <2> DEFINE c == [request[r] EXCEPT !.stage = stage]
  <2>1. request' = [request EXCEPT ![r] = c] /\ c.on = request[r].on
    BY <1>0, <1>3, TypeParts DEF Moves, Calls
  <2> HIDE DEF c
  <2> QED BY <1>3, <2>1, RequestAfter DEF Busy
<1> QED BY <1>1, <1>2, <1>3
        DEF Handle, NotFound, ServeOperational, ToLimiter, LimiterError, LimiterPasses,
            ProxyAnswers, Answer, At

\* What has drained stays drained, since no shut-down server takes a new request.
LEMMA DrainedStep ==
  TypeOK /\ ServingFollows /\ DrainedInTurn /\ [Next]_vars => DrainedInTurn'
<1> SUFFICES ASSUME TypeOK, ServingFollows, DrainedInTurn, [Next]_vars PROVE DrainedInTurn'
  OBVIOUS
<1>0. /\ serving \in [Servers -> {"none", "started", "accepting", "returned"}]
      /\ stopping \in [Servers -> BOOLEAN]
      /\ "application" \in Servers /\ "operations" \in Servers
      /\ \A s \in Servers : s = "application" \/ s = "operations"
  BY TypeParts DEF Servers
<1>u. ~mode.operations => serving["operations"] = "none"
  BY <1>0 DEF ServingFollows, Used
<1>b. request' = request => \A s : Busy(s)' = Busy(s)
  BY DEF Busy
<1>1. CASE Startup
  <2>1. request' = request /\ mode' = mode /\ limiter' = limiter /\ Starting
    BY <1>1 DEF Startup, ListenApplication, ListenApplicationFails, ListenOperations,
                ListenOperationsFails, StartServing, Starting, clients
  <2>2. \/ main' = "closeLimiter" /\ serving' = serving
        \/ Starting' \/ main' = "waiting"
    BY <1>1 DEF Startup, ListenApplication, ListenApplicationFails, ListenOperations,
                ListenOperationsFails, StartServing, Starting
  <2>3. \A s \in Servers : Busy(s) = {} /\ serving[s] = "none"
    BY <2>1 DEF DrainedInTurn, ServingFollows
  <2>4. limiter # "closed"
    BY <2>1 DEF DrainedInTurn, Starting
  <2> QED BY <1>0, <1>b, <2>1, <2>2, <2>3, <2>4 DEF DrainedInTurn, Quiet, Starting
<1>2. CASE Stop \/ Signal
  <2>1. request' = request /\ mode' = mode /\ limiter' = limiter /\ serving' = serving
        /\ stopping' = stopping /\ expired' = expired /\ main = "waiting"
    BY <1>2 DEF Stop, StopOnSignal, StopOnServerError, QuitTui, Signal, servers, clients
  <2>2. main' \in {"waiting", "stopOperations"} \/ (main' = "stopApplication" /\ ~mode.operations)
    BY <1>2, <2>1 DEF Stop, StopOnSignal, StopOnServerError, QuitTui, Signal, ToShutdown
  <2>3. ~mode.operations => Quiet("operations")
    BY <1>u, <2>1 DEF DrainedInTurn, Quiet, Starting
  <2> QED BY <1>b, <2>1, <2>2, <2>3 DEF DrainedInTurn, Quiet, Starting
\* Shutdown stops one server, and takes its accepting away.
<1>3. ASSUME NEW s \in Servers, NEW from, NEW to, Shutdown(s, from, to), from # to
      PROVE  /\ request' = request /\ mode' = mode /\ limiter' = limiter /\ serving' = serving
             /\ expired' = expired /\ stopping'[s]
             /\ \A t \in Servers : stopping[t] => stopping'[t]
             /\ main = from /\ main' = to
  BY <1>0, <1>3 DEF Shutdown, clients
<1>4. CASE ShutdownOperations
  <2> USE DEF ShutdownOperations
  <2> QED BY <1>0, <1>3, <1>4, <1>b DEF DrainedInTurn, Starting
<1>5. CASE ShutdownApplication
  <2>1. Quiet("operations") => Quiet("operations")'
    BY <1>0, <1>3, <1>5, <1>b DEF ShutdownApplication, Quiet, Starting
  <2> QED BY <1>0, <1>3, <1>5, <1>b, <2>1 DEF ShutdownApplication, DrainedInTurn, Starting
<1>6. ASSUME NEW s \in Servers, NEW from, NEW to, Drained(s, from, to), stopping[s],
             to \notin {"listen", "listenOperations", "compose"}
      PROVE  /\ request' = request /\ mode' = mode /\ limiter' = limiter
             /\ expired' = expired /\ main = from /\ main' = to
             /\ expired \/ Quiet(s)'
             /\ \A t \in Servers : Quiet(t) => Quiet(t)'
  BY <1>0, <1>6, <1>b DEF Drained, servers, clients, Quiet, Starting
<1>7. CASE OperationsDrained
  <2>1. stopping["operations"]
    BY <1>7 DEF OperationsDrained, Drained, DrainedInTurn
  <2> QED BY <1>0, <1>6, <1>7, <1>b, <2>1 DEF OperationsDrained, DrainedInTurn, Starting
<1>8. CASE ApplicationDrained
  <2>1. stopping["application"] /\ (expired \/ Quiet("operations"))
    BY <1>8 DEF ApplicationDrained, Drained, DrainedInTurn
  <2> QED BY <1>0, <1>6, <1>8, <1>b, <2>1 DEF ApplicationDrained, DrainedInTurn, Starting
<1>9. CASE Expire \/ CloseLimiter \/ FlushTelemetry
  <2>1. request' = request /\ mode' = mode /\ serving' = serving /\ stopping' = stopping
        /\ (expired => expired') /\ ~Starting /\ ~Starting'
    BY <1>9 DEF Expire, CloseLimiter, FlushTelemetry, servers, clients, Starting
  <2>2. \A t : Quiet(t) => Quiet(t)'
    BY <1>b, <2>1 DEF Quiet
  <2> QED BY <1>9, <1>b, <2>1, <2>2 DEF Expire, CloseLimiter, FlushTelemetry, DrainedInTurn
<1>10. ASSUME NEW s \in Servers, Serve(s) \/ ServeReturns(s) PROVE DrainedInTurn'
  <2>1. request' = request /\ mode' = mode /\ limiter' = limiter /\ main' = main
        /\ expired' = expired /\ stopping' = stopping
    BY <1>10 DEF Serve, ServeReturns, clients
  <2>2. \A t \in Servers : Quiet(t) => Quiet(t)'
    BY <1>0, <1>10, <1>b, <2>1 DEF Serve, ServeReturns, Quiet, Starting
  <2> QED BY <1>0, <1>b, <2>1, <2>2 DEF DrainedInTurn, Starting
<1>11. ASSUME NEW r \in Requests, Handle(r) PROVE DrainedInTurn'
  <2>1. mode' = mode /\ limiter' = limiter /\ main' = main /\ expired' = expired
        /\ stopping' = stopping /\ serving' = serving
    BY <1>11, HandleType DEF servers
  <2>2. \A t \in Servers : serving[t] # "accepting" /\ Busy(t) = {} => Busy(t)' = {}
    BY <1>11, BusyAfter
  <2>3. \A t \in Servers : Quiet(t) => Quiet(t)'
    BY <2>1, <2>2 DEF Quiet, Starting
  <2>4. /\ Starting => \A s \in Servers : serving[s] # "accepting"
        /\ ~mode.operations => serving["operations"] # "accepting"
    BY <1>u DEF ServingFollows
  <2> QED BY <1>0, <2>1, <2>2, <2>3, <2>4 DEF DrainedInTurn, Starting
<1>12. CASE UNCHANGED vars
  BY <1>12, <1>b DEF vars, DrainedInTurn, Quiet, Starting
<1> QED BY <1>1, <1>2, <1>4, <1>5, <1>7, <1>8, <1>9, <1>10, <1>11, <1>12
        DEF Next, Stopping

\* Unless the shared deadline passes, the limiter outlives every request that was
\* accepted on either server.
THEOREM LimiterOutlivesRequestsHolds == Spec => []LimiterOutlivesRequests
<1>1. Init => DrainedInTurn
  BY DEF Init, Idle, DrainedInTurn, Busy, Starting
<1>2. DrainedInTurn => LimiterOutlivesRequests
  BY DEF DrainedInTurn, LimiterOutlivesRequests, Quiet
<1>3. TypeInv => TypeOK /\ ServingFollows
  BY DEF TypeInv
<1> QED BY <1>1, <1>2, <1>3, TypeInit, TypeStep, DrainedStep, PTL DEF Spec

-----------------------------------------------------------------------------
(* The first start.                                                        *)

\* Whatever the start does, the process it leads to behaves as Lifecycle says.
THEOREM StartPrecedesLife == StartSpec => Spec
<1>1. StartInit => Init
  BY DEF StartInit
<1>2. [StartNext]_startVars => [Next]_vars
  BY DEF StartNext, startVars, Lives, Before, Stat, Ask, Type, Backspace, Tab, ShiftTab,
         EnterNext, EnterLast, Cancel, Interrupt, Returns, Cancelled, WriteConfig, WriteFails,
         Load, LoadFails, StartAgain
<1> QED BY <1>1, <1>2, PTL DEF StartSpec, Spec

WizardTypes ==
  /\ file \in Files
  /\ start \in Starts
  /\ fields \subseteq Fields /\ special \subseteq fields
  /\ field \in Fields

\* EnterLast accepts only a complete form, and nothing edits it after that.
SubmittedIsComplete == start = "submitted" => fields = Fields

\* Only a complete form is ever submitted.
LEMMA WizardStep ==
  WizardTypes /\ SubmittedIsComplete /\ [StartNext]_startVars
    => WizardTypes' /\ SubmittedIsComplete'
<1> SUFFICES ASSUME WizardTypes, SubmittedIsComplete, [StartNext]_startVars
             PROVE  WizardTypes' /\ SubmittedIsComplete'
  OBVIOUS
<1> USE DEF WizardTypes, SubmittedIsComplete, Starts, Ended
<1>0. Fields = {0, 1, 2, 3} /\ Prefilled \subseteq Fields /\ APIKey \in Fields /\ ClientName = 3
  BY DEF Fields, Prefilled, APIKey, Token, Listen, ClientName
<1>1. CASE Ask
  <2>1. CASE Type \/ Backspace
    BY <1>0, <2>1 DEF Type, Backspace
  <2>2. CASE Tab \/ ShiftTab \/ EnterNext
    <3>1. /\ field \in 0..3
          /\ (field < 3 /\ field' = field + 1) \/ (field > 0 /\ field' = field - 1)
          => field' \in 0..3
      OBVIOUS
    <3>2. field \in 0..3 /\ Fields = 0..3
      BY DEF Fields
    <3>3. (field < 3 /\ field' = field + 1) \/ (field > 0 /\ field' = field - 1)
      BY <1>0, <2>2 DEF Tab, ShiftTab, EnterNext, APIKey
    <3>4. field' \in Fields
      BY <3>1, <3>2, <3>3
    <3>5. start = "asking" /\ UNCHANGED <<file, start, fields, special>>
      BY <2>2 DEF Tab, ShiftTab, EnterNext
    <3> QED BY <3>4, <3>5
  <2>3. CASE EnterLast \/ Cancel \/ Interrupt
    BY <2>3 DEF EnterLast, Cancel, Interrupt, wizard
  <2> QED BY <1>1, <2>1, <2>2, <2>3 DEF Ask
<1>2. CASE Stat \/ Load \/ LoadFails \/ StartAgain
  BY <1>2 DEF Stat, Load, LoadFails, StartAgain, wizard
<1>3. CASE Cancelled
  BY <1>0, <1>3 DEF Cancelled, Returns
<1>4. Written \subseteq Files
  <2>1. fields \union {Token} \in SUBSET Fields
    BY <1>0 DEF Token
  <2>2. Garbled \in Files
    BY DEF Garbled, Files
  <2>3. [there : {TRUE}, holds : {fields \union {Token}}, altered : {FALSE}] \subseteq Files
    BY <2>1 DEF Files
  <2> DEFINE Kept == {(fields \union {Token}) \ lost : lost \in SUBSET (special \ {Token})}
  <2>4. Kept \subseteq SUBSET Fields
    BY <2>1
  <2>5. Written \subseteq [there : {TRUE}, holds : {fields \union {Token}}, altered : {FALSE}]
                          \union [there : {TRUE}, holds : Kept, altered : {TRUE}]
                          \union {Garbled}
    <3> HIDE DEF Kept
    <3>1. Written = IF special = {}
                    THEN [there : {TRUE}, holds : {fields \union {Token}}, altered : {FALSE}]
                    ELSE [there : {TRUE}, holds : Kept, altered : {TRUE}] \union {Garbled}
      BY DEF Written, Kept
    <3> QED BY <3>1
  <2> HIDE DEF Kept
  <2>6. [there : {TRUE}, holds : Kept, altered : {TRUE}] \subseteq Files
    BY <2>4 DEF Files
  <2> QED BY <2>2, <2>3, <2>5, <2>6
<1>5. CASE WriteConfig
  BY <1>0, <1>4, <1>5 DEF WriteConfig, Returns
<1>6. CASE WriteFails
  <2>1. Missing \in Files
    BY DEF Missing, Files
  <2>2. ASSUME NEW whole \in Files, NEW part \in SUBSET whole.holds
        PROVE  [whole EXCEPT !.holds = part] \in Files
    BY <2>2 DEF Files
  <2>3. file' \in Files
    BY <1>4, <1>6, <2>1, <2>2 DEF WriteFails
  <2> QED BY <1>0, <1>6, <2>3 DEF WriteFails, Returns
<1>7. CASE Lives(Next) \/ UNCHANGED startVars
  BY <1>7 DEF Lives, startVars, setup, wizard
<1> QED BY <1>1, <1>2, <1>3, <1>5, <1>6, <1>7 DEF StartNext, Before

\* Nothing is submitted before the wizard runs.
LEMMA WizardInit == StartInit => WizardTypes /\ SubmittedIsComplete
<1>1. Missing \in Files /\ AsTyped \in Files
  BY DEF Missing, AsTyped, Files
<1> QED BY <1>1 DEF StartInit, WizardTypes, SubmittedIsComplete, Fields, Prefilled, APIKey,
                    Token, Listen, ClientName, Starts

\* The wizard, the file and the process keep their types.
THEOREM StartTypes == StartSpec => []StartTypeOK
<1>1. TypeOK /\ WizardTypes => StartTypeOK
  BY DEF StartTypeOK, WizardTypes
<1> QED BY <1>1, StartPrecedesLife, LifecycleTypes, WizardInit, WizardStep, PTL DEF StartSpec

\* GemGate goes on from a submission only with every field filled, however often Tab
\* went past a blank one, and with what was typed in each unless a field is special;
\* what the operator cancels is not saved.
THEOREM SavesWhatWasSubmittedHolds == StartSpec => SavesWhatWasSubmitted
<1> DEFINE Kept ==
      /\ start # "cancelled"
      /\ start = "submitted" /\ start' = "loading" =>
           fields = Fields /\ (special = {} => file' = AsTyped)
<1>1. WizardTypes /\ SubmittedIsComplete /\ [StartNext]_startVars =>
        [file' # file => Kept]_startVars
  <2> SUFFICES ASSUME WizardTypes, SubmittedIsComplete, StartNext, file' # file
               PROVE  Kept
    OBVIOUS
  <2>1. CASE WriteConfig
    <3>1. ASSUME start = "submitted", special = {} PROVE file' = AsTyped
      <4>1. fields \union {Token} = Fields
        BY <3>1 DEF SubmittedIsComplete, Fields, Token
      <4>2. file' \in [there : {TRUE}, holds : {Fields}, altered : {FALSE}]
        BY <2>1, <3>1, <4>1 DEF WriteConfig, Written
      <4> QED BY <4>2 DEF AsTyped
    <3> QED BY <2>1, <3>1 DEF WriteConfig, SubmittedIsComplete
  <2>2. CASE WriteFails
    BY <2>2 DEF WriteFails, Returns
  <2>3. WriteConfig \/ WriteFails
    BY DEF StartNext, Before, Stat, Ask, Type, Backspace, Tab, ShiftTab, EnterNext, EnterLast,
           Cancel, Interrupt, Cancelled, Load, LoadFails, StartAgain, Lives, setup
  <2> QED BY <2>1, <2>2, <2>3
<1>2. SavesWhatWasSubmitted <=> [][file' # file => Kept]_startVars
  BY DEF SavesWhatWasSubmitted
<1> HIDE DEF Kept
<1> QED BY <1>1, <1>2, WizardInit, WizardStep, PTL DEF StartSpec

-----------------------------------------------------------------------------
(* The configuration watcher.                                              *)

(***************************************************************************)
(* The files the watcher has read so far all held a secret: what is still  *)
(* missing from a candidate is what it has not read yet.  Together with    *)
(* Valid, which is checked on the candidate and not on the disk, this      *)
(* makes ServesValid inductive.  ServesWhatRuns is handed on from snapshot *)
(* to snapshot: a candidate that agrees with the active one agrees, by     *)
(* induction over the reloads so far, with the process.                    *)
(***************************************************************************)
CandidateRead ==
  watcher.stage = "reading" =>
    /\ watcher.next \in 1 .. (Operations + 1)
    /\ watcher.files.config.sound
    /\ \A slot \in Slots :
         slot < watcher.next /\ Read(watcher.files, slot)
           => watcher.files.secrets[slot] # NoSecret

Served == Readable(active) /\ Valid(active) /\ ServesWhatRuns

WatcherInv == WatchTypeOK /\ CandidateRead /\ Served

\* Operations is a slot of its own beside the clients'.
LEMMA SlotFacts ==
  /\ Operations \in Nat \ {0} /\ Operations \notin Clients
  /\ Clients \subseteq Slots /\ Operations \in Slots /\ Slots \subseteq Nat
BY NumClientsAssumption DEF Operations, Clients, Slots

\* A configuration file that is not broken has the fields of one.
LEMMA SoundFields ==
  ASSUME NEW files \in Contents, files.config.sound
  PROVE  files.config \in Sound
<1>1. files.config \in Sound \union {Broken}
  BY DEF Contents, Configs
<1>2. Broken.sound = FALSE
  BY DEF Broken
<1> QED BY <1>1, <1>2

\* Loading files that rest reads what it needs and keeps the rest.
LEMMA LoadedKeeps ==
  ASSUME NEW files \in Contents, Readable(files), Valid(files)
  PROVE  /\ Loaded(files) \in Contents
         /\ Loaded(files).config = files.config
         /\ Readable(Loaded(files)) /\ Valid(Loaded(files))
<1>1. /\ files.config \in Configs
      /\ files.secrets \in [Slots -> Secrets \union {NoSecret}]
      /\ files = [config |-> files.config, secrets |-> files.secrets]
  BY DEF Contents
<1> DEFINE s == [files.secrets EXCEPT ![Operations] =
                   IF files.config.dedicated THEN @ ELSE NoSecret]
<1>2. Loaded(files) = [config |-> files.config, secrets |-> s]
  BY <1>1 DEF Loaded
<1>3. s \in [Slots -> Secrets \union {NoSecret}]
  BY <1>1, SlotFacts
<1>4. \A slot \in Slots : Read(files, slot) => s[slot] = files.secrets[slot]
  BY <1>1, SlotFacts DEF Read
<1>5. \A c \in files.config.enabled : c \in Slots /\ Read(files, c)
  <2>1. files.config \in Sound
    BY SoundFields DEF Readable
  <2> QED BY <2>1, SlotFacts DEF Sound, Read
<1> HIDE DEF s
<1>6. Loaded(files) \in Contents /\ Loaded(files).config = files.config
  BY <1>1, <1>2, <1>3 DEF Contents
<1>7. Loaded(files).secrets = s
  BY <1>2
<1>8. Readable(Loaded(files))
  BY <1>4, <1>6, <1>7 DEF Readable, Read
<1>9. Valid(Loaded(files))
  BY <1>4, <1>5, <1>6, <1>7, SlotFacts DEF Valid, Read
<1> QED BY <1>6, <1>8, <1>9

\* The process starts from files that were valid.
LEMMA WatcherInit == WatchInit => WatcherInv
<1> SUFFICES ASSUME WatchInit PROVE WatcherInv
  OBVIOUS
<1>1. disk \in Contents /\ Readable(disk) /\ Valid(disk)
  BY DEF WatchInit
<1>2. WatchTypeOK
  <2>1. disk.config \in Sound
    BY <1>1, SoundFields DEF Readable
  <2> QED BY <1>1, <2>1, LoadedKeeps DEF WatchInit, WatchTypeOK, Sound, Candidates, Waiting
<1>3. CandidateRead
  BY DEF WatchInit, CandidateRead, Waiting
<1>4. Served
  BY <1>1, LoadedKeeps DEF WatchInit, Served, ServesWhatRuns
<1> QED BY <1>2, <1>3, <1>4 DEF WatcherInv

\* A complete candidate has every secret it needs.
LEMMA CompleteIsReadable ==
  ASSUME WatchTypeOK, CandidateRead, HasRead
  PROVE  watcher.files \in Contents /\ Readable(watcher.files)
<1>1. watcher.files \in Contents
  BY DEF WatchTypeOK, Candidates, HasRead, Waiting
<1>2. \A slot \in Slots : slot < watcher.next
  BY SlotFacts DEF CandidateRead, HasRead, Slots
<1> QED BY <1>1, <1>2 DEF CandidateRead, HasRead, Readable

\* Every write, poll and reload leaves the process with a configuration that was valid
\* when it was read.
LEMMA WatcherStep == WatcherInv /\ [WatchNext]_watchVars => WatcherInv'
<1> SUFFICES ASSUME WatcherInv, [WatchNext]_watchVars PROVE WatcherInv'
  OBVIOUS
<1> USE DEF WatcherInv
<1>1. CASE EditConfig
  <2>1. WatchTypeOK'
    BY <1>1 DEF EditConfig, WatchTypeOK, Contents
  <2> QED BY <1>1, <2>1
             DEF EditConfig, CandidateRead, Served, Readable, Read, Valid, ServesWhatRuns
<1>2. CASE EditSecret
  <2>1. WatchTypeOK'
    BY <1>2 DEF EditSecret, WatchTypeOK, Contents
  <2> QED BY <1>2, <2>1
             DEF EditSecret, CandidateRead, Served, Readable, Read, Valid, ServesWhatRuns
<1>3. CASE ReadConfig
  <2>1. watcher' = Waiting \/
        /\ disk.config.sound
        /\ watcher' = [stage |-> "reading", next |-> 1,
                       files |-> [config  |-> disk.config,
                                  secrets |-> [slot \in Slots |-> NoSecret]]]
    BY <1>3 DEF ReadConfig, Watches
  <2>2. WatchTypeOK'
    BY <1>3, <2>1 DEF ReadConfig, Watches, WatchTypeOK, Candidates, Contents
  <2>3. CandidateRead'
    BY <2>1, SlotFacts DEF CandidateRead, Waiting, Slots
  <2>4. Served'
    BY <1>3 DEF ReadConfig, Watches, Served, ServesWhatRuns
  <2> QED BY <2>2, <2>3, <2>4
<1>4. CASE ReadSecret
  <2>1. /\ watcher.stage = "reading" /\ watcher.next \in Slots
        /\ watcher.files \in Contents /\ watcher.next \in Nat \ {0}
        /\ disk.secrets[watcher.next] \in Secrets \union {NoSecret}
        /\ disk.secrets[watcher.next] # NoSecret
    BY <1>4 DEF ReadSecret, WatchTypeOK, Candidates, Waiting, Contents
  <2> DEFINE n == watcher.next
             f == watcher.files
             s == [f.secrets EXCEPT ![n] = disk.secrets[n]]
  <2>2. watcher' = [stage |-> "reading", next |-> n + 1,
                    files |-> [config |-> f.config, secrets |-> s]]
    <3>1. watcher = [stage |-> "reading", next |-> n, files |-> f]
      BY <2>1 DEF WatchTypeOK, Candidates, Waiting
    <3>2. f = [config |-> f.config, secrets |-> f.secrets]
      BY <2>1 DEF Contents
    <3>3. watcher' = [watcher EXCEPT !.next = @ + 1, !.files.secrets[n] = disk.secrets[n]]
      BY <1>4 DEF ReadSecret, Watches
    <3> HIDE DEF n, f
    <3> QED BY <3>1, <3>2, <3>3
  <2>3. s \in [Slots -> Secrets \union {NoSecret}]
    BY <2>1 DEF Contents
  <2>4. WatchTypeOK'
    BY <1>4, <2>1, <2>2, <2>3 DEF ReadSecret, Watches, WatchTypeOK, Candidates, Contents
  <2>5. CandidateRead'
    <3>1. n + 1 \in 1 .. (Operations + 1)
      BY <2>1, SlotFacts DEF Slots
    <3>2. f.config.sound
      BY <2>1 DEF CandidateRead
    <3>3. ASSUME NEW slot \in Slots, slot < n + 1, Read(f, slot)
          PROVE  s[slot] # NoSecret
      <4>1. CASE slot = n
        BY <4>1, <2>1 DEF Contents
      <4>2. CASE slot # n
        <5>1. slot < n
          BY <4>2, <3>3, <2>1, SlotFacts
        <5> QED BY <5>1, <4>2, <3>3, <2>1 DEF CandidateRead, Contents
      <4> QED BY <4>1, <4>2
    <3> HIDE DEF s
    <3> QED BY <2>2, <3>1, <3>2, <3>3 DEF CandidateRead, Read
  <2>6. Served'
    BY <1>4 DEF ReadSecret, Watches, Served, ServesWhatRuns
  <2> QED BY <2>4, <2>5, <2>6
<1>5. CASE SkipSecret
  <2>1. /\ watcher.stage = "reading" /\ watcher.next \in Slots
        /\ watcher.files \in Contents /\ watcher.next \in Nat \ {0}
        /\ ~Read(watcher.files, watcher.next)
    BY <1>5 DEF SkipSecret, WatchTypeOK, Candidates, Waiting
  <2>2. watcher' = [stage |-> "reading", next |-> watcher.next + 1,
                    files |-> watcher.files]
    BY <1>5, <2>1 DEF SkipSecret, Watches, WatchTypeOK, Candidates, Waiting
  <2>3. WatchTypeOK'
    <3>1. watcher' \in Candidates
      BY <2>1, <2>2 DEF Candidates
    <3> QED BY <1>5, <3>1 DEF SkipSecret, Watches, WatchTypeOK
  <2>4. CandidateRead'
    <3>1. \A slot \in Slots : slot < watcher.next + 1 => slot < watcher.next \/ slot = watcher.next
      BY <2>1, SlotFacts
    <3>2. watcher.next + 1 \in 1 .. (Operations + 1)
      BY <2>1, SlotFacts DEF Slots
    <3> QED BY <2>1, <2>2, <3>1, <3>2 DEF CandidateRead, Read
  <2>5. Served'
    BY <1>5 DEF SkipSecret, Watches, Served, ServesWhatRuns
  <2> QED BY <2>3, <2>4, <2>5
<1>6. CASE FailSecret
  BY <1>6
     DEF FailSecret, Watches, WatchTypeOK, Candidates, CandidateRead, Waiting, Served,
         ServesWhatRuns
<1>7. CASE DropCandidate
  BY <1>7
     DEF DropCandidate, Watches, WatchTypeOK, Candidates, CandidateRead, Waiting, Served,
         ServesWhatRuns
<1>8. CASE SwapCandidate
  <2>1. /\ active' = watcher.files /\ watcher' = Waiting
        /\ UNCHANGED <<disk, edits, process>>
        /\ Valid(watcher.files) /\ Compatible(watcher.files)
    BY <1>8 DEF SwapCandidate, Watches
  <2>2. watcher.files \in Contents /\ Readable(watcher.files)
    BY <1>8, CompleteIsReadable DEF SwapCandidate
  <2>3. WatchTypeOK'
    BY <2>1, <2>2 DEF WatchTypeOK, Candidates, Waiting
  <2>4. CandidateRead'
    BY <2>1 DEF CandidateRead, Waiting
  <2>5. ServesWhatRuns'
    <3>1. /\ watcher.files.config \in Sound
          /\ active.config \in Sound
          /\ active.config.startup = process
      BY <2>2, SoundFields DEF WatchTypeOK, Served, ServesWhatRuns, Readable
    <3>2. /\ watcher.files.config.startup \in [Settings -> Values]
          /\ active.config.startup \in [Settings -> Values]
      BY <3>1, StartupsAssumption DEF Sound
    <3>3. \A s \in Settings : watcher.files.config.startup[s] = active.config.startup[s]
      BY <2>1 DEF Compatible
    <3>4. watcher.files.config.startup = active.config.startup
      BY <3>2, <3>3
    <3> QED BY <2>1, <3>1, <3>4 DEF ServesWhatRuns
  <2>6. Served'
    BY <2>1, <2>2, <2>5 DEF Served, Readable, Read, Valid
  <2> QED BY <2>3, <2>4, <2>6
<1>9. CASE UNCHANGED watchVars
  BY <1>9
     DEF watchVars, WatchTypeOK, CandidateRead, Served, Readable, Read, Valid, ServesWhatRuns
<1> QED BY <1>1, <1>2, <1>3, <1>4, <1>5, <1>6, <1>7, <1>8, <1>9
  DEF WatchNext, Edit, Watch

\* The invariant, as a reader of the served configuration sees it.
LEMMA ServedMeansServesValid == WatchTypeOK /\ Served => ServesValid /\ ServesWhatRuns
<1> SUFFICES ASSUME WatchTypeOK, Served PROVE ServesValid /\ ServesWhatRuns
  OBVIOUS
<1>1. active.config.enabled \subseteq Clients
  <2>1. active.config \in Sound
    BY SoundFields DEF WatchTypeOK, Served, Readable
  <2> QED BY <2>1 DEF Sound
<1> QED BY <1>1, SlotFacts
           DEF Served, ServesValid, ServesWhatRuns, Readable, Valid, ServesWhatRuns

\* What is served was read, validated and applied as a whole (config.go:344-410,
\* watcher.go).
THEOREM WatcherInvariance == WatchSpec => []WatcherInv
BY WatcherInit, WatcherStep, PTL DEF WatchSpec

\* Every variable of HotReload keeps its type.
THEOREM WatcherTypes == WatchSpec => []WatchTypeOK
BY WatcherInvariance, PTL DEF WatcherInv

\* Whatever mixture of revisions the watcher reads, only complete and valid
\* configurations are ever served (config.go:341-392, 482-508).
THEOREM ServesValidHolds == WatchSpec => []ServesValid
<1>1. WatcherInv => ServesValid
  BY ServedMeansServesValid DEF WatcherInv
<1> QED BY <1>1, WatcherInvariance, PTL

\* No sequence of edits, reloads and refusals takes what is served out of step with
\* what the process was built with, although each candidate is compared with the
\* snapshot before it only (runtime.go:121, 156-176).
THEOREM ServesWhatRunsHolds == WatchSpec => []ServesWhatRuns
<1>1. WatcherInv => ServesWhatRuns
  BY ServedMeansServesValid DEF WatcherInv
<1> QED BY <1>1, WatcherInvariance, PTL
=============================================================================
