----------------------------- MODULE Edge_proofs -----------------------------
(***************************************************************************)
(* Proofs about Edge, for any hosts, journeys, configurations, keys and    *)
(* any number of reloads.                                                  *)
(***************************************************************************)
EXTENDS Edge, FiniteSetTheorems, WellFoundedInduction, TLAPS

(***************************************************************************)
(* The exchange has its fields, and the request that travels was demanded  *)
(* by one of the journeys: it is the demand itself or what the browser     *)
(* asks first, and then the browser still knows for what.                  *)
(***************************************************************************)
IsExchange(e) ==
  e = [stage |-> e.stage, path |-> e.path, at |-> e.at, message |-> e.message,
       claims |-> e.claims, captured |-> e.captured, approvedBy |-> e.approvedBy,
       identity |-> e.identity, metered |-> e.metered, upstream |-> e.upstream,
       answer |-> e.answer]

IsApproval(a) == a = [demand |-> a.demand, by |-> a.by]

Underway ==
  /\ runtime \in Configurations
  /\ IsExchange(exchange) /\ IsApproval(approval)
  /\ exchange.stage \in {"idle", "travelling", "arrived", "admitted", "upstream", "answered"}
  /\ ~At("idle") =>
       /\ exchange.path \in Seq(Hosts) /\ exchange.claims \in Claims
       /\ exchange.at \in 1 .. Len(exchange.path)
  /\ At("arrived") \/ At("admitted") \/ At("upstream") \/ At("answered") =>
       Captured \in Configurations /\ exchange.at = Len(exchange.path)

Demanded ==
  ~At("idle") =>
    IF Preflight(Message)
    THEN Demand(approval.demand) /\ Message = PreflightOf(approval.demand)
    ELSE Demand(Message)

\* What honest hosts wrote about a request stands at the end of its claims.
HonestTail ==
  ~At("idle") =>
    LET path == exchange.path
        forwarded == exchange.claims.forwarded
    IN  \A first \in 1 .. exchange.at :
          (\A i \in (first + 1) .. exchange.at : path[i] \in Honest) =>
            /\ Len(forwarded) >= exchange.at - first
            /\ \A i \in first .. (exchange.at - 1) :
                 forwarded[Len(forwarded) - (exchange.at - 1) + i] = path[i]
            /\ (\E i \in (first + 1) .. exchange.at : path[i] \in Naming) =>
                 \E i \in first .. (exchange.at - 1) : exchange.claims.realIP = path[i]

\* What the gateway can send to a provider for the request that it serves.
Sendable ==
  {Request(Captured, n, c) : n \in ProvidersFor(Captured, Message.route),
                             c \in ClientsOf(Captured, Message.token)}

Resolved == exchange.identity = ResolveClientIP(Captured.trusted, Peer, exchange.claims)

\* One snapshot serves the request from its arrival on.
ServedByCaptured ==
  /\ At("idle") \/ At("travelling") =>
       /\ exchange.identity = Nothing /\ ~exchange.metered
       /\ exchange.upstream = Nothing /\ exchange.answer = Nothing
  /\ exchange.identity = Nothing \/ Resolved
  /\ At("arrived") => Resolved /\ ~exchange.metered /\ exchange.upstream = Nothing
  /\ At("admitted") => exchange.upstream = Nothing
  /\ At("admitted") \/ At("upstream") => Resolved /\ exchange.metered
  /\ exchange.metered =>
       /\ ~At("idle") /\ ~At("travelling")
       /\ ClientsOf(Captured, Message.token) # {}
       /\ Message.method # "OPTIONS" /\ Message.route \notin OperationalPaths
  /\ exchange.upstream # Nothing =>
       /\ exchange.metered /\ Resolved
       /\ BodyStatus(Message.body, Captured.limit) = "ok"
       /\ exchange.upstream \in Sendable

\* What an answer says is true of the snapshot that gave it.
AnswerExplained ==
  At("answered") =>
    LET answer == exchange.answer IN
    /\ answer.status = "413" => BodyStatus(Message.body, Captured.limit) = "413"
    /\ answer.status = "operations" =>
         \/ Public
         \/ Message.route \in OperationalPaths /\ Authorized(Captured, Message.token)
    /\ IF answer.from = "cors provider"
       THEN /\ answer.status = "200"
            /\ answer.grants.origins = Append(Grants(Captured.cors, Message).origins, AnyOrigin)
       ELSE answer.grants = Grants(Captured.cors, Message)

\* The browser's approval is one that its CORS check gave.
ApprovedReads ==
  /\ approval.by # NoSnapshot =>
       LET d == approval.demand IN
       Readable(Grants(approval.by.cors, d), d.origin, d.credentials)
  /\ exchange.approvedBy # NoSnapshot =>
       Readable(Grants(exchange.approvedBy.cors, Message), Message.origin, Message.credentials)

IInv ==
  Underway /\ Demanded /\ HonestTail /\ ServedByCaptured /\ AnswerExplained /\ ApprovedReads

-----------------------------------------------------------------------------
\* What a preflight takes over of the demand it is sent for.
LEMMA PreflightFields ==
  ASSUME NEW d, Demand(d)
  PROVE  /\ PreflightOf(d).method = "OPTIONS" /\ PreflightOf(d).asks = d.method
         /\ PreflightOf(d).origin = d.origin /\ PreflightOf(d).credentials = d.credentials
         /\ PreflightOf(d).body = [length |-> 0, arrives |-> 0, declared |-> TRUE]
BY DEF Demand, PreflightOf

\* What a client's message that is no preflight looks like.
LEMMA DemandFields ==
  ASSUME NEW d, Demand(d)
  PROVE  ~Preflight(d) /\ d.body.length \in 0 .. MaxInt
         /\ d.body.arrives \in 0 .. MaxInt /\ d.body.arrives <= d.body.length
BY DEF Demand, Preflight

\* Sending a message starts an exchange; no action of ServeHTTP touches what is on the way.
LEMMA Sent ==
  ASSUME IsApproval(approval), NEW j \in Journeys, SendRequest(j) \/ SendPreflight(j)
  PROVE  /\ IsExchange(exchange') /\ exchange'.stage = "travelling"
         /\ exchange'.path = j.path /\ exchange'.at = 1 /\ exchange'.claims = j.claims
         /\ exchange'.captured = NoSnapshot /\ exchange'.identity = Nothing
         /\ exchange'.metered = FALSE /\ exchange'.upstream = Nothing
         /\ exchange'.answer = Nothing /\ runtime' = runtime /\ IsApproval(approval')
<1>1. CASE SendRequest(j)
  BY <1>1 DEF SendRequest, Idle, IsExchange, IsApproval, NoApproval
<1>2. CASE SendPreflight(j)
  BY <1>2 DEF SendPreflight, Idle, IsExchange, IsApproval
<1> QED BY <1>1, <1>2

OnTheWay ==
  <<exchange.path, exchange.at, exchange.message, exchange.claims, exchange.approvedBy,
    approval, runtime>>

\* What each step makes of the exchange, and what it leaves alone: an answer of the
\* gateway's own,
LEMMA Answered ==
  ASSUME IsExchange(exchange), NEW status, Answers(status)
  PROVE  /\ IsExchange(exchange') /\ UNCHANGED OnTheWay
         /\ exchange'.stage = "answered" /\ exchange'.answer = Local(status)
         /\ exchange'.captured = exchange.captured /\ exchange'.identity = exchange.identity
         /\ exchange'.metered = exchange.metered /\ exchange'.upstream = exchange.upstream
BY DEF Answers, Goes, IsExchange, OnTheWay

\* What each action of ServeHTTP leaves of the exchange.
LEMMA Arrived ==
  ASSUME IsExchange(exchange), Arrive
  PROVE  /\ IsExchange(exchange') /\ UNCHANGED OnTheWay
         /\ exchange'.stage = "arrived" /\ exchange'.captured = runtime
         /\ exchange'.identity = ResolveClientIP(runtime.trusted, Peer, exchange.claims)
         /\ exchange'.metered = exchange.metered /\ exchange'.upstream = exchange.upstream
         /\ exchange'.answer = exchange.answer
BY DEF Arrive, Goes, IsExchange, OnTheWay

\* the answer to a preflight,
LEMMA PreflightAnswered ==
  ASSUME IsExchange(exchange), AnswerPreflight
  PROVE  /\ IsExchange(exchange') /\ UNCHANGED OnTheWay
         /\ exchange'.stage = "answered" /\ exchange'.captured = runtime
         /\ exchange'.identity = exchange.identity
         /\ exchange'.metered = exchange.metered /\ exchange'.upstream = exchange.upstream
         /\ exchange'.answer = [status |-> IF Approves(runtime.cors, Message) THEN "204" ELSE "403",
                                from |-> "gateway", grants |-> Grants(runtime.cors, Message)]
BY DEF AnswerPreflight, Goes, IsExchange, OnTheWay

\* an admission by the rate limiter,
LEMMA Charged ==
  ASSUME IsExchange(exchange), Charge
  PROVE  /\ IsExchange(exchange') /\ UNCHANGED OnTheWay
         /\ exchange'.stage = "admitted" /\ exchange'.captured = exchange.captured
         /\ exchange'.identity = exchange.identity
         /\ exchange'.metered = TRUE /\ exchange'.upstream = exchange.upstream
         /\ exchange'.answer = exchange.answer
BY DEF Charge, Goes, IsExchange, OnTheWay

\* a refusal by it,
LEMMA Refused ==
  ASSUME IsExchange(exchange), Refuse
  PROVE  /\ IsExchange(exchange') /\ UNCHANGED OnTheWay
         /\ exchange'.stage = "answered" /\ exchange'.captured = exchange.captured
         /\ exchange'.identity = exchange.identity
         /\ exchange'.metered = TRUE /\ exchange'.upstream = exchange.upstream
         /\ \E status \in {"429", "503"} : exchange'.answer = Local(status)
BY DEF Refuse, Goes, IsExchange, OnTheWay

\* the request to a provider,
LEMMA Forwarded ==
  ASSUME IsExchange(exchange), Forward
  PROVE  /\ IsExchange(exchange') /\ UNCHANGED OnTheWay
         /\ exchange'.stage = "upstream" /\ exchange'.captured = exchange.captured
         /\ exchange'.identity = exchange.identity
         /\ exchange'.metered = exchange.metered /\ exchange'.answer = exchange.answer
         /\ \E n \in ProvidersFor(Captured, Message.route), c \in ClientsOf(Captured, Message.token) :
              exchange'.upstream = Request(Captured, n, c)
BY DEF Forward, Goes, IsExchange, OnTheWay

\* the provider's response,
LEMMA Responded ==
  ASSUME IsExchange(exchange), Respond
  PROVE  /\ IsExchange(exchange') /\ UNCHANGED OnTheWay
         /\ exchange'.stage = "answered" /\ exchange'.captured = exchange.captured
         /\ exchange'.identity = exchange.identity
         /\ exchange'.metered = exchange.metered /\ exchange'.upstream = exchange.upstream
         /\ \E own \in {<<>>, <<AnyOrigin>>} :
              exchange'.answer =
                [status |-> "200", from |-> IF own = <<>> THEN "provider" ELSE "cors provider",
                 grants |-> [Grants(Captured.cors, Message) EXCEPT !.origins = @ \o own]]
BY DEF Respond, Goes, IsExchange, OnTheWay

\* and one hop of the journey before.
LEMMA RelayedOn ==
  ASSUME IsExchange(exchange), Relay
  PROVE  /\ IsExchange(exchange') /\ exchange'.at = exchange.at + 1
         /\ exchange'.claims \in IF exchange.path[exchange.at + 1] \in Honest
                                 THEN {Relayed(exchange.path[exchange.at + 1], exchange.path[exchange.at],
                                               exchange.claims)}
                                 ELSE ForgedClaims
         /\ runtime' = runtime /\ approval' = approval
         /\ exchange'.stage = "travelling" /\ exchange'.path = exchange.path
         /\ exchange'.message = exchange.message
         /\ exchange'.approvedBy = exchange.approvedBy /\ exchange'.captured = exchange.captured
         /\ exchange'.identity = exchange.identity
         /\ exchange'.metered = exchange.metered /\ exchange'.upstream = exchange.upstream
         /\ exchange'.answer = exchange.answer
BY DEF Relay, Goes, IsExchange, At

\* No action of ServeHTTP touches what is on the way.
LEMMA ServeKeeps ==
  ASSUME IsExchange(exchange), Serve
  PROVE  /\ IsExchange(exchange') /\ UNCHANGED OnTheWay
         /\ ~At("idle") /\ ~At("travelling")' /\ ~At("idle")'
         /\ At("travelling") =>
              exchange'.captured = runtime /\ exchange.at = Len(exchange.path)
         /\ ~At("travelling") => exchange'.captured = exchange.captured
         /\ exchange'.stage \in {"arrived", "admitted", "upstream", "answered"}
<1> USE DEF At
<1>1. CASE Arrive
  BY <1>1, Arrived DEF Arrive
<1>2. CASE AnswerPreflight
  BY <1>2, PreflightAnswered DEF AnswerPreflight
<1>3. CASE AnswerPublic
  BY <1>3, Answered DEF AnswerPublic
<1>4. CASE AnswerOptions
  BY <1>4, Answered DEF AnswerOptions
<1>5. CASE AnswerOperations
  <2>1. PICK status : Answers(status)
    BY <1>5 DEF AnswerOperations
  <2> QED BY <1>5, <2>1, Answered DEF AnswerOperations
<1>6. CASE RejectClient
  BY <1>6, Answered DEF RejectClient, ForApplication
<1>7. CASE Charge
  BY <1>7, Charged DEF Charge, ForApplication
<1>8. CASE Refuse
  BY <1>8, Refused DEF Refuse, ForApplication
<1>9. CASE RouteFails
  <2>1. PICK status : Answers(status)
    BY <1>9 DEF RouteFails
  <2> QED BY <1>9, <2>1, Answered DEF RouteFails
<1>10. CASE BodyFails
  BY <1>10, Answered DEF BodyFails
<1>11. CASE Forward
  BY <1>11, Forwarded DEF Forward
<1>12. CASE UpstreamFails
  BY <1>12, Answered DEF UpstreamFails
<1>13. CASE Respond
  BY <1>13, Responded DEF Respond
<1> QED BY <1>1, <1>2, <1>3, <1>4, <1>5, <1>6, <1>7, <1>8, <1>9, <1>10, <1>11, <1>12, <1>13
        DEF Serve

-----------------------------------------------------------------------------
\* The request on its way.
LEMMA RelayedClaims ==
  ASSUME NEW host, NEW caller \in Hosts, NEW claims \in Claims
  PROVE  LET relayed == Relayed(host, caller, claims)
             forwarded == claims.forwarded
         IN  /\ relayed \in Claims
             /\ relayed.realIP = IF host \in Naming THEN caller ELSE claims.realIP
             /\ Len(relayed.forwarded) = Len(forwarded) + 1
             /\ \A i \in 1 .. Len(forwarded) : relayed.forwarded[i] = forwarded[i]
             /\ relayed.forwarded[Len(forwarded) + 1] = caller
BY DEF Relayed, Claims

\* Honest or not, the next host makes claims.
LEMMA ClaimsOnTheWay ==
  ASSUME IsExchange(exchange), Relay, exchange.path[exchange.at] \in Hosts,
         exchange.claims \in Claims
  PROVE  exchange'.claims \in Claims
<1> DEFINE next == exchange.path[exchange.at + 1]
<1>1. CASE next \in Honest
  <2>1. exchange'.claims = Relayed(next, exchange.path[exchange.at], exchange.claims)
    BY <1>1, RelayedOn
  <2> HIDE DEF next
  <2>2. Relayed(next, exchange.path[exchange.at], exchange.claims) \in Claims
    BY RelayedClaims
  <2> QED BY <2>1, <2>2
<1>2. CASE next \notin Honest
  BY <1>2, RelayedOn, ForgedAssumption
<1> QED BY <1>1, <1>2

\* Nothing is under way at first.
LEMMA UnderwayInit == Init => Underway
BY DEF Init, Underway, Idle, IsExchange, At, Configurations, IsApproval, NoApproval

\* Every step takes the exchange to a stage that fits its fields.
LEMMA UnderwayStep == Underway /\ [Next]_vars => Underway'
<1> SUFFICES ASSUME Underway, [Next]_vars PROVE Underway'
  OBVIOUS
<1>0. IsExchange(exchange) /\ IsApproval(approval)
  BY DEF Underway
<1>1. CASE Reload
  BY <1>1 DEF Reload, Underway, At, Captured
<1>2. ASSUME NEW j \in Journeys, SendRequest(j) \/ SendPreflight(j)
      PROVE  Underway'
  <2>1. j.path \in Seq(Hosts) /\ j.path # <<>> /\ j.claims \in Claims
    BY JourneysAssumption
  <2>2. 1 \in 1 .. Len(j.path)
    BY <2>1
  <2> QED BY <1>0, <1>2, <2>1, <2>2, Sent DEF Underway, At
<1>3. CASE Relay
  <2>1. /\ exchange.path \in Seq(Hosts) /\ exchange.claims \in Claims
        /\ exchange.at \in 1 .. Len(exchange.path) /\ exchange.at < Len(exchange.path)
    BY <1>3 DEF Relay, Underway, At
  <2>2. exchange.path[exchange.at] \in Hosts /\ exchange.at + 1 \in 1 .. Len(exchange.path)
    BY <2>1
  <2>3. exchange'.claims \in Claims
    BY <1>0, <1>3, <2>1, <2>2, ClaimsOnTheWay
  <2> QED BY <1>0, <1>3, <2>1, <2>2, <2>3, RelayedOn DEF Underway, At, Relay
<1>4. CASE Serve
  <2>1. runtime' = runtime /\ exchange'.path = exchange.path /\ exchange'.at = exchange.at
        /\ exchange'.claims = exchange.claims
    BY <1>0, <1>4, ServeKeeps DEF OnTheWay
  <2>2. exchange'.captured \in Configurations /\ exchange.at = Len(exchange.path)
    BY <1>0, <1>4, ServeKeeps DEF Underway, At, Captured
  <2>3. approval' = approval
    BY <1>0, <1>4, ServeKeeps DEF OnTheWay
  <2> QED BY <1>0, <1>4, <2>1, <2>2, <2>3, ServeKeeps DEF Underway, At, Captured
<1>5. CASE Deliver
  BY <1>5 DEF Deliver, Underway, Idle, IsExchange, At, IsApproval, NoApproval
<1>6. CASE UNCHANGED vars
  BY <1>6 DEF vars, Underway, At, Captured
<1> QED BY <1>1, <1>2, <1>3, <1>4, <1>5, <1>6 DEF Next, Send

\* No message has been sent at first.
LEMMA DemandedInit == Init => Demanded
BY DEF Init, Demanded, Idle, At

\* Whoever sends chooses a message that a client can send, and no hop changes it.
LEMMA DemandedStep == Underway /\ Demanded /\ [Next]_vars => Demanded'
<1> SUFFICES ASSUME Underway, Demanded, [Next]_vars PROVE Demanded'
  OBVIOUS
<1>0. IsExchange(exchange) /\ IsApproval(approval)
  BY DEF Underway
<1>1. CASE Reload
  BY <1>1 DEF Reload, Demanded, At, Message
<1>2. ASSUME NEW j \in Journeys, SendRequest(j) PROVE Demanded'
  <2>1. Demand(j.demand) /\ ~Preflight(j.demand)
    BY JourneysAssumption, DemandFields
  <2>2. exchange'.message = j.demand
    BY <1>2 DEF SendRequest, Idle
  <2> QED BY <2>1, <2>2 DEF Demanded, Message
<1>3. ASSUME NEW j \in Journeys, SendPreflight(j) PROVE Demanded'
  <2>1. Demand(j.demand) /\ j.demand.method # NoMethod /\ j.demand.origin # NoOrigin
    BY <1>3, JourneysAssumption DEF SendPreflight, Demand
  <2>2. exchange'.message = PreflightOf(j.demand) /\ approval'.demand = j.demand
    BY <1>3 DEF SendPreflight, Idle
  <2>3. Preflight(PreflightOf(j.demand))
    BY <2>1, PreflightFields DEF Preflight
  <2> QED BY <2>1, <2>2, <2>3 DEF Demanded, Message
<1>4. CASE Relay
  BY <1>0, <1>4, RelayedOn DEF Relay, Demanded, At, Message
<1>5. CASE Serve
  <2>1. ~At("idle") /\ exchange'.message = exchange.message /\ approval' = approval
    BY <1>0, <1>5, ServeKeeps DEF OnTheWay
  <2> QED BY <2>1 DEF Demanded, Message
<1>6. CASE Deliver
  BY <1>6 DEF Deliver, Demanded, Idle, At
<1>7. CASE UNCHANGED vars
  BY <1>7 DEF vars, Demanded, At, Message
<1> QED BY <1>1, <1>2, <1>3, <1>4, <1>5, <1>6, <1>7 DEF Next, Send

\* A message that has not left its sender carries what the sender chose.
LEMMA HonestTailInit == Init => HonestTail
BY DEF Init, HonestTail, Idle, At

\* An honest host extends what honest hosts wrote before it; behind any other the
\* tail begins anew.
LEMMA HonestTailStep == Underway /\ HonestTail /\ [Next]_vars => HonestTail'
<1> SUFFICES ASSUME Underway, HonestTail, [Next]_vars PROVE HonestTail'
  OBVIOUS
<1>0. IsExchange(exchange) /\ IsApproval(approval)
  BY DEF Underway
<1>1. CASE Reload
  BY <1>1 DEF Reload, HonestTail, At
<1>2. ASSUME NEW j \in Journeys, SendRequest(j) \/ SendPreflight(j) PROVE HonestTail'
  <2>1. exchange'.at = 1 /\ exchange'.claims.forwarded \in Seq(Hosts \union {Malformed})
    BY <1>0, <1>2, Sent, JourneysAssumption DEF Claims
  <2> QED BY <2>1 DEF HonestTail
<1>3. CASE Relay
  <2> DEFINE path == exchange.path
             at == exchange.at
             written == exchange.claims.forwarded
             forwarded == exchange'.claims.forwarded
  <2>1. /\ path \in Seq(Hosts) /\ exchange.claims \in Claims
        /\ at \in 1 .. Len(path) /\ at < Len(path)
        /\ exchange'.path = path /\ exchange'.at = at + 1
    BY <1>0, <1>3, RelayedOn DEF Relay, Underway, At
  <2>2. path[at] \in Hosts /\ written \in Seq(Hosts \union {Malformed})
    BY <2>1 DEF Claims
  <2>3. forwarded \in Seq(Hosts \union {Malformed})
    <3>1. exchange'.claims \in Claims
      BY <1>0, <1>3, <2>1, <2>2, ClaimsOnTheWay
    <3> QED BY <3>1 DEF Claims
  <2>4. SUFFICES ASSUME NEW first \in 1 .. (at + 1),
                        \A i \in (first + 1) .. (at + 1) : path[i] \in Honest
                 PROVE  /\ Len(forwarded) >= (at + 1) - first
                        /\ \A i \in first .. ((at + 1) - 1) :
                             forwarded[Len(forwarded) - ((at + 1) - 1) + i] = path[i]
                        /\ (\E i \in (first + 1) .. (at + 1) : path[i] \in Naming) =>
                             \E i \in first .. ((at + 1) - 1) : exchange'.claims.realIP = path[i]
    BY <2>1, ZenonT(60) DEF HonestTail
  <2>a. (at + 1) - 1 = at
    BY <2>1
  <2>5. CASE first = at + 1
    BY <2>1, <2>3, <2>5, <2>a
  <2>6. CASE first <= at
    <3>1. path[at + 1] \in Honest
      BY <2>1, <2>4, <2>6
    <3>2. exchange'.claims = Relayed(path[at + 1], path[at], exchange.claims)
      BY <1>0, <1>3, <3>1, RelayedOn
    <3>3. /\ exchange'.claims.realIP = IF path[at + 1] \in Naming THEN path[at]
                                       ELSE exchange.claims.realIP
          /\ Len(forwarded) = Len(written) + 1
          /\ \A i \in 1 .. Len(written) : forwarded[i] = written[i]
          /\ forwarded[Len(written) + 1] = path[at]
      BY <2>1, <2>2, <3>2, RelayedClaims
    <3>4. first \in 1 .. at /\ \A i \in (first + 1) .. at : path[i] \in Honest
      BY <2>1, <2>4, <2>6
    <3>5. /\ Len(written) >= at - first
          /\ \A i \in first .. (at - 1) : written[Len(written) - (at - 1) + i] = path[i]
          /\ (\E i \in (first + 1) .. at : path[i] \in Naming) =>
               \E i \in first .. (at - 1) : exchange.claims.realIP = path[i]
      BY <1>3, <3>4 DEF HonestTail, Relay, At
    <3> HIDE DEF path, at, written, forwarded
    <3>6. ASSUME NEW i \in first .. ((at + 1) - 1)
          PROVE  forwarded[Len(forwarded) - ((at + 1) - 1) + i] = path[i]
      <4>0. i \in first .. at /\ Len(forwarded) - ((at + 1) - 1) + i = Len(forwarded) - at + i
        BY <2>a
      <4>1. Len(written) \in Nat
        BY <2>2
      <4>2. CASE i = at
        <5>1. Len(forwarded) - at + i = Len(written) + 1
          BY <2>1, <3>3, <4>0, <4>1, <4>2
        <5> QED BY <3>3, <4>0, <4>2, <5>1
      <4>3. CASE i # at
        <5>1. /\ i \in first .. (at - 1)
              /\ Len(forwarded) - at + i = Len(written) - (at - 1) + i
              /\ Len(written) - (at - 1) + i \in 1 .. Len(written)
          BY <2>1, <3>3, <3>4, <3>5, <4>0, <4>1, <4>3
        <5> QED BY <3>3, <3>5, <4>0, <5>1
      <4> QED BY <4>2, <4>3
    <3>7. Len(forwarded) >= (at + 1) - first
      BY <2>1, <2>2, <3>3, <3>4, <3>5
    <3>8. ASSUME \E i \in (first + 1) .. (at + 1) : path[i] \in Naming
          PROVE  \E i \in first .. ((at + 1) - 1) : exchange'.claims.realIP = path[i]
      <4>1. at \in Int /\ first .. (at - 1) \subseteq first .. ((at + 1) - 1)
            /\ at \in first .. ((at + 1) - 1)
        BY <2>1, <2>6
      <4>2. CASE path[at + 1] \in Naming
        BY <3>3, <4>1, <4>2
      <4>3. CASE path[at + 1] \notin Naming
        <5>1. \E i \in (first + 1) .. at : path[i] \in Naming
          BY <3>8, <4>1, <4>3
        <5> QED BY <3>3, <3>5, <4>1, <4>3, <5>1
      <4> QED BY <4>2, <4>3
    <3> QED BY <3>6, <3>7, <3>8
  <2> QED BY <2>1, <2>5, <2>6
<1>4. CASE Serve
  <2>1. /\ ~At("idle") /\ exchange'.path = exchange.path /\ exchange'.at = exchange.at
        /\ exchange'.claims = exchange.claims
    BY <1>0, <1>4, ServeKeeps DEF OnTheWay
  <2> QED BY <2>1 DEF HonestTail
<1>5. CASE Deliver
  BY <1>5 DEF Deliver, HonestTail, Idle, At
<1>6. CASE UNCHANGED vars
  BY <1>6 DEF vars, HonestTail, At
<1> QED BY <1>1, <1>2, <1>3, <1>4, <1>5, <1>6 DEF Next, Send

-----------------------------------------------------------------------------
\* The request at the gateway.
LEMMA ServedInit == Init => ServedByCaptured
BY DEF Init, ServedByCaptured, Idle, At

\* Nothing that the snapshot decides changes while the exchange stays on its way.
LEMMA SameDecisions ==
  ASSUME exchange'.path = exchange.path, exchange'.claims = exchange.claims,
         exchange'.message = exchange.message, exchange'.captured = exchange.captured,
         exchange'.identity = exchange.identity
  PROVE  /\ Captured' = Captured /\ Message' = Message /\ Peer' = Peer /\ (Resolved' <=> Resolved)
         /\ Sendable' = Sendable
BY DEF Captured, Message, Peer, Resolved, Sendable, Request

\* The upstream request is made once, from what was captured, and kept.
LEMMA ServedStep ==
  Underway /\ ServedByCaptured /\ [Next]_vars => ServedByCaptured'
<1> SUFFICES ASSUME Underway, ServedByCaptured, [Next]_vars PROVE ServedByCaptured'
  OBVIOUS
<1>0. IsExchange(exchange) /\ IsApproval(approval)
  BY DEF Underway
<1>s. ASSUME exchange' = exchange PROVE ServedByCaptured'
  BY <1>s, SameDecisions DEF ServedByCaptured, At, Captured, Message, Resolved, Peer, Sendable, Request
<1>1. CASE Reload
  BY <1>1, <1>s DEF Reload
<1>2. ASSUME NEW j \in Journeys, SendRequest(j) \/ SendPreflight(j)
      PROVE  ServedByCaptured'
  BY <1>0, <1>2, Sent DEF ServedByCaptured, At
<1>3. CASE Relay
  BY <1>0, <1>3, RelayedOn DEF ServedByCaptured, At, Relay
<1>4. CASE Serve
  <2> USE DEF At
  <2>0. /\ exchange'.path = exchange.path /\ exchange'.claims = exchange.claims
        /\ exchange'.message = exchange.message
    BY <1>0, <1>4, ServeKeeps DEF OnTheWay
  <2>1. CASE Arrive
    <3>1. At("travelling")
      BY <2>1 DEF Arrive
    <3>2. Resolved'
      BY <1>0, <2>0, <2>1, Arrived DEF Resolved, Peer, Captured
    <3> QED BY <1>0, <2>1, <3>1, <3>2, Arrived DEF ServedByCaptured
  <2>2. CASE AnswerPreflight
    <3>1. At("travelling")
      BY <2>2 DEF AnswerPreflight
    <3> QED BY <1>0, <2>2, <3>1, PreflightAnswered DEF ServedByCaptured
  <2>3. ASSUME NEW status, Answers(status), ~At("idle"), ~At("travelling")
        PROVE  ServedByCaptured'
    <3>1. /\ exchange'.captured = exchange.captured /\ exchange'.identity = exchange.identity
          /\ exchange'.metered = exchange.metered /\ exchange'.upstream = exchange.upstream
          /\ exchange'.stage = "answered"
      BY <1>0, <2>3, Answered
    <3>2. /\ Captured' = Captured /\ Message' = Message /\ (Resolved' <=> Resolved)
          /\ Sendable' = Sendable
      BY <2>0, <3>1, SameDecisions
    <3> QED BY <3>1, <3>2 DEF ServedByCaptured
  <2>4. CASE AnswerPublic
    BY <2>3, <2>4 DEF AnswerPublic
  <2>5. CASE AnswerOptions
    BY <2>3, <2>5 DEF AnswerOptions
  <2>6. CASE AnswerOperations
    <3>1. PICK status : Answers(status)
      BY <2>6 DEF AnswerOperations
    <3> QED BY <2>3, <2>6, <3>1 DEF AnswerOperations
  <2>7. CASE RejectClient
    BY <2>3, <2>7 DEF RejectClient, ForApplication
  <2>8. CASE Charge \/ Refuse
    <3>1. /\ At("arrived") /\ ClientsOf(Captured, Message.token) # {}
          /\ Message.method # "OPTIONS" /\ Message.route \notin OperationalPaths
      BY <2>8 DEF Charge, Refuse, ForApplication
    <3>2. /\ exchange'.captured = exchange.captured /\ exchange'.identity = exchange.identity
          /\ exchange'.metered = TRUE /\ exchange'.upstream = exchange.upstream
          /\ exchange'.stage \in {"admitted", "answered"}
      BY <1>0, <2>8, Charged, Refused
    <3>3. /\ Captured' = Captured /\ Message' = Message /\ (Resolved' <=> Resolved)
      BY <2>0, <3>2, SameDecisions
    <3> QED BY <3>1, <3>2, <3>3 DEF ServedByCaptured
  <2>9. CASE RouteFails
    <3>1. PICK status : Answers(status)
      BY <2>9 DEF RouteFails
    <3> QED BY <2>3, <2>9, <3>1 DEF RouteFails
  <2>10. CASE BodyFails
    BY <2>3, <2>10 DEF BodyFails
  <2>11. CASE Forward
    <3>1. /\ At("admitted") /\ BodyStatus(Message.body, Captured.limit) = "ok"
      BY <2>11 DEF Forward
    <3>2. /\ exchange'.captured = exchange.captured /\ exchange'.identity = exchange.identity
          /\ exchange'.metered = exchange.metered /\ exchange'.stage = "upstream"
          /\ exchange'.upstream \in Sendable
      BY <1>0, <2>11, Forwarded DEF Sendable
    <3>3. /\ Captured' = Captured /\ Message' = Message /\ (Resolved' <=> Resolved)
          /\ Sendable' = Sendable
      BY <2>0, <3>2, SameDecisions
    <3> QED BY <3>1, <3>2, <3>3 DEF ServedByCaptured
  <2>12. CASE UpstreamFails
    BY <2>3, <2>12 DEF UpstreamFails
  <2>13. CASE Respond
    <3>1. At("upstream")
      BY <2>13 DEF Respond
    <3>2. /\ exchange'.captured = exchange.captured /\ exchange'.identity = exchange.identity
          /\ exchange'.metered = exchange.metered /\ exchange'.upstream = exchange.upstream
          /\ exchange'.stage = "answered"
      BY <1>0, <2>13, Responded
    <3>3. /\ Captured' = Captured /\ Message' = Message /\ (Resolved' <=> Resolved)
          /\ Sendable' = Sendable
      BY <2>0, <3>2, SameDecisions
    <3> QED BY <3>1, <3>2, <3>3 DEF ServedByCaptured
  <2> QED BY <1>4, <2>1, <2>2, <2>4, <2>5, <2>6, <2>7, <2>8, <2>9, <2>10, <2>11, <2>12, <2>13
          DEF Serve
<1>5. CASE Deliver
  BY <1>5 DEF Deliver, ServedByCaptured, Idle, At
<1>6. CASE UNCHANGED vars
  BY <1>6, <1>s DEF vars
<1> QED BY <1>1, <1>2, <1>3, <1>4, <1>5, <1>6 DEF Next, Send

\* No answer has been given at first.
LEMMA ExplainedInit == Init => AnswerExplained
<1> SUFFICES ASSUME Init PROVE AnswerExplained
  OBVIOUS
<1>1. ~At("answered")
  BY DEF Init, Idle, At
<1> QED BY <1>1 DEF AnswerExplained

\* What BodyStatus can say.
LEMMA BodyStatuses ==
  ASSUME NEW body, NEW limit
  PROVE  BodyStatus(body, limit) \in {"ok", "400", "413"}
BY DEF BodyStatus

\* An answer is given once, by one of the steps that explain it, and kept.
LEMMA ExplainedStep ==
  Underway /\ ServedByCaptured /\ AnswerExplained /\ [Next]_vars => AnswerExplained'
<1> SUFFICES ASSUME Underway, ServedByCaptured, AnswerExplained, [Next]_vars
             PROVE  AnswerExplained'
  OBVIOUS
<1>0. IsExchange(exchange) /\ IsApproval(approval)
  BY DEF Underway
<1>s. ASSUME exchange' = exchange PROVE AnswerExplained'
  BY <1>s DEF AnswerExplained, At, Captured, Message, Public
<1>1. CASE Reload
  BY <1>1, <1>s DEF Reload
<1>2. ASSUME NEW j \in Journeys, SendRequest(j) \/ SendPreflight(j)
      PROVE  AnswerExplained'
  BY <1>0, <1>2, Sent DEF AnswerExplained, At
<1>3. CASE Relay
  BY <1>0, <1>3, RelayedOn DEF AnswerExplained, At
<1>4. CASE Serve
  <2> USE DEF At
  <2>0. exchange'.message = exchange.message
    BY <1>0, <1>4, ServeKeeps DEF OnTheWay
  <2>1. CASE Arrive
    BY <1>0, <2>1, Arrived DEF AnswerExplained
  <2>2. CASE AnswerPreflight
    <3>1. /\ exchange'.captured = runtime
          /\ exchange'.answer =
               [status |-> IF Approves(runtime.cors, Message) THEN "204" ELSE "403",
                from |-> "gateway", grants |-> Grants(runtime.cors, Message)]
      BY <1>0, <2>2, PreflightAnswered
    <3>2. Captured' = runtime /\ Message' = Message
      BY <2>0, <3>1 DEF Captured, Message
    <3>3. /\ exchange'.answer.status \in {"204", "403"} /\ exchange'.answer.from = "gateway"
          /\ exchange'.answer.grants = Grants(runtime.cors, Message)
      BY <3>1
    <3> QED BY <3>2, <3>3 DEF AnswerExplained
  <2>3. ASSUME NEW status, exchange'.answer = Local(status),
               exchange'.captured = exchange.captured,
               status = "413" => BodyStatus(Message.body, Captured.limit) = "413",
               status = "operations" =>
                 \/ Public
                 \/ Message.route \in OperationalPaths /\ Authorized(Captured, Message.token)
        PROVE  AnswerExplained'
    <3>1. Captured' = Captured /\ Message' = Message
      BY <2>0, <2>3 DEF Captured, Message
    <3>2. Public' <=> Public
      BY <3>1 DEF Public
    <3>3. /\ exchange'.answer.status = status /\ exchange'.answer.from = "gateway"
          /\ exchange'.answer.grants = Grants(Captured.cors, Message)
      BY <2>3 DEF Local
    <3> QED BY <2>3, <3>1, <3>2, <3>3 DEF AnswerExplained
  <2>4. CASE AnswerPublic
    BY <1>0, <2>3, <2>4, Answered DEF AnswerPublic
  <2>5. CASE AnswerOptions
    BY <1>0, <2>3, <2>5, Answered DEF AnswerOptions
  <2>6. CASE AnswerOperations
    BY <1>0, <2>3, <2>6, Answered DEF AnswerOperations
  <2>7. CASE RejectClient
    BY <1>0, <2>3, <2>7, Answered DEF RejectClient
  <2>8. CASE Charge
    BY <1>0, <2>8, Charged DEF AnswerExplained
  <2>9. CASE Refuse
    BY <1>0, <2>3, <2>9, Refused
  <2>10. CASE RouteFails
    BY <1>0, <2>3, <2>10, Answered DEF RouteFails
  <2>11. CASE BodyFails
    BY <1>0, <2>3, <2>11, Answered, BodyStatuses DEF BodyFails
  <2>12. CASE Forward
    BY <1>0, <2>12, Forwarded DEF AnswerExplained
  <2>13. CASE UpstreamFails
    BY <1>0, <2>3, <2>13, Answered DEF UpstreamFails
  <2>14. CASE Respond
    <3> DEFINE granted == Grants(Captured.cors, Message)
    <3>1. PICK own \in {<<>>, <<AnyOrigin>>} :
            exchange'.answer =
              [status |-> "200", from |-> IF own = <<>> THEN "provider" ELSE "cors provider",
               grants |-> [granted EXCEPT !.origins = @ \o own]]
      BY <1>0, <2>14, Responded
    <3>2. Captured' = Captured /\ Message' = Message
      BY <1>0, <2>0, <2>14, Responded DEF Captured, Message
    <3>3. \E o, c : granted = [origins |-> o, credentials |-> c] /\ (o = <<>> \/ \E x : o = <<x>>)
      BY DEF Grants
    <3>4. PICK o, c : granted = [origins |-> o, credentials |-> c] /\ (o = <<>> \/ \E x : o = <<x>>)
      BY <3>3
    <3> HIDE DEF granted
    <3>5. [granted EXCEPT !.origins = @ \o own] = [origins |-> o \o own, credentials |-> c]
      BY <3>4
    <3>6. o \o <<>> = o /\ o \o <<AnyOrigin>> = Append(o, AnyOrigin)
      BY <3>4
    <3>f. ASSUME NEW from, NEW g,
                 exchange'.answer = [status |-> "200", from |-> from, grants |-> g]
          PROVE  /\ exchange'.answer.status = "200" /\ exchange'.answer.from = from
                 /\ exchange'.answer.grants = g
      BY <3>f
    <3> DEFINE after == [granted EXCEPT !.origins = @ \o own]
    <3>7. CASE own = <<>>
      <4>1. after = granted
        BY <3>4, <3>5, <3>6, <3>7
      <4>2. exchange'.answer = [status |-> "200", from |-> "provider", grants |-> after]
        BY <3>1, <3>7
      <4> HIDE DEF after
      <4>3. exchange'.answer.grants = granted /\ exchange'.answer.from = "provider"
            /\ exchange'.answer.status = "200"
        BY <3>f, <4>1, <4>2
      <4> QED BY <3>2, <4>3 DEF AnswerExplained, granted
    <3>8. CASE own = <<AnyOrigin>>
      <4>1. own # <<>>
        BY <3>8
      <4>2. after.origins = Append(granted.origins, AnyOrigin)
        <5>1. granted.origins = o /\ after.origins = o \o own
          BY <3>4, <3>5
        <5> QED BY <3>6, <3>8, <5>1
      <4>3. exchange'.answer = [status |-> "200", from |-> "cors provider", grants |-> after]
        BY <3>1, <4>1
      <4> HIDE DEF after
      <4>4. exchange'.answer.grants = after /\ exchange'.answer.from = "cors provider"
            /\ exchange'.answer.status = "200"
        BY <3>f, <4>3
      <4> QED BY <3>2, <4>2, <4>4 DEF AnswerExplained, granted
    <3> QED BY <3>1, <3>7, <3>8
  <2> QED BY <1>4, <2>1, <2>2, <2>4, <2>5, <2>6, <2>7, <2>8, <2>9, <2>10, <2>11, <2>12, <2>13, <2>14
          DEF Serve
<1>5. CASE Deliver
  BY <1>5 DEF Deliver, AnswerExplained, Idle, At
<1>6. CASE UNCHANGED vars
  BY <1>6, <1>s DEF vars
<1> QED BY <1>1, <1>2, <1>3, <1>4, <1>5, <1>6 DEF Next, Send

-----------------------------------------------------------------------------
\* The browser.
LEMMA ApprovedInit == Init => ApprovedReads
BY DEF Init, ApprovedReads, Idle, NoApproval

\* A browser reads an answer only after an approval that it was given.
LEMMA ApprovedStep ==
  Underway /\ Demanded /\ AnswerExplained /\ ApprovedReads /\ [Next]_vars => ApprovedReads'
<1> SUFFICES ASSUME Underway, Demanded, AnswerExplained, ApprovedReads, [Next]_vars
             PROVE  ApprovedReads'
  OBVIOUS
<1>0. IsExchange(exchange) /\ IsApproval(approval)
  BY DEF Underway
<1>s. ASSUME approval' = approval, exchange'.approvedBy = exchange.approvedBy,
             exchange'.message = exchange.message
      PROVE  ApprovedReads'
  BY <1>s DEF ApprovedReads, Message
<1>1. CASE Reload
  BY <1>1, <1>s DEF Reload
<1>2. ASSUME NEW j \in Journeys, SendRequest(j) PROVE ApprovedReads'
  <2>1. /\ exchange'.message = j.demand
        /\ exchange'.approvedBy = IF j.demand.origin = NoOrigin THEN NoSnapshot ELSE approval.by
        /\ j.demand.origin = NoOrigin \/ approval.demand = j.demand
        /\ approval' = IF j.demand.origin = NoOrigin THEN approval ELSE NoApproval
    BY <1>2 DEF SendRequest, Idle
  <2>2. NoApproval.by = NoSnapshot
    BY DEF NoApproval
  <2> QED BY <2>1, <2>2 DEF ApprovedReads, Message
<1>3. ASSUME NEW j \in Journeys, SendPreflight(j) PROVE ApprovedReads'
  <2>1. exchange'.approvedBy = NoSnapshot /\ approval'.by = NoSnapshot
    BY <1>3 DEF SendPreflight, Idle
  <2> QED BY <2>1 DEF ApprovedReads
<1>4. CASE Relay
  BY <1>0, <1>4, <1>s, RelayedOn
<1>5. CASE Serve
  BY <1>0, <1>5, <1>s, ServeKeeps DEF OnTheWay
<1>6. CASE Deliver
  <2>1. exchange'.approvedBy = NoSnapshot
    BY <1>6 DEF Deliver, Idle
  <2>2. CASE ~Preflight(Message)
    BY <1>6, <2>1, <2>2 DEF Deliver, ApprovedReads
  <2>3. CASE /\ Preflight(Message)
             /\ exchange.answer.status = "204"
             /\ Readable(exchange.answer.grants, Message.origin, Message.credentials)
    <3> DEFINE d == approval.demand
    <3>1. Demand(d) /\ Message = PreflightOf(d) /\ At("answered")
      BY <1>6, <2>3 DEF Deliver, Demanded, At
    <3>2. Message.origin = d.origin /\ Message.credentials = d.credentials
      BY <3>1, PreflightFields
    <3>3. exchange.answer.grants = Grants(Captured.cors, Message)
      BY <2>3, <3>1 DEF AnswerExplained
    <3>4. Grants(Captured.cors, d) = Grants(Captured.cors, Message)
      BY <3>2 DEF Grants
    <3>5. Readable(Grants(Captured.cors, d), d.origin, d.credentials)
      BY <2>3, <3>2, <3>3, <3>4
    <3>6. approval' = [approval EXCEPT !.by = Captured]
      BY <1>6, <2>3 DEF Deliver
    <3>7. approval'.by = Captured /\ approval'.demand = d
      BY <1>0, <3>6 DEF IsApproval
    <3> QED BY <2>1, <3>5, <3>7 DEF ApprovedReads
  <2>4. CASE /\ Preflight(Message)
             /\ ~(/\ exchange.answer.status = "204"
                  /\ Readable(exchange.answer.grants, Message.origin, Message.credentials))
    BY <1>6, <2>1, <2>4 DEF Deliver, ApprovedReads, NoApproval
  <2> QED BY <2>2, <2>3, <2>4
<1>7. CASE UNCHANGED vars
  BY <1>7, <1>s DEF vars
<1> QED BY <1>1, <1>2, <1>3, <1>4, <1>5, <1>6, <1>7 DEF Next, Send

-----------------------------------------------------------------------------
\* The six parts hold together: each step of one is proved from the others.
LEMMA Invariance == Spec => []IInv
<1>1. Init => IInv
  BY UnderwayInit, DemandedInit, HonestTailInit, ServedInit, ExplainedInit, ApprovedInit DEF IInv
<1>2. IInv /\ [Next]_vars => IInv'
  BY UnderwayStep, DemandedStep, HonestTailStep, ServedStep, ExplainedStep, ApprovedStep DEF IInv
<1> QED BY <1>1, <1>2, PTL DEF Spec

\* The numbers that the walk over a chain and the walk over a path ask for.
LEMMA MaxOf ==
  ASSUME NEW S \in SUBSET Int, NEW m \in S, \A i \in S : i <= m
  PROVE  Max(S) = m
<1>1. m \in S /\ \A i \in S : m >= i
  OBVIOUS
<1>2. Max(S) \in S /\ \A i \in S : Max(S) >= i
  BY <1>1 DEF Max
<1>3. Max(S) \in Int /\ m \in Int
  BY <1>2
<1>4. Max(S) >= m /\ m >= Max(S)
  BY <1>1, <1>2
<1> HIDE DEF Max
<1> QED BY <1>3, <1>4

\* A set of positions that is not empty has a last one.
LEMMA HasGreatest ==
  ASSUME NEW n \in Nat, NEW S \in SUBSET (1 .. n), S # {}
  PROVE  Max(S) \in S /\ \A i \in S : i <= Max(S)
<1> DEFINE Gaps == {n - i : i \in S}
<1>0. \A i \in S : i \in Int /\ n - i \in Nat
  OBVIOUS
<1>1. Gaps \subseteq Nat /\ Gaps # {}
  BY <1>0
<1>2. PICK g \in Gaps : \A h \in Gaps : <<h, g>> \notin OpToRel(<, Nat)
  BY <1>1, NatLessThanWellFounded, WFMin
<1>3. \A h \in Gaps : ~(h < g)
  BY <1>1, <1>2 DEF OpToRel
<1>4. PICK m \in S : g = n - m
  OBVIOUS
<1>5. ASSUME NEW i \in S PROVE i <= m
  <2>1. ~(n - i < n - m)
    BY <1>3, <1>4
  <2> QED BY <1>0, <2>1
<1>6. Max(S) = m
  BY <1>0, <1>5, MaxOf
<1> QED BY <1>5, <1>6

\* The trusted proxies added what they saw, so that the walk from the right ends
\* where the path left them.
LEMMA WalkFindsOutsider ==
  ASSUME NEW path \in Seq(Hosts), path # <<>>, NEW claims \in Claims,
         NEW trusted, NEW last \in 1 .. Len(path),
         path[last] \notin trusted,
         \A i \in (last + 1) .. Len(path) : path[i] \in trusted,
         Len(claims.forwarded) >= Len(path) - last,
         \A i \in last .. (Len(path) - 1) :
           claims.forwarded[Len(claims.forwarded) - (Len(path) - 1) + i] = path[i],
         (\E i \in (last + 1) .. Len(path) : path[i] \in Naming) =>
           \E i \in last .. (Len(path) - 1) : claims.realIP = path[i],
         NEW identity, identity = ResolveClientIP(trusted, path[Len(path)], claims)
  PROVE  /\ ValidChain(claims.forwarded) \/ last = Len(path) => identity = path[last]
         /\ (\E i \in (last + 1) .. Len(path) : path[i] \in Naming) =>
              \E i \in last .. Len(path) : identity = path[i]
<1> DEFINE n == Len(path)
           forwarded == claims.forwarded
           f == Len(forwarded)
           chain == Append(forwarded, path[n])
<1>1. n \in Nat \ {0} /\ \A i \in 1 .. n : path[i] \in Hosts
  OBVIOUS
<1>2. /\ forwarded \in Seq(Hosts \union {Malformed}) /\ f \in Nat
  BY DEF Claims
<1>5. f >= n - last
  OBVIOUS
<1>3. CASE last = n
  <2>1. identity = path[n]
    BY <1>3 DEF ResolveClientIP
  <2> QED BY <1>1, <1>3, <2>1
<1>4. CASE last < n
  <2>1. path[n] \in trusted
    BY <1>1, <1>4
  <2>2. f >= 1 /\ forwarded # <<>>
    BY <1>1, <1>2, <1>4
  <2>3. CASE ValidChain(forwarded)
    <3> DEFINE m == (f + 1) - (n - last)
               S == {1} \union {i \in DOMAIN chain : chain[i] \notin trusted}
    <3>1. /\ DOMAIN chain = 1 .. (f + 1) /\ m \in 1 .. f
          /\ chain[f + 1] = path[n] /\ \A i \in 1 .. f : chain[i] = forwarded[i]
      BY <1>1, <1>2, <1>4
    <3>2. ASSUME NEW i \in last .. (n - 1)
          PROVE  chain[(f + 1) - (n - i)] = path[i]
      <4>1. forwarded[f - (n - 1) + i] = path[i]
        OBVIOUS
      <4> HIDE DEF n, f
      <4>2. f - (n - 1) + i = (f + 1) - (n - i) /\ (f + 1) - (n - i) \in 1 .. f
        BY <1>1, <1>2, <1>5
      <4> QED BY <3>1, <4>1, <4>2
    <3>3. chain[m] = path[last]
      <4>1. last \in last .. (n - 1)
        BY <1>1, <1>4
      <4> QED BY <3>2, <4>1
    <3>4. ASSUME NEW k \in (m + 1) .. (f + 1) PROVE chain[k] \in trusted
      <4> DEFINE i == n - ((f + 1) - k)
      <4>1. CASE k = f + 1
        BY <2>1, <3>1, <4>1
      <4>2. CASE k # f + 1
        <5>1. i \in last .. (n - 1) /\ i \in (last + 1) .. n /\ k = (f + 1) - (n - i)
          <6> HIDE DEF n, f
          <6> QED BY <1>1, <1>2, <3>1, <4>2
        <5> QED BY <3>2, <5>1
      <4> QED BY <4>1, <4>2
    <3>5. S \subseteq Int /\ m \in S /\ \A i \in S : i <= m
      <4> HIDE DEF chain
      <4>1. m \in Int /\ 1 <= m /\ S \subseteq Int
        BY <1>2, <3>1
      <4>2. m \in S
        BY <3>1, <3>3
      <4>3. ASSUME NEW i \in 1 .. (f + 1), chain[i] \notin trusted PROVE i <= m
        BY <1>2, <3>1, <3>4, <4>3
      <4> QED BY <3>1, <4>1, <4>2, <4>3
    <3>6. Max(S) = m
      BY <3>5, MaxOf
    <3>7. identity = chain[Max(S)]
      BY <2>1, <2>2, <2>3 DEF ResolveClientIP, FirstUntrusted
    <3>8. identity = path[last]
      BY <3>3, <3>6, <3>7
    <3> QED BY <1>1, <1>4, <3>8
  <2>4. CASE ~ValidChain(forwarded)
    <3> SUFFICES ASSUME \E i \in (last + 1) .. n : path[i] \in Naming
                 PROVE  \E i \in last .. n : identity = path[i]
      BY <1>1, <1>4, <2>4
    <3>1. PICK i \in last .. (n - 1) : claims.realIP = path[i]
      OBVIOUS
    <3>2. i \in last .. n /\ path[i] \in Hosts
      BY <1>1, <3>1
    <3>3. identity = path[i]
      BY <2>1, <2>4, <3>1, <3>2 DEF ResolveClientIP
    <3> QED BY <3>2, <3>3
  <2> QED BY <2>3, <2>4
<1> QED BY <1>1, <1>3, <1>4

\* However long the path and whatever its hosts outside the trusted proxies claim,
\* the logged identity is the last outsider, unless the chain is malformed; then it
\* is still a host the request came by if one of the proxies behind that outsider
\* names its caller in X-Real-IP (trusted_proxy.go:21-35).
THEOREM ClientIsTheFirstOutsiderHolds == Spec => []ClientIsTheFirstOutsider
<1>1. IInv => ClientIsTheFirstOutsider
  <2> SUFFICES ASSUME IInv, exchange.identity # Nothing,
                      Outsiders(Captured.trusted, exchange.path) # {}
               PROVE  ClientIsTheFirstOutsider
    BY DEF ClientIsTheFirstOutsider
  <2> DEFINE path == exchange.path
             claims == exchange.claims
             outsiders == Outsiders(Captured.trusted, path)
             last == Max(outsiders)
  <2>1. ~At("idle") /\ ~At("travelling") /\ Resolved
    BY DEF IInv, ServedByCaptured
  <2>2. /\ path \in Seq(Hosts) /\ claims \in Claims /\ path # <<>>
        /\ exchange.at = Len(path) /\ Captured \in Configurations
    BY <2>1 DEF IInv, Underway, At
  <2>3. Captured.trusted \subseteq Honest
    BY <2>2, TrustAssumption DEF Configurations
  <2>4. outsiders \subseteq 1 .. Len(path) /\ Len(path) \in Nat
    BY <2>2 DEF Outsiders
  <2>5. last \in outsiders /\ \A i \in outsiders : i <= last
    BY <2>4, HasGreatest
  <2>6. /\ last \in 1 .. Len(path) /\ path[last] \notin Captured.trusted
        /\ \A i \in (last + 1) .. Len(path) : path[i] \in Captured.trusted
    <3>1. /\ last \in 1 .. Len(path) /\ path[last] \notin Captured.trusted
          /\ \A i \in 1 .. Len(path) : path[i] \notin Captured.trusted => i <= last
      BY <2>2, <2>4, <2>5 DEF Outsiders
    <3> HIDE DEF last
    <3> QED BY <2>4, <3>1
  <2>7. /\ Len(claims.forwarded) >= Len(path) - last
        /\ \A i \in last .. (Len(path) - 1) :
             claims.forwarded[Len(claims.forwarded) - (Len(path) - 1) + i] = path[i]
        /\ (\E i \in (last + 1) .. Len(path) : path[i] \in Naming) =>
             \E i \in last .. (Len(path) - 1) : claims.realIP = path[i]
    BY <2>1, <2>2, <2>3, <2>6 DEF IInv, HonestTail
  <2>8. exchange.identity = ResolveClientIP(Captured.trusted, path[Len(path)], claims)
    BY <2>1 DEF Resolved, Peer
  <2> DEFINE trusted == Captured.trusted
             identity == exchange.identity
  <2>9. /\ path \in Seq(Hosts) /\ path # <<>> /\ claims \in Claims
        /\ last \in 1 .. Len(path) /\ path[last] \notin trusted
        /\ \A i \in (last + 1) .. Len(path) : path[i] \in trusted
        /\ Len(claims.forwarded) >= Len(path) - last
        /\ \A i \in last .. (Len(path) - 1) :
             claims.forwarded[Len(claims.forwarded) - (Len(path) - 1) + i] = path[i]
        /\ (\E i \in (last + 1) .. Len(path) : path[i] \in Naming) =>
             \E i \in last .. (Len(path) - 1) : claims.realIP = path[i]
        /\ identity = ResolveClientIP(trusted, path[Len(path)], claims)
    BY <2>2, <2>6, <2>7, <2>8
  <2> HIDE DEF path, claims, outsiders, last, trusted, identity
  <2>10. /\ ValidChain(claims.forwarded) \/ last = Len(path) => identity = path[last]
         /\ (\E i \in (last + 1) .. Len(path) : path[i] \in Naming) =>
              \E i \in last .. Len(path) : identity = path[i]
    BY <2>9, WalkFindsOutsider, SMTT(30)
  <2> QED
    BY <2>10 DEF ClientIsTheFirstOutsider, path, claims, outsiders, last, trusted, identity
<1> QED BY <1>1, Invariance, PTL

\* Whatever the resolution finds, it is an address.
LEMMA IdentityIsAHost ==
  ASSUME NEW path \in Seq(Hosts), path # <<>>, NEW claims \in Claims, NEW trusted
  PROVE  ResolveClientIP(trusted, path[Len(path)], claims) \in Hosts
<1> DEFINE peer == path[Len(path)]
           chain == Append(claims.forwarded, peer)
           S == {1} \union {i \in DOMAIN chain : chain[i] \notin trusted}
<1>1. peer \in Hosts
  OBVIOUS
<1>2. claims.forwarded \in Seq(Hosts \union {Malformed})
  BY DEF Claims
<1>3. CASE ValidChain(claims.forwarded) /\ claims.forwarded # <<>>
  <2>1. \A i \in 1 .. Len(claims.forwarded) : claims.forwarded[i] \in Hosts
    BY <1>2, <1>3 DEF ValidChain
  <2>2. DOMAIN chain = 1 .. Len(chain) /\ Len(chain) \in Nat \ {0}
        /\ \A i \in 1 .. Len(chain) : chain[i] \in Hosts
    BY <1>1, <1>2, <2>1
  <2>3. Max(S) \in 1 .. Len(chain)
    <3> HIDE DEF chain
    <3>1. S \subseteq 1 .. Len(chain) /\ S # {}
      BY <2>2
    <3> QED BY <2>2, <3>1, HasGreatest
  <2> QED BY <1>1, <1>3, <2>2, <2>3 DEF ResolveClientIP, FirstUntrusted
<1> QED BY <1>1, <1>3 DEF ResolveClientIP

-----------------------------------------------------------------------------
\* The headers under which a key may go out; what stays without one.
KeyHeader(p, openai) ==
  CASE p.auth = "bearer" -> "authorization"
    [] p.auth = "anthropic" -> "x-api-key"
    [] p.auth = "gemini" -> IF openai THEN "authorization" ELSE "x-goog-api-key"

\* Where each header of the upstream request comes from: the key is at its place and
\* nowhere else, and of the client's headers only those that may be copied are left.
LEMMA HeaderSources ==
  ASSUME NEW m, NEW identity, NEW name, NEW p,
         p.auth \in {"none", "bearer", "anthropic", "gemini"},
         p.key \in Keys \union {NoKey},
         identity \in Hosts, name \notin Keys \union {"client"}
  PROVE  LET headers == UpstreamHeaders(m, identity, name, p)
             keyed == {h \in DOMAIN headers : headers[h] \in Keys}
         IN  /\ "x-gemgate-client" \in p.custom \/ headers["x-gemgate-client"] = name
             /\ "x-forwarded-for" \in p.custom \/ headers["x-forwarded-for"] = identity
             /\ \A h \in DOMAIN headers :
                  headers[h] = "client" => h \in Copied(m.headers, m.nominated)
             /\ \A h \in keyed : headers[h] = p.key
             /\ keyed = IF p.key = NoKey \/ p.auth = "none" THEN {}
                        ELSE {KeyHeader(p, m.openai)}
<1> DEFINE copied == [n \in Copied(m.headers, m.nominated) |-> "client"]
           located == Put(copied, {"x-forwarded-for", "x-real-ip"}, identity)
           named == Put(located, {"x-gemgate-client"}, name)
           sent == Put(named, {"x-request-id", "x-gemgate-provider", "via"}, "gateway")
           base == Put(Put(sent, DefaultHeaders(p.auth), "catalog"), p.custom, "provider")
           headers == UpstreamHeaders(m, identity, name, p)
           keyed == {h \in DOMAIN headers : headers[h] \in Keys}
<1>0. /\ "client" \notin Keys /\ "provider" \notin Keys /\ "gateway" \notin Keys
      /\ "catalog" \notin Keys /\ identity \notin Keys /\ name \notin Keys
      /\ NoKey \notin Keys /\ identity # "client" /\ name # "client"
  BY ValuesAssumption
<1>1. /\ "x-gemgate-client" \in DOMAIN sent /\ "x-forwarded-for" \in DOMAIN sent
      /\ sent["x-forwarded-for"] = identity /\ sent["x-gemgate-client"] = name
      /\ \A h \in DOMAIN sent :
           \/ sent[h] \in {identity, name, "gateway"}
           \/ sent[h] = "client" /\ h \in Copied(m.headers, m.nominated)
  BY DEF Put
<1> HIDE DEF sent
<1>2. /\ "x-gemgate-client" \in DOMAIN base /\ "x-forwarded-for" \in DOMAIN base
      /\ "x-gemgate-client" \in p.custom \/ base["x-gemgate-client"] = name
      /\ "x-forwarded-for" \in p.custom \/ base["x-forwarded-for"] = identity
      /\ \A h \in DOMAIN base :
           /\ base[h] \notin Keys
           /\ base[h] = "client" => h \in Copied(m.headers, m.nominated)
  BY <1>0, <1>1 DEF Put, DefaultHeaders
<1>3. headers = ApplyHeaders(sent, p, m.openai)
  BY DEF UpstreamHeaders, sent
<1> HIDE DEF base, headers
<1>4. CASE p.key = NoKey \/ p.auth = "none"
  <2>1. headers = base
    BY <1>3, <1>4 DEF ApplyHeaders, base
  <2> QED BY <1>2, <1>4, <2>1 DEF headers
<1>5. CASE p.key # NoKey /\ p.auth # "none"
  <2> DEFINE k == KeyHeader(p, m.openai)
  <2>0. p.key \in Keys
    BY <1>5
  <2>1. /\ k \in {"authorization", "x-api-key", "x-goog-api-key"}
        /\ k \in DOMAIN headers /\ headers[k] = p.key
        /\ \A h \in DOMAIN headers \ {k} : h \in DOMAIN base /\ headers[h] = base[h]
        /\ \A h \in DOMAIN base \ {"authorization", "x-goog-api-key", "x-api-key"} :
             h \in DOMAIN headers
    <3>1. CASE p.auth = "bearer"
      <4>1. headers = Put(base, {"authorization"}, p.key) /\ k = "authorization"
        BY <1>3, <1>5, <3>1 DEF ApplyHeaders, base, KeyHeader
      <4> QED BY <4>1 DEF Put
    <3>2. CASE p.auth = "anthropic"
      <4>1. headers = Put(base, {"x-api-key"}, p.key) /\ k = "x-api-key"
        BY <1>3, <1>5, <3>2 DEF ApplyHeaders, base, KeyHeader
      <4> QED BY <4>1 DEF Put
    <3>3. CASE p.auth = "gemini" /\ m.openai
      <4>1. /\ headers = Without(Put(base, {"authorization"}, p.key), {"x-goog-api-key"})
            /\ k = "authorization"
        BY <1>3, <1>5, <3>3 DEF ApplyHeaders, base, KeyHeader
      <4> QED BY <4>1 DEF Put, Without
    <3>4. CASE p.auth = "gemini" /\ ~m.openai
      <4>1. /\ headers = Without(Put(base, {"x-goog-api-key"}, p.key), {"authorization"})
            /\ k = "x-goog-api-key"
        BY <1>3, <1>5, <3>4 DEF ApplyHeaders, base, KeyHeader
      <4> QED BY <4>1 DEF Put, Without
    <3> QED BY <1>5, <3>1, <3>2, <3>3, <3>4
  <2> HIDE DEF k
  <2>2. keyed = {k} /\ \A h \in keyed : headers[h] = p.key
    BY <1>2, <2>0, <2>1
  <2>3. \A h \in DOMAIN headers : headers[h] = "client" => h \in Copied(m.headers, m.nominated)
    BY <1>0, <1>2, <2>0, <2>1
  <2>4. /\ "x-gemgate-client" \in p.custom \/ headers["x-gemgate-client"] = name
        /\ "x-forwarded-for" \in p.custom \/ headers["x-forwarded-for"] = identity
    BY <1>2, <2>1
  <2> QED BY <1>5, <2>2, <2>3, <2>4 DEF headers, k
<1> QED BY <1>4, <1>5

\* The request upstream is one that the captured snapshot makes.
LEMMA UpstreamFacts ==
  ASSUME IInv, exchange.upstream # Nothing
  PROVE  \E n \in ProvidersFor(Captured, Message.route),
            c \in ClientsOf(Captured, Message.token) :
           /\ exchange.upstream.provider = n
           /\ exchange.upstream.headers =
                UpstreamHeaders(Message, exchange.identity, c, Captured.providers[n])
           /\ exchange.upstream.body =
                IF Captured.limit = 0 THEN Message.body.arrives
                ELSE BodyRead(Message.body.length, Captured.limit)
           /\ exchange.upstream.complete <=>
                (Captured.limit = 0 => Message.body.arrives = Message.body.length)
<1>1. exchange.upstream \in Sendable /\ Resolved
  BY DEF IInv, ServedByCaptured
<1>2. PICK n \in ProvidersFor(Captured, Message.route),
           c \in ClientsOf(Captured, Message.token) :
        exchange.upstream = Request(Captured, n, c)
  BY <1>1 DEF Sendable
<1> DEFINE identity == ResolveClientIP(Captured.trusted, Peer, exchange.claims)
           headers == UpstreamHeaders(Message, identity, c, Captured.providers[n])
           body == IF Captured.limit = 0 THEN Message.body.arrives
                   ELSE BodyRead(Message.body.length, Captured.limit)
           complete == Captured.limit = 0 => Message.body.arrives = Message.body.length
<1>3. exchange.upstream = [provider |-> n, headers |-> headers, body |-> body, complete |-> complete]
  BY <1>2 DEF Request
<1>4. exchange.identity = identity
  BY <1>1 DEF Resolved
<1> HIDE DEF headers, body, complete
<1>5. /\ exchange.upstream.provider = n /\ exchange.upstream.headers = headers
      /\ exchange.upstream.body = body /\ exchange.upstream.complete = complete
  BY <1>3
<1> QED BY <1>4, <1>5 DEF headers, body, complete

\* For every configuration, header set and provider: one snapshot makes the whole
\* request, its key goes out in one header, and nothing private of the client's does
\* (proxy.go:15-58; http_helpers.go:52-75; catalog.go:107-144).
THEOREM UpstreamCarriesOneSnapshotHolds == Spec => []UpstreamCarriesOneSnapshot
<1>1. IInv => UpstreamCarriesOneSnapshot
  <2> SUFFICES ASSUME IInv, exchange.upstream # Nothing PROVE UpstreamCarriesOneSnapshot
    BY DEF UpstreamCarriesOneSnapshot
  <2>1. PICK n \in ProvidersFor(Captured, Message.route),
             c \in ClientsOf(Captured, Message.token) :
          /\ exchange.upstream.provider = n
          /\ exchange.upstream.headers =
               UpstreamHeaders(Message, exchange.identity, c, Captured.providers[n])
    BY UpstreamFacts
  <2> DEFINE p == Captured.providers[n]
             headers == UpstreamHeaders(Message, exchange.identity, c, p)
             keyed == {h \in DOMAIN headers : headers[h] \in Keys}
  <2>2. Captured \in Candidates /\ ~At("idle") /\ Resolved /\ exchange.at = Len(exchange.path)
    BY DEF IInv, ServedByCaptured, Underway, Configurations, At
  <2>3. /\ n \in DOMAIN Captured.providers
        /\ p.auth \in {"none", "bearer", "anthropic", "gemini"} /\ p.key \in Keys \union {NoKey}
    BY <2>2, CandidatesAssumption DEF ProvidersFor
  <2>4. /\ c \in DOMAIN Captured.clients /\ Captured.clients[c] = Message.token
        /\ c \notin Keys \union {"client"}
    BY <2>2, ValuesAssumption DEF ClientsOf
  <2>5. exchange.identity \in Hosts
    <3>1. /\ exchange.path \in Seq(Hosts) /\ exchange.path # <<>> /\ exchange.claims \in Claims
      BY <2>2 DEF IInv, Underway
    <3> QED BY <2>2, <3>1, IdentityIsAHost DEF Resolved, Peer
  <2>6. /\ "x-gemgate-client" \in p.custom \/ headers["x-gemgate-client"] = c
        /\ "x-forwarded-for" \in p.custom \/ headers["x-forwarded-for"] = exchange.identity
        /\ \A h \in DOMAIN headers :
             headers[h] = "client" => h \in Copied(Message.headers, Message.nominated)
        /\ \A h \in keyed : headers[h] = p.key
        /\ keyed = IF p.key = NoKey \/ p.auth = "none" THEN {}
                   ELSE {KeyHeader(p, Message.openai)}
    BY <2>3, <2>4, <2>5, HeaderSources
  <2>7. Cardinality(keyed) = IF p.key = NoKey \/ p.auth = "none" THEN 0 ELSE 1
    <3> HIDE DEF keyed
    <3> QED BY <2>6, FS_EmptySet, FS_Singleton
  <2>8. \A h \in (HopByHop \union CredentialHeaders \union ForwardingHeaders
                   \union TracingHeaders \union Message.nominated) \intersect DOMAIN headers :
          headers[h] # "client"
    BY <2>6 DEF Copied
  <2> HIDE DEF headers
  <2> QED BY <2>1, <2>4, <2>6, <2>7, <2>8 DEF UpstreamCarriesOneSnapshot, headers
<1> QED BY <1>1, Invariance, PTL

\* The message that travels has a body that broke off or did not.
LEMMA MessageBody ==
  ASSUME Demanded, ~At("idle")
  PROVE  /\ Message.body.length \in 0 .. MaxInt /\ Message.body.arrives \in 0 .. MaxInt
         /\ Message.body.arrives <= Message.body.length
<1>1. CASE Preflight(Message)
  <2>1. Message.body = [length |-> 0, arrives |-> 0, declared |-> TRUE]
    BY <1>1, PreflightFields DEF Demanded
  <2> QED BY <2>1, MaxIntAssumption
<1>2. CASE ~Preflight(Message)
  BY <1>2, DemandFields DEF Demanded
<1> QED BY <1>1, <1>2

\* A body that passes is read whole and fits; what is too large is so.
LEMMA BodyArithmetic ==
  ASSUME NEW body, NEW limit \in 0 .. MaxInt,
         body.length \in 0 .. MaxInt, body.arrives \in 0 .. MaxInt,
         body.arrives <= body.length
  PROVE  /\ BodyStatus(body, limit) = "413" => limit # 0 /\ body.length > limit
         /\ BodyStatus(body, limit) = "ok" /\ limit # 0 =>
              /\ body.length <= limit
              /\ BodyRead(body.length, limit) = IF limit = MaxInt THEN 0 ELSE body.length
<1>0. MaxInt \in Nat \ {0}
  BY MaxIntAssumption
<1> DEFINE length == body.length
           read == BodyRead(length, limit)
<1>1. CASE limit = MaxInt
  <2>1. read = 0
    BY <1>0, <1>1 DEF BodyRead, Successor
  <2> QED BY <1>0, <1>1, <2>1 DEF BodyStatus
<1>2. CASE limit # MaxInt
  <2>1. read = IF length < limit + 1 THEN length ELSE limit + 1
    BY <1>0, <1>2 DEF BodyRead, Successor
  <2> HIDE DEF read
  <2>2. /\ BodyStatus(body, limit) = "413" => limit # 0 /\ (length > limit \/ read > limit)
        /\ BodyStatus(body, limit) = "ok" /\ limit # 0 => length = 0 \/ read <= limit
    BY <1>0, <2>1 DEF BodyStatus, read
  <2> QED BY <1>0, <1>2, <2>1, <2>2 DEF read
<1> QED BY <1>1, <1>2

\* For every limit that an int64 can hold and every body: it goes out whole or not
\* at all, and empty under the largest limit of all (proxy.go:109-127).
THEOREM BodyIsWholeHolds == Spec => []BodyIsWhole
<1>1. IInv => BodyIsWhole
  <2> SUFFICES ASSUME IInv PROVE BodyIsWhole
    OBVIOUS
  <2>1. ASSUME exchange.upstream # Nothing \/ At("answered")
        PROVE  /\ Captured.limit \in 0 .. MaxInt
               /\ Message.body.length \in 0 .. MaxInt
               /\ Message.body.arrives \in 0 .. MaxInt
               /\ Message.body.arrives <= Message.body.length
    <3>1. ~At("idle") /\ ~At("travelling")
      BY <2>1 DEF IInv, ServedByCaptured, At
    <3>2. Captured \in Candidates
      BY <3>1 DEF IInv, Underway, Configurations, At
    <3> QED BY <3>1, <3>2, CandidatesAssumption, MessageBody DEF IInv
  <2>2. ASSUME exchange.upstream # Nothing
        PROVE  /\ exchange.upstream.complete =>
                    exchange.upstream.body = IF Captured.limit = MaxInt THEN 0
                                             ELSE Message.body.length
               /\ Captured.limit # 0 => Message.body.length <= Captured.limit
    <3>1. BodyStatus(Message.body, Captured.limit) = "ok"
      BY <2>2 DEF IInv, ServedByCaptured
    <3>2. /\ exchange.upstream.body =
               IF Captured.limit = 0 THEN Message.body.arrives
               ELSE BodyRead(Message.body.length, Captured.limit)
          /\ exchange.upstream.complete <=>
               (Captured.limit = 0 => Message.body.arrives = Message.body.length)
      BY <2>2, UpstreamFacts
    <3>3. Captured.limit # 0 =>
            /\ Message.body.length <= Captured.limit
            /\ BodyRead(Message.body.length, Captured.limit) =
                 IF Captured.limit = MaxInt THEN 0 ELSE Message.body.length
      BY <2>1, <2>2, <3>1, BodyArithmetic
    <3>4. MaxInt # 0
      BY MaxIntAssumption
    <3> QED BY <3>2, <3>3, <3>4
  <2>3. ASSUME At("answered"), exchange.answer.status = "413"
        PROVE  Captured.limit # 0 /\ Message.body.length > Captured.limit
    <3>1. BodyStatus(Message.body, Captured.limit) = "413"
      BY <2>3 DEF IInv, AnswerExplained
    <3> QED BY <2>1, <2>3, <3>1, BodyArithmetic
  <2> QED BY <2>2, <2>3 DEF BodyIsWhole
<1> QED BY <1>1, Invariance, PTL

\* For every policy: what a preflight promised the page, the answer keeps, up to
\* reloads of the policy and the provider's own CORS headers
\* (cors.go:87-124; http_helpers.go:77-91).
THEOREM ReadableByTheBrowserHolds == Spec => []ReadableByTheBrowser
<1>1. IInv => ReadableByTheBrowser
  <2> SUFFICES ASSUME IInv, At("answered"), exchange.approvedBy # NoSnapshot,
                      exchange.approvedBy.cors = Captured.cors
               PROVE  Readable(exchange.answer.grants, Message.origin, Message.credentials)
                        <=> exchange.answer.from # "cors provider"
    BY DEF ReadableByTheBrowser
  <2> DEFINE granted == Grants(Captured.cors, Message)
  <2>1. Readable(granted, Message.origin, Message.credentials)
    BY DEF IInv, ApprovedReads
  <2>2. CASE exchange.answer.from # "cors provider"
    BY <2>1, <2>2 DEF IInv, AnswerExplained
  <2>3. CASE exchange.answer.from = "cors provider"
    <3>1. exchange.answer.grants.origins = Append(granted.origins, AnyOrigin)
      BY <2>3 DEF IInv, AnswerExplained
    <3>2. granted.origins = <<>> \/ \E x : granted.origins = <<x>>
      BY DEF Grants
    <3> HIDE DEF granted
    <3>3. Len(Append(granted.origins, AnyOrigin)) = Len(granted.origins) + 1
          /\ Len(granted.origins) \in Nat
      BY <3>2
    <3>4. Len(granted.origins) = 1
      BY <2>1 DEF Readable
    <3>5. Len(exchange.answer.grants.origins) # 1
      BY <3>1, <3>3, <3>4
    <3>6. ~Readable(exchange.answer.grants, Message.origin, Message.credentials)
      BY <3>5 DEF Readable
    <3> QED BY <2>3, <3>6
  <2> QED BY <2>2, <2>3
<1> QED BY <1>1, Invariance, PTL

\* For all clients, tokens and configurations: only application tokens are metered
\* and forwarded, and an operational page is served at its own door
\* (gateway.go:233-288; operations_auth.go:9-19; docs/ARCHITECTURE.md:51-57).
THEOREM DomainsApartHolds == Spec => []DomainsApart
<1>1. IInv => DomainsApart
  <2> SUFFICES ASSUME IInv PROVE DomainsApart
    OBVIOUS
  <2>1. exchange.upstream # Nothing => exchange.metered
    BY DEF IInv, ServedByCaptured
  <2>2. ASSUME exchange.metered
        PROVE  /\ Message.token # Captured.operations
               /\ \E n \in DOMAIN Captured.clients : Captured.clients[n] = Message.token
               /\ Message.route \notin OperationalPaths /\ Message.method # "OPTIONS"
    <3>1. /\ ~At("idle") /\ ~At("travelling") /\ ClientsOf(Captured, Message.token) # {}
          /\ Message.route \notin OperationalPaths /\ Message.method # "OPTIONS"
      BY <2>2 DEF IInv, ServedByCaptured
    <3>2. Valid(Captured)
      BY <3>1 DEF IInv, Underway, At, Configurations
    <3>3. \E n \in DOMAIN Captured.clients : Captured.clients[n] = Message.token
      BY <3>1 DEF ClientsOf
    <3> QED BY <3>1, <3>2, <3>3 DEF Valid
  <2>3. ASSUME At("answered"), exchange.answer.status = "operations"
        PROVE  \/ Message.token \in IF Captured.operations # NoToken THEN {Captured.operations}
                                    ELSE {Captured.clients[n] : n \in DOMAIN Captured.clients}
               \/ Captured.publicHealth /\ Message.route \notin {"/_metrics", "/_config"}
    <3>1. Public \/ (Message.route \in OperationalPaths /\ Authorized(Captured, Message.token))
      BY <2>3 DEF IInv, AnswerExplained
    <3> QED BY <3>1 DEF Public, Authorized, ClientsOf
  <2> QED BY <2>1, <2>2, <2>3 DEF DomainsApart
<1> QED BY <1>1, Invariance, PTL
=============================================================================
