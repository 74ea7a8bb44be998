-------------------------------- MODULE Edge --------------------------------
(***************************************************************************)
(* One request after another through Gateway.ServeHTTP: from a program or  *)
(* a page, over the hosts in between, past CORS, the operations and the    *)
(* application tokens and the limiter, to a provider and back, while hot   *)
(* reloads publish other configurations.  Requests share nothing here but  *)
(* the runtime snapshot, so that one at a time is enough; what they share  *)
(* else (windows, breakers, counters) has modules of its own.              *)
(***************************************************************************)
EXTENDS TrustedProxies, Cors, Upstream

CONSTANTS
  Honest,         \* hosts that relay as a reverse proxy should; others write anything
  Journeys,       \* bound: what clients ask for, over which hosts, with what claims
  ForgedClaims,   \* bound: what a host that is not honest may make of a request's claims
  Candidates,     \* bound: the configurations that are offered
  NoToken,        \* no bearer token; no operations token
  NoSnapshot,
  Nothing,        \* no upstream request, no answer
  MaxReloads      \* bound: reloads applied

ASSUME MaxReloadsAssumption == MaxReloads \in Nat

VARIABLES
  runtime,   \* Gateway.runtime: the current configuration
  reloads,   \* bound: number of reloads so far
  approval,  \* the browser's: the demand its last preflight was approved for, and by whom
  exchange   \* the request on its way and what came of it

vars == <<runtime, reloads, approval, exchange>>

\* Spec.RequiresAPIKey; of the bearer types some do and some do not.
RequiresKey(p) == p.auth \in {"gemini", "anthropic"}

\* Mutant of Valid: the operations token may be a client's.
ValidWithSharedToken(c) ==
  /\ c.default \in DOMAIN c.providers
  /\ \A n \in DOMAIN c.providers : RequiresKey(c.providers[n]) => c.providers[n].key # NoKey
  /\ DOMAIN c.clients # {}
  /\ \A a, b \in DOMAIN c.clients : c.clients[a] = c.clients[b] => a = b
  /\ ValidPolicy(c.cors)

\* validate, whose rule on keys comes first (config.go:444-446).
Valid(c) ==
  /\ c.default \in DOMAIN c.providers
  /\ \A n \in DOMAIN c.providers : RequiresKey(c.providers[n]) => c.providers[n].key # NoKey
  /\ DOMAIN c.clients # {}
  /\ \A a, b \in DOMAIN c.clients : c.clients[a] = c.clients[b] => a = b
  /\ \A a \in DOMAIN c.clients : c.clients[a] # c.operations
  /\ ValidPolicy(c.cors)
Configurations == {c \in Candidates : Valid(c)}

\* docs/TRUSTED_PROXIES.md: only controlled reverse proxies are configured.
ASSUME TrustAssumption == \A c \in Candidates : c.trusted \subseteq Honest
ASSUME CandidatesAssumption ==
  \A c \in Candidates :
    /\ c.limit \in 0 .. MaxInt
    /\ \A n \in DOMAIN c.providers :
         /\ c.providers[n].auth \in {"none", "bearer", "anthropic", "gemini"}
         /\ c.providers[n].key \in Keys \union {NoKey}

\* The value of a header says whose it is.
ASSUME ValuesAssumption ==
  /\ (Keys \union Hosts) \intersect {"client", "provider", "gateway", "catalog"} = {}
  /\ Keys \intersect Hosts = {} /\ NoKey \notin Keys
  /\ \A c \in Candidates : DOMAIN c.clients \intersect (Keys \union {"client"}) = {}

\* A client asks with a body that may break off; only a browser's preflight asks for a
\* method.
Demand(d) ==
  /\ d = [method |-> d.method, route |-> d.route, openai |-> d.openai, token |-> d.token,
          origin |-> d.origin, credentials |-> d.credentials, asks |-> NoMethod,
          asksHeaders |-> {}, headers |-> d.headers, nominated |-> d.nominated, body |-> d.body]
  /\ d.method # NoMethod
  /\ d.body \in [length : 0 .. MaxInt, arrives : 0 .. MaxInt, declared : BOOLEAN]
  /\ d.body.arrives <= d.body.length
ASSUME JourneysAssumption ==
  \A j \in Journeys :
    Demand(j.demand) /\ j.path # <<>> /\ j.path \in Seq(Hosts) /\ j.claims \in Claims
ASSUME ForgedAssumption == ForgedClaims \subseteq Claims

OperationalPaths == {"/_healthz", "/_readyz", "/_metrics", "/_config"}

Idle ==
  [stage |-> "idle", path |-> <<>>, at |-> 0, message |-> Nothing, claims |-> Nothing,
   captured |-> NoSnapshot, approvedBy |-> NoSnapshot, identity |-> Nothing,
   metered |-> FALSE, upstream |-> Nothing, answer |-> Nothing]
NoApproval == [demand |-> Nothing, by |-> NoSnapshot]

At(stage) == exchange.stage = stage
Goes(next) ==
  /\ exchange' = next
  /\ UNCHANGED <<runtime, reloads, approval>>

Init ==
  /\ runtime \in Configurations
  /\ reloads = 0
  /\ approval = NoApproval
  /\ exchange = Idle

Reload ==
  /\ reloads < MaxReloads
  /\ runtime' \in Configurations \ {runtime}
  /\ reloads' = reloads + 1
  /\ UNCHANGED <<approval, exchange>>

-----------------------------------------------------------------------------
(* The way to the gateway.                                                 *)

\* What the browser asks before it sends the page's request d.
PreflightOf(d) ==
  [d EXCEPT !.method = "OPTIONS", !.token = NoToken, !.headers = {},
            !.asks = d.method, !.asksHeaders = {"authorization"} \union d.headers,
            !.body = [length |-> 0, arrives |-> 0, declared |-> TRUE]]

\* A client sends its demand over hosts of which it is the first ...
SendRequest(j) ==
  LET d == j.demand IN
  /\ At("idle")
  /\ d.origin = NoOrigin \/ approval.demand = d
  /\ exchange' =
       [Idle EXCEPT !.stage = "travelling", !.path = j.path, !.at = 1,
                    !.claims = j.claims, !.message = d,
                    !.approvedBy = IF d.origin = NoOrigin THEN NoSnapshot ELSE approval.by]
  /\ approval' = IF d.origin = NoOrigin THEN approval ELSE NoApproval
  /\ UNCHANGED <<runtime, reloads>>

\* ... but for a page the browser asks first.
SendPreflight(j) ==
  LET d == j.demand IN
  /\ At("idle")
  /\ d.origin # NoOrigin /\ approval.demand # d
  /\ exchange' =
       [Idle EXCEPT !.stage = "travelling", !.path = j.path, !.at = 1,
                    !.claims = j.claims, !.message = PreflightOf(d)]
  /\ approval' = [demand |-> d, by |-> NoSnapshot]
  /\ UNCHANGED <<runtime, reloads>>

\* The next host passes the request on.
Relay ==
  LET i == exchange.at
      path == exchange.path
  IN  /\ At("travelling") /\ i < Len(path)
      /\ \E claims \in IF path[i + 1] \in Honest
                       THEN {Relayed(path[i + 1], path[i], exchange.claims)}
                       ELSE ForgedClaims :
           Goes([exchange EXCEPT !.at = i + 1, !.claims = claims])

-----------------------------------------------------------------------------
(* ServeHTTP.  The response's CORS headers are written first and stay on it. *)

Peer == exchange.path[Len(exchange.path)]
Captured == exchange.captured
Message == exchange.message

\* An answer that the gateway gives itself.
Local(status) ==
  [status |-> status, from |-> "gateway", grants |-> Grants(Captured.cors, Message)]
Answers(status) == Goes([exchange EXCEPT !.stage = "answered", !.answer = Local(status)])

\* ServeHTTP takes the snapshot; serveHTTP resolves the client.
Arrive ==
  /\ At("travelling") /\ exchange.at = Len(exchange.path)
  /\ ~Handles(runtime.cors, Message)
  /\ Goes([exchange EXCEPT !.stage = "arrived", !.captured = runtime,
             !.identity = ResolveClientIP(runtime.trusted, Peer, exchange.claims)])

\* corsHandler.handle answers a preflight.
AnswerPreflight ==
  /\ At("travelling") /\ exchange.at = Len(exchange.path)
  /\ Handles(runtime.cors, Message)
  /\ Goes([exchange EXCEPT !.stage = "answered", !.captured = runtime,
             !.answer = [status |-> IF Approves(runtime.cors, Message) THEN "204" ELSE "403",
                         from |-> "gateway", grants |-> Grants(runtime.cors, Message)]])

Public == Captured.publicHealth /\ Message.route \in {"/_healthz", "/_readyz"}

\* The names of the clients that a token authenticates.
ClientsOf(s, token) == {n \in DOMAIN s.clients : s.clients[n] = token}

\* operationsAuthorized.
Authorized(s, token) ==
  IF s.operations = NoToken THEN ClientsOf(s, token) # {} ELSE token = s.operations

AnswerPublic ==
  /\ At("arrived") /\ Public
  /\ Answers("operations")

AnswerOptions ==
  /\ At("arrived") /\ ~Public /\ Message.method = "OPTIONS"
  /\ Answers("204")

AnswerOperations ==
  /\ At("arrived") /\ ~Public /\ Message.method # "OPTIONS"
  /\ Message.route \in OperationalPaths
  /\ Answers(IF Authorized(Captured, Message.token) THEN "operations" ELSE "401")

ForApplication ==
  At("arrived") /\ Message.method # "OPTIONS" /\ Message.route \notin OperationalPaths

RejectClient ==
  /\ ForApplication /\ ClientsOf(Captured, Message.token) = {}
  /\ Answers("401")

\* The limiter admits the request ...
Charge ==
  /\ ForApplication /\ ClientsOf(Captured, Message.token) # {}
  /\ Goes([exchange EXCEPT !.stage = "admitted", !.metered = TRUE])

\* ... or refuses it: the limit is reached, or the backend fails closed.
Refuse ==
  /\ ForApplication /\ ClientsOf(Captured, Message.token) # {}
  /\ \E status \in {"429", "503"} :
       Goes([exchange EXCEPT !.stage = "answered", !.metered = TRUE, !.answer = Local(status)])

-----------------------------------------------------------------------------
(* Gateway.proxy.                                                          *)

\* resolveProvider: the provider that s has for the route, if any.
ProvidersFor(s, route) ==
  {n \in DOMAIN s.providers : n = IF route = "default" THEN s.default ELSE route}

\* prepareBody, in order: it refuses a declared length, fails to read, or finds
\* that it has read more than the limit.
BodyStatus(body, limit) ==
  LET read == BodyRead(body.length, limit)
  IN  IF body.length = 0 \/ limit = 0 THEN "ok"
      ELSE IF body.declared /\ body.length > limit THEN "413"
      ELSE IF body.arrives < read THEN "400"
      ELSE IF read > limit THEN "413"
      ELSE "ok"

RouteFails ==
  /\ At("admitted") /\ ProvidersFor(Captured, Message.route) = {}
  /\ Answers(IF Message.route = "malformed" THEN "400" ELSE "404")

BodyFails ==
  /\ At("admitted") /\ ProvidersFor(Captured, Message.route) # {}
  /\ BodyStatus(Message.body, Captured.limit) # "ok"
  /\ Answers(BodyStatus(Message.body, Captured.limit))

\* The request that snapshot s sends to its provider n for its client c.
Request(s, n, c) ==
  LET streamed == s.limit = 0
      body == Message.body
      identity == ResolveClientIP(s.trusted, Peer, exchange.claims)
  IN  [provider |-> n,
       headers |-> UpstreamHeaders(Message, identity, c, s.providers[n]),
       body |-> IF streamed THEN body.arrives ELSE BodyRead(body.length, s.limit),
       complete |-> streamed => body.arrives = body.length]

\* Mutant of Forward: proxy asks the gateway for its runtime again.
ForwardWithCurrent ==
  /\ At("admitted")
  /\ BodyStatus(Message.body, Captured.limit) = "ok"
  /\ \E n \in ProvidersFor(runtime, Message.route), c \in ClientsOf(Captured, Message.token) :
       Goes([exchange EXCEPT !.stage = "upstream", !.upstream = Request(runtime, n, c)])

Forward ==
  /\ At("admitted")
  /\ BodyStatus(Message.body, Captured.limit) = "ok"
  /\ \E n \in ProvidersFor(Captured, Message.route), c \in ClientsOf(Captured, Message.token) :
       Goes([exchange EXCEPT !.stage = "upstream", !.upstream = Request(Captured, n, c)])

\* client.Do fails: a body that breaks, the provider, the network.
UpstreamFails ==
  /\ At("upstream")
  /\ Answers("502")

\* The provider's response, whose headers copyResponseHeaders adds to those of
\* the gateway; a provider may have CORS headers of its own.
Respond ==
  /\ At("upstream")
  /\ \E own \in {<<>>, <<AnyOrigin>>} :
       Goes([exchange EXCEPT !.stage = "answered", !.answer =
              [status |-> "200", from |-> IF own = <<>> THEN "provider" ELSE "cors provider",
               grants |-> [Grants(Captured.cors, Message) EXCEPT !.origins = @ \o own]]])

\* The client has the answer; a preflight's answer decides for the browser.
Deliver ==
  /\ At("answered")
  /\ exchange' = Idle
  /\ approval' =
       IF ~Preflight(Message) THEN approval
       ELSE IF /\ exchange.answer.status = "204"
               /\ Readable(exchange.answer.grants, Message.origin, Message.credentials)
       THEN [approval EXCEPT !.by = Captured]
       ELSE NoApproval
  /\ UNCHANGED <<runtime, reloads>>

Serve ==
  \/ Arrive \/ AnswerPreflight \/ AnswerPublic \/ AnswerOptions \/ AnswerOperations
  \/ RejectClient \/ Charge \/ Refuse \/ RouteFails \/ BodyFails \/ Forward
  \/ UpstreamFails \/ Respond

Send == \E j \in Journeys : SendRequest(j) \/ SendPreflight(j)
Next == Reload \/ Send \/ Relay \/ Serve \/ Deliver

Spec == Init /\ [][Next]_vars

-----------------------------------------------------------------------------
\* The identity that is logged is the last host outside the trusted proxies that
\* the request really passed, whatever hosts before it claim, unless they spoil the
\* chain.  Then X-Real-IP decides: behind a proxy that names its caller there the
\* identity is still a host the request came by, maybe a trusted one; where every
\* proxy behind the outsider passes X-Real-IP on, nothing is promised, and the
\* outsider chooses the identity (trusted_proxy.go:21-35).
ClientIsTheFirstOutsider ==
  LET path == exchange.path
      outsiders == Outsiders(Captured.trusted, path)
      last == Max(outsiders)
      named == \E i \in (last + 1)..Len(path) : path[i] \in Naming
  IN  exchange.identity # Nothing /\ outsiders # {} =>
        /\ ValidChain(exchange.claims.forwarded) \/ last = Len(path) =>
             exchange.identity = path[last]
        /\ named => \E i \in last..Len(path) : exchange.identity = path[i]

\* One snapshot decides everything a provider is sent: the route, the client it
\* is told of and the identity (the one that is logged), unless the provider's custom
\* headers replace them, and the credential, the key of that provider in that
\* configuration and no other, in one header that nothing replaces.  None of
\* the client's credentials, forwarding, tracing or connection headers passes
\* (proxy.go:15-58; http_helpers.go:52-75; catalog.go:107-144).
UpstreamCarriesOneSnapshot ==
  LET u == exchange.upstream
      p == Captured.providers[u.provider]
      private == HopByHop \union CredentialHeaders \union ForwardingHeaders
                   \union TracingHeaders \union Message.nominated
      keyed == {h \in DOMAIN u.headers : u.headers[h] \in Keys}
  IN  u # Nothing =>
        /\ u.provider \in ProvidersFor(Captured, Message.route)
        /\ \/ "x-gemgate-client" \in p.custom
           \/ Captured.clients[u.headers["x-gemgate-client"]] = Message.token
        /\ \/ "x-forwarded-for" \in p.custom
           \/ u.headers["x-forwarded-for"] = exchange.identity
        /\ \A h \in private \intersect DOMAIN u.headers : u.headers[h] # "client"
        /\ \A h \in keyed : u.headers[h] = p.key
        /\ Cardinality(keyed) = IF p.key = NoKey \/ p.auth = "none" THEN 0 ELSE 1

\* A body reaches the provider whole or not at all: no request looks complete
\* there with less than the client sent, and none is longer than the limit of the
\* snapshot.  The one exception is a limit of the largest int64, which the
\* configuration accepts: limit+1 is then negative, nothing is read, and every
\* body goes out empty (proxy.go:109-127).
BodyIsWhole ==
  LET u == exchange.upstream
      limit == Captured.limit
      length == Message.body.length
  IN  /\ u # Nothing /\ u.complete => u.body = IF limit = MaxInt THEN 0 ELSE length
      /\ u # Nothing /\ limit # 0 => length <= limit
      /\ At("answered") /\ exchange.answer.status = "413" => limit # 0 /\ length > limit

\* A page whose preflight was approved can read the answer to its request, also
\* one that the gateway gives itself (401, 413, 429, 502 ...), unless a reload
\* changed the CORS policy in between or the provider sends CORS headers of its
\* own: they are added to the gateway's, and two allowed origins are none
\* (cors.go:87-124; http_helpers.go:77-91).
ReadableByTheBrowser ==
  /\ At("answered")
  /\ exchange.approvedBy # NoSnapshot
  /\ exchange.approvedBy.cors = Captured.cors
  => (Readable(exchange.answer.grants, Message.origin, Message.credentials)
        <=> exchange.answer.from # "cors provider")

\* The application's and the operations' doors stay apart, whatever tokens the
\* configurations before and after give to whom: only an application token that
\* is not the operations token of the same configuration is metered and reaches a
\* provider, no preflight and no operational path does, and an operational page
\* is served to its own tokens, the public ones to everybody
\* (gateway.go:233-288; operations_auth.go:9-19; docs/ARCHITECTURE.md:51-57).
DomainsApart ==
  LET token == Message.token
      door == IF Captured.operations # NoToken THEN {Captured.operations}
              ELSE {Captured.clients[n] : n \in DOMAIN Captured.clients}
  IN  /\ exchange.upstream # Nothing => exchange.metered
      /\ exchange.metered =>
           /\ token # Captured.operations
           /\ \E n \in DOMAIN Captured.clients : Captured.clients[n] = token
           /\ Message.route \notin OperationalPaths /\ Message.method # "OPTIONS"
      /\ At("answered") /\ exchange.answer.status = "operations" =>
           \/ token \in door
           \/ Captured.publicHealth /\ Message.route \notin {"/_metrics", "/_config"}
=============================================================================
