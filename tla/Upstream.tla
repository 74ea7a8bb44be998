------------------------------ MODULE Upstream ------------------------------
(***************************************************************************)
(* What a provider is sent for a client's request: the route, the headers, *)
(* the provider's credential and the body (internal/gateway/proxy.go,      *)
(* http_helpers.go, internal/provider/catalog.go).  A header is its name   *)
(* in lower case and a value that says whose it is.                        *)
(***************************************************************************)
EXTENDS Integers

CONSTANTS
  Keys,    \* the providers' api keys
  NoKey,   \* a provider without api_key
  MaxInt   \* the largest int64 (a small stand-in of the form 2^w - 1)

ASSUME MaxIntAssumption == MaxInt \in Nat \ {0}

HopByHop ==
  {"connection", "keep-alive", "proxy-authenticate", "proxy-authorization", "te",
   "trailer", "transfer-encoding", "upgrade", "host", "content-length"}
CredentialHeaders ==
  {"authorization", "x-goog-api-key", "x-goog-user-project", "x-api-key", "api-key",
   "anthropic-version"}
ForwardingHeaders ==
  {"forwarded", "x-forwarded-for", "x-forwarded-host", "x-forwarded-port",
   "x-forwarded-proto", "x-real-ip"}
TracingHeaders == {"traceparent", "tracestate", "baggage"}

\* copyRequestHeaders: what it takes over of the names a client sent, when the
\* client's Connection header nominates some of them.
Copied(names, nominated) ==
  names \ (HopByHop \union nominated \union CredentialHeaders
             \union ForwardingHeaders \union TracingHeaders)

\* http.Header: Set for each of some names, and Del.
Put(headers, names, value) ==
  [n \in DOMAIN headers \union names |-> IF n \in names THEN value ELSE headers[n]]
Without(headers, names) == [n \in DOMAIN headers \ names |-> headers[n]]

\* The headers that a provider type always sends (Spec.DefaultHeaders).
DefaultHeaders(auth) == IF auth = "anthropic" THEN {"anthropic-version"} ELSE {}

\* Spec.ApplyHeaders on headers, for provider p and a path of the OpenAI dialect
\* or not (isGeminiOpenAIPath).  validate has seen to it that a key is there where
\* the type requires one.
ApplyHeaders(headers, p, openai) ==
  LET base == Put(Put(headers, DefaultHeaders(p.auth), "catalog"), p.custom, "provider")
      bearer == Put(base, {"authorization"}, p.key)
  IN  CASE p.key = NoKey \/ p.auth = "none" -> base
        [] p.auth = "bearer" /\ p.key # NoKey -> bearer
        [] p.auth = "anthropic" /\ p.key # NoKey -> Put(base, {"x-api-key"}, p.key)
        [] p.auth = "gemini" /\ p.key # NoKey ->
             IF openai THEN Without(bearer, {"x-goog-api-key"})
             ELSE Without(Put(base, {"x-goog-api-key"}, p.key), {"authorization"})

\* The headers of the upstream request for client name: the client's, over them
\* what proxy sets itself, over that the provider's.
UpstreamHeaders(m, identity, name, p) ==
  LET copied == [n \in Copied(m.headers, m.nominated) |-> "client"]
      located == Put(copied, {"x-forwarded-for", "x-real-ip"}, identity)
      named == Put(located, {"x-gemgate-client"}, name)
  IN  ApplyHeaders(Put(named, {"x-request-id", "x-gemgate-provider", "via"}, "gateway"),
                   p, m.openai)

\* int64 addition of one.
Successor(n) == IF n = MaxInt THEN -MaxInt - 1 ELSE n + 1

\* Mutant of BodyRead: the reader stops at the limit, and the rest is not missed.
BodyReadShort(size, limit) == IF size < limit THEN size ELSE limit

\* io.ReadAll of io.LimitReader(r.Body, limit+1): bytes read of a body of that size.
BodyRead(size, limit) ==
  LET n == Successor(limit)
  IN  IF n <= 0 THEN 0 ELSE IF size < n THEN size ELSE n
=============================================================================
