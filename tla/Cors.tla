-------------------------------- MODULE Cors --------------------------------
(***************************************************************************)
(* The CORS policy of a runtime snapshot (internal/gateway/cors.go,        *)
(* validateCORS in internal/config/config.go), and what a browser makes of *)
(* its answers.  Names are compared as the code compares them, without     *)
(* regard to case for methods and headers.                                 *)
(***************************************************************************)
EXTENDS Naturals, Sequences

CONSTANTS
  AnyOrigin,  \* "*"
  NoOrigin,   \* no Origin header: not a page's request
  NoMethod    \* no Access-Control-Request-Method header

\* validateCORS.
ValidPolicy(p) ==
  p.enabled =>
    /\ p.origins # {} /\ p.methods # {} /\ p.headers # {}
    /\ ~(AnyOrigin \in p.origins /\ p.credentials)

Preflight(m) == m.method = "OPTIONS" /\ m.origin # NoOrigin /\ m.asks # NoMethod

AllowsOrigin(p, origin) == AnyOrigin \in p.origins \/ origin \in p.origins

\* Mutant of Grants: only a preflight is told that credentials are allowed.
GrantsCredentialsOnce(p, m) ==
  IF p.enabled /\ m.origin # NoOrigin /\ AllowsOrigin(p, m.origin)
  THEN [origins |-> <<IF AnyOrigin \in p.origins THEN AnyOrigin ELSE m.origin>>,
        credentials |-> p.credentials /\ Preflight(m)]
  ELSE [origins |-> <<>>, credentials |-> FALSE]

\* Access-Control-Allow-Origin and -Credentials as handle leaves them on the
\* response, before anything else is written: allowOrigin and writeCommonHeaders.
Grants(p, m) ==
  IF p.enabled /\ m.origin # NoOrigin /\ AllowsOrigin(p, m.origin)
  THEN [origins |-> <<IF AnyOrigin \in p.origins THEN AnyOrigin ELSE m.origin>>,
        credentials |-> p.credentials]
  ELSE [origins |-> <<>>, credentials |-> FALSE]

\* handle answers a preflight itself, with 204 or 403.
Handles(p, m) == p.enabled /\ Preflight(m)
Approves(p, m) ==
  AllowsOrigin(p, m.origin) /\ m.asks \in p.methods /\ m.asksHeaders \subseteq p.headers

-----------------------------------------------------------------------------
\* The browser (the Fetch standard's CORS check): exactly one allowed origin, the
\* page's or, without credentials, any.
Readable(grants, origin, credentials) ==
  /\ Len(grants.origins) = 1
  /\ grants.origins[1] \in {origin} \union (IF credentials THEN {} ELSE {AnyOrigin})
  /\ credentials => grants.credentials
=============================================================================
