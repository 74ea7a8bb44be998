------------------------------- MODULE MCEdge -------------------------------
(* Edge on small instances: one configuration and variations of it, one      *)
(* request and variations of it.                                             *)
EXTENDS Edge, TLC

CONSTANTS sender, outsider, inner, outer, t1, t2, t3, k1, k2, k3, app, other

AllHosts == {sender, outsider, inner, outer}
HonestHosts == {inner, outer}
NamingHosts == {inner}
\* Directly, through the proxies in either order, and through somebody else's proxy.
Paths ==
  {<<sender>>, <<inner>>, <<sender, outer>>, <<sender, inner, outer>>, <<sender, outer, inner>>,
   <<outsider, sender, outer>>, <<sender, outsider, inner, outer>>}
Forgeries ==
  [forwarded : {<<>>, <<Malformed>>, <<inner>>, <<outsider, outer>>},
   realIP : {Absent, Malformed, outsider}]

NoCors == [enabled |-> FALSE, origins |-> {}, methods |-> {}, headers |-> {}, credentials |-> FALSE]
AppCors ==
  [enabled |-> TRUE, origins |-> {app}, methods |-> {"POST"},
   headers |-> {"authorization", "content-type"}, credentials |-> TRUE]
AnyCors == [AppCors EXCEPT !.origins = {AnyOrigin}, !.credentials = FALSE]

Provider(auth, key, custom) == [auth |-> auth, key |-> key, custom |-> custom]
Base ==
  [clients |-> ("a" :> t1 @@ "b" :> t2), operations |-> t3, trusted |-> {inner, outer},
   publicHealth |-> FALSE, cors |-> AppCors, default |-> "main", limit |-> 2,
   providers |-> ("main" :> Provider("bearer", k1, {})
                    @@ "gem" :> Provider("gemini", k2, {"authorization"})
                    @@ "ant" :> Provider("anthropic", k3, {}))]

\* The last four are rejected.
Variations ==
  {Base,
   [Base EXCEPT !.clients = ("a" :> t2), !.operations = t1, !.trusted = {outer},
                !.limit = 0, !.cors = AnyCors],
   [Base EXCEPT !.clients = ("b" :> t1), !.operations = NoToken, !.trusted = {},
                !.publicHealth = TRUE, !.cors = NoCors, !.limit = MaxInt],
   [Base EXCEPT !.default = "gem", !.providers =
      ("gem" :> Provider("gemini", k1, {}) @@ "main" :> Provider("bearer", NoKey, {})
         @@ "local" :> Provider("none", k2, {"x-api-key", "x-forwarded-for"}))],
   [Base EXCEPT !.operations = t1],
   [Base EXCEPT !.default = "local"],
   [Base EXCEPT !.providers["ant"].key = NoKey],
   [Base EXCEPT !.cors = [AppCors EXCEPT !.origins = {AnyOrigin}]]}

Body(length, arrives, declared) == [length |-> length, arrives |-> arrives, declared |-> declared]
Ask ==
  [method |-> "POST", route |-> "default", openai |-> FALSE, token |-> t1, origin |-> NoOrigin,
   credentials |-> FALSE, asks |-> NoMethod, asksHeaders |-> {},
   headers |-> {"authorization", "content-type", "x-forwarded-for", "traceparent", "x-trace"},
   nominated |-> {"x-trace"}, body |-> Body(0, 0, TRUE)]
PageAsk == [Ask EXCEPT !.origin = app, !.headers = {"content-type"}, !.nominated = {}]

WellFormed(d) == d.body.arrives <= d.body.length
Asks == {d \in
  {[Ask EXCEPT !.token = t] : t \in {t1, t2, t3, NoToken}}
    \union {[Ask EXCEPT !.route = r, !.openai = o] :
              r \in {"gem", "ant", "local", "main", "malformed"}, o \in BOOLEAN}
    \union {[Ask EXCEPT !.body = Body(n, a, d)] :
              n \in 1..MaxInt, a \in 0..MaxInt, d \in BOOLEAN}
    \union {[Ask EXCEPT !.method = "GET", !.route = r, !.token = t] :
              r \in OperationalPaths, t \in {t1, t3, NoToken}}
    \union {[Ask EXCEPT !.method = "OPTIONS", !.route = r] : r \in {"default", "/_config"}}
    \union {[PageAsk EXCEPT !.origin = o, !.credentials = c] :
              o \in {app, other}, c \in BOOLEAN}
    \union {[PageAsk EXCEPT !.method = "GET", !.route = "/_readyz"],
            [PageAsk EXCEPT !.headers = {"content-type", "x-trace"}],
            [PageAsk EXCEPT !.token = NoToken],
            [PageAsk EXCEPT !.body = Body(MaxInt, MaxInt, TRUE)]} : WellFormed(d)}

\* The hosts and their claims do not matter to what is asked: every demand comes
\* over one proxy, the plain one every way.
Trips ==
  [demand : Asks, path : {<<sender, outer>>}, claims : {[forwarded |-> <<>>, realIP |-> Absent]}]
    \union [demand : {Ask}, path : Paths, claims : Forgeries]
=============================================================================
