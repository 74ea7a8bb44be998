----------------------------- MODULE RedisWindow -----------------------------
(***************************************************************************)
(* The shared sliding window of one client token in Redis                  *)
(* (internal/gateway/ratelimit_redis.go): the Lua script, and gateways     *)
(* that call it over a connection that can lose a command or its reply.    *)
(* The Redis client sends a command again when it got no reply, each time  *)
(* with the same member, so a script may run twice for one request, and    *)
(* may even run after the request was given up.  Instants are Redis TIME.  *)
(***************************************************************************)
EXTENDS Integers, FiniteSets

CONSTANTS
  Requests,  \* requests of the client, on any replica
  Limits,    \* rate_limit_rpm in the replicas' configurations, all positive
  MaxLimit,  \* the largest of them
  Window,    \* 60000 ms
  Ttl,       \* 61000 ms
  MaxTries,  \* bound: how often the Redis client sends one command
  MaxSent,   \* bound: requests that consult the limiter
  MaxTime    \* bound: length of the run

ASSUME LimitsAssumption ==
  /\ Limits \subseteq Nat \ {0}
  /\ MaxLimit \in Nat
  /\ \A l \in Limits : l <= MaxLimit
ASSUME TimesAssumption ==
  Window \in Nat \ {0} /\ Ttl \in Nat /\ Ttl >= Window
ASSUME BoundsAssumption == MaxTries \in Nat \ {0} /\ MaxSent \in Nat /\ MaxTime \in Nat

VARIABLES
  failOpen, \* rateLimitManager.failOpen
  clock,    \* Redis TIME
  zset,     \* the sorted set: [member, score]
  expires,  \* when the key expires
  wire,     \* commands on their way to Redis, lost ones forever: [member, limit, try]
  sent,     \* redisRateLimitBackend.seq: members handed out so far
  call,     \* call[r]: where request r is
  passed,   \* history: requests let through, with the instant they were counted
  unsure    \* history: members whose command was sent again or given up

vars == <<failOpen, clock, zset, expires, wire, sent, call, passed, unsure>>

Idle == [stage |-> "idle", member |-> 0, limit |-> 0, try |-> 0, allowed |-> FALSE, at |-> 0]

At(r, stage) == call[r].stage = stage
Moves(r, c) == call' = [call EXCEPT ![r] = c]
Command(c) == [member |-> c.member, limit |-> c.limit, try |-> c.try]

Init ==
  /\ failOpen \in BOOLEAN
  /\ clock = 0
  /\ zset = {} /\ expires = 0
  /\ wire = {} /\ sent = 0
  /\ call = [r \in Requests |-> Idle]
  /\ passed = {} /\ unsure = {}

-----------------------------------------------------------------------------
\* Allow: a fresh member (instance and sequence number), and the script is called.
Send(r) ==
  /\ At(r, "idle")
  /\ sent < MaxSent
  /\ sent' = sent + 1
  /\ \E limit \in Limits :
       LET c == [Idle EXCEPT !.stage = "waiting", !.member = sent', !.limit = limit, !.try = 1]
       IN Moves(r, c) /\ wire' = wire \union {Command(c)}
  /\ UNCHANGED <<clock, zset, expires, passed, unsure>>

\* ZREMRANGEBYSCORE -inf cutoff, on a key that may have expired.
Live == IF expires <= clock THEN {} ELSE {e \in zset : e.score > clock - Window}

Score(member) == [member |-> member, score |-> clock]
Others(entries, member) == {e \in entries : e.member # member}

\* The reply goes to whoever still waits for this try.
Answer(c, allowed) ==
  call' = [r \in Requests |->
             IF At(r, "waiting") /\ Command(call[r]) = c
             THEN [call[r] EXCEPT !.stage = "answered", !.allowed = allowed, !.at = clock]
             ELSE call[r]]

\* Mutants of the script: a key that does not outlive its entries; the entry is
\* written before the check.
ScriptShortTtl(c) ==
  LET allowed == Cardinality(Live) < c.limit
  IN /\ zset' = IF allowed THEN Others(Live, c.member) \union {Score(c.member)} ELSE Live
     /\ expires' = clock + (Ttl - Window)
     /\ Answer(c, allowed)

ScriptWritesFirst(c) ==
  LET allowed == Cardinality(Live) < c.limit
  IN /\ zset' = Others(Live, c.member) \union {Score(c.member)}
     /\ expires' = clock + Ttl
     /\ Answer(c, allowed)

\* redisRateScript: prune, count, and count the member in or refuse it.
Script(c) ==
  LET allowed == Cardinality(Live) < c.limit
  IN /\ zset' = IF allowed THEN Others(Live, c.member) \union {Score(c.member)} ELSE Live
     /\ expires' = clock + Ttl
     /\ Answer(c, allowed)

RunScript(c) ==
  /\ Script(c)
  /\ wire' = wire \ {c}
  /\ UNCHANGED <<clock, sent, passed, unsure>>

\* The client got no reply in time and sends the command again; the reply of the
\* earlier try, if there was one, is lost.
Retry(r) ==
  /\ call[r].stage \in {"waiting", "answered"}
  /\ call[r].try < MaxTries
  /\ LET c == [call[r] EXCEPT !.stage = "waiting", !.try = @ + 1, !.allowed = FALSE, !.at = 0]
     IN Moves(r, c) /\ wire' = wire \union {Command(c)}
  /\ unsure' = unsure \union {call[r].member}
  /\ UNCHANGED <<clock, zset, expires, sent, passed>>

Passes(r, at, degraded) ==
  passed' = passed \union {[member |-> call[r].member, at |-> at, degraded |-> degraded]}

\* Allow returns an error: 503, or the request goes on if the policy is fail-open.
GiveUp(r) ==
  /\ call[r].stage \in {"waiting", "answered"}
  /\ Moves(r, Idle)
  /\ unsure' = unsure \union {call[r].member}
  /\ IF failOpen THEN Passes(r, clock, TRUE) ELSE UNCHANGED passed
  /\ UNCHANGED <<clock, zset, expires, wire, sent>>

\* Allow returns the script's decision.
Reply(r) ==
  /\ At(r, "answered")
  /\ Moves(r, Idle)
  /\ IF call[r].allowed THEN Passes(r, call[r].at, FALSE) ELSE UNCHANGED passed
  /\ UNCHANGED <<clock, zset, expires, wire, sent, unsure>>

Tick ==
  /\ clock < MaxTime
  /\ clock' = clock + 1
  /\ UNCHANGED <<zset, expires, wire, sent, call, passed, unsure>>

Step(r) == Send(r) \/ Retry(r) \/ GiveUp(r) \/ Reply(r)
Next ==
  /\ \/ Tick
     \/ \E r \in Requests : Step(r)
     \/ \E c \in wire : RunScript(c)
  /\ UNCHANGED failOpen
Spec == Init /\ [][Next]_vars

-----------------------------------------------------------------------------
\* "exact rolling one-minute window per client token", shared by all replicas
\* (docs/RATE_LIMITING.md:3, 36): no minute of Redis time holds more counted
\* requests than the limit, whatever is lost, sent twice or run late; under the
\* fail-closed policy nothing else reaches a provider.  Nor does the set ever hold
\* more members than the largest limit, charged in vain or not: a token's memory in
\* Redis is bounded (ratelimit_redis.go:19-40).
SharedWindowExact ==
  /\ Cardinality(zset) <= MaxLimit
  /\ \A e \in passed :
       Cardinality({f \in passed : /\ failOpen => ~f.degraded
                                   /\ e.at <= f.at /\ f.at < e.at + Window}) <= MaxLimit

\* The quota is charged once per request and only for a request that was let
\* through, except where a command was sent again or given up, which may leave
\* a charge behind (ratelimit_redis.go:107-112, 37).
ChargedForAReason ==
  /\ \A e, f \in zset : e.member = f.member => e = f
  /\ \A e \in zset :
       \/ e.member \in unsure
       \/ \E p \in passed : p.member = e.member
       \/ \E r \in Requests : At(r, "answered") /\ call[r].allowed /\ call[r].member = e.member
=============================================================================
