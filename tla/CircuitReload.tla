---------------------------- MODULE CircuitReload ----------------------------
(***************************************************************************)
(* One provider's circuit across hot reloads: Gateway.Reload and           *)
(* buildRuntimeSnapshot (internal/gateway/runtime.go) against requests that *)
(* captured an earlier runtime snapshot (gateway.go, proxy.go).            *)
(*                                                                         *)
(* A reload clones the current snapshot's breaker under that breaker's     *)
(* mutex and only later swaps the snapshot in under runtimeMu; a request   *)
(* takes its snapshot when it arrives, reads its whole body, and then uses *)
(* that snapshot's breaker.  breakers[g] is the provider's breaker in      *)
(* snapshot g; the last one is current.                                    *)
(***************************************************************************)
EXTENDS CircuitBreaker, Sequences

CONSTANTS
  Requests,
  Policies,    \* circuit policies the configurations may give the provider
  MaxReloads   \* bound: reloads applied

ASSUME PoliciesAssumption == Policies \subseteq CircuitPolicies
ASSUME MaxReloadsAssumption == MaxReloads \in Nat

VARIABLES
  breakers,  \* one breaker per snapshot, in order of the swaps
  born,      \* history: the state each of them was created in
  reload,    \* the reload in progress (Gateway.reloadMu admits one)
  call       \* call[r]: where request r is

vars == <<breakers, born, reload, call>>

current == Len(breakers)

NoReload == [stage |-> "idle"]
Reloads ==
  {NoReload}
    \union [stage : {"building"}, policy : Policies, clock : Lags]
    \union [stage : {"built"}, next : Breakers]

Stages == {"idle", "routed", "entering", "upstream", "finishing"}
Calls ==
  [stage : Stages, gen : Nat, clock : Lags, probe : BOOLEAN, failed : BOOLEAN]
Idle == [stage |-> "idle", gen |-> 0, clock |-> 0, probe |-> FALSE, failed |-> FALSE]

At(r, stage) == call[r].stage = stage
Moves(r, c) == call' = [call EXCEPT ![r] = c]
Mine(r) == breakers[call[r].gen]
MyClock(r) == call[r].clock

Init ==
  /\ \E policy \in Policies : breakers = <<NewBreaker(policy)>>
  /\ born = <<"closed">>
  /\ reload = NoReload
  /\ call = [r \in Requests |-> Idle]

-----------------------------------------------------------------------------
\* ServeHTTP takes the snapshot; authentication and the body upload follow.
ServeHTTP(r) ==
  /\ At(r, "idle")
  /\ Moves(r, [Idle EXCEPT !.stage = "routed", !.gen = current])
  /\ UNCHANGED <<breakers, born, reload>>

\* The body is read; RoundTrip reads the clock on its way to the breaker.
RoundTrip(r) ==
  /\ At(r, "routed")
  /\ Moves(r, [call[r] EXCEPT !.stage = "entering", !.clock = 0])
  /\ UNCHANGED <<breakers, born, reload>>

Refuse(r) ==
  /\ At(r, "entering")
  /\ Refuses(Mine(r), MyClock(r))
  /\ Moves(r, Idle)
  /\ UNCHANGED <<breakers, born, reload>>

Admit(r) ==
  /\ At(r, "entering")
  /\ ~Refuses(Mine(r), MyClock(r))
  /\ breakers' = [breakers EXCEPT ![call[r].gen] = AfterAllow(Mine(r), MyClock(r))]
  /\ Moves(r, [call[r] EXCEPT !.stage = "upstream", !.clock = 0,
                              !.probe = StartsProbe(Mine(r), MyClock(r))])
  /\ UNCHANGED <<born, reload>>

\* The exchange with the provider ends, well or badly (ProviderTransport has
\* its stages); finish reads the clock on its way to the breaker.
ExchangeEnds(r) ==
  /\ At(r, "upstream")
  /\ \E failed \in BOOLEAN :
       Moves(r, [call[r] EXCEPT !.stage = "finishing", !.failed = failed, !.clock = 0])
  /\ UNCHANGED <<breakers, born, reload>>

FinishBreaker(r) ==
  /\ At(r, "finishing")
  /\ breakers' = [breakers EXCEPT ![call[r].gen] =
                    AfterFinish(Mine(r), call[r].probe, call[r].failed, MyClock(r))]
  /\ Moves(r, Idle)
  /\ UNCHANGED <<born, reload>>

-----------------------------------------------------------------------------
\* A changed configuration passed validateHotReload; buildRuntimeSnapshot reads
\* the clock once.
BeginReload ==
  /\ reload = NoReload
  /\ current <= MaxReloads
  /\ \E policy \in Policies :
       reload' = [stage |-> "building", policy |-> policy, clock |-> 0]
  /\ UNCHANGED <<breakers, born, call>>

\* cloneWithPolicy, under the old breaker's mutex.
CloneBreaker ==
  /\ reload.stage = "building"
  /\ reload' = [stage |-> "built",
                next  |-> CloneWithPolicy(breakers[current], reload.policy, reload.clock)]
  /\ UNCHANGED <<breakers, born, call>>

\* A provider or the default provider is invalid: the snapshot is dropped.
RejectReload ==
  /\ reload # NoReload
  /\ reload' = NoReload
  /\ UNCHANGED <<breakers, born, call>>

\* g.runtime = next, under runtimeMu.
SwapSnapshot ==
  /\ reload.stage = "built"
  /\ breakers' = Append(breakers, reload.next)
  /\ born' = Append(born, reload.next.state)
  /\ reload' = NoReload
  /\ UNCHANGED call

-----------------------------------------------------------------------------
HoldsClock(r) == call[r].stage \in {"entering", "finishing"}

Tick ==
  /\ \A r \in Requests : HoldsClock(r) => call[r].clock > LongAgo
  /\ reload.stage = "building" => reload.clock > LongAgo
  /\ breakers' = [g \in 1..current |-> AgedBreaker(breakers[g])]
  /\ call' = [r \in Requests |->
                IF HoldsClock(r) THEN [call[r] EXCEPT !.clock = @ - 1] ELSE call[r]]
  /\ reload' = CASE reload.stage = "building" -> [reload EXCEPT !.clock = @ - 1]
                 [] reload.stage = "built"    -> [reload EXCEPT !.next = AgedBreaker(@)]
                 [] OTHER                     -> reload
  /\ UNCHANGED born

Continue(r) == Refuse(r) \/ Admit(r) \/ ExchangeEnds(r) \/ FinishBreaker(r)
Step(r) == ServeHTTP(r) \/ RoundTrip(r) \/ Continue(r)

Reload == BeginReload \/ CloneBreaker \/ RejectReload \/ SwapSnapshot

Next == Tick \/ Reload \/ \E r \in Requests : Step(r)

Spec == Init /\ [][Next]_vars

\* Time passes, goroutines run and exchanges end, as in ProviderTransport; nobody
\* has to call or to reload, but a reload that started finishes.
FairSpec ==
  /\ Spec
  /\ WF_vars(Tick)
  /\ \A r \in Requests : WF_vars(Continue(r))
  /\ WF_vars(CloneBreaker \/ SwapSnapshot)

-----------------------------------------------------------------------------
TypeOK ==
  /\ breakers \in Seq(Breakers) /\ breakers # <<>>
  /\ born \in Seq(CircuitStates) /\ Len(born) = Len(breakers)
  /\ reload \in Reloads
  /\ call \in [Requests -> Calls]
  /\ \A r \in Requests : At(r, "idle") \/ call[r].gen \in 1..current

Probes(g) == {r \in Requests : call[r].probe /\ call[r].gen = g}
Orphaned(g) == breakers[g].state = "half_open" /\ Probes(g) = {}

\* Within one snapshot the probe permit stays unique and stays with the request
\* that got it, whatever reloads happen meanwhile: a probe's breaker is half
\* open until that probe is finished (circuitbreaker.go:107-162).
PermitPerSnapshot ==
  \A r \in Requests :
    call[r].probe => /\ Mine(r).state = "half_open"
                     /\ Probes(call[r].gen) = {r}

\* Only cloneWithPolicy makes a half-open breaker without a probe
\* (circuitbreaker.go:92-99): a snapshot whose breaker was created in another
\* state always has its probe in flight while half open.
OrphansAreBorn ==
  \A g \in 1..current : Orphaned(g) => born[g] = "half_open"

\* What a reload inherits can be worse than what the old snapshot recovers to:
\* a breaker created half open keeps that state and grants no permit, so its
\* snapshot refuses the provider for as long as it is current
\* (circuitbreaker.go:96-99 with 121-122).
BornHalfOpenIsFrozen ==
  \A g \in 1..current :
    born[g] = "half_open" => /\ breakers[g].state = "half_open"
                             /\ \A r \in Requests : call[r].gen = g =>
                                  call[r].stage \in {"idle", "routed", "entering"}

\* "circuit state persist[s] by provider name across ordinary reloads"
\* (docs/ARCHITECTURE.md:115): a swap between two enabled breakers does not
\* close an open circuit.
CircuitSurvivesReload ==
  [][current' > current /\ breakers[current].state = "open" /\ reload.next.enabled
       => breakers'[current'].state # "closed"]_vars

\* Requests keep reaching the provider through the current snapshot.
Demand == []<>(\E r \in Requests : At(r, "entering") /\ call[r].gen = current)

\* Under demand, a current circuit that is open is probed or replaced, whatever
\* reloads it went through: the clone keeps a deadline that passes
\* (circuitbreaker.go:92-103, 114-120).
OpenIsProbed ==
  Demand =>
    \A g \in 1..(MaxReloads + 1) :
      (g = current /\ breakers[g].state = "open")
        ~> (g # current \/ Probes(g) # {})

\* "after cooldown exactly one half-open probe is admitted"
\* (docs/ARCHITECTURE.md:140): under demand, a circuit that is not closed does
\* not stay without a probe for as long as its snapshot is current.
AfterCooldownAProbe ==
  Demand =>
    \A g \in 1..(MaxReloads + 1) :
      (g = current /\ breakers[g].state \in {"open", "half_open"})
        ~> (g # current \/ Probes(g) # {})
=============================================================================
