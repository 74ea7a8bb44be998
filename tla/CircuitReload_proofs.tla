------------------------ MODULE CircuitReload_proofs ------------------------
(***************************************************************************)
(* Proofs about CircuitReload and Readiness, for any requests, any set of  *)
(* policies, any defaults, any MaxLag and any number of reloads.           *)
(***************************************************************************)
EXTENDS Readiness, TLAPS

\* What the operators of CircuitBreaker return, for any policy, any defaults and
\* any MaxLag.
LEMMA InstantsFacts ==
  /\ LongAgo \in Int /\ LongAgo <= 0
  /\ LongAgo \in Instants
  /\ Lags \subseteq Int
  /\ \A t \in Lags : LongAgo <= t /\ t <= 0
BY MaxLagAssumption DEF LongAgo, Instants, Lags

\* No lag is one of the lags.
LEMMA ZeroLag == 0 \in Lags
BY InstantsFacts DEF Lags

\* What each operation of a breaker returns: a breaker, and what it leaves alone.
LEMMA NewBreakerType ==
  ASSUME NEW policy \in CircuitPolicies
  PROVE  /\ NewBreaker(policy) \in Breakers
         /\ NewBreaker(policy).state = "closed"
BY DefaultsAssumption, InstantsFacts
   DEF CircuitPolicies, NewBreaker, Breakers, CircuitStates, PositiveOr

\* allow never changes the policy.
LEMMA AfterAllowType ==
  ASSUME NEW b \in Breakers, NEW now \in Lags
  PROVE  /\ AfterAllow(b, now) \in Breakers
         /\ StartsProbe(b, now) \in BOOLEAN
         /\ AfterAllow(b, now).openFor = b.openFor
BY DEF AfterAllow, StartsProbe, Breakers, CircuitStates

\* finish returns a breaker.
LEMMA AfterFinishType ==
  ASSUME NEW b \in Breakers, NEW now \in Lags, NEW probe \in BOOLEAN, NEW failed \in BOOLEAN
  PROVE  AfterFinish(b, probe, failed, now) \in Breakers
<1>1. now + b.openFor \in Instants
  BY InstantsFacts DEF Breakers, Instants
<1>2. AfterProbe(b, failed, now) \in Breakers
  BY <1>1, InstantsFacts DEF AfterProbe, Breakers, CircuitStates
<1>3. AfterOrdinary(b, failed, now) \in Breakers
  <2>1. CASE ~CountsCompletion(b)
    BY <2>1 DEF AfterOrdinary
  <2>2. CASE CountsCompletion(b) /\ failed
    <3>1. b.failures + 1 \in Nat
      BY DEF Breakers
    <3> QED BY <1>1, <2>2, <3>1 DEF AfterOrdinary, Breakers, CircuitStates
  <2>3. CASE CountsCompletion(b) /\ ~failed
    BY <1>1, <2>3 DEF AfterOrdinary, Breakers, CircuitStates
  <2> QED BY <2>1, <2>2, <2>3
<1> QED BY <1>2, <1>3 DEF AfterFinish, Breakers

\* Time changes the remaining open period only.
LEMMA AgedType ==
  ASSUME NEW b \in Breakers
  PROVE  /\ AgedBreaker(b) \in Breakers
         /\ AgedBreaker(b).state = b.state
         /\ AgedBreaker(b).enabled = b.enabled
         /\ AgedBreaker(b).openFor = b.openFor
         /\ AgedBreaker(b).openUntil = Older(b.openUntil)
BY InstantsFacts DEF AgedBreaker, Older, Breakers, Instants

\* cloneWithPolicy returns a breaker.
LEMMA CloneType ==
  ASSUME NEW b \in Breakers, NEW policy \in CircuitPolicies, NEW now \in Lags
  PROVE  CloneWithPolicy(b, policy, now) \in Breakers
<1> DEFINE fresh == NewBreaker(policy)
           copied == [fresh EXCEPT !.state = b.state, !.failures = b.failures,
                                   !.openUntil = b.openUntil]
<1>1. fresh \in Breakers
  BY NewBreakerType
<1> HIDE DEF fresh
<1>2. copied \in Breakers
  BY <1>1 DEF Breakers
<1>3. now + fresh.openFor \in Instants
  BY <1>1, InstantsFacts DEF Breakers, Instants
<1> DEFINE expired == [copied EXCEPT !.state = "half_open", !.openUntil = LongAgo]
           tripped == [copied EXCEPT !.state = "open", !.openUntil = now + fresh.openFor]
<1>4. expired \in Breakers /\ tripped \in Breakers
  <2> HIDE DEF copied
  <2> QED BY <1>2, <1>3, InstantsFacts DEF Breakers, CircuitStates
<1>5. CloneWithPolicy(b, policy, now) \in {fresh, expired, tripped, copied}
  BY DEF CloneWithPolicy, fresh
<1> HIDE DEF copied, expired, tripped
<1> QED BY <1>1, <1>2, <1>4, <1>5

-----------------------------------------------------------------------------

\* A request that is not under way is well-formed.
LEMMA IdleType == Idle \in Calls
BY InstantsFacts DEF Idle, Calls, Stages, Lags

\* What the type of the state says about its parts.
LEMMA TypeFacts ==
  ASSUME TypeOK
  PROVE  /\ current \in Nat \ {0} /\ DOMAIN breakers = 1..current
         /\ \A g \in 1..current : breakers[g] \in Breakers
         /\ Len(born) = current /\ \A g \in 1..current : born[g] \in CircuitStates
         /\ \A r \in Requests : call[r] \in Calls
         /\ \A r \in Requests : At(r, "idle") \/ call[r].gen \in 1..current
<1>1. breakers \in Seq(Breakers) /\ breakers # <<>>
  BY DEF TypeOK
<1> QED BY <1>1 DEF TypeOK, current

\* Replacing one breaker keeps the sequence of snapshots.
LEMMA ReplaceBreaker ==
  ASSUME TypeOK, NEW g \in 1..current, NEW b \in Breakers,
         breakers' = [breakers EXCEPT ![g] = b]
  PROVE  /\ breakers' \in Seq(Breakers) /\ breakers' # <<>> /\ current' = current
         /\ \A h \in 1..current : breakers'[h] = IF h = g THEN b ELSE breakers[h]
<1>1. current \in Nat \ {0} /\ DOMAIN breakers = 1..current
      /\ \A h \in 1..current : breakers[h] \in Breakers
  BY TypeFacts
<1>2. breakers' \in [1..current -> Breakers]
  BY <1>1
<1>3. breakers' \in Seq(Breakers) /\ Len(breakers') = current
  BY <1>1, <1>2
<1> QED BY <1>1, <1>3 DEF current

\* The clock makes every breaker older and changes no state.
LEMMA AgeBreakers ==
  ASSUME TypeOK, Tick
  PROVE  /\ breakers' \in Seq(Breakers) /\ breakers' # <<>> /\ current' = current
         /\ \A g \in 1..current : /\ breakers'[g].state = breakers[g].state
                                  /\ breakers'[g].enabled = breakers[g].enabled
<1>1. current \in Nat \ {0} /\ \A g \in 1..current : breakers[g] \in Breakers
  BY TypeFacts
<1>2. breakers' = [g \in 1..current |-> AgedBreaker(breakers[g])]
  BY DEF Tick
<1>3. breakers' \in [1..current -> Breakers]
  BY <1>1, <1>2, AgedType
<1>4. breakers' \in Seq(Breakers) /\ Len(breakers') = current
  BY <1>1, <1>3
<1> QED BY <1>1, <1>2, <1>4, AgedType DEF current

-----------------------------------------------------------------------------
\* A tick keeps the types.
LEMMA TickType ==
  ASSUME TypeOK, Tick
  PROVE  TypeOK'
<1>1. /\ breakers' \in Seq(Breakers) /\ breakers' # <<>> /\ current' = current
  BY AgeBreakers
<1>2. \A r \in Requests : call'[r] \in Calls /\ call'[r].stage = call[r].stage
                          /\ call'[r].gen = call[r].gen
  <2> SUFFICES ASSUME NEW r \in Requests
               PROVE  /\ call'[r] \in Calls /\ call'[r].stage = call[r].stage
                      /\ call'[r].gen = call[r].gen
    OBVIOUS
  <2>1. call[r] \in Calls
    BY TypeFacts
  <2>2. CASE HoldsClock(r)
    <3>1. call[r].clock \in Int /\ call[r].clock > LongAgo /\ call[r].clock <= 0
      BY <2>1, <2>2, InstantsFacts DEF Tick, Calls
    <3>2. call[r].clock - 1 \in Lags
      BY <3>1, InstantsFacts DEF Lags
    <3> QED BY <2>1, <2>2, <3>2 DEF Tick, Calls
  <2>3. CASE ~HoldsClock(r)
    BY <2>1, <2>3 DEF Tick
  <2> QED BY <2>2, <2>3
<1>3. call' \in [Requests -> Calls]
  BY <1>2 DEF Tick
<1>4. reload' \in Reloads
  <2>1. CASE reload.stage = "building"
    <3>1. reload \in [stage : {"building"}, policy : Policies, clock : Lags]
      BY <2>1 DEF TypeOK, Reloads, NoReload
    <3>2. reload.clock - 1 \in Lags
      BY <2>1, <3>1, InstantsFacts DEF Tick, Lags
    <3> QED BY <2>1, <3>1, <3>2 DEF Tick, Reloads
  <2>2. CASE reload.stage = "built"
    <3>1. reload \in [stage : {"built"}, next : Breakers]
      BY <2>2 DEF TypeOK, Reloads, NoReload
    <3>2. AgedBreaker(reload.next) \in Breakers
      BY <3>1, AgedType
    <3> QED BY <2>2, <3>1, <3>2 DEF Tick, Reloads
  <2>3. CASE reload.stage \notin {"building", "built"}
    BY <2>3 DEF Tick, TypeOK
  <2> QED BY <2>1, <2>2, <2>3
<1>5. born' = born
  BY DEF Tick
<1>6. \A r \in Requests : (At(r, "idle") \/ call[r].gen \in 1..current)'
  BY <1>1, <1>2, TypeFacts DEF At
<1> QED BY <1>1, <1>3, <1>4, <1>5, <1>6 DEF TypeOK, current

\* A reload keeps the types.
LEMMA ReloadType ==
  ASSUME TypeOK, Reload
  PROVE  TypeOK'
<1>1. CASE BeginReload
  <2>1. reload' \in Reloads
    BY <1>1, InstantsFacts DEF BeginReload, Reloads, Lags
  <2> QED BY <1>1, <2>1 DEF BeginReload, TypeOK, current, At
<1>2. CASE CloneBreaker
  <2>1. reload \in [stage : {"building"}, policy : Policies, clock : Lags]
    BY <1>2 DEF CloneBreaker, TypeOK, Reloads, NoReload
  <2>2. CloneWithPolicy(breakers[current], reload.policy, reload.clock) \in Breakers
    BY <2>1, TypeFacts, CloneType, PoliciesAssumption
  <2>3. reload' \in Reloads
    BY <1>2, <2>2 DEF CloneBreaker, Reloads
  <2> QED BY <1>2, <2>3 DEF CloneBreaker, TypeOK, current, At
<1>3. CASE RejectReload
  BY <1>3 DEF RejectReload, TypeOK, Reloads, current, At
<1>4. CASE SwapSnapshot
  <2>1. reload.next \in Breakers
    BY <1>4 DEF SwapSnapshot, TypeOK, Reloads, NoReload
  <2>2. reload.next.state \in CircuitStates
    BY <2>1 DEF Breakers
  <2>3. /\ breakers' \in Seq(Breakers) /\ breakers' # <<>> /\ current' = current + 1
        /\ born' \in Seq(CircuitStates) /\ Len(born') = Len(breakers')
    BY <1>4, <2>1, <2>2, TypeFacts DEF SwapSnapshot, TypeOK, current
  <2>4. \A r \in Requests : (At(r, "idle") \/ call[r].gen \in 1..current)'
    BY <1>4, <2>3, TypeFacts DEF SwapSnapshot, At
  <2> QED BY <1>4, <2>3, <2>4 DEF SwapSnapshot, TypeOK, Reloads
<1> QED BY <1>1, <1>2, <1>3, <1>4 DEF Reload

\* A request's step keeps the types.
LEMMA StepType ==
  ASSUME TypeOK, NEW r \in Requests, Step(r)
  PROVE  TypeOK'
<1>0. call[r] \in Calls /\ (At(r, "idle") \/ call[r].gen \in 1..current)
  BY TypeFacts
<1>1. ASSUME NEW c \in Calls, Moves(r, c), c.stage = "idle" \/ c.gen \in 1..current,
             UNCHANGED <<breakers, born, reload>>
      PROVE  TypeOK'
  BY <1>1 DEF TypeOK, Moves, At, current
<1>2. ASSUME NEW c \in Calls, Moves(r, c), c.stage = "idle" \/ c.gen = call[r].gen,
             ~At(r, "idle"), NEW b \in Breakers,
             breakers' = [breakers EXCEPT ![call[r].gen] = b], UNCHANGED <<born, reload>>
      PROVE  TypeOK'
  <2>1. /\ breakers' \in Seq(Breakers) /\ breakers' # <<>> /\ current' = current
    BY <1>0, <1>2, ReplaceBreaker
  <2>2. \A s \in Requests : (At(s, "idle") \/ call[s].gen \in 1..current)'
    BY <1>0, <1>2, <2>1 DEF TypeOK, Moves, At
  <2> QED BY <1>2, <2>1, <2>2 DEF TypeOK, Moves, current
<1>3. ASSUME ~At(r, "idle") PROVE Mine(r) \in Breakers /\ MyClock(r) \in Lags
                                  /\ call[r].probe \in BOOLEAN /\ call[r].failed \in BOOLEAN
  BY <1>0, <1>3, TypeFacts DEF Mine, MyClock, Calls
<1>4. CASE ServeHTTP(r)
  <2>1. [Idle EXCEPT !.stage = "routed", !.gen = current] \in Calls
    BY ZeroLag, TypeFacts DEF Idle, Calls, Stages
  <2>2. [Idle EXCEPT !.stage = "routed", !.gen = current].gen \in 1..current
    BY TypeFacts DEF Idle
  <2> QED BY <1>1, <1>4, <2>1, <2>2 DEF ServeHTTP
<1>5. CASE RoundTrip(r)
  <2>1. [call[r] EXCEPT !.stage = "entering", !.clock = 0] \in Calls
    BY <1>0, ZeroLag DEF Calls, Stages
  <2>2. [call[r] EXCEPT !.stage = "entering", !.clock = 0].gen \in 1..current
    BY <1>0, <1>5 DEF RoundTrip, At, Calls
  <2> QED BY <1>1, <1>5, <2>1, <2>2 DEF RoundTrip
<1>6. CASE Refuse(r)
  BY <1>1, <1>6, IdleType DEF Refuse, Idle
<1>7. CASE Admit(r)
  <2> DEFINE c == [call[r] EXCEPT !.stage = "upstream", !.clock = 0,
                                  !.probe = StartsProbe(Mine(r), MyClock(r))]
  <2>1. Mine(r) \in Breakers /\ MyClock(r) \in Lags /\ ~At(r, "idle")
    BY <1>3, <1>7 DEF Admit, At
  <2>2. StartsProbe(Mine(r), MyClock(r)) \in BOOLEAN /\ AfterAllow(Mine(r), MyClock(r)) \in Breakers
    BY <2>1, AfterAllowType
  <2>3. c \in Calls /\ c.gen = call[r].gen
    BY <1>0, <2>2, ZeroLag DEF Calls, Stages
  <2>4. Moves(r, c)
    BY <1>7 DEF Admit
  <2> HIDE DEF c
  <2> QED BY <1>2, <1>7, <2>1, <2>2, <2>3, <2>4 DEF Admit
<1>8. CASE ExchangeEnds(r)
  <2>1. PICK failed \in BOOLEAN :
          Moves(r, [call[r] EXCEPT !.stage = "finishing", !.failed = failed, !.clock = 0])
    BY <1>8 DEF ExchangeEnds
  <2> DEFINE c == [call[r] EXCEPT !.stage = "finishing", !.failed = failed, !.clock = 0]
  <2>2. c \in Calls /\ c.gen \in 1..current
    BY <1>0, <1>8, ZeroLag DEF ExchangeEnds, At, Calls, Stages
  <2> HIDE DEF c
  <2>3. Moves(r, c)
    BY <2>1 DEF c
  <2> QED BY <1>1, <1>8, <2>2, <2>3 DEF ExchangeEnds
<1>9. CASE FinishBreaker(r)
  <2>1. ~At(r, "idle")
    BY <1>9 DEF FinishBreaker, At
  <2>2. AfterFinish(Mine(r), call[r].probe, call[r].failed, MyClock(r)) \in Breakers
    BY <1>3, <2>1, AfterFinishType
  <2> QED BY <1>2, <1>9, <2>1, <2>2, IdleType DEF FinishBreaker, Idle
<1> QED BY <1>4, <1>5, <1>6, <1>7, <1>8, <1>9 DEF Step, Continue

\* The snapshots' breakers, the reload in progress and the requests keep their
\* types, and a request's snapshot exists.
THEOREM TypeCorrect == Spec => []TypeOK
<1>1. Init => TypeOK
  <2> SUFFICES ASSUME Init PROVE TypeOK
    OBVIOUS
  <2>1. PICK policy \in Policies : breakers = <<NewBreaker(policy)>>
    BY DEF Init
  <2>2. NewBreaker(policy) \in Breakers
    BY PoliciesAssumption, NewBreakerType
  <2> QED BY <2>1, <2>2, IdleType DEF Init, TypeOK, Reloads, CircuitStates, At, Idle
<1>2. TypeOK /\ [Next]_vars => TypeOK'
  <2> SUFFICES ASSUME TypeOK, [Next]_vars PROVE TypeOK'
    OBVIOUS
  <2>1. CASE UNCHANGED vars
    BY <2>1 DEF vars, TypeOK, At, current
  <2> QED BY <2>1, TickType, ReloadType, StepType DEF Next
<1> QED BY <1>1, <1>2, PTL DEF Spec

-----------------------------------------------------------------------------
(* Why the permit stays unique in each snapshot, and why a breaker that was *)
(* created half open never moves: only an enabled breaker leaves "closed",  *)
(* a permit is handed out only by an open one, and while a breaker is half  *)
(* open it refuses everyone and listens to its probe only.                  *)

NotClosedIsEnabled ==
  /\ \A g \in 1..current : breakers[g].state = "closed" \/ breakers[g].enabled
  /\ reload.stage = "built" => reload.next.state = "closed" \/ reload.next.enabled

PermitsAreHeld ==
  \A r \in Requests : call[r].probe =>
    call[r].stage \in {"upstream", "finishing"} /\ Mine(r).state = "half_open"

OneHolder ==
  \A r, s \in Requests :
    call[r].probe /\ call[s].probe /\ call[r].gen = call[s].gen => r = s

HalfOpenIsHeldOrBorn ==
  \A g \in 1..current : breakers[g].state = "half_open" =>
    \/ born[g] = "half_open"
    \/ \E r \in Requests : call[r].probe /\ call[r].gen = g

IInv ==
  /\ NotClosedIsEnabled
  /\ PermitsAreHeld
  /\ OneHolder
  /\ HalfOpenIsHeldOrBorn
  /\ BornHalfOpenIsFrozen

\* What an admission does to the circuit's state.
LEMMA AdmissionFacts ==
  ASSUME NEW b \in Breakers, NEW now \in Lags, ~Refuses(b, now)
  PROVE  /\ StartsProbe(b, now) => /\ b.state = "open" /\ b.enabled
                                   /\ AfterAllow(b, now).state = "half_open"
                                   /\ AfterAllow(b, now).enabled
         /\ ~StartsProbe(b, now) => AfterAllow(b, now) = b
         /\ b.state = "half_open" => ~b.enabled
BY DEF Refuses, StartsProbe, AfterAllow, Breakers

\* What a completion does to it.
LEMMA CompletionFacts ==
  ASSUME NEW b \in Breakers, NEW probe \in BOOLEAN, NEW failed \in BOOLEAN,
         NEW now \in Lags, b.state = "closed" \/ b.enabled
  PROVE  LET after == AfterFinish(b, probe, failed, now)
         IN  /\ after.enabled = b.enabled
             /\ after.state = "closed" \/ after.enabled
             /\ probe /\ b.state = "half_open" => after.state # "half_open"
             /\ ~probe => (after.state = "half_open" <=> b.state = "half_open")
BY DEF AfterFinish, AfterProbe, AfterOrdinary, CountsCompletion, Breakers

\* A clone that is not closed is enabled.
LEMMA CloneIsEnabled ==
  ASSUME NEW b \in Breakers, NEW policy \in CircuitPolicies, NEW now \in Lags
  PROVE  LET clone == CloneWithPolicy(b, policy, now)
         IN  clone.state = "closed" \/ clone.enabled
BY DEF CloneWithPolicy, NewBreaker, Breakers, CircuitPolicies

\* A step that moves one request and leaves its permit alone.
LEMMA MovesKeepInv ==
  ASSUME TypeOK, IInv, NEW r \in Requests, NEW c \in Calls, Moves(r, c),
         UNCHANGED <<breakers, born, reload>>,
         c.probe = call[r].probe,
         c.probe => c.gen = call[r].gen /\ c.stage \in {"upstream", "finishing"},
         \/ c.stage \in {"idle", "routed", "entering"}
         \/ c.gen = call[r].gen /\ call[r].stage \in {"upstream", "finishing"}
  PROVE  IInv'
<1>1. \A s \in Requests : call'[s] = IF s = r THEN c ELSE call[s]
  BY DEF Moves, TypeOK
<1>2. current' = current
  BY DEF current
<1>3. NotClosedIsEnabled'
  BY <1>2 DEF IInv, NotClosedIsEnabled
<1>4. PermitsAreHeld'
  BY <1>1, <1>2 DEF IInv, PermitsAreHeld, Mine
<1>5. OneHolder'
  BY <1>1 DEF IInv, OneHolder
<1>6. HalfOpenIsHeldOrBorn'
  BY <1>1, <1>2 DEF IInv, HalfOpenIsHeldOrBorn
<1>7. BornHalfOpenIsFrozen'
  <2> SUFFICES ASSUME NEW g \in 1..current, born[g] = "half_open"
               PROVE  /\ breakers[g].state = "half_open"
                      /\ \A s \in Requests : call'[s].gen = g =>
                           call'[s].stage \in {"idle", "routed", "entering"}
    BY <1>2 DEF BornHalfOpenIsFrozen
  <2>1. /\ breakers[g].state = "half_open"
        /\ \A s \in Requests : call[s].gen = g =>
             call[s].stage \in {"idle", "routed", "entering"}
    BY DEF IInv, BornHalfOpenIsFrozen
  <2> QED BY <1>1, <2>1
<1> QED BY <1>3, <1>4, <1>5, <1>6, <1>7 DEF IInv

\* An admission: only an open circuit that nobody probes can hand out a permit.
LEMMA AdmitKeepsInv ==
  ASSUME TypeOK, IInv, NEW r \in Requests, Admit(r)
  PROVE  IInv'
<1> DEFINE g == call[r].gen
           b == AfterAllow(Mine(r), MyClock(r))
           c == [call[r] EXCEPT !.stage = "upstream", !.clock = 0,
                                !.probe = StartsProbe(Mine(r), MyClock(r))]
<1>1. /\ call[r] \in Calls /\ g \in 1..current /\ call[r].stage = "entering"
      /\ Mine(r) \in Breakers /\ MyClock(r) \in Lags
  BY TypeFacts DEF Admit, At, Mine, MyClock, Calls
<1>2. b \in Breakers /\ StartsProbe(Mine(r), MyClock(r)) \in BOOLEAN
  BY <1>1, AfterAllowType
<1>3. /\ current' = current /\ born' = born /\ reload' = reload
      /\ \A h \in 1..current : breakers'[h] = IF h = g THEN b ELSE breakers[h]
  BY <1>1, <1>2, ReplaceBreaker DEF Admit
<1>4. \A s \in Requests : call'[s] = IF s = r THEN c ELSE call[s]
  BY DEF Admit, Moves, TypeOK
<1>5. /\ c.stage = "upstream" /\ c.gen = g
      /\ c.probe = StartsProbe(Mine(r), MyClock(r))
  BY <1>1 DEF Calls
<1>6. /\ StartsProbe(Mine(r), MyClock(r)) =>
           /\ breakers[g].state = "open" /\ b.state = "half_open" /\ b.enabled
      /\ ~StartsProbe(Mine(r), MyClock(r)) => b = breakers[g]
      /\ breakers[g].state = "half_open" => ~breakers[g].enabled
  BY <1>1, AdmissionFacts DEF Admit, Mine
<1>7. breakers[g].state # "half_open" /\ born[g] # "half_open"
  BY <1>1, <1>6 DEF IInv, NotClosedIsEnabled, BornHalfOpenIsFrozen
<1>8. \A s \in Requests : call[s].probe => s # r /\ call[s].gen # g
  BY <1>1, <1>7 DEF IInv, PermitsAreHeld, Mine
<1> HIDE DEF g, b, c
<1>9. NotClosedIsEnabled'
  BY <1>1, <1>3, <1>6 DEF IInv, NotClosedIsEnabled
<1>10. PermitsAreHeld'
  <2> SUFFICES ASSUME NEW s \in Requests, call'[s].probe
               PROVE  /\ call'[s].stage \in {"upstream", "finishing"}
                      /\ breakers'[call'[s].gen].state = "half_open"
    BY DEF PermitsAreHeld, Mine
  <2>1. CASE s = r
    BY <1>1, <1>3, <1>4, <1>5, <1>6, <2>1
  <2>2. CASE s # r
    <3>1. call[s].probe /\ call'[s] = call[s]
      BY <1>4, <2>2
    <3>2. call[s].stage \in {"upstream", "finishing"} /\ breakers[call[s].gen].state = "half_open"
      BY <3>1 DEF IInv, PermitsAreHeld, Mine
    <3>3. call[s].gen \in 1..current /\ call[s].gen # g
      BY <1>8, <3>1, <3>2, TypeFacts DEF At
    <3> QED BY <1>3, <3>1, <3>2, <3>3
  <2> QED BY <2>1, <2>2
<1>11. OneHolder'
  BY <1>4, <1>5, <1>8 DEF IInv, OneHolder
<1>12. HalfOpenIsHeldOrBorn'
  <2> SUFFICES ASSUME NEW h \in 1..current, breakers'[h].state = "half_open"
               PROVE  \/ born[h] = "half_open"
                      \/ \E s \in Requests : call'[s].probe /\ call'[s].gen = h
    BY <1>3 DEF HalfOpenIsHeldOrBorn
  <2>1. CASE h = g
    <3>1. StartsProbe(Mine(r), MyClock(r))
      BY <1>3, <1>6, <1>7, <2>1
    <3> QED BY <1>4, <1>5, <2>1, <3>1
  <2>2. CASE h # g
    BY <1>3, <1>4, <1>8, <2>2 DEF IInv, HalfOpenIsHeldOrBorn
  <2> QED BY <2>1, <2>2
<1>13. BornHalfOpenIsFrozen'
  <2> SUFFICES ASSUME NEW h \in 1..current, born[h] = "half_open"
               PROVE  /\ breakers'[h].state = "half_open"
                      /\ \A s \in Requests : call'[s].gen = h =>
                           call'[s].stage \in {"idle", "routed", "entering"}
    BY <1>3 DEF BornHalfOpenIsFrozen
  <2>1. h # g
    BY <1>7
  <2> QED BY <1>3, <1>4, <1>5, <2>1 DEF IInv, BornHalfOpenIsFrozen
<1> QED BY <1>9, <1>10, <1>11, <1>12, <1>13 DEF IInv

\* A completion: only the holder of the permit ends the half-open state.
LEMMA FinishKeepsInv ==
  ASSUME TypeOK, IInv, NEW r \in Requests, FinishBreaker(r)
  PROVE  IInv'
<1> DEFINE g == call[r].gen
           p == call[r].probe
           b == AfterFinish(Mine(r), call[r].probe, call[r].failed, MyClock(r))
<1>1. /\ call[r] \in Calls /\ g \in 1..current /\ call[r].stage = "finishing"
      /\ Mine(r) \in Breakers /\ MyClock(r) \in Lags
      /\ call[r].probe \in BOOLEAN /\ call[r].failed \in BOOLEAN
  BY TypeFacts DEF FinishBreaker, At, Mine, MyClock, Calls
<1>2. b \in Breakers
  BY <1>1, AfterFinishType
<1>3. /\ current' = current /\ born' = born /\ reload' = reload
      /\ \A h \in 1..current : breakers'[h] = IF h = g THEN b ELSE breakers[h]
  BY <1>1, <1>2, ReplaceBreaker DEF FinishBreaker
<1>4. \A s \in Requests : call'[s] = IF s = r THEN Idle ELSE call[s]
  BY DEF FinishBreaker, Moves, TypeOK
<1>5. Mine(r).state = "closed" \/ Mine(r).enabled
  BY <1>1 DEF IInv, NotClosedIsEnabled, Mine
<1>6. /\ b.state = "closed" \/ b.enabled
      /\ p /\ breakers[g].state = "half_open" => b.state # "half_open"
      /\ ~p => (b.state = "half_open" <=> breakers[g].state = "half_open")
  BY <1>1, <1>5, CompletionFacts DEF Mine
<1>7. born[g] # "half_open"
  BY <1>1 DEF IInv, BornHalfOpenIsFrozen
<1>8. p => breakers[g].state = "half_open"
  BY DEF IInv, PermitsAreHeld, Mine
<1>9. \A s \in Requests : s # r /\ call[s].probe /\ call[s].gen = g => ~p
  BY DEF IInv, OneHolder
<1>i. Idle.stage = "idle" /\ ~Idle.probe
  BY DEF Idle
<1> HIDE DEF g, p, b
<1>10. NotClosedIsEnabled'
  BY <1>1, <1>3, <1>6 DEF IInv, NotClosedIsEnabled
<1>11. PermitsAreHeld'
  <2> SUFFICES ASSUME NEW s \in Requests, call'[s].probe
               PROVE  /\ call'[s].stage \in {"upstream", "finishing"}
                      /\ breakers'[call'[s].gen].state = "half_open"
    BY DEF PermitsAreHeld, Mine
  <2>1. s # r /\ call'[s] = call[s] /\ call[s].probe
    BY <1>4, <1>i
  <2>2. call[s].stage \in {"upstream", "finishing"} /\ breakers[call[s].gen].state = "half_open"
    BY <2>1 DEF IInv, PermitsAreHeld, Mine
  <2>3. call[s].gen \in 1..current
    BY <2>2, TypeFacts DEF At
  <2>4. CASE call[s].gen = g
    BY <1>3, <1>6, <1>9, <2>1, <2>2, <2>3, <2>4
  <2>5. CASE call[s].gen # g
    BY <1>3, <2>1, <2>2, <2>3, <2>5
  <2> QED BY <2>4, <2>5
<1>12. OneHolder'
  BY <1>4, <1>i DEF IInv, OneHolder
<1>13. HalfOpenIsHeldOrBorn'
  <2> SUFFICES ASSUME NEW h \in 1..current, breakers'[h].state = "half_open"
               PROVE  \/ born[h] = "half_open"
                      \/ \E s \in Requests : call'[s].probe /\ call'[s].gen = h
    BY <1>3 DEF HalfOpenIsHeldOrBorn
  <2>1. breakers[h].state = "half_open" /\ (h = g => ~p)
    BY <1>3, <1>6, <1>8
  <2>2. \/ born[h] = "half_open"
        \/ \E s \in Requests : call[s].probe /\ call[s].gen = h
    BY <2>1 DEF IInv, HalfOpenIsHeldOrBorn
  <2>3. \A s \in Requests : call[s].probe /\ call[s].gen = h => s # r
    BY <2>1 DEF g, p
  <2> QED BY <1>4, <2>2, <2>3
<1>14. BornHalfOpenIsFrozen'
  <2> SUFFICES ASSUME NEW h \in 1..current, born[h] = "half_open"
               PROVE  /\ breakers'[h].state = "half_open"
                      /\ \A s \in Requests : call'[s].gen = h =>
                           call'[s].stage \in {"idle", "routed", "entering"}
    BY <1>3 DEF BornHalfOpenIsFrozen
  <2>1. h # g
    BY <1>7
  <2> QED BY <1>3, <1>4, <1>i, <2>1 DEF IInv, BornHalfOpenIsFrozen
<1> QED BY <1>10, <1>11, <1>12, <1>13, <1>14 DEF IInv

\* The clock changes neither states nor permits.
LEMMA TickKeepsInv ==
  ASSUME TypeOK, IInv, Tick
  PROVE  IInv'
<1>1. /\ current' = current /\ born' = born
      /\ \A g \in 1..current : /\ breakers'[g].state = breakers[g].state
                               /\ breakers'[g].enabled = breakers[g].enabled
  BY AgeBreakers DEF Tick
<1>2. \A r \in Requests : /\ call'[r].stage = call[r].stage /\ call'[r].gen = call[r].gen
                          /\ call'[r].probe = call[r].probe
  BY TypeFacts DEF Tick, Calls
<1>3. reload'.stage = "built" =>
        /\ reload.stage = "built" /\ reload'.next.state = reload.next.state
        /\ reload'.next.enabled = reload.next.enabled
  <2>1. CASE reload.stage = "built"
    <3>1. reload.next \in Breakers /\ reload' = [reload EXCEPT !.next = AgedBreaker(@)]
      BY <2>1 DEF TypeOK, Reloads, NoReload, Tick
    <3>2. reload'.next = AgedBreaker(reload.next)
      BY <2>1, <3>1 DEF TypeOK, Reloads, NoReload
    <3> QED BY <2>1, <3>1, <3>2, AgedType
  <2>2. CASE reload.stage = "building"
    BY <2>2 DEF Tick, TypeOK, Reloads, NoReload
  <2>3. CASE reload.stage \notin {"built", "building"}
    BY <2>3 DEF Tick
  <2> QED BY <2>1, <2>2, <2>3
<1>4. NotClosedIsEnabled'
  BY <1>1, <1>3 DEF IInv, NotClosedIsEnabled
<1>5. PermitsAreHeld'
  <2> SUFFICES ASSUME NEW r \in Requests, call'[r].probe
               PROVE  /\ call'[r].stage \in {"upstream", "finishing"}
                      /\ breakers'[call'[r].gen].state = "half_open"
    BY DEF PermitsAreHeld, Mine
  <2>1. /\ call[r].stage \in {"upstream", "finishing"}
        /\ breakers[call[r].gen].state = "half_open"
    BY <1>2 DEF IInv, PermitsAreHeld, Mine
  <2>2. call[r].gen \in 1..current
    BY <2>1, TypeFacts DEF At
  <2> QED BY <1>1, <1>2, <2>1, <2>2
<1>6. OneHolder'
  BY <1>2 DEF IInv, OneHolder
<1>7. HalfOpenIsHeldOrBorn' /\ BornHalfOpenIsFrozen'
  BY <1>1, <1>2 DEF IInv, HalfOpenIsHeldOrBorn, BornHalfOpenIsFrozen
<1> QED BY <1>4, <1>5, <1>6, <1>7 DEF IInv

\* A reload touches no earlier breaker; a new one has no requests yet.
LEMMA ReloadKeepsInv ==
  ASSUME TypeOK, IInv, Reload
  PROVE  IInv'
<1>0. current \in Nat \ {0} /\ \A r \in Requests : At(r, "idle") \/ call[r].gen \in 1..current
  BY TypeFacts
<1>1. ASSUME UNCHANGED <<breakers, born, call>>,
             reload'.stage = "built" => reload'.next.state = "closed" \/ reload'.next.enabled
      PROVE  IInv'
  BY <1>1 DEF IInv, NotClosedIsEnabled, PermitsAreHeld, OneHolder, HalfOpenIsHeldOrBorn,
              BornHalfOpenIsFrozen, Mine, current
<1>2. CASE BeginReload
  <2>1. reload'.stage # "built"
    BY <1>2 DEF BeginReload
  <2> QED BY <1>1, <1>2, <2>1 DEF BeginReload
<1>3. CASE CloneBreaker
  <2>1. reload \in [stage : {"building"}, policy : Policies, clock : Lags]
    BY <1>3 DEF CloneBreaker, TypeOK, Reloads, NoReload
  <2>2. breakers[current] \in Breakers /\ reload.policy \in CircuitPolicies
    BY <2>1, TypeFacts, PoliciesAssumption
  <2>3. reload'.next.state = "closed" \/ reload'.next.enabled
    BY <1>3, <2>1, <2>2, CloneIsEnabled DEF CloneBreaker
  <2> QED BY <1>1, <1>3, <2>3 DEF CloneBreaker
<1>4. CASE RejectReload
  <2>1. reload'.stage # "built"
    BY <1>4 DEF RejectReload, NoReload
  <2> QED BY <1>1, <1>4, <2>1 DEF RejectReload
<1>5. CASE SwapSnapshot
  <2>1. /\ reload.next \in Breakers /\ reload.stage = "built"
        /\ breakers' = Append(breakers, reload.next)
        /\ born' = Append(born, reload.next.state)
        /\ reload'.stage = "idle" /\ call' = call
    BY <1>5 DEF SwapSnapshot, TypeOK, Reloads, NoReload
  <2>2. /\ current' = current + 1
        /\ \A g \in 1..current : breakers'[g] = breakers[g] /\ born'[g] = born[g]
        /\ breakers'[current + 1] = reload.next
        /\ born'[current + 1] = reload.next.state
    BY <2>1, TypeFacts DEF TypeOK, current
  <2>3. \A g \in 1..(current + 1) : g \in 1..current \/ g = current + 1
    BY <1>0
  <2>4. NotClosedIsEnabled'
    BY <2>1, <2>2, <2>3 DEF IInv, NotClosedIsEnabled
  <2>5. PermitsAreHeld'
    BY <1>0, <2>1, <2>2 DEF IInv, PermitsAreHeld, Mine, At
  <2>6. OneHolder'
    BY <2>1 DEF IInv, OneHolder
  <2>7. HalfOpenIsHeldOrBorn'
    <3> SUFFICES ASSUME NEW g \in 1..(current + 1), breakers'[g].state = "half_open",
                        born'[g] # "half_open"
                 PROVE  \E r \in Requests : call[r].probe /\ call[r].gen = g
      BY <2>1, <2>2 DEF HalfOpenIsHeldOrBorn
    <3>1. g \in 1..current
      BY <2>2, <2>3
    <3>2. breakers[g].state = "half_open" /\ born[g] # "half_open"
      BY <2>2, <3>1
    <3> QED BY <3>1, <3>2 DEF IInv, HalfOpenIsHeldOrBorn
  <2>8. BornHalfOpenIsFrozen'
    <3> SUFFICES ASSUME NEW g \in 1..(current + 1), born'[g] = "half_open"
                 PROVE  /\ breakers'[g].state = "half_open"
                        /\ \A r \in Requests : call[r].gen = g =>
                             call[r].stage \in {"idle", "routed", "entering"}
      BY <2>1, <2>2 DEF BornHalfOpenIsFrozen
    <3>1. CASE g \in 1..current
      BY <2>2, <3>1 DEF IInv, BornHalfOpenIsFrozen
    <3>2. CASE g = current + 1
      <4>1. \A r \in Requests : call[r].gen = g => At(r, "idle")
        BY <1>0, <3>2
      <4> QED BY <2>2, <3>2, <4>1 DEF At
    <3> QED BY <2>3, <3>1, <3>2
  <2> QED BY <2>4, <2>5, <2>6, <2>7, <2>8 DEF IInv
<1> QED BY <1>2, <1>3, <1>4, <1>5 DEF Reload

\* No step of a request, a reload or the clock breaks the invariant.
LEMMA IInvStep == TypeOK /\ IInv /\ [Next]_vars => IInv'
<1> SUFFICES ASSUME TypeOK, IInv, [Next]_vars PROVE IInv'
  OBVIOUS
<1>1. ASSUME NEW r \in Requests, Step(r) PROVE IInv'
  <2>0. /\ call[r] \in Calls /\ call[r].probe \in BOOLEAN
        /\ call[r].probe => call[r].stage \in {"upstream", "finishing"}
        /\ At(r, "idle") \/ call[r].gen \in 1..current
    BY TypeFacts DEF Calls, IInv, PermitsAreHeld
  <2>1. CASE ServeHTTP(r)
    <3> DEFINE c == [Idle EXCEPT !.stage = "routed", !.gen = current]
    <3>1. /\ c \in Calls /\ c.probe = FALSE /\ c.stage = "routed"
      BY ZeroLag, TypeFacts DEF Idle, Calls, Stages
    <3>2. call[r].probe = FALSE
      BY <2>0, <2>1 DEF ServeHTTP, At
    <3>3. Moves(r, c)
      BY <2>1 DEF ServeHTTP
    <3> HIDE DEF c
    <3> QED BY <2>1, <3>1, <3>2, <3>3, MovesKeepInv DEF ServeHTTP
  <2>2. CASE RoundTrip(r)
    <3> DEFINE c == [call[r] EXCEPT !.stage = "entering", !.clock = 0]
    <3>1. /\ c \in Calls /\ c.probe = call[r].probe /\ c.stage = "entering"
      BY <2>0, ZeroLag DEF Calls, Stages
    <3>2. ~call[r].probe
      BY <2>0, <2>2 DEF RoundTrip, At
    <3>3. Moves(r, c)
      BY <2>2 DEF RoundTrip
    <3> HIDE DEF c
    <3> QED BY <2>2, <3>1, <3>2, <3>3, MovesKeepInv DEF RoundTrip
  <2>3. CASE Refuse(r)
    <3>1. call[r].probe = FALSE
      BY <2>0, <2>3 DEF Refuse, At
    <3>2. Idle.probe = FALSE /\ Idle.stage = "idle"
      BY DEF Idle
    <3> QED BY <2>3, <3>1, <3>2, IdleType, MovesKeepInv DEF Refuse
  <2>4. CASE ExchangeEnds(r)
    <3>1. PICK failed \in BOOLEAN :
            Moves(r, [call[r] EXCEPT !.stage = "finishing", !.failed = failed, !.clock = 0])
      BY <2>4 DEF ExchangeEnds
    <3> DEFINE c == [call[r] EXCEPT !.stage = "finishing", !.failed = failed, !.clock = 0]
    <3>2. /\ c \in Calls /\ c.probe = call[r].probe /\ c.stage = "finishing"
          /\ c.gen = call[r].gen
      BY <2>0, ZeroLag DEF Calls, Stages
    <3>3. call[r].stage = "upstream"
      BY <2>4 DEF ExchangeEnds, At
    <3> HIDE DEF c
    <3>4. Moves(r, c)
      BY <3>1 DEF c
    <3> QED BY <2>4, <3>2, <3>3, <3>4, MovesKeepInv DEF ExchangeEnds
  <2> QED BY <1>1, <2>1, <2>2, <2>3, <2>4, AdmitKeepsInv, FinishKeepsInv DEF Step, Continue
<1>2. CASE UNCHANGED vars
  BY <1>2 DEF vars, IInv, NotClosedIsEnabled, PermitsAreHeld, OneHolder,
              HalfOpenIsHeldOrBorn, BornHalfOpenIsFrozen, Mine, current
<1> QED BY <1>1, <1>2, TickKeepsInv, ReloadKeepsInv DEF Next

\* The invariant holds throughout.
LEMMA IInvHolds == Spec => []IInv
<1>1. Init => IInv
  <2> SUFFICES ASSUME Init PROVE IInv
    OBVIOUS
  <2>1. PICK policy \in Policies : breakers = <<NewBreaker(policy)>>
    BY DEF Init
  <2>2. NewBreaker(policy).state = "closed"
    BY PoliciesAssumption, NewBreakerType
  <2>3. current = 1 /\ breakers[1].state = "closed" /\ born[1] = "closed"
    BY <2>1, <2>2 DEF Init, current
  <2>4. reload.stage # "built" /\ \A r \in Requests : call[r].stage = "idle" /\ ~call[r].probe
    BY DEF Init, NoReload, Idle
  <2> QED BY <2>3, <2>4 DEF IInv, NotClosedIsEnabled, PermitsAreHeld, OneHolder,
             HalfOpenIsHeldOrBorn, BornHalfOpenIsFrozen
<1> QED BY <1>1, TypeCorrect, IInvStep, PTL DEF Spec

\* Whatever reloads happen, a snapshot has at most one probe in flight, and its
\* breaker is half open until that probe is finished.
THEOREM PermitPerSnapshotHolds == Spec => []PermitPerSnapshot
<1>1. IInv => PermitPerSnapshot
  BY DEF IInv, PermitsAreHeld, OneHolder, PermitPerSnapshot, Probes
<1> QED BY <1>1, IInvHolds, PTL

\* Only cloneWithPolicy makes a half-open breaker that has no probe.
THEOREM OrphansAreBornHolds == Spec => []OrphansAreBorn
<1>1. IInv => OrphansAreBorn
  BY DEF IInv, HalfOpenIsHeldOrBorn, OrphansAreBorn, Orphaned, Probes
<1> QED BY <1>1, IInvHolds, PTL

\* A breaker that was created half open stays so and admits nobody.
THEOREM BornHalfOpenIsFrozenHolds == Spec => []BornHalfOpenIsFrozen
<1>1. IInv => BornHalfOpenIsFrozen
  BY DEF IInv
<1> QED BY <1>1, IInvHolds, PTL

-----------------------------------------------------------------------------
(* Readiness only watches the circuit and keeps requests away, so that all *)
(* that is proved about the circuit holds with it.                         *)

\* A step of the watched system is one of the system's own or leaves it alone.
LEMMA WatchingStep == [NextReadiness]_readinessVars => [Next]_vars
<1> SUFFICES ASSUME NextReadiness PROVE Next \/ UNCHANGED vars
  BY DEF readinessVars, vars
<1>1. ASSUME Traffic PROVE Next
  BY <1>1 DEF Traffic, Routes, Next, Step
<1> QED BY <1>1 DEF NextReadiness, CaptureForReadiness, WriteReadiness

\* A balancer that polls /_readyz only looks and sends requests: what is proved of
\* breakers and reloads holds under it.
THEOREM ReadinessWatches == SpecReadiness => Spec
<1>1. InitReadiness => Init
  BY DEF InitReadiness
<1> QED BY <1>1, WatchingStep, PTL DEF SpecReadiness, Spec

\* While nobody is sent to it, an unready snapshot stays unready: time alone and
\* the reads of /_readyz move no circuit.
THEOREM DrainedStaysUnreadyHolds == SpecReadiness => DrainedStaysUnready
<1>1. TypeOK /\ [NextReadiness]_readinessVars
        => (Drained /\ NotReady(breakers[current]) /\ current' = current
              => NotReady(breakers'[current]))
  <2> SUFFICES ASSUME TypeOK, [NextReadiness]_readinessVars, Drained,
                      NotReady(breakers[current]), current' = current
               PROVE  NotReady(breakers'[current])
    OBVIOUS
  <2>0. current \in Nat \ {0} /\ \A r \in Requests : At(r, "idle")
    BY TypeFacts DEF Drained
  <2>1. CASE UNCHANGED breakers
    BY <2>1
  <2>2. CASE Tick
    <3>1. /\ breakers'[current].state = breakers[current].state
          /\ breakers'[current].enabled = breakers[current].enabled
      BY <2>0, <2>2, AgeBreakers
    <3> QED BY <3>1 DEF NotReady
  <2>3. CASE Reload
    <3>1. CASE SwapSnapshot
      \* A swap makes another snapshot current.
      <4>1. breakers \in Seq(Breakers) /\ breakers' = Append(breakers, reload.next)
        BY <3>1 DEF SwapSnapshot, TypeOK
      <4>2. Len(breakers') = Len(breakers) + 1
        BY <4>1
      <4> QED BY <2>0, <4>2 DEF current
    <3>2. CASE BeginReload \/ CloneBreaker \/ RejectReload
      BY <2>1, <3>2 DEF BeginReload, CloneBreaker, RejectReload
    <3> QED BY <2>3, <3>1, <3>2 DEF Reload
  <2>4. ASSUME NEW r \in Requests, Routes(r) \/ RoundTrip(r) \/ Continue(r) PROVE FALSE
    BY <2>0, <2>4 DEF Drained, Routes, RoundTrip, Continue, Refuse, Admit, ExchangeEnds,
       FinishBreaker, At
  <2>5. CASE NextReadiness
    <3>1. Traffic \/ UNCHANGED breakers
      BY <2>5 DEF NextReadiness, CaptureForReadiness, WriteReadiness, vars
    <3> QED BY <2>1, <2>2, <2>3, <2>4, <3>1 DEF Traffic
  <2>6. CASE UNCHANGED readinessVars
    BY <2>1, <2>6 DEF readinessVars
  <2> QED BY <2>5, <2>6
<1> QED BY <1>1, ReadinessWatches, TypeCorrect, PTL DEF SpecReadiness, DrainedStaysUnready
=============================================================================
