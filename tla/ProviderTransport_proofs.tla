----------------------- MODULE ProviderTransport_proofs -----------------------
(***************************************************************************)
(* Proofs about ProviderTransport, for any finite set of requests, any     *)
(* circuit policy, any defaults and any MaxLag.                            *)
(***************************************************************************)
EXTENDS ProviderTransport, FiniteSetTheorems, TLAPS

\* What the operators of CircuitBreaker return, for any policy, any defaults and
\* any MaxLag.
LEMMA InstantsFacts ==
  /\ LongAgo \in Int /\ LongAgo <= 0
  /\ LongAgo \in Instants
  /\ Lags \subseteq Int
  /\ \A t \in Lags : LongAgo <= t /\ t <= 0
BY MaxLagAssumption DEF LongAgo, Instants, Lags

\* What each operation of a breaker returns: a breaker, and what it leaves alone.
LEMMA NewBreakerType ==
  ASSUME NEW policy \in CircuitPolicies
  PROVE  /\ NewBreaker(policy) \in Breakers
         /\ NewBreaker(policy).state = "closed"
BY DefaultsAssumption, InstantsFacts
   DEF CircuitPolicies, NewBreaker, Breakers, CircuitStates, PositiveOr

\* allow never changes the policy.
LEMMA AfterAllowType ==
  ASSUME NEW b \in Breakers, NEW now \in Lags
  PROVE  /\ AfterAllow(b, now) \in Breakers
         /\ StartsProbe(b, now) \in BOOLEAN
         /\ AfterAllow(b, now).openFor = b.openFor
BY DEF AfterAllow, StartsProbe, Breakers, CircuitStates

\* finish returns a breaker.
LEMMA AfterFinishType ==
  ASSUME NEW b \in Breakers, NEW now \in Lags, NEW probe \in BOOLEAN, NEW failed \in BOOLEAN
  PROVE  AfterFinish(b, probe, failed, now) \in Breakers
<1>1. now + b.openFor \in Instants
  BY InstantsFacts DEF Breakers, Instants
<1>2. AfterProbe(b, failed, now) \in Breakers
  BY <1>1, InstantsFacts DEF AfterProbe, Breakers, CircuitStates
<1>3. AfterOrdinary(b, failed, now) \in Breakers
  <2>1. CASE ~CountsCompletion(b)
    BY <2>1 DEF AfterOrdinary
  <2>2. CASE CountsCompletion(b) /\ failed
    <3>1. b.failures + 1 \in Nat
      BY DEF Breakers
    <3> QED BY <1>1, <2>2, <3>1 DEF AfterOrdinary, Breakers, CircuitStates
  <2>3. CASE CountsCompletion(b) /\ ~failed
    BY <1>1, <2>3 DEF AfterOrdinary, Breakers, CircuitStates
  <2> QED BY <2>1, <2>2, <2>3
<1> QED BY <1>2, <1>3 DEF AfterFinish, Breakers

\* Time changes the remaining open period only.
LEMMA AgedType ==
  ASSUME NEW b \in Breakers
  PROVE  /\ AgedBreaker(b) \in Breakers
         /\ AgedBreaker(b).state = b.state
         /\ AgedBreaker(b).enabled = b.enabled
         /\ AgedBreaker(b).openFor = b.openFor
         /\ AgedBreaker(b).openUntil = Older(b.openUntil)
BY InstantsFacts DEF AgedBreaker, Older, Breakers, Instants

-----------------------------------------------------------------------------

\* A request that is not under way is well-formed.
LEMMA IdleType == Idle \in Calls
BY InstantsFacts DEF Idle, Calls, Stages, Lags

-----------------------------------------------------------------------------
\* Every field of the breaker, the gauge and the round trips keeps its type.
THEOREM TypeCorrect == Spec => []TypeOK
<1>1. Init => TypeOK
  BY NewBreakerType, PolicyAssumption, IdleType DEF Init, TypeOK
<1>2. TypeOK /\ [Next]_vars => TypeOK'
  <2> SUFFICES ASSUME TypeOK, [Next]_vars PROVE TypeOK'
    OBVIOUS
  <2> USE DEF TypeOK, At, Moves
  <2>1. CASE Tick
    <3>1. breaker' \in Breakers
      BY <2>1, AgedType DEF Tick
    <3>2. call' \in [Requests -> Calls]
      <4> SUFFICES ASSUME NEW r \in Requests
                   PROVE  [call[r] EXCEPT !.clock = @ - 1] \in Calls \/ ~HoldsClock(r)
        BY <2>1 DEF Tick
      <4>1. CASE HoldsClock(r)
        <5>1. call[r] \in Calls /\ call[r].clock \in Lags /\ call[r].clock > LongAgo
          BY <2>1, <4>1 DEF Tick, Calls
        <5>2. call[r].clock - 1 \in Lags
          BY <5>1, InstantsFacts DEF Lags
        <5> QED BY <5>1, <5>2 DEF Calls
      <4> QED BY <4>1
    <3>3. cooled' \in Nat /\ inFlight' \in Nat
      BY <2>1 DEF Tick
    <3> QED BY <3>1, <3>2, <3>3
  <2>2. ASSUME NEW r \in Requests, Step(r) PROVE TypeOK'
    <3>0. call[r] \in Calls
      OBVIOUS
    <3>e. ASSUME NEW failed \in BOOLEAN, NEW resume \in {"idle", "streaming"},
                 Ends(r, failed, resume)
          PROVE  TypeOK'
      <4>1. (resume = "streaming") \in BOOLEAN
        OBVIOUS
      <4>2. [call[r] EXCEPT !.stage = "ending", !.failed = failed,
                            !.bodyDone = (resume = "streaming"),
                            !.resume = resume] \in Calls
        BY <3>0, <4>1 DEF Calls, Stages
      <4> QED BY <3>e, <4>2 DEF Ends
    <3>f. call[r].failed \in BOOLEAN
      BY <3>0 DEF Calls
    <3>1. CASE RoundTrip(r)
      BY <3>1, IdleType DEF RoundTrip, Calls, Stages
    <3>2. CASE Refuse(r)
      BY <3>2, IdleType DEF Refuse
    <3>3. CASE Admit(r)
      <4>1. call[r].clock \in Lags
        BY <3>0 DEF Calls
      <4>2. [Idle EXCEPT !.stage = "admitted",
                         !.probe = StartsProbe(breaker, call[r].clock)] \in Calls
        BY <4>1, IdleType, AfterAllowType DEF Calls, Stages
      <4> QED BY <3>3, <4>1, <4>2, AfterAllowType DEF Admit
    <3>4. CASE ProviderBegin(r)
      <4>1. [call[r] EXCEPT !.stage = "upstream"] \in Calls
        BY <3>0 DEF Calls, Stages
      <4> QED BY <3>4, <4>1 DEF ProviderBegin
    <3>5. CASE RoundTripError(r)
      BY <3>e, <3>f, <3>5 DEF RoundTripError
    <3>6. CASE ResponseWithoutBody(r)
      BY <3>e, <3>f, <3>6 DEF ResponseWithoutBody
    <3>7. CASE ResponseHeaders(r)
      <4>1. PICK serverError \in BOOLEAN :
              Moves(r, [call[r] EXCEPT !.stage = "streaming", !.failed = serverError])
        BY <3>7 DEF ResponseHeaders
      <4>2. [call[r] EXCEPT !.stage = "streaming", !.failed = serverError] \in Calls
        BY <3>0 DEF Calls, Stages
      <4> QED BY <3>7, <4>1, <4>2 DEF ResponseHeaders, Moves
    <3>8. CASE BodyReadEnds(r)
      BY <3>e, <3>f, <3>8 DEF BodyReadEnds
    <3>9. CASE BodyCloseEarly(r)
      BY <3>e, <3>f, <3>9 DEF BodyCloseEarly
    <3>10. CASE BodyClose(r)
      BY <3>10, IdleType DEF BodyClose
    <3>11. CASE ProviderFinish(r)
      <4>1. 0 \in Lags
        BY InstantsFacts DEF Lags
      <4>2. [call[r] EXCEPT !.stage = "finishing", !.clock = 0] \in Calls
        BY <3>0, <4>1 DEF Calls, Stages
      <4> QED BY <3>11, <4>2 DEF ProviderFinish
    <3>12. CASE FinishBreaker(r)
      <4>1. /\ call[r].clock \in Lags /\ call[r].probe \in BOOLEAN /\ call[r].failed \in BOOLEAN
            /\ call[r].bodyDone \in BOOLEAN /\ call[r].resume \in {"idle", "streaming"}
        BY <3>0 DEF Calls
      <4>2. [Idle EXCEPT !.stage = call[r].resume, !.bodyDone = call[r].bodyDone] \in Calls
        BY <4>1, IdleType DEF Calls, Stages
      <4>3. breaker' \in Breakers
        BY <3>12, <4>1, AfterFinishType DEF FinishBreaker
      <4> QED BY <3>12, <4>2, <4>3 DEF FinishBreaker
    <3> QED
      BY <2>2, <3>1, <3>2, <3>3, <3>4, <3>5, <3>6, <3>7, <3>8, <3>9, <3>10, <3>11, <3>12 DEF Step, Continue
  <2>3. CASE UNCHANGED vars
    BY <2>3 DEF vars
  <2> QED BY <2>1, <2>2, <2>3 DEF Next
<1> QED BY <1>1, <1>2, PTL DEF Spec

-----------------------------------------------------------------------------
(* What makes OneProbe inductive: the permit lives exactly as long as its   *)
(* round trip is outstanding, a body is done only in the course of its own  *)
(* accounting, and a disabled breaker never leaves "closed".                *)
IInv ==
  /\ OneProbe
  /\ \A r \in Requests : call[r].probe => Outstanding(r)
  /\ \A r \in Requests : call[r].stage \in {"admitted", "upstream"} => ~call[r].bodyDone
  /\ \A r \in Requests : call[r].stage \in {"ending", "finishing"} /\ call[r].resume = "streaming"
                           => call[r].bodyDone
  /\ ~breaker.enabled => breaker.state = "closed"

\* A round trip in one of these stages holds no probe permit.
LEMMA NoProbeBefore ==
  ASSUME TypeOK, IInv, NEW r \in Requests,
         call[r].stage \in {"idle", "entering"} \/ (At(r, "streaming") /\ call[r].bodyDone)
  PROVE  call[r].probe = FALSE
BY DEF TypeOK, IInv, Outstanding, At, Calls

\* No step of a request or of the clock breaks the invariant.
LEMMA IInvStep == TypeOK /\ IInv /\ [Next]_vars => IInv'
<1> SUFFICES ASSUME TypeOK, IInv, [Next]_vars PROVE IInv'
  OBVIOUS
<1>1. CASE Tick
  <2>1. breaker'.state = breaker.state /\ breaker'.enabled = breaker.enabled
    BY <1>1, AgedType DEF Tick, TypeOK
  <2>2. \A r \in Requests : /\ call'[r].probe = call[r].probe
                           /\ call'[r].stage = call[r].stage
                           /\ call'[r].bodyDone = call[r].bodyDone
                           /\ call'[r].resume = call[r].resume
    BY <1>1 DEF Tick, TypeOK, Calls
  <2> QED BY <2>1, <2>2 DEF IInv, OneProbe, Outstanding, At
<1>2. ASSUME NEW r \in Requests, Step(r) PROVE IInv'
  <2>0. call[r] \in Calls /\ \A s \in Requests \ {r} : TRUE
    BY DEF TypeOK
  \* Steps that touch neither the breaker nor r's permit.
  <2>k. ASSUME breaker' = breaker, NEW c \in Calls, Moves(r, c), c.probe = call[r].probe,
               c.probe => c.stage \in {"admitted", "upstream", "ending", "finishing"}
                          \/ (c.stage = "streaming" /\ ~c.bodyDone),
               c.stage \in {"admitted", "upstream"} => ~c.bodyDone,
               c.stage \in {"ending", "finishing"} /\ c.resume = "streaming" => c.bodyDone
        PROVE  IInv'
    <3>1. \A s \in Requests : call'[s] = IF s = r THEN c ELSE call[s]
      BY <2>k DEF TypeOK, Moves
    <3>2. \A s \in Requests : call'[s].probe = call[s].probe
      BY <2>k, <3>1
    <3> QED BY <2>k, <3>1, <3>2 DEF IInv, OneProbe, Outstanding, At
  <2>e. ASSUME NEW failed \in BOOLEAN, NEW resume \in {"idle", "streaming"},
               Ends(r, failed, resume)
        PROVE  IInv'
    <3> DEFINE c == [call[r] EXCEPT !.stage = "ending", !.failed = failed,
                                    !.bodyDone = (resume = "streaming"), !.resume = resume]
    <3>1. (resume = "streaming") \in BOOLEAN
      OBVIOUS
    <3>2. c \in Calls /\ c.probe = call[r].probe /\ c.stage = "ending"
          /\ (c.resume = "streaming" => c.bodyDone)
      BY <2>0, <3>1 DEF Calls, Stages
    <3>3. breaker' = breaker /\ Moves(r, c)
      BY <2>e DEF Ends
    <3> QED BY <2>k, <3>2, <3>3
  <2>f. call[r].failed \in BOOLEAN
    BY <2>0 DEF Calls
  <2>i. Idle \in Calls /\ Idle.probe = FALSE /\ Idle.stage = "idle"
    BY IdleType DEF Idle
  <2>1. CASE RoundTrip(r)
    <3>1. [Idle EXCEPT !.stage = "entering"] \in Calls
      BY <2>i DEF Calls, Stages
    <3>2. call[r].probe = FALSE
      BY <2>1, NoProbeBefore DEF RoundTrip, At
    <3> QED BY <2>1, <2>i, <3>1, <3>2, <2>k DEF RoundTrip, Idle
  <2>2. CASE Refuse(r)
    <3>1. call[r].probe = FALSE
      BY <2>2, NoProbeBefore DEF Refuse, At
    <3> QED BY <2>2, <2>i, <3>1, <2>k DEF Refuse
  <2>3. CASE Admit(r)
    <3>1. call[r].probe = FALSE
      BY <2>3, NoProbeBefore DEF Admit, At
    <3> DEFINE c == [Idle EXCEPT !.stage = "admitted",
                                 !.probe = StartsProbe(breaker, call[r].clock)]
    <3>2. breaker \in Breakers /\ call[r].clock \in Lags
          /\ StartsProbe(breaker, call[r].clock) \in BOOLEAN
      BY <2>0, AfterAllowType DEF TypeOK, Calls
    <3>3. c.stage = "admitted" /\ c.probe = StartsProbe(breaker, call[r].clock) /\ ~c.bodyDone
      BY DEF Idle
    <3>4. \A s \in Requests : call'[s] = IF s = r THEN c ELSE call[s]
      BY <2>3 DEF Admit, Moves, TypeOK
    <3>5. CASE StartsProbe(breaker, call[r].clock)
      <4>1. breaker.enabled /\ breaker.state = "open" /\ breaker'.state = "half_open"
            /\ breaker'.enabled = breaker.enabled
        BY <2>3, <3>2, <3>5 DEF Admit, AfterAllow, StartsProbe, Breakers
      <4>2. \A s \in Requests : ~call[s].probe
        BY <4>1 DEF IInv, OneProbe
      <4>3. \A s \in Requests : call'[s].probe <=> s = r
        BY <3>3, <3>4, <3>5, <4>2
      <4>4. OneProbe'
        BY <4>1, <4>3 DEF OneProbe
      <4>5. /\ \A s \in Requests : call'[s].probe => Outstanding(s)'
            /\ \A s \in Requests : call'[s].stage \in {"admitted", "upstream"} => ~call'[s].bodyDone
            /\ \A s \in Requests : call'[s].stage \in {"ending", "finishing"}
                   /\ call'[s].resume = "streaming" => call'[s].bodyDone
        BY <3>3, <3>4, <4>3 DEF IInv, Outstanding
      <4> QED BY <4>1, <4>4, <4>5 DEF IInv
    <3>6. CASE ~StartsProbe(breaker, call[r].clock)
      <4>1. breaker' = breaker
        BY <2>3, <3>6 DEF Admit, AfterAllow
      <4>2. \A s \in Requests : call'[s].probe <=> call[s].probe
        BY <3>1, <3>3, <3>4, <3>6
      <4> QED BY <3>3, <3>4, <4>1, <4>2 DEF IInv, OneProbe, Outstanding, At
    <3> QED BY <3>5, <3>6
  <2>4. CASE ProviderBegin(r)
    <3>1. [call[r] EXCEPT !.stage = "upstream"] \in Calls
      BY <2>0 DEF Calls, Stages
    <3>2. ~call[r].bodyDone
      BY <2>4 DEF ProviderBegin, At, IInv
    <3> QED BY <2>0, <2>4, <2>k, <3>1, <3>2 DEF ProviderBegin, Calls
  <2>5. CASE RoundTripError(r)
    BY <2>5, <2>e DEF RoundTripError
  <2>6. CASE ResponseWithoutBody(r)
    BY <2>6, <2>e DEF ResponseWithoutBody
  <2>7. CASE ResponseHeaders(r)
    <3>1. PICK serverError \in BOOLEAN :
            Moves(r, [call[r] EXCEPT !.stage = "streaming", !.failed = serverError])
      BY <2>7 DEF ResponseHeaders
    <3>2. [call[r] EXCEPT !.stage = "streaming", !.failed = serverError] \in Calls
      BY <2>0 DEF Calls, Stages
    <3>3. ~call[r].bodyDone
      BY <2>7 DEF ResponseHeaders, At, IInv
    <3> QED BY <2>0, <2>7, <2>k, <3>1, <3>2, <3>3 DEF ResponseHeaders, Calls
  <2>8. CASE BodyReadEnds(r)
    BY <2>8, <2>e, <2>f DEF BodyReadEnds
  <2>9. CASE BodyCloseEarly(r)
    BY <2>9, <2>e, <2>f DEF BodyCloseEarly
  <2>10. CASE BodyClose(r)
    <3>1. call[r].probe = FALSE
      BY <2>10, NoProbeBefore DEF BodyClose, At
    <3> QED BY <2>10, <2>i, <3>1, <2>k DEF BodyClose
  <2>11. CASE ProviderFinish(r)
    <3>1. 0 \in Lags
      BY InstantsFacts DEF Lags
    <3>2. [call[r] EXCEPT !.stage = "finishing", !.clock = 0] \in Calls
      BY <2>0, <3>1 DEF Calls, Stages
    <3>3. call[r].resume = "streaming" => call[r].bodyDone
      BY <2>11 DEF ProviderFinish, At, IInv
    <3> QED BY <2>0, <2>11, <2>k, <3>2, <3>3 DEF ProviderFinish, Calls
  <2>12. CASE FinishBreaker(r)
    <3> DEFINE c == [Idle EXCEPT !.stage = call[r].resume, !.bodyDone = call[r].bodyDone]
    <3>1. /\ breaker \in Breakers
          /\ breaker' = AfterFinish(breaker, call[r].probe, call[r].failed, call[r].clock)
      BY <2>12 DEF FinishBreaker, TypeOK
    <3>2. \A s \in Requests : call'[s] = IF s = r THEN c ELSE call[s]
      BY <2>12 DEF FinishBreaker, Moves, TypeOK
    <3>3. c.probe = FALSE /\ c.stage \in {"idle", "streaming"}
      BY <2>0 DEF Idle, Calls
    <3>4. /\ \A s \in Requests : call'[s].probe => Outstanding(s)'
          /\ \A s \in Requests : call'[s].stage \in {"admitted", "upstream"} => ~call'[s].bodyDone
          /\ \A s \in Requests : call'[s].stage \in {"ending", "finishing"}
                 /\ call'[s].resume = "streaming" => call'[s].bodyDone
      BY <3>2, <3>3 DEF IInv, Outstanding, At
    <3>5. CASE call[r].probe
      <4>1. breaker.state = "half_open" /\ breaker.enabled
        BY <3>5 DEF IInv, OneProbe
      <4>2. breaker'.state \in {"open", "closed"} /\ breaker'.enabled
        BY <3>1, <3>5, <4>1 DEF AfterFinish, AfterProbe, Breakers
      <4>3. \A s \in Requests : ~call'[s].probe
        BY <3>2, <3>3, <3>5 DEF IInv, OneProbe
      <4> QED BY <3>4, <4>2, <4>3 DEF IInv, OneProbe
    <3>6. CASE ~call[r].probe
      <4>1. /\ breaker'.enabled = breaker.enabled
            /\ breaker.state # "closed" => breaker'.state = breaker.state
            /\ breaker.state = "closed" => breaker'.state \in {"open", "closed"}
            /\ ~breaker.enabled => breaker'.state = breaker.state
        BY <3>1, <3>6 DEF AfterFinish, AfterOrdinary, CountsCompletion, Breakers
      <4>2. \A s \in Requests : call'[s].probe <=> call[s].probe
        BY <3>2, <3>3, <3>6
      <4> QED BY <3>4, <4>1, <4>2 DEF IInv, OneProbe
    <3> QED BY <3>5, <3>6
  <2> QED
    BY <1>2, <2>1, <2>2, <2>3, <2>4, <2>5, <2>6, <2>7, <2>8, <2>9, <2>10, <2>11, <2>12 DEF Step, Continue
<1>3. CASE UNCHANGED vars
  BY <1>3 DEF vars, IInv, OneProbe, Outstanding, At
<1> QED BY <1>1, <1>2, <1>3 DEF Next

\* The invariant holds throughout.
LEMMA IInvHolds == Spec => []IInv
<1>1. Init => IInv
  BY NewBreakerType, PolicyAssumption
     DEF Init, IInv, OneProbe, Outstanding, At, Idle
<1> QED BY <1>1, TypeCorrect, IInvStep, PTL DEF Spec

\* A half-open circuit belongs to exactly one outstanding round trip.
THEOREM OneProbeHolds == Spec => []OneProbe
<1>1. IInv => OneProbe
  BY DEF IInv
<1> QED BY <1>1, IInvHolds, PTL

-----------------------------------------------------------------------------
(* The open period.                                                         *)

\* A finish that leaves the circuit open either opened it now or did not
\* touch it: the only probe permit belongs to a half-open circuit.
LEMMA FinishKeepsOpen ==
  ASSUME TypeOK, IInv, NEW r \in Requests, FinishBreaker(r),
         breaker.state = "open"
  PROVE  breaker' = breaker
<1>1. ~call[r].probe
  BY DEF IInv, OneProbe
<1> QED BY <1>1 DEF FinishBreaker, AfterFinish, AfterOrdinary, CountsCompletion, TypeOK, Breakers

\* A finish that opens the circuit starts a whole open period, by its own clock.
LEMMA FinishOpens ==
  ASSUME TypeOK, NEW r \in Requests, FinishBreaker(r),
         breaker.state # "open", breaker'.state = "open"
  PROVE  /\ breaker'.openUntil = call[r].clock + breaker.openFor
         /\ breaker'.openFor = breaker.openFor
         /\ cooled' = 0
BY DEF FinishBreaker, AfterFinish, AfterProbe, AfterOrdinary, CountsCompletion, TypeOK, Breakers

\* An open circuit that ages by a tick has been open a tick longer; nothing else moves
\* its end.
LEMMA OpenPeriodStep == TypeOK /\ IInv /\ OpenForItsPeriod /\ [Next]_vars => OpenForItsPeriod'
<1> SUFFICES ASSUME TypeOK, IInv, OpenForItsPeriod, [Next]_vars PROVE OpenForItsPeriod'
  OBVIOUS
<1>0. breaker \in Breakers /\ cooled \in Nat /\ breaker.openFor \in Nat
  BY DEF TypeOK, Breakers
<1>1. CASE Tick
  <2>1. /\ breaker'.state = breaker.state
        /\ breaker'.openFor = breaker.openFor
        /\ breaker'.openUntil = Older(breaker.openUntil)
    BY <1>0, <1>1, AgedType DEF Tick
  <2>2. cooled' = IF cooled < breaker.openFor + MaxLag THEN cooled + 1 ELSE cooled
    BY <1>1 DEF Tick, CooledCap
  <2>3. breaker.openUntil \in Int /\ breaker.openUntil >= -MaxLag
    BY <1>0 DEF Breakers, Instants, LongAgo
  <2> QED
    BY <1>0, <2>1, <2>2, <2>3, MaxLagAssumption DEF OpenForItsPeriod, Older, LongAgo
<1>2. ASSUME NEW r \in Requests, Step(r) PROVE OpenForItsPeriod'
  <2>1. CASE breaker' = breaker /\ cooled' = cooled
    BY <2>1 DEF OpenForItsPeriod
  <2>2. CASE Admit(r)
    <3>1. breaker' = breaker \/ breaker'.state = "half_open"
      BY <1>0, <2>2 DEF Admit, AfterAllow, Breakers
    <3> QED BY <2>1, <2>2, <3>1 DEF Admit, OpenForItsPeriod
  <2>3. CASE FinishBreaker(r)
    <3>1. CASE breaker.state = "open"
      <4>1. breaker' = breaker
        BY <2>3, <3>1, FinishKeepsOpen
      <4> QED BY <2>1, <2>3, <3>1, <4>1 DEF FinishBreaker
    <3>2. CASE breaker.state # "open" /\ breaker'.state = "open"
      <4>1. call[r].clock \in Int /\ -MaxLag <= call[r].clock /\ call[r].clock <= 0
        BY InstantsFacts DEF TypeOK, Calls, LongAgo
      <4> QED BY <1>0, <2>3, <3>2, <4>1, FinishOpens, MaxLagAssumption DEF OpenForItsPeriod
    <3>3. CASE breaker'.state # "open"
      BY <3>3 DEF OpenForItsPeriod
    <3> QED BY <3>1, <3>2, <3>3
  <2> QED
    BY <1>2, <2>1, <2>2, <2>3
    DEF Step, Continue, RoundTrip, Refuse, ProviderBegin, RoundTripError, ResponseWithoutBody, Ends,
        ResponseHeaders, BodyReadEnds, BodyCloseEarly, BodyClose, ProviderFinish
<1>3. CASE UNCHANGED vars
  BY <1>3 DEF vars, OpenForItsPeriod
<1> QED BY <1>1, <1>2, <1>3 DEF Next

\* The open period lasts openFor, less the lag of the failing request's clock.
THEOREM OpenForItsPeriodHolds == Spec => []OpenForItsPeriod
<1>1. Init => OpenForItsPeriod
  BY NewBreakerType, PolicyAssumption DEF Init, OpenForItsPeriod
<1> QED BY <1>1, TypeCorrect, IInvHolds, OpenPeriodStep, PTL DEF Spec

-----------------------------------------------------------------------------
(* The in-flight gauge.                                                     *)

\* The round trips the gauge counts.
Counted == {r \in Requests :
              \/ call[r].stage \in {"upstream", "ending"}
              \/ At(r, "streaming") /\ ~call[r].bodyDone}

\* There are finitely many requests to count.
LEMMA CountedFinite == IsFiniteSet(Counted) /\ Cardinality(Counted) \in Nat
BY RequestsAssumption, FS_Subset, FS_CardinalityType DEF Counted

\* A step of r whose new record c leaves the gauge alone keeps the count when
\* c is counted exactly if r was.
LEMMA InFlightStep == TypeOK /\ IInv /\ InFlightExact /\ [Next]_vars => InFlightExact'
<1> SUFFICES ASSUME TypeOK, IInv, InFlightExact, [Next]_vars PROVE InFlightExact'
  OBVIOUS
<1>0. inFlight = Cardinality(Counted) /\ (InFlightExact' <=> inFlight' = Cardinality(Counted'))
  BY DEF InFlightExact, Counted
<1>s. ASSUME Counted' = Counted, inFlight' = inFlight PROVE InFlightExact'
  BY <1>s, <1>0
<1>1. CASE Tick
  <2>1. \A r \in Requests : /\ call'[r].stage = call[r].stage
                           /\ call'[r].bodyDone = call[r].bodyDone
    BY <1>1 DEF Tick, TypeOK, Calls
  <2>2. Counted' = Counted
    BY <2>1 DEF Counted, At
  <2> QED BY <1>1, <1>s, <2>2 DEF Tick
<1>2. ASSUME NEW r \in Requests, Step(r) PROVE InFlightExact'
  <2>0. call[r] \in Calls
    BY DEF TypeOK
  <2>c. ASSUME NEW c, Moves(r, c)
        PROVE  Counted' = IF c.stage \in {"upstream", "ending"} \/ (c.stage = "streaming" /\ ~c.bodyDone)
                          THEN Counted \union {r} ELSE Counted \ {r}
    <3>1. \A s \in Requests : call'[s] = IF s = r THEN c ELSE call[s]
      BY <2>c DEF TypeOK, Moves
    <3> QED BY <3>1 DEF Counted, At
  <2>e. ASSUME NEW failed \in BOOLEAN, NEW resume \in {"idle", "streaming"},
               Ends(r, failed, resume), r \in Counted
        PROVE  InFlightExact'
    <3> DEFINE c == [call[r] EXCEPT !.stage = "ending", !.failed = failed,
                                    !.bodyDone = (resume = "streaming"), !.resume = resume]
    <3>1. Moves(r, c) /\ c.stage = "ending" /\ inFlight' = inFlight
      BY <2>0, <2>e DEF Ends, Calls
    <3>2. Counted' = Counted
      BY <2>c, <2>e, <3>1
    <3> QED BY <1>s, <3>1, <3>2
  <2>f. call[r].failed \in BOOLEAN
    BY <2>0 DEF Calls
  \* Steps outside the counted stages.
  <2>o. ASSUME NEW c, Moves(r, c), r \notin Counted, inFlight' = inFlight,
               c.stage \in {"idle", "entering", "admitted", "finishing"}
                 \/ (c.stage = "streaming" /\ c.bodyDone)
        PROVE  InFlightExact'
    <3>1. Counted' = Counted
      BY <2>c, <2>o
    <3> QED BY <1>s, <2>o, <3>1
  <2>1. CASE RoundTrip(r)
    BY <2>1, <2>o DEF RoundTrip, Idle, Counted, At
  <2>2. CASE Refuse(r)
    BY <2>2, <2>o DEF Refuse, Idle, Counted, At
  <2>3. CASE Admit(r)
    BY <2>3, <2>o DEF Admit, Idle, Counted, At
  <2>4. CASE ProviderBegin(r)
    <3>1. r \notin Counted /\ inFlight' = inFlight + 1
      BY <2>4 DEF ProviderBegin, Counted, At
    <3>2. Counted' = Counted \union {r}
      BY <2>0, <2>4, <2>c DEF ProviderBegin, Calls
    <3> QED BY <1>0, <3>1, <3>2, CountedFinite, FS_AddElement
  <2>5. CASE RoundTripError(r)
    BY <2>5, <2>e DEF RoundTripError, Counted, At
  <2>6. CASE ResponseWithoutBody(r)
    BY <2>6, <2>e DEF ResponseWithoutBody, Counted, At
  <2>7. CASE ResponseHeaders(r)
    <3>1. PICK serverError \in BOOLEAN :
            Moves(r, [call[r] EXCEPT !.stage = "streaming", !.failed = serverError])
      BY <2>7 DEF ResponseHeaders
    <3>2. r \in Counted /\ ~call[r].bodyDone /\ inFlight' = inFlight
      BY <2>7 DEF ResponseHeaders, At, IInv, Counted
    <3> DEFINE c == [call[r] EXCEPT !.stage = "streaming", !.failed = serverError]
    <3>a. c.stage = "streaming" /\ ~c.bodyDone
      BY <2>0, <3>2 DEF Calls
    <3>b. Counted' = Counted \union {r}
      BY <2>c, <3>1, <3>a
    <3>3. Counted' = Counted
      BY <3>2, <3>b
    <3> QED BY <1>s, <3>2, <3>3
  <2>8. CASE BodyReadEnds(r)
    BY <2>8, <2>e, <2>f DEF BodyReadEnds, Counted
  <2>9. CASE BodyCloseEarly(r)
    BY <2>9, <2>e, <2>f DEF BodyCloseEarly, Counted
  <2>10. CASE BodyClose(r)
    BY <2>10, <2>o DEF BodyClose, Idle, Counted, At
  <2>11. CASE ProviderFinish(r)
    <3>1. r \in Counted
      BY <2>11 DEF ProviderFinish, Counted, At
    <3> DEFINE c == [call[r] EXCEPT !.stage = "finishing", !.clock = 0]
    <3>a. c.stage = "finishing" /\ Moves(r, c)
      BY <2>0, <2>11 DEF ProviderFinish, Calls
    <3>2. Counted' = Counted \ {r}
      BY <2>c, <3>a
    <3>3. Cardinality(Counted') = Cardinality(Counted) - 1 /\ Cardinality(Counted') \in Nat
      BY <3>1, <3>2, CountedFinite, FS_RemoveElement, FS_CardinalityType
    <3> QED BY <1>0, <2>11, <3>3, CountedFinite DEF ProviderFinish
  <2>12. CASE FinishBreaker(r)
    <3>1. call[r].resume = "streaming" => call[r].bodyDone
      BY <2>12 DEF FinishBreaker, At, IInv
    <3> QED BY <2>0, <2>12, <2>o, <3>1 DEF FinishBreaker, Idle, Counted, At, Calls
  <2> QED
    BY <1>2, <2>1, <2>2, <2>3, <2>4, <2>5, <2>6, <2>7, <2>8, <2>9, <2>10, <2>11, <2>12 DEF Step, Continue
<1>3. CASE UNCHANGED vars
  BY <1>3, <1>s DEF vars, Counted, At
<1> QED BY <1>1, <1>2, <1>3 DEF Next

\* The gauge is the number of round trips between providerBegin and providerFinish.
THEOREM InFlightExactHolds == Spec => []InFlightExact
<1>1. Init => InFlightExact
  <2> SUFFICES ASSUME Init PROVE InFlightExact
    OBVIOUS
  <2>1. {r \in Requests : \/ call[r].stage \in {"upstream", "ending"}
                          \/ At(r, "streaming") /\ ~call[r].bodyDone} = {}
    BY DEF Init, Idle, At
  <2> QED BY <2>1, FS_EmptySet DEF Init, InFlightExact
<1> QED BY <1>1, TypeCorrect, IInvHolds, InFlightStep, PTL DEF Spec

-----------------------------------------------------------------------------
(* The refinement of CircuitContract.                                       *)

Passing == {r \in Requests : Outstanding(r) /\ ~call[r].probe}
Trial == {r \in Requests : call[r].probe}

\* Every step of the transport is one of the contract's or a stutter.
LEMMA ContractStep == TypeOK /\ IInv /\ [Next]_vars => [Contract!Next]_(Contract!vars)
<1> SUFFICES ASSUME TypeOK, IInv, [Next]_vars
             PROVE  Contract!Next \/ UNCHANGED <<breaker.state, Passing, Trial>>
  BY DEF Contract!vars, Passing, Trial
\* Steps that keep the state and every round trip's permit and accounting.
<1>k. ASSUME breaker'.state = breaker.state,
             \A r \in Requests : call'[r].probe = call[r].probe /\ (Outstanding(r)' <=> Outstanding(r))
      PROVE  UNCHANGED <<breaker.state, Passing, Trial>>
  BY <1>k DEF Passing, Trial
<1>1. CASE Tick
  <2>1. \A r \in Requests : /\ call'[r].probe = call[r].probe
                           /\ call'[r].stage = call[r].stage
                           /\ call'[r].bodyDone = call[r].bodyDone
    BY <1>1 DEF Tick, TypeOK, Calls
  <2>2. breaker'.state = breaker.state
    BY <1>1, AgedType DEF Tick, TypeOK
  <2> QED BY <1>k, <2>1, <2>2 DEF Outstanding, At
<1>2. ASSUME NEW r \in Requests, Step(r)
      PROVE  Contract!Next \/ UNCHANGED <<breaker.state, Passing, Trial>>
  <2>0. call[r] \in Calls
    BY DEF TypeOK
  <2>c. ASSUME NEW c, Moves(r, c)
        PROVE  \A s \in Requests : call'[s] = IF s = r THEN c ELSE call[s]
    BY <2>c DEF TypeOK, Moves
  <2>k. ASSUME NEW c, Moves(r, c), breaker' = breaker, c.probe = call[r].probe,
               Outstanding(r) <=> (\/ c.stage \in {"admitted", "upstream", "ending", "finishing"}
                                   \/ c.stage = "streaming" /\ ~c.bodyDone)
        PROVE  UNCHANGED <<breaker.state, Passing, Trial>>
    <3>1. \A s \in Requests : call'[s] = IF s = r THEN c ELSE call[s]
      BY <2>c, <2>k
    <3>2. \A s \in Requests : call'[s].probe = call[s].probe
      BY <2>k, <3>1
    <3>3. Outstanding(r)' <=> Outstanding(r)
      BY <2>k, <3>1 DEF Outstanding, At
    <3>4. \A s \in Requests : Outstanding(s)' <=> Outstanding(s)
      BY <3>1, <3>3 DEF Outstanding, At
    <3> QED BY <1>k, <2>k, <3>2, <3>4
  <2>e. ASSUME NEW failed \in BOOLEAN, NEW resume \in {"idle", "streaming"},
               Ends(r, failed, resume), Outstanding(r)
        PROVE  UNCHANGED <<breaker.state, Passing, Trial>>
    <3> DEFINE c == [call[r] EXCEPT !.stage = "ending", !.failed = failed,
                                    !.bodyDone = (resume = "streaming"), !.resume = resume]
    <3>1. Moves(r, c) /\ breaker' = breaker /\ c.stage = "ending" /\ c.probe = call[r].probe
      BY <2>0, <2>e DEF Ends, Calls
    <3> HIDE DEF c
    <3> QED BY <2>e, <2>k, <3>1
  <2>f. call[r].failed \in BOOLEAN
    BY <2>0 DEF Calls
  <2>1. CASE RoundTrip(r)
    BY <2>1, <2>k, NoProbeBefore DEF RoundTrip, Idle, Outstanding, At
  <2>2. CASE Refuse(r)
    BY <2>2, <2>k, NoProbeBefore DEF Refuse, Idle, Outstanding, At
  <2>3. CASE Admit(r)
    <3> DEFINE c == [Idle EXCEPT !.stage = "admitted",
                                 !.probe = StartsProbe(breaker, call[r].clock)]
    <3>1. /\ call[r].probe = FALSE /\ ~Outstanding(r)
          /\ breaker \in Breakers /\ call[r].clock \in Lags
      BY <2>0, <2>3, NoProbeBefore DEF Admit, At, Outstanding, TypeOK, Calls
    <3>2. /\ \A s \in Requests : call'[s] = IF s = r THEN c ELSE call[s]
          /\ c.stage = "admitted" /\ c.probe = StartsProbe(breaker, call[r].clock)
      BY <2>3, <2>c DEF Admit, Idle
    <3>3. CASE StartsProbe(breaker, call[r].clock)
      <4>1. breaker.state = "open" /\ breaker'.state = "half_open"
        BY <2>3, <3>1, <3>3 DEF Admit, AfterAllow, StartsProbe, Breakers
      <4>2. Trial = {}
        BY <4>1 DEF Trial, IInv, OneProbe
      <4>3. Trial' = {r}
        BY <3>2, <3>3, <4>2 DEF Trial
      <4>4. Passing' = Passing
        BY <3>1, <3>2, <3>3 DEF Passing, Outstanding, At
      <4>5. Contract!Try(r)
        BY <4>1, <4>3, <4>4 DEF Contract!Try, Passing, Trial
      <4> QED BY <4>5 DEF Contract!Next
    <3>4. CASE ~StartsProbe(breaker, call[r].clock)
      <4>1. breaker' = breaker
        BY <2>3, <3>4 DEF Admit, AfterAllow
      <4>2. breaker.state = "closed"
        BY <2>3, <3>1, <3>4
           DEF Admit, Refuses, StartsProbe, IInv, Breakers, CircuitStates, Instants, Lags
      <4>3. Trial' = Trial
        BY <3>1, <3>2, <3>4 DEF Trial
      <4>4. Passing' = Passing \union {r} /\ r \notin Passing
        BY <3>1, <3>2, <3>4 DEF Passing, Outstanding, At
      <4>5. Contract!Pass(r)
        BY <4>1, <4>2, <4>3, <4>4 DEF Contract!Pass, Passing, Trial
      <4> QED BY <4>5 DEF Contract!Next
    <3> QED BY <3>3, <3>4
  <2>4. CASE ProviderBegin(r)
    <3> DEFINE c == [call[r] EXCEPT !.stage = "upstream"]
    <3>1. /\ c.stage = "upstream" /\ c.probe = call[r].probe
          /\ Outstanding(r) /\ breaker' = breaker /\ Moves(r, c)
      BY <2>0, <2>4 DEF ProviderBegin, Calls, At, Outstanding
    <3> HIDE DEF c
    <3> QED BY <2>k, <3>1
  <2>5. CASE RoundTripError(r)
    BY <2>5, <2>e DEF RoundTripError, Outstanding, At
  <2>6. CASE ResponseWithoutBody(r)
    BY <2>6, <2>e DEF ResponseWithoutBody, Outstanding, At
  <2>7. CASE ResponseHeaders(r)
    <3>1. PICK serverError \in BOOLEAN :
            Moves(r, [call[r] EXCEPT !.stage = "streaming", !.failed = serverError])
      BY <2>7 DEF ResponseHeaders
    <3> DEFINE c == [call[r] EXCEPT !.stage = "streaming", !.failed = serverError]
    <3>2. /\ c.stage = "streaming" /\ ~c.bodyDone /\ c.probe = call[r].probe
          /\ Outstanding(r) /\ breaker' = breaker
      BY <2>0, <2>7 DEF ResponseHeaders, Calls, At, IInv, Outstanding
    <3> QED BY <2>k, <3>1, <3>2
  <2>8. CASE BodyReadEnds(r)
    BY <2>8, <2>e, <2>f DEF BodyReadEnds, Outstanding
  <2>9. CASE BodyCloseEarly(r)
    BY <2>9, <2>e, <2>f DEF BodyCloseEarly, Outstanding
  <2>10. CASE BodyClose(r)
    BY <2>10, <2>k, NoProbeBefore DEF BodyClose, Idle, Outstanding, At
  <2>11. CASE ProviderFinish(r)
    <3> DEFINE c == [call[r] EXCEPT !.stage = "finishing", !.clock = 0]
    <3>1. /\ c.stage = "finishing" /\ c.probe = call[r].probe
          /\ Outstanding(r) /\ breaker' = breaker /\ Moves(r, c)
      BY <2>0, <2>11 DEF ProviderFinish, Calls, At, Outstanding
    <3> HIDE DEF c
    <3> QED BY <2>k, <3>1
  <2>12. CASE FinishBreaker(r)
    <3> DEFINE c == [Idle EXCEPT !.stage = call[r].resume, !.bodyDone = call[r].bodyDone]
    <3>1. /\ \A s \in Requests : call'[s] = IF s = r THEN c ELSE call[s]
          /\ c.probe = FALSE /\ c.stage = call[r].resume /\ c.bodyDone = call[r].bodyDone
      BY <2>12, <2>c DEF FinishBreaker, Idle
    <3>2. Outstanding(r) /\ ~Outstanding(r)'
      BY <2>0, <2>12, <3>1 DEF FinishBreaker, Outstanding, At, Calls, IInv
    <3>3. /\ breaker \in Breakers
          /\ breaker' = AfterFinish(breaker, call[r].probe, call[r].failed, call[r].clock)
      BY <2>12 DEF FinishBreaker, TypeOK
    <3>4. CASE call[r].probe
      <4>1. breaker.state = "half_open" /\ breaker.enabled /\ Trial = {r}
        BY <3>4 DEF IInv, OneProbe, Trial
      <4>2. breaker'.state \in {"closed", "open"}
        BY <3>3, <3>4, <4>1 DEF AfterFinish, AfterProbe, Breakers
      <4>3. Trial' = {}
        BY <3>1, <4>1 DEF Trial
      <4>4. Passing' = Passing
        BY <3>1, <3>2, <3>4 DEF Passing, Outstanding, At
      <4>5. Contract!Verdict(r)
        BY <4>1, <4>2, <4>3, <4>4 DEF Contract!Verdict, Passing, Trial
      <4> QED BY <4>5 DEF Contract!Next
    <3>5. CASE ~call[r].probe
      <4>1. \/ breaker'.state = breaker.state
            \/ breaker.state = "closed" /\ breaker'.state = "open"
        BY <3>3, <3>5 DEF AfterFinish, AfterOrdinary, CountsCompletion, Breakers
      <4>2. Trial' = Trial
        BY <3>1, <3>5 DEF Trial
      <4>3. r \in Passing /\ Passing' = Passing \ {r}
        BY <3>1, <3>2, <3>5 DEF Passing, Outstanding, At
      <4>4. Contract!Return(r)
        BY <4>1, <4>2, <4>3 DEF Contract!Return, Passing, Trial
      <4> QED BY <4>4 DEF Contract!Next
    <3> QED BY <3>4, <3>5
  <2> QED
    BY <1>2, <2>1, <2>2, <2>3, <2>4, <2>5, <2>6, <2>7, <2>8, <2>9, <2>10, <2>11, <2>12 DEF Step, Continue
<1>3. CASE UNCHANGED vars
  BY <1>3, <1>k DEF vars, Outstanding, At
<1> QED BY <1>1, <1>2, <1>3 DEF Next

\* The breaker under its transport implements the circuit contract.
THEOREM ImplementsContractHolds == Spec => ImplementsContract
<1>1. Init => Contract!Init
  BY NewBreakerType, PolicyAssumption DEF Init, Contract!Init, Idle, Outstanding, At
<1> QED BY <1>1, TypeCorrect, IInvHolds, ContractStep, PTL DEF Spec, ImplementsContract, Contract!Spec
=============================================================================
