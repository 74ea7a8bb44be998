-------------------------- MODULE RateWindow_proofs --------------------------
(***************************************************************************)
(* Proofs about RateWindow, for any requests, limits, window length, lag   *)
(* and length of the run.                                                  *)
(***************************************************************************)
EXTENDS RateWindow, SequenceTheorems, FiniteSetTheorems, WellFoundedInduction, TLAPS

\* Pruning drops a prefix of entries that are at least a window old.
LEMMA PrunedProperties ==
  ASSUME NEW s \in Seq(Int), NEW t \in Int, NEW retained \in Pruned(s, t)
  PROVE  /\ retained \in Seq(Int)
         /\ \E n \in 0..Len(s) :
              /\ \A i \in 1..n : s[i] <= t - Window
              /\ Len(retained) = Len(s) - n
              /\ \A i \in 1..(Len(s) - n) : retained[i] = s[n + i]
<1>1. Len(s) \in Nat /\ \A i \in 1..Len(s) : s[i] \in Int
  OBVIOUS
<1>2. PICK n \in 0..Len(s) :
        /\ PruneStops(s, t - Window, n)
        /\ retained = SubSeq(s, n + 1, Len(s))
  BY DEF Pruned
<1>3. \A i \in (n + 1)..Len(s) : s[i] \in Int
  BY <1>1
<1>4. /\ SubSeq(s, n + 1, Len(s)) \in Seq(Int)
      /\ Len(SubSeq(s, n + 1, Len(s))) = IF n + 1 <= Len(s) THEN Len(s) - (n + 1) + 1 ELSE 0
      /\ \A i \in 1..(Len(s) - (n + 1) + 1) : SubSeq(s, n + 1, Len(s))[i] = s[n + 1 + i - 1]
  BY <1>1, <1>3, SubSeqProperties
<1>5. \A i \in 1..(Len(s) - n) : retained[i] = s[n + i]
  BY <1>1, <1>2, <1>4
<1>6. Len(retained) = Len(s) - n
  BY <1>1, <1>2, <1>4
<1> QED BY <1>2, <1>4, <1>5, <1>6 DEF PruneStops

\* No request carries more than the largest limit.
LEMMA LimitBound ==
  ASSUME TypeOK, NEW r \in Requests
  PROVE  call[r].limit \in Int /\ call[r].limit <= MaxLimit
<1>1. call[r] \in Calls
  BY DEF TypeOK
<1>2. call[r].limit \in Limits \union {0}
  BY <1>1 DEF Calls
<1>3. \A l \in Limits : l \in Int /\ l <= MaxLimit
  BY LimitsAssumption
<1>4. CASE call[r].limit = 0
  BY <1>4, LimitsAssumption
<1>5. CASE call[r].limit \in Limits
  BY <1>3, <1>5
<1> QED BY <1>2, <1>4, <1>5

\* Rounding to the nearest second loses half a second at most.
LEMMA RoundedIsClose ==
  ASSUME NEW d \in Nat
  PROVE  Rounded(d) \in Nat /\ d <= Rounded(d) + Second \div 2
<1>1. Second \in Nat \ {0}
  BY TimesAssumption
<1> DEFINE rest == d % Second
<1>2. rest \in 0..(Second - 1) /\ rest <= d
  BY <1>1
<1>3. 2 * rest < Second => rest <= Second \div 2
  <2> HIDE DEF rest
  <2> QED BY <1>1, <1>2
<1>4. Second \div 2 \in Nat
  BY <1>1
<1>5. Rounded(d) = IF 2 * rest < Second THEN d - rest ELSE d + (Second - rest)
  BY DEF Rounded
<1> HIDE DEF rest
<1> QED BY <1>1, <1>2, <1>3, <1>4, <1>5

\* So half a second more than the header is at least the exact wait.
LEMMA HeaderIsClose ==
  ASSUME NEW s \in Seq(Int), s # <<>>, NEW t \in Int
  PROVE  /\ Header(RetryAfter(s, t)) \in Nat
         /\ s[1] <= (t + Header(RetryAfter(s, t)) + Second \div 2) - Window
<1>1. s[1] \in Int /\ Window \in Nat /\ Second \in Nat /\ Second \div 2 \in Nat
  BY TimesAssumption
<1> DEFINE d == RetryAfter(s, t)
<1>2. d \in Nat /\ Window - (t - s[1]) <= d
  BY <1>1 DEF RetryAfter
<1> HIDE DEF d
<1>3. Rounded(d) \in Nat /\ d <= Rounded(d) + Second \div 2
  BY <1>2, RoundedIsClose
<1>4. Header(d) \in Nat /\ Header(d) >= Rounded(d)
  BY <1>1, <1>3 DEF Header
<1>5. s[1] <= (t + Header(d) + Second \div 2) - Window
  BY <1>1, <1>2, <1>3, <1>4
<1> QED BY <1>4, <1>5 DEF d

-----------------------------------------------------------------------------
\* The clock, the retained entries and the history keep their types.
THEOREM TypeCorrect == Spec => []TypeOK
<1>1. Init => TypeOK
  BY LimitsAssumption DEF Init, TypeOK, Idle, Calls, Untold, Tellings
<1>2. TypeOK /\ [Next]_vars => TypeOK'
  <2> SUFFICES ASSUME TypeOK, [Next]_vars PROVE TypeOK'
    OBVIOUS
  <2> USE DEF TypeOK
  <2>1. CASE Tick
    BY <2>1 DEF Tick
  <2>2. ASSUME NEW r \in Requests, Step(r) PROVE TypeOK'
    <3>0. call[r].clock \in Int /\ Idle \in Calls
      BY DEF Calls, Idle
    <3>1. CASE Arrive(r)
      BY <3>1 DEF Arrive, Moves, Calls
    <3>2. CASE AllowUnlimited(r)
      BY <3>0, <3>2 DEF AllowUnlimited, Moves
    <3>3. CASE Allow(r)
      <4>1. PICK retained \in Pruned(requests, call[r].clock) :
              /\ Len(retained) < call[r].limit
              /\ requests' = Append(retained, call[r].clock)
        BY <3>3 DEF Allow
      <4>2. retained \in Seq(Int)
        BY <3>0, PrunedProperties
      <4>3. requests' \in Seq(Int) /\ Len(requests') <= MaxLimit
        BY <3>0, <4>1, <4>2, LimitBound, LimitsAssumption
      <4> QED BY <3>0, <3>3, <4>3 DEF Allow, Moves, Untold, Tellings
    <3>4. CASE Reject(r)
      <4>1. PICK retained \in Pruned(requests, call[r].clock) :
              /\ Len(retained) >= call[r].limit
              /\ requests' = retained
              /\ told' = IF Len(retained) > call[r].limit THEN told
                         ELSE [at    |-> now + Header(RetryAfter(retained, call[r].clock)),
                               limit |-> call[r].limit]
        BY <3>4 DEF Reject
      <4>2. retained \in Seq(Int) /\ \E n \in 0..Len(requests) : Len(retained) = Len(requests) - n
        BY <3>0, PrunedProperties
      <4>3. requests' \in Seq(Int) /\ Len(requests') <= MaxLimit
        BY <4>1, <4>2, LimitsAssumption
      <4>4. call[r].limit \in Limits \union {0} /\ call[r].limit \in Int /\ call[r].limit > 0
        BY <3>4, LimitBound DEF Reject, Calls
      <4>5. Header(RetryAfter(retained, call[r].clock)) \in Nat
        <5>1. retained # <<>>
          BY <4>1, <4>2, <4>4
        <5> QED BY <3>0, <4>2, <5>1, HeaderIsClose
      <4>6. told' \in Tellings
        BY <4>1, <4>4, <4>5 DEF Tellings
      <4> QED BY <3>0, <3>4, <4>3, <4>6 DEF Reject, Moves
    <3> QED BY <2>2, <3>1, <3>2, <3>3, <3>4 DEF Step
  <2>3. CASE UNCHANGED vars
    BY <2>3 DEF vars
  <2> QED BY <2>1, <2>2, <2>3 DEF Next
<1> QED BY <1>1, <1>2, PTL DEF Spec

-----------------------------------------------------------------------------
(* Why a full quota spans almost a window: the retained entries are the     *)
(* newest admissions, every admission that is no longer retained is at      *)
(* least a window old by the clock, and no request is decided more than     *)
(* MaxLag after it read the clock.                                          *)

RetainedAreNewest ==
  /\ Len(requests) <= Len(admitted)
  /\ \A i \in 1..Len(requests) :
       requests[i] = admitted[Len(admitted) - Len(requests) + i]

DroppedAreOld ==
  \A i \in 1..(Len(admitted) - Len(requests)) : admitted[i] + Window <= now

LagBounded ==
  \A r \in Requests :
    At(r, "waiting") => now - MaxLag <= call[r].clock /\ call[r].clock <= now

IInv == RetainedAreNewest /\ DroppedAreOld /\ LagBounded /\ QuotaSpansWindow

\* After any pruning by a waiting request the first two still hold.
LEMMA PruneKeepsInv ==
  ASSUME TypeOK, IInv, NEW r \in Requests, At(r, "waiting"),
         NEW retained \in Pruned(requests, call[r].clock)
  PROVE  /\ retained \in Seq(Int)
         /\ Len(retained) <= Len(admitted)
         /\ \A i \in 1..Len(retained) :
              retained[i] = admitted[Len(admitted) - Len(retained) + i]
         /\ \A i \in 1..(Len(admitted) - Len(retained)) : admitted[i] + Window <= now
<1>0. /\ requests \in Seq(Int) /\ admitted \in Seq(Int) /\ call[r].clock \in Int /\ now \in Nat
      /\ Len(requests) \in Nat /\ Len(admitted) \in Nat
      /\ \A i \in 1..Len(admitted) : admitted[i] \in Int
      /\ \A i \in 1..Len(requests) : requests[i] \in Int
  BY DEF TypeOK, Calls
<1>1. call[r].clock <= now
  BY DEF IInv, LagBounded
<1>2. /\ Len(requests) <= Len(admitted)
      /\ \A i \in 1..Len(requests) :
           requests[i] = admitted[Len(admitted) - Len(requests) + i]
      /\ \A i \in 1..(Len(admitted) - Len(requests)) : admitted[i] + Window <= now
  BY DEF IInv, RetainedAreNewest, DroppedAreOld
<1>3. PICK n \in 0..Len(requests) :
        /\ \A i \in 1..n : requests[i] <= call[r].clock - Window
        /\ Len(retained) = Len(requests) - n
        /\ \A i \in 1..(Len(requests) - n) : retained[i] = requests[n + i]
  BY <1>0, PrunedProperties
<1>4. retained \in Seq(Int)
  BY <1>0, PrunedProperties
<1>5. \A i \in 1..Len(retained) :
        retained[i] = admitted[Len(admitted) - Len(retained) + i]
  <2> SUFFICES ASSUME NEW i \in 1..Len(retained)
               PROVE  retained[i] = admitted[Len(admitted) - Len(retained) + i]
    OBVIOUS
  <2>1. n + i \in 1..Len(requests) /\ retained[i] = requests[n + i]
    BY <1>0, <1>3
  <2>2. requests[n + i] = admitted[Len(admitted) - Len(requests) + (n + i)]
    BY <1>2, <2>1
  <2>3. Len(admitted) - Len(requests) + (n + i) = Len(admitted) - Len(retained) + i
    BY <1>0, <1>3
  <2> QED BY <2>1, <2>2, <2>3
<1>6. \A i \in 1..(Len(admitted) - Len(retained)) : admitted[i] + Window <= now
  <2> SUFFICES ASSUME NEW i \in 1..(Len(admitted) - Len(retained))
               PROVE  admitted[i] + Window <= now
    OBVIOUS
  <2>1. CASE i <= Len(admitted) - Len(requests)
    BY <1>0, <1>2, <2>1
  <2>2. CASE i > Len(admitted) - Len(requests)
    <3> DEFINE k == i - (Len(admitted) - Len(requests))
    <3>1. k \in 1..n /\ k \in 1..Len(requests)
      BY <1>0, <1>2, <1>3, <2>2, SMTT(30)
    <3>2. requests[k] = admitted[i]
      <4>1. Len(admitted) - Len(requests) + k = i
        BY <1>0
      <4> QED BY <1>2, <3>1, <4>1
    <3>3. requests[k] <= call[r].clock - Window
      BY <1>3, <3>1
    <3>4. admitted[i] \in Int
      BY <1>0, <1>3
    <3> HIDE DEF k
    <3> QED BY <1>0, <1>1, <3>2, <3>3, <3>4, TimesAssumption, SMTT(30)
  <2> QED BY <1>0, <1>3, <2>1, <2>2
<1> QED BY <1>0, <1>2, <1>3, <1>4, <1>5, <1>6

\* Pruning, admitting and rejecting in any order of the clock readings keep it.
LEMMA IInvStep == TypeOK /\ IInv /\ [Next]_vars => IInv'
<1> SUFFICES ASSUME TypeOK, IInv, [Next]_vars PROVE IInv'
  OBVIOUS
<1>0. /\ requests \in Seq(Int) /\ admitted \in Seq(Int) /\ now \in Nat
      /\ Len(requests) \in Nat /\ Len(admitted) \in Nat
      /\ \A i \in 1..Len(admitted) : admitted[i] \in Int
      /\ \A s \in Requests : call[s].clock \in Int
  BY DEF TypeOK, Calls
<1>1. CASE Tick
  <2>1. RetainedAreNewest' /\ QuotaSpansWindow'
    BY <1>1 DEF Tick, IInv, RetainedAreNewest, QuotaSpansWindow
  <2>2. DroppedAreOld'
    <3> SUFFICES ASSUME NEW i \in 1..(Len(admitted) - Len(requests))
                 PROVE  admitted[i] + Window <= now + 1
      BY <1>1 DEF Tick, DroppedAreOld
    <3>1. admitted[i] + Window <= now
      BY DEF IInv, DroppedAreOld
    <3>2. i \in 1..Len(admitted)
      BY <1>0 DEF IInv, RetainedAreNewest
    <3>3. admitted[i] \in Int
      BY <1>0, <3>2
    <3> QED BY <1>0, <3>1, <3>3, TimesAssumption
  <2>3. LagBounded'
    BY <1>0, <1>1, TimesAssumption DEF Tick, IInv, LagBounded, At
  <2> QED BY <2>1, <2>2, <2>3 DEF IInv
<1>2. ASSUME NEW r \in Requests, Step(r) PROVE IInv'
  <2>l. ASSUME now' = now, \E c \in Calls : Moves(r, c) /\ (c.stage = "waiting" => c.clock = now)
        PROVE  LagBounded'
    <3>1. PICK c \in Calls : Moves(r, c) /\ (c.stage = "waiting" => c.clock = now)
      BY <2>l
    <3>2. \A s \in Requests : call'[s] = IF s = r THEN c ELSE call[s]
      BY <3>1 DEF TypeOK, Moves
    <3> QED BY <1>0, <2>l, <3>1, <3>2, TimesAssumption DEF IInv, LagBounded, At
  <2>i. Idle \in Calls /\ Idle.stage # "waiting"
    BY DEF Calls, Idle
  <2>1. CASE Arrive(r)
    <3>1. \E c \in Calls : Moves(r, c) /\ (c.stage = "waiting" => c.clock = now)
      BY <1>0, <2>1 DEF Arrive, Calls
    <3>2. LagBounded'
      BY <2>1, <2>l, <3>1 DEF Arrive
    <3> QED BY <2>1, <3>2 DEF Arrive, IInv, RetainedAreNewest, DroppedAreOld, QuotaSpansWindow
  <2>2. CASE AllowUnlimited(r)
    <3>1. LagBounded'
      BY <2>2, <2>i, <2>l DEF AllowUnlimited
    <3> QED BY <2>2, <3>1 DEF AllowUnlimited, IInv, RetainedAreNewest, DroppedAreOld, QuotaSpansWindow
  <2>3. CASE Reject(r)
    <3>1. LagBounded'
      BY <2>3, <2>i, <2>l DEF Reject
    <3>2. RetainedAreNewest' /\ DroppedAreOld' /\ QuotaSpansWindow'
      BY <2>3, PruneKeepsInv
      DEF Reject, IInv, RetainedAreNewest, DroppedAreOld, QuotaSpansWindow
    <3> QED BY <3>1, <3>2 DEF IInv
  <2>4. CASE Allow(r)
    <3>1. LagBounded'
      BY <2>4, <2>i, <2>l DEF Allow
    <3> DEFINE t == call[r].clock
               len == Len(admitted)
    <3>2. PICK retained \in Pruned(requests, t) :
            /\ Len(retained) < call[r].limit
            /\ requests' = Append(retained, t)
      BY <2>4 DEF Allow
    <3>3. /\ retained \in Seq(Int)
          /\ Len(retained) <= len
          /\ \A i \in 1..Len(retained) : retained[i] = admitted[len - Len(retained) + i]
          /\ \A i \in 1..(len - Len(retained)) : admitted[i] + Window <= now
      BY <2>4, PruneKeepsInv DEF Allow
    <3>4. t \in Int /\ now - MaxLag <= t /\ admitted' = Append(admitted, t) /\ now' = now
      BY <1>0, <2>4 DEF Allow, IInv, LagBounded
    <3>5. /\ Len(admitted') = len + 1 /\ admitted'[len + 1] = t
          /\ \A i \in 1..len : admitted'[i] = admitted[i]
          /\ Len(requests') = Len(retained) + 1 /\ requests'[Len(retained) + 1] = t
          /\ \A i \in 1..Len(retained) : requests'[i] = retained[i]
          /\ Len(retained) \in Nat
      BY <1>0, <3>2, <3>3, <3>4
    <3>6. call[r].limit \in Int /\ call[r].limit <= MaxLimit /\ MaxLimit \in Nat
      BY LimitBound, LimitsAssumption
    <3>len. len \in Nat
      BY <1>0
    <3> HIDE DEF t, len
    <3>7. RetainedAreNewest'
      <4>0. Len(requests') <= Len(admitted')
        BY <3>len, <3>3, <3>5
      <4> SUFFICES ASSUME NEW i \in 1..Len(requests')
                   PROVE  requests'[i] = admitted'[Len(admitted') - Len(requests') + i]
        BY <4>0 DEF RetainedAreNewest
      <4>1. CASE i = Len(retained) + 1
        <5>1. Len(admitted') - Len(requests') + i = len + 1
          BY <3>len, <3>5, <4>1
        <5> QED BY <3>5, <4>1, <5>1
      <4>2. CASE i \in 1..Len(retained)
        <5>1. len - Len(retained) + i \in 1..len
          BY <3>len, <3>3, <3>5, <4>2
        <5>2. Len(admitted') - Len(requests') + i = len - Len(retained) + i
          BY <3>len, <3>5
        <5> QED BY <3>3, <3>5, <4>2, <5>1, <5>2
      <4> QED BY <3>5, <4>1, <4>2
    <3>8. DroppedAreOld'
      <4> SUFFICES ASSUME NEW i \in 1..(len + 1 - (Len(retained) + 1))
                   PROVE  admitted'[i] + Window <= now
        BY <3>len, <3>4, <3>5 DEF DroppedAreOld
      <4>1. i \in 1..(len - Len(retained)) /\ i \in 1..len
        BY <3>len, <3>3, <3>5
      <4> QED BY <3>3, <3>5, <4>1
    <3>9. QuotaSpansWindow'
      <4> SUFFICES ASSUME NEW i \in 1..(len + 1), NEW j \in 1..(len + 1), j - i >= MaxLimit
                   PROVE  admitted'[j] - admitted'[i] >= Window - MaxLag
        <5>1. DOMAIN admitted' = 1..(len + 1)
          BY <1>0, <3>4, <3>5 DEF len
        <5> QED BY <5>1 DEF QuotaSpansWindow
      <4>1. CASE j = len + 1
        \* Fewer than the limit were retained, so i was dropped.
        <5>1. i <= len + 1 - MaxLimit
          BY <4>1, <3>len, <3>6
        <5>2. Len(retained) + 1 <= MaxLimit
          BY <3>2, <3>5, <3>6
        <5>3. i \in 1..(len - Len(retained))
          BY <3>len, <5>1, <5>2, <3>3, <3>5, <3>6
        <5>4. i \in 1..len
          BY <3>len, <5>3, <3>5
        <5>5. admitted'[i] + Window <= now /\ admitted'[i] \in Int
          BY <1>0, <3>3, <3>5, <5>3, <5>4 DEF len
        <5> QED BY <1>0, <3>4, <3>5, <4>1, <5>5, TimesAssumption, SMTT(30)
      <4>2. CASE j # len + 1
        <5>1. j \in 1..len /\ i \in 1..len
          <6>1. MaxLimit \in Nat
            BY <3>6
          <6> QED BY <3>len, <6>1, <4>2
        <5>2. DOMAIN admitted = 1..len
          BY <1>0 DEF len
        <5> QED BY <3>5, <5>1, <5>2 DEF IInv, QuotaSpansWindow
      <4> QED BY <4>1, <4>2
    <3> QED BY <3>1, <3>7, <3>8, <3>9 DEF IInv
  <2> QED BY <1>2, <2>1, <2>2, <2>3, <2>4 DEF Step
<1>3. CASE UNCHANGED vars
  BY <1>3 DEF vars, IInv, RetainedAreNewest, DroppedAreOld, LagBounded, QuotaSpansWindow, At
<1> QED BY <1>1, <1>2, <1>3 DEF Next

\* In every pair of admissions a quota apart, the later one's clock reading is
\* at least a window less MaxLag after the earlier one's.
THEOREM QuotaSpansWindowHolds == Spec => []QuotaSpansWindow
<1>1. Init => IInv
  BY DEF Init, IInv, RetainedAreNewest, DroppedAreOld, LagBounded, QuotaSpansWindow, At, Idle
<1>2. IInv => QuotaSpansWindow
  BY DEF IInv
<1> QED BY <1>1, <1>2, TypeCorrect, IInvStep, PTL DEF Spec

-----------------------------------------------------------------------------
\* A non-empty set of naturals has a smallest element.
LEMMA HasSmallest ==
  ASSUME NEW S, S \subseteq Nat, S # {}
  PROVE  \E m \in S : \A k \in S : m <= k
<1>1. PICK m \in S : \A k \in S : <<k, m>> \notin OpToRel(<, Nat)
  BY NatLessThanWellFounded, WFMin
<1>2. \A k \in S : ~(k < m)
  BY <1>1 DEF OpToRel
<1> QED BY <1>2

\* Admissions that are a quota apart in every case lie in an interval of indices
\* no longer than the quota, when they all fall into one window.
LEMMA WindowHoldsAQuota ==
  ASSUME TypeOK, QuotaSpansWindow, MaxLag = 0, NEW t \in Int
  PROVE  Cardinality(AdmittedIn(t, Window)) <= MaxLimit
<1> DEFINE S == AdmittedIn(t, Window)
<1>0. /\ Len(admitted) \in Nat /\ DOMAIN admitted = 1..Len(admitted)
      /\ \A i \in DOMAIN admitted : admitted[i] \in Int
      /\ MaxLimit \in Nat /\ Window \in Nat \ {0}
  BY LimitsAssumption, TimesAssumption DEF TypeOK
<1>1. S \subseteq Nat /\ \A i \in S : i \in DOMAIN admitted
  BY <1>0 DEF AdmittedIn
<1>2. CASE S = {}
  BY <1>0, <1>2, FS_EmptySet
<1>3. CASE S # {}
  <2>1. PICK m \in S : \A k \in S : m <= k
    <3> HIDE DEF S
    <3> QED BY <1>1, <1>3, HasSmallest
  <2>2. ASSUME NEW k \in S PROVE k \in m..(m + MaxLimit - 1)
    <3>1. /\ k \in DOMAIN admitted /\ m \in DOMAIN admitted /\ m <= k
          /\ admitted[k] < t + Window /\ t <= admitted[m]
      BY <1>1, <2>1, <2>2 DEF AdmittedIn
    <3>2. admitted[k] - admitted[m] < Window
      <4>1. admitted[k] \in Int /\ admitted[m] \in Int
        BY <1>0, <3>1
      <4> QED BY <1>0, <3>1, <4>1
    <3>3. ~(k - m >= MaxLimit)
      <4>1. k - m >= MaxLimit => admitted[k] - admitted[m] >= Window
        <5>1. Window - MaxLag = Window
          BY <1>0
        <5> QED BY <3>1, <5>1 DEF QuotaSpansWindow
      <4>2. admitted[k] \in Int /\ admitted[m] \in Int
        BY <1>0, <3>1
      <4>3. ~(admitted[k] - admitted[m] >= Window)
        BY <1>0, <3>2, <4>2
      <4> QED BY <4>1, <4>3
    <3>4. k \in Nat /\ m \in Nat
      BY <1>1, <2>1, <2>2
    <3> QED BY <1>0, <3>1, <3>3, <3>4
  <2>3. m \in Nat
    BY <1>1, <2>1
  <2> DEFINE last == m + MaxLimit - 1
             I == m..last
  <2>4. IsFiniteSet(I) /\ Cardinality(I) <= MaxLimit
    <3>1. m \in Int /\ last \in Int
      BY <1>0, <2>3
    <3>2. m > last => MaxLimit = 0
      BY <1>0, <2>3
    <3>3. last - m + 1 = MaxLimit
      BY <1>0, <2>3
    <3>4. IsFiniteSet(I) /\ Cardinality(I) = IF m > last THEN 0 ELSE last - m + 1
      <4> HIDE DEF last
      <4> QED BY <3>1, FS_Interval
    <3> QED BY <1>0, <3>2, <3>3, <3>4
  <2>5. S \in SUBSET I
    <3> HIDE DEF S, I
    <3> SUFFICES ASSUME NEW k \in S PROVE k \in I
      OBVIOUS
    <3> QED BY <2>2 DEF I
  <2>6. IsFiniteSet(S) /\ Cardinality(S) <= Cardinality(I)
    <3> HIDE DEF S, I
    <3> QED BY <2>4, <2>5, FS_Subset
  <2>7. Cardinality(S) \in Int /\ Cardinality(I) \in Int
    <3> HIDE DEF S, I
    <3> QED BY <2>4, <2>6, FS_CardinalityType
  <2>8. Cardinality(S) <= MaxLimit
    <3> HIDE DEF S, I
    <3> QED BY <1>0, <2>4, <2>6, <2>7
  <2> QED BY <2>8
<1> QED BY <1>2, <1>3

\* The documented contract, and what it needs: were the clock read under the
\* window's mutex, no window of any length of run would hold more admissions than
\* the limit (ratelimit.go:8; gateway.go:290 reads it before).
THEOREM ExactWithoutLag == ASSUME MaxLag = 0 PROVE Spec => []ExactWindow
<1>1. TypeOK /\ QuotaSpansWindow => ExactWindow
  <2> SUFFICES ASSUME TypeOK, QuotaSpansWindow, NEW i \in DOMAIN admitted
               PROVE  Cardinality(AdmittedIn(admitted[i], Window)) <= MaxLimit
    BY DEF ExactWindow
  <2>1. admitted[i] \in Int
    BY DEF TypeOK
  <2> QED BY <2>1, WindowHoldsAQuota
<1> QED BY <1>1, TypeCorrect, QuotaSpansWindowHolds, PTL

-----------------------------------------------------------------------------
(* Why half a second more than Retry-After is enough: until the next         *)
(* admission the window only loses entries, so it holds no more than the     *)
(* quota whose holder was told, and when it still holds all of them its      *)
(* first entry is the one whose end was told.                                *)

TellingKept ==
  told # Untold =>
    /\ Len(requests) <= told.limit
    /\ Len(requests) = told.limit => requests[1] <= (told.at + Second \div 2) - Window

LEMMA TellingTypes == TypeOK => told.limit \in Int /\ told.at \in Int
<1> SUFFICES ASSUME TypeOK PROVE told.limit \in Int /\ told.at \in Int
  OBVIOUS
<1>1. told.limit \in Limits \union {0} /\ told.at \in Int
  BY DEF TypeOK, Tellings
<1>2. \A l \in Limits \union {0} : l \in Int
  BY LimitsAssumption
<1> QED BY <1>1, <1>2

\* An admission voids what was told, a rejection tells anew or only prunes.
LEMMA TellingStep == TypeOK /\ LagBounded /\ TellingKept /\ [Next]_vars => TellingKept'
<1> SUFFICES ASSUME TypeOK, LagBounded, TellingKept, [Next]_vars PROVE TellingKept'
  OBVIOUS
<1>0. requests \in Seq(Int) /\ Len(requests) \in Nat /\ now \in Int
  BY DEF TypeOK
<1>1. ASSUME UNCHANGED <<requests, told>> PROVE TellingKept'
  BY <1>1 DEF TellingKept
<1>2. ASSUME NEW r \in Requests, Allow(r) PROVE TellingKept'
  BY <1>2 DEF Allow, TellingKept
<1>3. ASSUME NEW r \in Requests, Reject(r) PROVE TellingKept'
  <2> DEFINE t == call[r].clock
             limit == call[r].limit
  <2>1. t \in Int /\ t <= now /\ limit \in Int /\ limit > 0
    BY <1>3, LimitBound DEF Reject, LagBounded, TypeOK, Calls
  <2>2. PICK retained \in Pruned(requests, t) :
          /\ Len(retained) >= limit
          /\ requests' = retained
          /\ told' = IF Len(retained) > limit THEN told
                     ELSE [at |-> now + Header(RetryAfter(retained, t)), limit |-> limit]
    BY <1>3 DEF Reject
  <2>3. PICK n \in 0..Len(requests) :
          /\ Len(retained) = Len(requests) - n
          /\ \A i \in 1..(Len(requests) - n) : retained[i] = requests[n + i]
    BY <1>0, <2>1, PrunedProperties
  <2>4. retained \in Seq(Int) /\ Len(retained) \in Nat \ {0}
    BY <1>0, <2>1, <2>2, PrunedProperties
  <2> HIDE DEF t, limit
  <2>5. CASE Len(retained) > limit
    <3> SUFFICES ASSUME told # Untold
                 PROVE  /\ Len(retained) <= told.limit
                        /\ Len(retained) = told.limit =>
                             retained[1] <= (told.at + Second \div 2) - Window
      BY <2>2, <2>5 DEF TellingKept
    <3>1. /\ Len(requests) <= told.limit /\ told.limit \in Int
          /\ Len(requests) = told.limit => requests[1] <= (told.at + Second \div 2) - Window
      BY TellingTypes DEF TellingKept
    <3>2. Len(retained) <= told.limit
      BY <1>0, <2>3, <3>1
    <3>3. Len(retained) = told.limit => n = 0 /\ Len(requests) = told.limit
      BY <1>0, <2>3, <3>1
    <3>4. n = 0 => retained[1] = requests[1]
      BY <1>0, <2>3, <2>4
    <3> QED BY <3>1, <3>2, <3>3, <3>4
  <2>6. CASE ~(Len(retained) > limit)
    <3>1. Len(retained) = limit
      BY <2>1, <2>2, <2>4, <2>6
    <3>2. told'.limit = limit /\ told'.at = now + Header(RetryAfter(retained, t))
      BY <2>2, <2>6
    <3>3. /\ Header(RetryAfter(retained, t)) \in Nat /\ retained[1] \in Int
          /\ retained[1] <= (t + Header(RetryAfter(retained, t)) + Second \div 2) - Window
      BY <2>1, <2>4, HeaderIsClose
    <3>4. Window \in Nat /\ Second \div 2 \in Nat
      BY TimesAssumption
    <3>5. retained[1] <= (told'.at + Second \div 2) - Window
      BY <1>0, <2>1, <3>2, <3>3, <3>4
    <3> QED BY <2>2, <2>4, <3>1, <3>2, <3>5 DEF TellingKept
  <2> QED BY <2>5, <2>6
<1> QED BY <1>1, <1>2, <1>3 DEF Next, Step, Tick, Arrive, AllowUnlimited, vars

\* A rejection at such a time would find the full quota whose first entry has ended.
LEMMA ToldEnough ==
  ASSUME TypeOK, TellingKept, NEW r \in Requests, Reject(r),
         told # Untold, call[r].limit >= told.limit
  PROVE  call[r].clock < told.at + Second \div 2
<1> DEFINE t == call[r].clock
           end == told.at + Second \div 2
<1>0. /\ requests \in Seq(Int) /\ Len(requests) \in Nat /\ t \in Int
      /\ told.limit \in Int /\ end \in Int /\ Window \in Nat \ {0}
  BY TimesAssumption, TellingTypes DEF TypeOK, Calls
<1>1. call[r].limit \in Int /\ call[r].limit > 0
  BY LimitBound DEF Reject
<1>2. PICK retained \in Pruned(requests, t) : Len(retained) >= call[r].limit
  BY DEF Reject
<1>3. PICK n \in 0..Len(requests) :
        PruneStops(requests, t - Window, n) /\ retained = SubSeq(requests, n + 1, Len(requests))
  BY DEF Pruned
<1>4. Len(retained) = Len(requests) - n
  BY <1>0, <1>3
<1>5. /\ Len(requests) <= told.limit
      /\ Len(requests) = told.limit => requests[1] <= end - Window
  BY DEF TellingKept
<1>6. n = 0 /\ Len(requests) = told.limit /\ 1 <= Len(requests)
  BY <1>0, <1>1, <1>2, <1>4, <1>5
<1>7. requests[1] > t - Window
  BY <1>3, <1>6 DEF PruneStops
<1>8. requests[1] <= end - Window
  BY <1>5, <1>6
<1>9. requests[1] \in Int
  BY <1>0, <1>6
<1> HIDE DEF t, end
<1>10. t < end
  BY <1>0, <1>7, <1>8, <1>9
<1> QED BY <1>10 DEF t, end

\* From half a second after what Retry-After named on, no request under the limit it
\* was told for, or a higher one, is rejected before the token is admitted again.
THEOREM RetryAfterIsEnoughHolds == Spec => RetryAfterIsEnough
<1>1. Init => IInv /\ TellingKept
  BY DEF Init, IInv, RetainedAreNewest, DroppedAreOld, LagBounded, QuotaSpansWindow, At, Idle,
         TellingKept
<1>2. IInv => LagBounded
  BY DEF IInv
<1> DEFINE Enough ==
      \A r \in Requests :
        Reject(r) /\ told # Untold /\ call[r].limit >= told.limit =>
          call[r].clock < told.at + Second \div 2
<1>3. TypeOK /\ TellingKept => Enough
  BY ToldEnough
<1>4. RetryAfterIsEnough <=> [][Enough]_vars
  BY DEF RetryAfterIsEnough
<1> HIDE DEF Enough
<1> QED BY <1>1, <1>2, <1>3, <1>4, TypeCorrect, IInvStep, TellingStep, PTL DEF Spec

-----------------------------------------------------------------------------
(* Why a rejection is earned: requests pass the mutex at most MaxLag after  *)
(* they read the clock, so the history is sorted but for MaxLag, and what   *)
(* is retained behind a first entry of this window is hardly older.         *)

NearlySorted ==
  /\ \A i \in 1..Len(admitted) : admitted[i] <= now
  /\ \A i, j \in 1..Len(admitted) : i <= j => admitted[j] >= admitted[i] - MaxLag

\* An admission is appended with a clock reading that no earlier one has passed by
\* more than MaxLag.
LEMMA NearlySortedStep == TypeOK /\ IInv /\ NearlySorted /\ [Next]_vars => NearlySorted'
<1> SUFFICES ASSUME TypeOK, IInv, NearlySorted, [Next]_vars PROVE NearlySorted'
  OBVIOUS
<1>0. /\ admitted \in Seq(Int) /\ Len(admitted) \in Nat /\ now \in Nat /\ MaxLag \in Nat
      /\ \A i \in 1..Len(admitted) : admitted[i] \in Int /\ admitted[i] <= now
  BY TimesAssumption DEF TypeOK, NearlySorted
<1>1. CASE Tick
  BY <1>0, <1>1 DEF Tick, NearlySorted
<1>2. ASSUME NEW r \in Requests, Allow(r) PROVE NearlySorted'
  <2> DEFINE t == call[r].clock
             len == Len(admitted)
  <2>1. t \in Int /\ now - MaxLag <= t /\ t <= now
    BY <1>2 DEF Allow, TypeOK, Calls, IInv, LagBounded
  <2>2. admitted' = Append(admitted, t) /\ now' = now
    BY <1>2 DEF Allow
  <2>3. /\ Len(admitted') = len + 1 /\ admitted'[len + 1] = t
        /\ \A i \in 1..len : admitted'[i] = admitted[i]
    BY <1>0, <2>1, <2>2
  <2>4. \A i \in 1..(len + 1) : i = len + 1 \/ i \in 1..len
    BY <1>0
  <2> HIDE DEF t
  <2>5. ASSUME NEW i \in 1..(len + 1) PROVE admitted'[i] \in Int /\ admitted'[i] <= now
    BY <1>0, <2>1, <2>3, <2>4
  <2>6. ASSUME NEW i \in 1..(len + 1), NEW j \in 1..(len + 1), i <= j
        PROVE  admitted'[j] >= admitted'[i] - MaxLag
    <3>1. CASE j = len + 1
      BY <1>0, <2>1, <2>3, <2>5, <3>1
    <3>2. CASE j \in 1..len
      <4>1. i \in 1..len
        BY <1>0, <2>6, <3>2
      <4> QED BY <2>3, <2>6, <3>2, <4>1 DEF NearlySorted
    <3> QED BY <2>4, <3>1, <3>2
  <2> QED BY <2>2, <2>3, <2>5, <2>6 DEF NearlySorted
<1>3. CASE UNCHANGED <<now, admitted>>
  BY <1>3 DEF NearlySorted
<1> QED BY <1>1, <1>2, <1>3 DEF Next, Step, Arrive, AllowUnlimited, Reject, vars

\* The retained entries are the newest admissions, and all of them are in the window.
LEMMA RejectionEarned ==
  ASSUME TypeOK, IInv, NearlySorted, NEW r \in Requests, Reject(r)
  PROVE  Cardinality({i \in DOMAIN admitted : admitted[i] > call[r].clock - Window - MaxLag})
           >= call[r].limit
<1> DEFINE t == call[r].clock
           len == Len(admitted)
           Recent == {i \in DOMAIN admitted : admitted[i] > t - Window - MaxLag}
<1>0. /\ len \in Nat /\ DOMAIN admitted = 1..len
      /\ \A i \in 1..len : admitted[i] \in Int
      /\ t \in Int /\ requests \in Seq(Int)
      /\ Window \in Nat /\ MaxLag \in Nat
  BY TimesAssumption DEF TypeOK, Calls
<1>1. call[r].limit \in Int /\ call[r].limit > 0
  BY LimitBound DEF Reject
<1>2. PICK retained \in Pruned(requests, t) : Len(retained) >= call[r].limit
  BY DEF Reject
<1>3. /\ retained \in Seq(Int) /\ Len(retained) <= len
      /\ \A i \in 1..Len(retained) : retained[i] = admitted[len - Len(retained) + i]
  BY PruneKeepsInv DEF Reject
<1> DEFINE l == Len(retained)
<1>4. l \in Nat \ {0} /\ l >= call[r].limit
  BY <1>1, <1>2, <1>3
<1>5. retained[1] > t - Window
  <2>1. PICK n \in 0..Len(requests) :
          PruneStops(requests, t - Window, n) /\ retained = SubSeq(requests, n + 1, Len(requests))
    BY DEF Pruned
  <2>2. Len(requests) \in Nat /\ l = Len(requests) - n
    BY <1>0, <2>1
  <2>3. n < Len(requests) /\ retained[1] = requests[n + 1]
    BY <1>0, <1>4, <2>1, <2>2
  <2> QED BY <2>1, <2>3 DEF PruneStops
<1> DEFINE first == len - l + 1
<1>6. first \in 1..len /\ admitted[first] > t - Window
  BY <1>0, <1>3, <1>4, <1>5
<1> HIDE DEF t, len, l
<1>7. ASSUME NEW i \in first..len PROVE i \in Recent
  <2>1. i \in 1..len /\ first <= i
    BY <1>0, <1>6
  <2> HIDE DEF first
  <2>2. admitted[i] >= admitted[first] - MaxLag
    BY <1>6, <2>1 DEF NearlySorted, len
  <2>3. admitted[i] \in Int /\ admitted[first] \in Int
    BY <1>0, <1>6, <2>1
  <2> QED BY <1>0, <1>6, <2>1, <2>2, <2>3
<1>8. IsFiniteSet(first..len) /\ Cardinality(first..len) = l
  <2>1. first \in Int /\ len \in Int /\ first <= len /\ len - first + 1 = l
    BY <1>0, <1>4, <1>6
  <2> HIDE DEF first
  <2> QED BY <2>1, FS_Interval
<1>9. IsFiniteSet(Recent)
  <2>1. IsFiniteSet(DOMAIN admitted)
    BY <1>0, FS_Interval
  <2> QED BY <2>1, FS_Subset
<1>10. Cardinality(first..len) <= Cardinality(Recent)
  <2>1. first..len \in SUBSET Recent
    BY <1>7
  <2> HIDE DEF first, Recent
  <2> QED BY <1>9, <2>1, FS_Subset
<1>11. Cardinality(Recent) \in Int
  BY <1>9, FS_CardinalityType
<1> HIDE DEF first, Recent
<1>12. Cardinality(Recent) >= call[r].limit
  BY <1>1, <1>4, <1>8, <1>10, <1>11
<1> QED BY <1>12 DEF Recent, t

\* A client that is told 429 had its limit of admissions in the window that ends at
\* its own clock reading, MaxLag ticks more at most, for any limits and lag.
THEOREM RejectionsAreEarnedHolds == Spec => RejectionsAreEarned
<1>1. Init => IInv /\ NearlySorted
  BY DEF Init, IInv, RetainedAreNewest, DroppedAreOld, LagBounded, QuotaSpansWindow, At, Idle,
         NearlySorted
<1> DEFINE Earned ==
      \A r \in Requests : Reject(r) =>
        Cardinality({i \in DOMAIN admitted :
                       admitted[i] > call[r].clock - Window - MaxLag}) >= call[r].limit
<1>2. TypeOK /\ IInv /\ NearlySorted => Earned
  BY RejectionEarned
<1>3. RejectionsAreEarned <=> [][Earned]_vars
  BY DEF RejectionsAreEarned
<1> HIDE DEF Earned
<1> QED BY <1>1, <1>2, <1>3, TypeCorrect, IInvStep, NearlySortedStep, PTL DEF Spec
=============================================================================
