-------------------------- MODULE TokenQuota_proofs --------------------------
(***************************************************************************)
(* Proofs about TokenQuota, for any requests, tokens, limit and number of  *)
(* reloads.                                                                *)
(***************************************************************************)
EXTENDS TokenQuota, FiniteSetTheorems, TLAPS

USE DEF NoWindow

\* What the type of a request says about its fields.
LEMMA CallFacts ==
  ASSUME TypeOK, NEW r \in Requests
  PROVE  /\ call[r].stage \in {"idle", "authenticated", "counting"}
         /\ call[r].stage # "idle" => call[r].token \in Tokens
         /\ call[r].stage = "counting" => call[r].window \in Nat \ {0}
<1>1. call[r] \in Calls
  BY DEF TypeOK
<1> QED BY <1>1 DEF Calls, Idle

\* Counting an entry keeps the sequence of windows.
LEMMA CountFacts ==
  ASSUME NEW s \in Seq(Nat), NEW w
  PROVE  LET after == [s EXCEPT ![w] = @ + 1]
         IN  /\ after \in Seq(Nat) /\ Len(after) = Len(s)
             /\ \A v \in 1..Len(s) : after[v] = IF v = w THEN s[v] + 1 ELSE s[v]
<1> DEFINE after == [s EXCEPT ![w] = @ + 1]
<1>1. Len(s) \in Nat /\ DOMAIN s = 1..Len(s) /\ \A v \in 1..Len(s) : s[v] \in Nat
  OBVIOUS
<1>2. DOMAIN after = 1..Len(s)
  BY <1>1
<1>3. \A v \in 1..Len(s) : after[v] = IF v = w THEN s[v] + 1 ELSE s[v]
  BY <1>1
<1>4. \A v \in 1..Len(s) : after[v] \in Nat
  BY <1>1, <1>3
<1>5. after \in [1..Len(s) -> Nat]
  BY <1>2, <1>4
<1>6. after \in Seq(Nat) /\ Len(after) = Len(s)
  BY <1>1, <1>2, <1>5
<1> QED BY <1>3, <1>6

\* The map, the windows and the requests keep their types.
THEOREM TypeCorrect == Spec => []TypeOK
<1>1. Init => TypeOK
  BY DEF Init, TypeOK, Calls
<1>2. TypeOK /\ [Next]_vars => TypeOK'
  <2> SUFFICES ASSUME TypeOK, [Next]_vars PROVE TypeOK'
    OBVIOUS
  <2> USE DEF TypeOK, histories
  <2>1. CASE SwapSnapshot
    BY <2>1 DEF SwapSnapshot
  <2>2. CASE Retain
    <3>1. Carried \subseteq Tokens
      BY CallFacts DEF Carried, At
    <3> QED BY <2>2, <3>1 DEF Retain
  <2>3. ASSUME NEW r \in Requests, Step(r) PROVE TypeOK'
    <3>0. Len(counts) \in Nat /\ Idle \in Calls
      BY DEF Calls
    <3>i. ASSUME NEW c \in Calls, Moves(r, c) PROVE call' \in [Requests -> Calls]
      BY <3>i DEF Moves
    <3>1. CASE Authenticate(r)
      <4>1. PICK t \in configured :
              Moves(r, [stage |-> "authenticated", token |-> t, window |-> NoWindow])
        BY <3>1 DEF Authenticate
      <4>2. [stage |-> "authenticated", token |-> t, window |-> NoWindow] \in Calls
        BY DEF Calls, Configurations
      <4>3. call' \in [Requests -> Calls]
        BY <3>i, <4>1, <4>2
      <4> QED BY <3>1, <4>3 DEF Authenticate
    <3>2. ASSUME NEW w \in Nat \ {0}, At(r, "authenticated"),
                 Moves(r, [call[r] EXCEPT !.stage = "counting", !.window = w])
          PROVE  call' \in [Requests -> Calls]
      <4>1. call[r] \in [stage : {"authenticated"}, token : Tokens, window : {NoWindow}]
        BY <3>2 DEF Calls, At, Idle
      <4>2. [call[r] EXCEPT !.stage = "counting", !.window = w] \in Calls
        BY <4>1 DEF Calls
      <4> QED BY <3>2, <3>i, <4>2
    <3>3. CASE FindWindow(r)
      <4>1. windows[call[r].token] \in Nat \ {0}
        BY <3>3, CallFacts DEF FindWindow, At
      <4> QED BY <3>2, <3>3, <4>1 DEF FindWindow
    <3>4. CASE CreateWindow(r)
      <4>1. counts' \in Seq(Nat) /\ Len(counts') \in Nat \ {0}
        BY <3>0, <3>4 DEF CreateWindow
      <4>2. windows' \in [Tokens -> Nat]
        BY <3>4, <4>1 DEF CreateWindow
      <4>3. call' \in [Requests -> Calls]
        BY <3>2, <3>4, <4>1 DEF CreateWindow
      <4>4. \A w \in 1..Len(counts') : counts'[w] <= Limit
        BY <3>0, <3>4, LimitAssumption DEF CreateWindow
      <4> QED BY <3>4, <4>1, <4>2, <4>3, <4>4 DEF CreateWindow
    <3>5. CASE AllowRequest(r)
      <4>1. counts' \in Seq(Nat)
        BY <3>5, CountFacts DEF AllowRequest
      <4>2. admitted' \in [Tokens -> Nat]
        <5>1. call[r].token \in Tokens /\ admitted[call[r].token] \in Nat
          BY <3>5, CallFacts DEF AllowRequest, At
        <5> QED BY <3>5, <5>1 DEF AllowRequest
      <4>3. call' \in [Requests -> Calls]
        BY <3>0, <3>5, <3>i DEF AllowRequest, Leaves
      <4>4. \A w \in 1..Len(counts') : counts'[w] <= Limit
        <5>1. /\ Len(counts') = Len(counts)
              /\ \A w \in 1..Len(counts) :
                   counts'[w] = IF w = call[r].window THEN counts[w] + 1 ELSE counts[w]
          BY <3>5, CountFacts DEF AllowRequest
        <5>2. \A w \in 1..Len(counts) : counts[w] \in Nat
          OBVIOUS
        <5>3. counts[call[r].window] < Limit
          BY <3>5 DEF AllowRequest
        <5>4. ASSUME NEW w \in 1..Len(counts) PROVE counts'[w] <= Limit
          <6>1. counts[w] \in Nat /\ counts[w] <= Limit
            BY <5>2
          <6>2. CASE w = call[r].window
            BY <5>1, <5>3, <6>1, <6>2, LimitAssumption
          <6>3. CASE w # call[r].window
            BY <5>1, <6>1, <6>3
          <6> QED BY <6>2, <6>3
        <5> QED BY <5>1, <5>4
      <4> QED BY <3>5, <4>1, <4>2, <4>3, <4>4 DEF AllowRequest
    <3>6. CASE RejectRequest(r)
      <4>1. call' \in [Requests -> Calls]
        BY <3>0, <3>6, <3>i DEF RejectRequest, Leaves
      <4> QED BY <3>6, <4>1 DEF RejectRequest
    <3> QED BY <2>3, <3>1, <3>3, <3>4, <3>5, <3>6 DEF Step
  <2>4. CASE UNCHANGED vars
    BY <2>4 DEF vars
  <2> QED BY <2>1, <2>2, <2>3, <2>4 DEF Next
<1> QED BY <1>1, <1>2, PTL DEF Spec

-----------------------------------------------------------------------------
(* Why a token that is never removed keeps one window: Retain spares it, so *)
(* the window every request finds is the one the map still has, no other    *)
(* token has it, and its entries are all the admissions of the token.       *)

\* The windows of the map exist and belong to one token each.
MapIsInjective ==
  /\ \A t \in Tokens : windows[t] <= Len(counts)
  /\ \A t, u \in Tokens : windows[t] = windows[u] /\ windows[t] # NoWindow => t = u

\* A request holds a window of its own token: the current one, unless the token
\* has been removed meanwhile.
HeldWindows ==
  \A r \in Requests : At(r, "counting") =>
    /\ call[r].window <= Len(counts)
    /\ \A u \in Tokens : windows[u] = call[r].window => u = call[r].token
    /\ removals[call[r].token] = 0 => windows[call[r].token] = call[r].window

KeptAreConfigured == \A t \in Tokens : removals[t] = 0 => t \in configured

CountsAreAdmissions ==
  \A t \in Tokens : removals[t] = 0 =>
    admitted[t] = IF windows[t] = NoWindow THEN 0 ELSE counts[windows[t]]

IInv ==
  /\ MapIsInjective
  /\ HeldWindows
  /\ KeptAreConfigured
  /\ CountsAreAdmissions

\* No request, reload or removal breaks the invariant.
LEMMA IInvStep == TypeOK /\ IInv /\ [Next]_vars => IInv'
<1> SUFFICES ASSUME TypeOK, IInv, [Next]_vars PROVE IInv'
  OBVIOUS
<1>0. /\ windows \in [Tokens -> Nat] /\ counts \in Seq(Nat) /\ Len(counts) \in Nat
      /\ removals \in [Tokens -> Nat] /\ admitted \in [Tokens -> Nat]
      /\ \A w \in 1..Len(counts) : counts[w] \in Nat
      /\ call \in [Requests -> Calls]
      /\ Idle.stage = "idle"
  BY DEF TypeOK, Idle
<1> USE DEF histories
<1>1. CASE SwapSnapshot
  <2>1. \A t \in Tokens : removals'[t] = 0 => removals[t] = 0 /\ t \in configured'
    BY <1>0, <1>1 DEF SwapSnapshot
  <2>2. MapIsInjective'
    BY <1>1 DEF SwapSnapshot, IInv, MapIsInjective
  <2>3. HeldWindows'
    BY <1>1, <2>1, CallFacts DEF SwapSnapshot, IInv, HeldWindows, At
  <2>4. KeptAreConfigured' /\ CountsAreAdmissions'
    BY <1>1, <2>1 DEF SwapSnapshot, IInv, KeptAreConfigured, CountsAreAdmissions
  <2> QED BY <2>2, <2>3, <2>4 DEF IInv
<1>2. CASE Retain
  <2>1. \A t \in Tokens : windows'[t] = IF t \in configured THEN windows[t] ELSE 0
    BY <1>2 DEF Retain
  <2>2. \A t \in Tokens : removals[t] = 0 => windows'[t] = windows[t]
    BY <2>1 DEF IInv, KeptAreConfigured
  <2>3. MapIsInjective' /\ KeptAreConfigured'
    BY <1>0, <1>2, <2>1 DEF Retain, IInv, MapIsInjective, KeptAreConfigured
  <2>4. HeldWindows'
    BY <1>2, <2>1, <2>2, CallFacts DEF Retain, IInv, HeldWindows, At
  <2>5. CountsAreAdmissions'
    BY <1>2, <2>2 DEF Retain, IInv, CountsAreAdmissions
  <2> QED BY <2>3, <2>4, <2>5 DEF IInv
<1>3. ASSUME NEW r \in Requests, Step(r) PROVE IInv'
  <2>l. ASSUME Leaves(r) PROVE \A s \in Requests : At(s, "counting")' =>
                                  s # r /\ At(s, "counting") /\ call'[s] = call[s]
    BY <1>0, <2>l DEF Leaves, Moves, At
  <2>1. CASE Authenticate(r)
    <3>1. PICK t \in configured :
            Moves(r, [stage |-> "authenticated", token |-> t, window |-> NoWindow])
      BY <2>1 DEF Authenticate
    <3>2. \A s \in Requests : At(s, "counting")' => At(s, "counting") /\ call'[s] = call[s]
      BY <1>0, <3>1 DEF Moves, At
    <3> QED BY <2>1, <3>2 DEF Authenticate, IInv, MapIsInjective, HeldWindows,
              KeptAreConfigured, CountsAreAdmissions
  <2>2. CASE FindWindow(r)
    <3>1. call[r].token \in Tokens
      BY <2>2, CallFacts DEF FindWindow, At
    <3>2. /\ call'[r].stage = "counting" /\ call'[r].token = call[r].token
          /\ call'[r].window = windows[call[r].token]
          /\ \A s \in Requests \ {r} : call'[s] = call[s]
      BY <1>0, <2>2 DEF FindWindow, Moves, Calls, Idle
    <3>3. HeldWindows'
      BY <2>2, <3>1, <3>2 DEF FindWindow, IInv, MapIsInjective, HeldWindows, At
    <3> QED BY <2>2, <3>3 DEF FindWindow, IInv, MapIsInjective,
              KeptAreConfigured, CountsAreAdmissions
  <2>3. CASE CreateWindow(r)
    <3> DEFINE tok == call[r].token
               new == Len(counts) + 1
    <3>1. tok \in Tokens /\ windows[tok] = 0
      BY <2>3, CallFacts DEF CreateWindow, At
    <3>2. /\ Len(counts') = new /\ counts'[new] = 0
          /\ \A w \in 1..Len(counts) : counts'[w] = counts[w]
      BY <1>0, <2>3 DEF CreateWindow
    <3>3. \A t \in Tokens : windows'[t] = IF t = tok THEN new ELSE windows[t]
      BY <1>0, <2>3, <3>2 DEF CreateWindow
    <3>4. /\ call'[r].stage = "counting" /\ call'[r].token = tok /\ call'[r].window = new
          /\ \A s \in Requests \ {r} : call'[s] = call[s]
      BY <1>0, <2>3, <3>2 DEF CreateWindow, Moves, Calls, Idle
    <3>5. UNCHANGED <<removals, admitted, configured>>
      BY <2>3 DEF CreateWindow
    <3> HIDE DEF tok, new
    <3>6. new \in Nat /\ new > Len(counts)
      BY <1>0 DEF new
    <3>m. \A t \in Tokens : windows[t] \in Nat /\ windows[t] <= Len(counts) /\ windows[t] < new
      BY <1>0, <3>6 DEF IInv, MapIsInjective
    <3>7. MapIsInjective'
      <4>1. \A t \in Tokens : windows'[t] <= Len(counts')
        BY <3>2, <3>3, <3>6, <3>m
      <4>2. ASSUME NEW t \in Tokens, NEW u \in Tokens,
                   windows'[t] = windows'[u], windows'[t] # 0
            PROVE  t = u
        BY <3>3, <3>6, <3>m, <4>2 DEF IInv, MapIsInjective
      <4> QED BY <4>1, <4>2 DEF MapIsInjective
    <3>8. HeldWindows'
      <4> SUFFICES ASSUME NEW s \in Requests, At(s, "counting")'
                   PROVE  /\ call'[s].window <= new
                          /\ \A u \in Tokens : windows'[u] = call'[s].window => u = call'[s].token
                          /\ removals[call'[s].token] = 0
                               => windows'[call'[s].token] = call'[s].window
        BY <3>2, <3>5 DEF HeldWindows
      <4>1. CASE s = r
        BY <1>0, <3>1, <3>3, <3>4, <3>6, <4>1 DEF IInv, MapIsInjective
      <4>2. CASE s # r
        <5>1. call'[s] = call[s] /\ At(s, "counting")
          BY <3>4, <4>2 DEF At
        <5>2. call[s].window \in Nat \ {0} /\ call[s].token \in Tokens
          BY <5>1, CallFacts DEF At
        <5>3. /\ call[s].window <= Len(counts)
              /\ \A u \in Tokens : windows[u] = call[s].window => u = call[s].token
              /\ removals[call[s].token] = 0 => windows[call[s].token] = call[s].window
          BY <5>1 DEF IInv, HeldWindows
        <5> QED BY <1>0, <3>1, <3>3, <3>6, <5>1, <5>2, <5>3
      <4> QED BY <4>1, <4>2
    <3>9. CountsAreAdmissions'
      <4> SUFFICES ASSUME NEW t \in Tokens, removals[t] = 0
                   PROVE  admitted[t] = IF windows'[t] = 0 THEN 0 ELSE counts'[windows'[t]]
        BY <3>5 DEF CountsAreAdmissions
      <4>1. admitted[t] = IF windows[t] = 0 THEN 0 ELSE counts[windows[t]]
        BY DEF IInv, CountsAreAdmissions
      <4>2. CASE t = tok
        BY <3>1, <3>2, <3>3, <3>6, <4>1, <4>2
      <4>3. CASE t # tok
        <5>1. windows[t] # 0 => windows[t] \in 1..Len(counts)
          BY <1>0, <3>m
        <5> QED BY <3>2, <3>3, <4>1, <4>3, <5>1
      <4> QED BY <4>2, <4>3
    <3>10. KeptAreConfigured'
      BY <3>5 DEF IInv, KeptAreConfigured
    <3> QED BY <3>7, <3>8, <3>9, <3>10 DEF IInv
  <2>4. CASE AllowRequest(r)
    <3> DEFINE tok == call[r].token
               win == call[r].window
    <3>1. tok \in Tokens /\ win \in 1..Len(counts) /\ counts[win] < Limit
      BY <1>0, <2>4, CallFacts DEF AllowRequest, At, IInv, HeldWindows
    <3>2. /\ \A u \in Tokens : windows[u] = win => u = tok
          /\ removals[tok] = 0 => windows[tok] = win
      BY <2>4 DEF AllowRequest, IInv, HeldWindows
    <3>3. /\ Len(counts') = Len(counts)
          /\ \A w \in 1..Len(counts) : counts'[w] = IF w = win THEN counts[w] + 1 ELSE counts[w]
      BY <1>0, <2>4, CountFacts DEF AllowRequest
    <3>4. \A t \in Tokens : admitted'[t] = IF t = tok THEN admitted[t] + 1 ELSE admitted[t]
      BY <1>0, <2>4 DEF AllowRequest
    <3>5. UNCHANGED <<removals, windows, configured>>
      BY <2>4 DEF AllowRequest
    <3>6. \A s \in Requests : At(s, "counting")' => At(s, "counting") /\ call'[s] = call[s]
      BY <2>4, <2>l DEF AllowRequest
    <3> HIDE DEF tok, win
    <3>7. MapIsInjective' /\ HeldWindows' /\ KeptAreConfigured'
      BY <3>3, <3>5, <3>6 DEF IInv, MapIsInjective, HeldWindows, KeptAreConfigured
    <3>8. CountsAreAdmissions'
      BY <1>0, <3>1, <3>2, <3>3, <3>4, <3>5 DEF IInv, MapIsInjective, CountsAreAdmissions
    <3> QED BY <3>7, <3>8 DEF IInv
  <2>5. CASE RejectRequest(r)
    <3>1. \A s \in Requests : At(s, "counting")' => At(s, "counting") /\ call'[s] = call[s]
      BY <2>5, <2>l DEF RejectRequest
    <3> QED BY <2>5, <3>1 DEF RejectRequest, IInv, MapIsInjective, HeldWindows,
              KeptAreConfigured, CountsAreAdmissions
  <2> QED BY <1>3, <2>1, <2>2, <2>3, <2>4, <2>5 DEF Step
<1>4. CASE UNCHANGED vars
  BY <1>4 DEF vars, IInv, MapIsInjective, HeldWindows, KeptAreConfigured,
     CountsAreAdmissions, At
<1> QED BY <1>1, <1>2, <1>3, <1>4 DEF Next

\* A token that every configuration enables never gets more than its limit,
\* however reloads, stragglers and other tokens interleave.
THEOREM QuotaSurvivesReloadsHolds == Spec => []QuotaSurvivesReloads
<1>1. Init => IInv
  BY LimitAssumption
  DEF Init, IInv, MapIsInjective, HeldWindows, KeptAreConfigured,
      CountsAreAdmissions, At, Idle
<1>2. TypeOK /\ IInv => QuotaSurvivesReloads
  <2> SUFFICES ASSUME TypeOK, IInv, NEW t \in Tokens, removals[t] = 0
               PROVE  admitted[t] <= Limit
    BY DEF QuotaSurvivesReloads
  <2>1. windows[t] \in Nat /\ windows[t] <= Len(counts) /\ Len(counts) \in Nat
    BY DEF TypeOK, IInv, MapIsInjective
  <2>2. windows[t] # 0 => counts[windows[t]] <= Limit
    BY <2>1 DEF TypeOK
  <2>3. admitted[t] = IF windows[t] = NoWindow THEN 0 ELSE counts[windows[t]]
    BY DEF IInv, CountsAreAdmissions
  <2> QED BY <2>2, <2>3, LimitAssumption
<1> QED BY <1>1, <1>2, TypeCorrect, IInvStep, PTL DEF Spec

-----------------------------------------------------------------------------
(* Why the map does not grow: a window is created by a request between its *)
(* authentication and the map, and the tokens of those requests are either *)
(* configured or were already on their way when Retain last ran.           *)
CarriedAreKnown ==
  reload = "idle" =>
    \A r \in Requests : At(r, "authenticated") => call[r].token \in configured \union carried

\* Only a straggler creates a window of a token that is no longer configured.
LEMMA LeftoversStep ==
  TypeOK /\ LeftoversAreStragglers /\ CarriedAreKnown /\ [Next]_vars
    => LeftoversAreStragglers' /\ CarriedAreKnown'
<1> SUFFICES ASSUME TypeOK, LeftoversAreStragglers, CarriedAreKnown, [Next]_vars
             PROVE  LeftoversAreStragglers' /\ CarriedAreKnown'
  OBVIOUS
<1> USE DEF LeftoversAreStragglers, CarriedAreKnown, histories
<1>0. /\ windows \in [Tokens -> Nat] /\ call \in [Requests -> Calls]
      /\ Idle.stage = "idle"
  BY DEF TypeOK, Idle
<1>1. CASE SwapSnapshot
  BY <1>1 DEF SwapSnapshot
<1>2. CASE Retain
  BY <1>0, <1>2 DEF Retain, Carried, At
<1>3. ASSUME NEW r \in Requests, Step(r) PROVE LeftoversAreStragglers' /\ CarriedAreKnown'
  <2>1. CASE Authenticate(r)
    <3>1. PICK t \in configured :
            Moves(r, [stage |-> "authenticated", token |-> t, window |-> NoWindow])
      BY <2>1 DEF Authenticate
    <3>2. \A s \in Requests : At(s, "authenticated")' =>
             call'[s].token = t \/ (At(s, "authenticated") /\ call'[s] = call[s])
      BY <1>0, <3>1 DEF Moves, At
    <3> QED BY <2>1, <3>2 DEF Authenticate
  <2>2. ASSUME \A s \in Requests : At(s, "authenticated")' =>
                  At(s, "authenticated") /\ call'[s] = call[s],
               UNCHANGED <<configured, reload, carried>>
        PROVE  CarriedAreKnown'
    BY <2>2
  <2>l. ASSUME Leaves(r) PROVE \A s \in Requests : At(s, "authenticated")' =>
                                  At(s, "authenticated") /\ call'[s] = call[s]
    BY <1>0, <2>l DEF Leaves, Moves, At
  <2>3. ASSUME NEW w, Moves(r, [call[r] EXCEPT !.stage = "counting", !.window = w]),
               At(r, "authenticated")
        PROVE  \A s \in Requests : At(s, "authenticated")' =>
                  At(s, "authenticated") /\ call'[s] = call[s]
    <3>1. call[r] \in [stage : {"authenticated"}, token : Tokens, window : {NoWindow}]
      BY <1>0, <2>3 DEF Calls, At, Idle
    <3>2. call'[r].stage = "counting"
      BY <1>0, <2>3, <3>1 DEF Moves
    <3> QED BY <1>0, <2>3, <3>2 DEF Moves, At
  <2>4. CASE FindWindow(r)
    <3>1. CarriedAreKnown'
      BY <2>2, <2>3, <2>4 DEF FindWindow
    <3> QED BY <2>4, <3>1 DEF FindWindow
  <2>5. CASE CreateWindow(r)
    <3>1. CarriedAreKnown'
      BY <2>2, <2>3, <2>5 DEF CreateWindow
    <3>2. reload = "idle" => call[r].token \in configured \union carried
      BY <2>5 DEF CreateWindow
    <3>3. \A t \in Tokens : windows'[t] # 0 => t = call[r].token \/ windows[t] # 0
      BY <1>0, <2>5 DEF CreateWindow
    <3> QED BY <2>5, <3>1, <3>2, <3>3 DEF CreateWindow
  <2>6. CASE AllowRequest(r) \/ RejectRequest(r)
    <3>1. CarriedAreKnown'
      BY <2>2, <2>6, <2>l DEF AllowRequest, RejectRequest
    <3> QED BY <2>6, <3>1 DEF AllowRequest, RejectRequest
  <2> QED BY <1>3, <2>1, <2>4, <2>5, <2>6 DEF Step
<1>4. CASE UNCHANGED vars
  BY <1>4 DEF vars, At
<1> QED BY <1>1, <1>2, <1>3, <1>4 DEF Next

\* Between reloads, every window of a token that is no longer configured was
\* recreated by a request that was under way at the last Retain.
THEOREM LeftoversAreStragglersHolds == Spec => []LeftoversAreStragglers
<1>1. Init => LeftoversAreStragglers /\ CarriedAreKnown
  BY DEF Init, LeftoversAreStragglers, CarriedAreKnown, At, Idle
<1> QED BY <1>1, TypeCorrect, LeftoversStep, PTL DEF Spec
-----------------------------------------------------------------------------
(* Why a removal brings one more quota at most.  Every window was created   *)
(* for one token, its owner, and every admission is an entry of a window of *)
(* the token's.  A token gets a new window only while the map has none, and *)
(* it loses one only in the Retain of a configuration without it.           *)
Owned(owner, t) == {w \in 1 .. Len(counts) : owner[w] = t}
Entries(owner, t) == {e \in Owned(owner, t) \X (1 .. Limit) : e[2] <= counts[e[1]]}

Owed(t) ==
  (IF windows[t] = NoWindow THEN 1 ELSE 0)
    + (IF reload = "swapped" /\ t \notin configured THEN 1 ELSE 0)

Accounts(owner) ==
  /\ owner \in [1 .. Len(counts) -> Tokens]
  /\ \A t \in Tokens :
       /\ admitted[t] = Cardinality(Entries(owner, t))
       /\ Cardinality(Owned(owner, t)) + Owed(t) <= removals[t] + 1
       /\ windows[t] # NoWindow =>
            windows[t] \in 1 .. Len(counts) /\ owner[windows[t]] = t
  /\ \A r \in Requests :
       At(r, "counting") =>
         call[r].window \in 1 .. Len(counts) /\ owner[call[r].window] = call[r].token

Accounted == \E owner : Accounts(owner)

\* Each window of a token contributes at most its limit.
LEMMA OwnedFacts ==
  ASSUME TypeOK, NEW owner, NEW t
  PROVE  /\ IsFiniteSet(Owned(owner, t)) /\ Cardinality(Owned(owner, t)) \in Nat
         /\ IsFiniteSet(Entries(owner, t)) /\ Cardinality(Entries(owner, t)) \in Nat
         /\ Cardinality(Entries(owner, t)) <= Cardinality(Owned(owner, t)) * Limit
<1>0. Len(counts) \in Nat /\ Limit \in Nat
  BY LimitAssumption DEF TypeOK
<1>1. IsFiniteSet(1 .. Len(counts)) /\ Owned(owner, t) \in SUBSET (1 .. Len(counts))
  BY <1>0, FS_Interval DEF Owned
<1>2. IsFiniteSet(Owned(owner, t)) /\ Cardinality(Owned(owner, t)) \in Nat
  BY <1>1, FS_Subset, FS_CardinalityType
<1>3. IsFiniteSet(1 .. Limit) /\ Cardinality(1 .. Limit) = Limit
  BY <1>0, LimitAssumption, FS_Interval
<1>4. /\ IsFiniteSet(Owned(owner, t) \X (1 .. Limit))
      /\ Cardinality(Owned(owner, t) \X (1 .. Limit)) = Cardinality(Owned(owner, t)) * Limit
  BY <1>2, <1>3, FS_Product
<1>5. Entries(owner, t) \in SUBSET (Owned(owner, t) \X (1 .. Limit))
  BY DEF Entries
<1>6. IsFiniteSet(Entries(owner, t)) /\ Cardinality(Entries(owner, t)) \in Nat
      /\ Cardinality(Entries(owner, t)) <= Cardinality(Owned(owner, t) \X (1 .. Limit))
  BY <1>4, <1>5, FS_Subset, FS_CardinalityType
<1> QED BY <1>2, <1>4, <1>6

\* Every admission is entered in a window of its token, and a new window is paid for by
\* a removal.
LEMMA AccountedStep == TypeOK /\ Accounted /\ [Next]_vars => Accounted'
<1> SUFFICES ASSUME TypeOK, [Next]_vars, NEW owner, Accounts(owner) PROVE Accounted'
  BY DEF Accounted
<1>0. /\ windows \in [Tokens -> Nat] /\ counts \in Seq(Nat) /\ Len(counts) \in Nat
      /\ removals \in [Tokens -> Nat] /\ admitted \in [Tokens -> Nat]
      /\ \A w \in 1..Len(counts) : counts[w] \in Nat /\ counts[w] <= Limit
      /\ call \in [Requests -> Calls]
      /\ Idle.stage = "idle"
  BY DEF TypeOK, Idle
<1> USE DEF histories
\* Steps that create and fill no window.
<1>k. ASSUME counts' = counts, admitted' = admitted,
             \A t \in Tokens :
               /\ Owed(t)' - Owed(t) <= removals'[t] - removals[t]
               /\ windows'[t] \in {windows[t], NoWindow},
             removals' \in [Tokens -> Nat], \A t \in Tokens : Owed(t)' \in Nat,
             \A r \in Requests :
               At(r, "counting")' =>
                 \/ At(r, "counting") /\ call'[r] = call[r]
                 \/ /\ call'[r].token \in Tokens
                    /\ call'[r].window = windows[call'[r].token]
                    /\ call'[r].window # NoWindow
      PROVE  Accounted'
  <2>1. \A t : Owned(owner, t)' = Owned(owner, t) /\ Entries(owner, t)' = Entries(owner, t)
    BY <1>k DEF Owned, Entries
  <2>2. ASSUME NEW t \in Tokens
        PROVE  /\ admitted'[t] = Cardinality(Entries(owner, t)')
               /\ Cardinality(Owned(owner, t)') + Owed(t)' <= removals'[t] + 1
               /\ windows'[t] # NoWindow =>
                    windows'[t] \in 1 .. Len(counts') /\ owner[windows'[t]] = t
    <3>1. /\ Cardinality(Owned(owner, t)) \in Nat /\ Owed(t) \in Nat /\ Owed(t)' \in Nat
          /\ removals[t] \in Nat /\ removals'[t] \in Nat
      BY <1>0, <1>k, OwnedFacts DEF Owed
    <3>2. Cardinality(Owned(owner, t)) + Owed(t) <= removals[t] + 1
      BY DEF Accounts
    <3>3. Owed(t)' - Owed(t) <= removals'[t] - removals[t]
      BY <1>k
    <3>4. Cardinality(Owned(owner, t)') + Owed(t)' <= removals'[t] + 1
      BY <2>1, <3>1, <3>2, <3>3
    <3>5. windows'[t] \in {windows[t], NoWindow}
      BY <1>k
    <3> QED BY <1>k, <2>1, <3>4, <3>5 DEF Accounts
  <2>3. ASSUME NEW r \in Requests, At(r, "counting")'
        PROVE  call'[r].window \in 1 .. Len(counts') /\ owner[call'[r].window] = call'[r].token
    BY <1>k, <2>3 DEF Accounts
  <2>4. Accounts(owner)'
    BY <1>k, <2>2, <2>3 DEF Accounts
  <2> QED BY <2>4 DEF Accounted
<1>1. CASE SwapSnapshot
  <2>1. /\ UNCHANGED <<windows, counts, call, admitted>> /\ reload = "idle" /\ reload' = "swapped"
        /\ \A t \in Tokens : removals'[t] = IF t \in configured' THEN removals[t] ELSE removals[t] + 1
        /\ removals' \in [Tokens -> Nat]
    BY <1>0, <1>1 DEF SwapSnapshot
  <2>2. \A t \in Tokens : Owed(t)' \in Nat /\ Owed(t)' - Owed(t) <= removals'[t] - removals[t]
    BY <1>0, <2>1 DEF Owed
  <2> QED BY <1>k, <2>1, <2>2 DEF At
<1>2. CASE Retain
  <2>1. /\ UNCHANGED <<configured, counts, call, admitted, removals>>
        /\ reload = "swapped" /\ reload' = "idle"
        /\ \A t \in Tokens : windows'[t] = IF t \in configured THEN windows[t] ELSE NoWindow
    BY <1>2 DEF Retain
  <2>2. \A t \in Tokens : Owed(t)' \in Nat /\ Owed(t)' - Owed(t) <= removals'[t] - removals[t]
    BY <1>0, <2>1 DEF Owed
  <2> QED BY <1>0, <1>k, <2>1, <2>2 DEF At
<1>3. ASSUME NEW r \in Requests, Step(r) PROVE Accounted'
  <2>k. ASSUME UNCHANGED <<configured, reload, windows, removals>>
        PROVE  /\ removals' \in [Tokens -> Nat]
               /\ \A t \in Tokens :
                    /\ Owed(t)' \in Nat /\ Owed(t)' - Owed(t) <= removals'[t] - removals[t]
                    /\ windows'[t] \in {windows[t], NoWindow}
    BY <1>0, <2>k DEF Owed
  <2>l. ASSUME Leaves(r) PROVE \A s \in Requests : At(s, "counting")' =>
                                  At(s, "counting") /\ call'[s] = call[s]
    BY <1>0, <2>l DEF Leaves, Moves, At
  <2>1. CASE Authenticate(r)
    <3>1. PICK t \in configured :
            Moves(r, [stage |-> "authenticated", token |-> t, window |-> NoWindow])
      BY <2>1 DEF Authenticate
    <3>2. \A s \in Requests : At(s, "counting")' => At(s, "counting") /\ call'[s] = call[s]
      BY <1>0, <3>1 DEF Moves, At
    <3>3. UNCHANGED <<configured, reload, windows, counts, removals, admitted>>
      BY <2>1 DEF Authenticate
    <3> QED BY <1>k, <2>k, <3>2, <3>3
  <2>2. CASE FindWindow(r)
    <3>1. /\ call[r].token \in Tokens /\ windows[call[r].token] # NoWindow
          /\ UNCHANGED <<configured, reload, windows, counts, removals, admitted>>
      BY <2>2, CallFacts DEF FindWindow, At
    <3>2. /\ call'[r].token = call[r].token
          /\ call'[r].window = windows[call[r].token]
          /\ \A s \in Requests \ {r} : call'[s] = call[s]
      BY <1>0, <2>2 DEF FindWindow, Moves, Calls, Idle
    <3>3. \A s \in Requests : At(s, "counting")' =>
            \/ At(s, "counting") /\ call'[s] = call[s]
            \/ /\ call'[s].token \in Tokens
               /\ call'[s].window = windows[call'[s].token]
               /\ call'[s].window # NoWindow
      BY <3>1, <3>2 DEF At
    <3> QED BY <1>k, <2>k, <3>1, <3>3
  <2>3. CASE CreateWindow(r)
    <3> DEFINE tok == call[r].token
               new == Len(counts) + 1
    <3>1. tok \in Tokens /\ windows[tok] = NoWindow
      BY <2>3, CallFacts DEF CreateWindow, At
    <3>2. /\ Len(counts') = new /\ counts'[new] = 0
          /\ \A w \in 1..Len(counts) : counts'[w] = counts[w]
      BY <1>0, <2>3 DEF CreateWindow
    <3>3. \A t \in Tokens : windows'[t] = IF t = tok THEN new ELSE windows[t]
      BY <1>0, <2>3, <3>2 DEF CreateWindow
    <3>4. /\ call'[r].token = tok /\ call'[r].window = new
          /\ \A s \in Requests \ {r} : call'[s] = call[s]
      BY <1>0, <2>3, <3>2 DEF CreateWindow, Moves, Calls, Idle
    <3>5. UNCHANGED <<removals, admitted, configured, reload>>
      BY <2>3 DEF CreateWindow
    <3>6. PICK next :
            /\ next \in [1 .. new -> Tokens] /\ next[new] = tok
            /\ \A w \in 1 .. Len(counts) : next[w] = owner[w]
      <4> DEFINE f == [w \in 1 .. new |-> IF w = new THEN tok ELSE owner[w]]
      <4>1. /\ f \in [1 .. new -> Tokens] /\ f[new] = tok
            /\ \A w \in 1 .. Len(counts) : f[w] = owner[w]
        BY <1>0, <3>1 DEF Accounts
      <4> QED BY <4>1
    <3>i. 1 .. new = (1 .. Len(counts)) \union {new} /\ new \notin 1 .. Len(counts)
      BY <1>0
    <3> HIDE DEF tok, new
    <3>7. ASSUME NEW t \in Tokens
          PROVE  /\ Owned(next, t)' = IF t = tok THEN Owned(owner, t) \union {new}
                                      ELSE Owned(owner, t)
                 /\ new \notin Owned(owner, t)
      BY <3>2, <3>6, <3>i DEF Owned
    <3>8. ASSUME NEW t \in Tokens PROVE Entries(next, t)' = Entries(owner, t)
      <4>1. \A w \in Owned(next, t)' : w = new \/ (w \in Owned(owner, t) /\ counts'[w] = counts[w])
        BY <3>2, <3>7 DEF Owned
      <4>2. \A w \in Owned(owner, t) : w \in Owned(next, t)' /\ counts'[w] = counts[w]
        BY <3>2, <3>7 DEF Owned
      <4>3. \A k \in 1 .. Limit : ~(k <= counts'[new])
        BY <3>2, LimitAssumption
      <4> QED BY <4>1, <4>2, <4>3 DEF Entries
    <3>9. ASSUME NEW t \in Tokens
          PROVE  /\ admitted'[t] = Cardinality(Entries(next, t)')
                 /\ Cardinality(Owned(next, t)') + Owed(t)' <= removals'[t] + 1
                 /\ windows'[t] # NoWindow =>
                      windows'[t] \in 1 .. Len(counts') /\ next[windows'[t]] = t
      <4>1. /\ Cardinality(Owned(owner, t)) + Owed(t) <= removals[t] + 1
            /\ admitted[t] = Cardinality(Entries(owner, t))
            /\ windows[t] # NoWindow =>
                 windows[t] \in 1 .. Len(counts) /\ owner[windows[t]] = t
            /\ Cardinality(Owned(owner, t)) \in Nat /\ IsFiniteSet(Owned(owner, t))
        BY OwnedFacts DEF Accounts
      <4>2. new # NoWindow
        BY <1>0 DEF new
      <4>3. CASE t = tok
        <5>1. Cardinality(Owned(next, t)') = Cardinality(Owned(owner, t)) + 1
          BY <3>7, <4>1, <4>3, FS_AddElement
        <5>2. Owed(t)' + 1 = Owed(t) /\ Owed(t)' \in Nat
          BY <3>1, <3>3, <3>5, <4>2, <4>3 DEF Owed
        <5>3. windows'[t] \in 1 .. Len(counts') /\ next[windows'[t]] = t
          BY <3>2, <3>3, <3>6, <3>i, <4>3
        <5> QED BY <1>0, <3>5, <3>8, <4>1, <5>1, <5>2, <5>3
      <4>4. CASE t # tok
        <5>1. Owed(t)' = Owed(t) /\ windows'[t] = windows[t] /\ Owned(next, t)' = Owned(owner, t)
          BY <3>3, <3>5, <3>7, <4>4 DEF Owed
        <5> QED BY <3>2, <3>5, <3>6, <3>8, <3>i, <4>1, <5>1
      <4> QED BY <4>3, <4>4
    <3>10. ASSUME NEW s \in Requests, At(s, "counting")'
           PROVE  call'[s].window \in 1 .. Len(counts') /\ next[call'[s].window] = call'[s].token
      BY <3>2, <3>4, <3>6, <3>10, <3>i DEF Accounts, At
    <3>11. Accounts(next)'
      BY <3>2, <3>6, <3>9, <3>10 DEF Accounts
    <3> QED BY <3>11 DEF Accounted
  <2>4. CASE AllowRequest(r)
    <3> DEFINE tok == call[r].token
               win == call[r].window
               new == <<win, counts[win] + 1>>
    <3>1. /\ tok \in Tokens /\ win \in 1 .. Len(counts) /\ owner[win] = tok
          /\ counts[win] < Limit /\ counts[win] \in Nat
      BY <1>0, <2>4, CallFacts DEF AllowRequest, At, Accounts
    <3>2. /\ Len(counts') = Len(counts)
          /\ \A w \in 1..Len(counts) : counts'[w] = IF w = win THEN counts[w] + 1 ELSE counts[w]
      BY <1>0, <2>4, CountFacts DEF AllowRequest
    <3>3. \A t \in Tokens : admitted'[t] = IF t = tok THEN admitted[t] + 1 ELSE admitted[t]
      BY <1>0, <2>4 DEF AllowRequest
    <3>4. UNCHANGED <<removals, windows, configured, reload>>
      BY <2>4 DEF AllowRequest
    <3>5. \A s \in Requests : At(s, "counting")' => At(s, "counting") /\ call'[s] = call[s]
      BY <2>4, <2>l DEF AllowRequest
    <3> HIDE DEF tok, win
    <3>6. ASSUME NEW t \in Tokens PROVE Owned(owner, t)' = Owned(owner, t) /\ Owed(t)' = Owed(t)
      BY <3>2, <3>4 DEF Owned, Owed
    <3>7. ASSUME NEW t \in Tokens
          PROVE  /\ Entries(owner, t)' = IF t = tok THEN Entries(owner, t) \union {new}
                                         ELSE Entries(owner, t)
                 /\ new \notin Entries(owner, t)
      <4>1. ASSUME NEW w \in Owned(owner, t), NEW k \in 1 .. Limit
            PROVE  k <= counts'[w] <=> (k <= counts[w] \/ (w = win /\ k = counts[win] + 1))
        BY <1>0, <3>1, <3>2, SMTT(30) DEF Owned
      <4>2. win \in Owned(owner, t) <=> t = tok
        BY <3>1 DEF Owned
      <4>3. counts[win] + 1 \in 1 .. Limit /\ ~(counts[win] + 1 <= counts[win])
        BY <3>1, LimitAssumption
      <4>4. \A e : e \in Entries(owner, t)' <=>
                     e \in Owned(owner, t) \X (1 .. Limit) /\ e[2] <= counts'[e[1]]
        BY <3>6 DEF Entries
      <4>5. \A e : e \in Entries(owner, t) <=>
                     e \in Owned(owner, t) \X (1 .. Limit) /\ e[2] <= counts[e[1]]
        BY DEF Entries
      <4>6. \A e : e \in Entries(owner, t)' <=> e \in Entries(owner, t) \/ (t = tok /\ e = new)
        BY <4>1, <4>2, <4>3, <4>4, <4>5
      <4>7. new \notin Entries(owner, t)
        BY <4>3, <4>5
      <4> QED BY <4>6, <4>7
    <3> HIDE DEF new
    <3>8. ASSUME NEW t \in Tokens
          PROVE  /\ admitted'[t] = Cardinality(Entries(owner, t)')
                 /\ Cardinality(Owned(owner, t)') + Owed(t)' <= removals'[t] + 1
                 /\ windows'[t] # NoWindow =>
                      windows'[t] \in 1 .. Len(counts') /\ owner[windows'[t]] = t
      <4>1. Cardinality(Entries(owner, t)') =
              IF t = tok THEN Cardinality(Entries(owner, t)) + 1 ELSE Cardinality(Entries(owner, t))
        BY <3>7, OwnedFacts, FS_AddElement
      <4> QED BY <3>2, <3>3, <3>4, <3>6, <4>1 DEF Accounts
    <3>9. ASSUME NEW s \in Requests, At(s, "counting")'
          PROVE  call'[s].window \in 1 .. Len(counts') /\ owner[call'[s].window] = call'[s].token
      BY <3>2, <3>5, <3>9 DEF Accounts
    <3>10. Accounts(owner)'
      BY <3>2, <3>8, <3>9 DEF Accounts
    <3> QED BY <3>10 DEF Accounted
  <2>5. CASE RejectRequest(r)
    <3>1. UNCHANGED <<configured, reload, windows, counts, removals, admitted>>
      BY <2>5 DEF RejectRequest
    <3> QED BY <1>k, <2>5, <2>k, <2>l, <3>1 DEF RejectRequest
  <2> QED BY <1>3, <2>1, <2>2, <2>3, <2>4, <2>5 DEF Step
<1>4. CASE UNCHANGED vars
  <2>1. \A t : Owned(owner, t)' = Owned(owner, t) /\ Entries(owner, t)' = Entries(owner, t)
    BY <1>4 DEF vars, Owned, Entries
  <2>2. Accounts(owner)'
    BY <1>4, <2>1 DEF vars, Accounts, Owed, At
  <2> QED BY <2>2 DEF Accounted
<1> QED BY <1>1, <1>2, <1>3, <1>4 DEF Next

\* However many stragglers still fill windows that reloads deleted, a token is
\* admitted at most its limit per configuration without it, and once more.
THEOREM QuotaPerRemovalHolds == Spec => []QuotaPerRemoval
<1>1. Init => Accounted
  <2> SUFFICES ASSUME Init PROVE Accounted
    OBVIOUS
  <2> DEFINE owner == [w \in 1 .. 0 |-> NoToken]
  <2>0. Len(counts) = 0 /\ 1 .. 0 = {}
    BY DEF Init
  <2>1. owner \in [1 .. Len(counts) -> Tokens]
    BY <2>0
  <2>2. \A t : Owned(owner, t) = {} /\ Entries(owner, t) = {}
    BY <2>0 DEF Owned, Entries
  <2>3. \A t \in Tokens : admitted[t] = 0 /\ windows[t] = NoWindow /\ Owed(t) = 1 /\ removals[t] \in {0, 1}
    BY DEF Init, Owed
  <2>4. \A r \in Requests : ~At(r, "counting")
    BY DEF Init, At, Idle
  <2> HIDE DEF owner
  <2>5. Cardinality({}) = 0
    BY FS_EmptySet
  <2>6. ASSUME NEW t \in Tokens
        PROVE  /\ admitted[t] = Cardinality(Entries(owner, t))
               /\ Cardinality(Owned(owner, t)) + Owed(t) <= removals[t] + 1
    <3>1. Cardinality(Owned(owner, t)) = 0 /\ Cardinality(Entries(owner, t)) = 0
      BY <2>2, <2>5, Zenon
    <3> QED BY <2>3, <3>1
  <2>7. Accounts(owner)
    BY <2>1, <2>3, <2>4, <2>6 DEF Accounts
  <2> QED BY <2>7 DEF Accounted
<1>2. TypeOK /\ Accounted => QuotaPerRemoval
  <2> SUFFICES ASSUME TypeOK, NEW owner, Accounts(owner), NEW t \in Tokens
               PROVE  admitted[t] <= Limit * (1 + removals[t])
    BY DEF Accounted, QuotaPerRemoval
  <2> DEFINE n == Cardinality(Owned(owner, t))
  <2>1. n \in Nat /\ Owed(t) \in Nat /\ removals[t] \in Nat /\ Limit \in Nat /\ admitted[t] \in Nat
    BY OwnedFacts, LimitAssumption DEF Owed, TypeOK
  <2>2. admitted[t] <= n * Limit /\ n + Owed(t) <= removals[t] + 1
    BY OwnedFacts DEF Accounts
  <2> HIDE DEF n
  <2>3. n <= 1 + removals[t]
    BY <2>1, <2>2
  <2>4. n * Limit <= Limit * (1 + removals[t])
    BY <2>1, <2>3
  <2> QED BY <2>1, <2>2, <2>4
<1> QED BY <1>1, <1>2, TypeCorrect, AccountedStep, PTL DEF Spec
=============================================================================
