------------------------- MODULE RedisWindow_proofs -------------------------
(***************************************************************************)
(* Proofs about RedisWindow, for any requests, limits, window and time to  *)
(* live, any number of tries and any length of the run.                    *)
(***************************************************************************)
EXTENDS RedisWindow, FiniteSetTheorems, TLAPS

Calls == [stage : {"idle", "waiting", "answered"}, member : Nat, limit : Limits \union {0},
          try : Nat, allowed : BOOLEAN, at : Nat]
Commands == [member : Nat, limit : Limits, try : Nat]
Entries == [member : Nat, score : Nat]
Admissions == [member : Nat, at : Nat, degraded : BOOLEAN]

Types ==
  /\ failOpen \in BOOLEAN
  /\ clock \in Nat
  /\ zset \subseteq Entries /\ expires \in Nat
  /\ wire \subseteq Commands /\ sent \in Nat
  /\ call \in [Requests -> Calls]
  /\ \A r \in Requests : At(r, "idle") \/ call[r].limit \in Limits
  /\ passed \subseteq Admissions

\* A request that is on its way has a member of its own.
MembersDiffer ==
  /\ \A r \in Requests : At(r, "idle") \/ call[r].member <= sent
  /\ \A r, s \in Requests :
       ~At(r, "idle") /\ ~At(s, "idle") /\ call[r].member = call[s].member => r = s
  /\ \A p \in passed :
       /\ p.member <= sent
       /\ \A r \in Requests : At(r, "idle") \/ call[r].member # p.member
  /\ \A p, q \in passed : p.member = q.member => p = q

\* A step of a request changes its own call alone.
LEMMA CallAfter ==
  ASSUME Types, NEW r \in Requests, NEW c, Moves(r, c)
  PROVE  \A s \in Requests : call'[s] = IF s = r THEN c ELSE call[s]
BY DEF Types, Moves

\* A script's answer goes to the calls that wait for that try.
LEMMA CallAfterScript ==
  ASSUME Types, NEW c \in wire, RunScript(c)
  PROVE  \A s \in Requests :
           call'[s] = IF At(s, "waiting") /\ Command(call[s]) = c
                      THEN [call[s] EXCEPT !.stage = "answered",
                                           !.allowed = (Cardinality(Live) < c.limit), !.at = clock]
                      ELSE call[s]
BY DEF RunScript, Script, Answer

\* What Retry and the script's answer make of a call is a call.
LEMMA CallsRebuilt ==
  ASSUME NEW k \in Calls
  PROVE  /\ [k EXCEPT !.stage = "waiting", !.try = @ + 1, !.allowed = FALSE, !.at = 0] \in Calls
         /\ \A allowed \in BOOLEAN, at \in Nat :
              [k EXCEPT !.stage = "answered", !.allowed = allowed, !.at = at] \in Calls
<1>1. k.try + 1 \in Nat
  BY DEF Calls
<1>2. \A try, at \in Nat, allowed \in BOOLEAN :
        [k EXCEPT !.stage = "waiting", !.try = try, !.allowed = allowed, !.at = at] \in Calls
  BY DEF Calls
<1>3. \A allowed \in BOOLEAN, at \in Nat :
        [k EXCEPT !.stage = "answered", !.allowed = allowed, !.at = at] \in Calls
  BY DEF Calls
<1> QED BY <1>1, <1>2, <1>3

\* Every step keeps the types.
LEMMA TypesStep == Types /\ [Next]_vars => Types'
<1> SUFFICES ASSUME Types, [Next]_vars PROVE Types'
  OBVIOUS
<1>0. \A r \in Requests : call[r] \in Calls
  BY DEF Types
<1>i. Idle \in Calls /\ Idle.stage = "idle"
  BY DEF Idle, Calls
<1>m. ASSUME NEW r \in Requests, NEW c \in Calls, Moves(r, c), c.stage = "idle" \/ c.limit \in Limits
      PROVE  /\ call' \in [Requests -> Calls]
             /\ \A s \in Requests : At(s, "idle")' \/ call'[s].limit \in Limits
  <2>1. \A s \in Requests : call'[s] = IF s = r THEN c ELSE call[s]
    BY <1>m, CallAfter
  <2>2. call' \in [Requests -> Calls]
    BY <1>m DEF Types, Moves
  <2> QED BY <1>m, <2>1, <2>2 DEF Types, At
<1>1. CASE Tick /\ UNCHANGED failOpen
  BY <1>1 DEF Tick, Types, At
<1>2. ASSUME NEW r \in Requests, Send(r), UNCHANGED failOpen PROVE Types'
  <2>1. PICK limit \in Limits :
          LET c == [Idle EXCEPT !.stage = "waiting", !.member = sent', !.limit = limit, !.try = 1]
          IN Moves(r, c) /\ wire' = wire \union {Command(c)}
    BY <1>2 DEF Send
  <2> DEFINE c == [Idle EXCEPT !.stage = "waiting", !.member = sent', !.limit = limit, !.try = 1]
  <2>2. sent' \in Nat
    BY <1>2 DEF Send, Types
  <2>3. c \in Calls /\ c.limit \in Limits
    BY <2>2 DEF Idle, Calls
  <2>4. Command(c) \in Commands
    BY <2>2 DEF Command, Commands, Idle
  <2> QED BY <1>2, <1>m, <2>1, <2>2, <2>3, <2>4 DEF Send, Types
<1>3. ASSUME NEW r \in Requests, Retry(r), UNCHANGED failOpen PROVE Types'
  <2> DEFINE c == [call[r] EXCEPT !.stage = "waiting", !.try = @ + 1, !.allowed = FALSE, !.at = 0]
  <2>1. Moves(r, c) /\ wire' = wire \union {Command(c)}
    BY <1>3 DEF Retry
  <2>2. call[r].limit \in Limits
    BY <1>3 DEF Retry, Types, At
  <2>3. c \in Calls /\ c.limit \in Limits
    <3>1. c \in Calls
      BY <1>0, CallsRebuilt
    <3> QED BY <1>0, <2>2, <3>1 DEF Calls
  <2>4. Command(c) \in Commands
    <3> HIDE DEF c
    <3> QED BY <2>3 DEF Command, Commands, Calls
  <2> QED BY <1>3, <1>m, <2>1, <2>3, <2>4 DEF Retry, Types
<1>4. ASSUME NEW r \in Requests, GiveUp(r), UNCHANGED failOpen PROVE Types'
  <2>1. [member |-> call[r].member, at |-> clock, degraded |-> TRUE] \in Admissions
    BY <1>0 DEF Calls, Admissions, Types
  <2>2. passed' \subseteq Admissions
    BY <1>4, <2>1 DEF GiveUp, Passes, Types
  <2> QED BY <1>4, <1>i, <1>m, <2>2 DEF GiveUp, Types
<1>5. ASSUME NEW r \in Requests, Reply(r), UNCHANGED failOpen PROVE Types'
  <2>1. [member |-> call[r].member, at |-> call[r].at, degraded |-> FALSE] \in Admissions
    BY <1>0 DEF Calls, Admissions, Types
  <2>2. passed' \subseteq Admissions
    BY <1>5, <2>1 DEF Reply, Passes, Types
  <2> QED BY <1>5, <1>i, <1>m, <2>2 DEF Reply, Types
<1>6. ASSUME NEW c \in wire, RunScript(c), UNCHANGED failOpen PROVE Types'
  <2>1. \A s \in Requests : call'[s] \in Calls
    <3>1. (Cardinality(Live) < c.limit) \in BOOLEAN /\ clock \in Nat
      BY DEF Types
    <3> DEFINE allowed == Cardinality(Live) < c.limit
    <3> HIDE DEF allowed
    <3>2. ASSUME NEW s \in Requests
          PROVE  [call[s] EXCEPT !.stage = "answered", !.allowed = allowed, !.at = clock] \in Calls
      BY <1>0, <3>1, CallsRebuilt, Zenon DEF allowed
    <3> QED BY <1>0, <1>6, <3>2, CallAfterScript, Zenon DEF allowed
  <2>2. call' \in [Requests -> Calls]
    BY <1>6, <2>1 DEF RunScript, Script, Answer
  <2>3. \A s \in Requests : At(s, "idle")' \/ call'[s].limit \in Limits
    BY <1>0, <1>6, CallAfterScript DEF Types, At, Calls
  <2>4. Score(c.member) \in Entries /\ Live \subseteq Entries
    BY DEF Score, Entries, Live, Types, Commands
  <2>5. zset' \subseteq Entries
    BY <1>6, <2>4 DEF RunScript, Script, Others
  <2>6. expires' \in Nat
    BY <1>6, TimesAssumption DEF RunScript, Script, Types
  <2> QED BY <1>6, <2>2, <2>3, <2>5, <2>6 DEF RunScript, Types
<1>7. CASE UNCHANGED vars
  BY <1>7 DEF vars, Types, At
<1> QED BY <1>1, <1>2, <1>3, <1>4, <1>5, <1>6, <1>7 DEF Next, Step

\* The types hold before the first call.
LEMMA TypesInit == Init => Types
<1>1. Idle \in Calls /\ Idle.stage = "idle"
  BY DEF Idle, Calls
<1> QED BY <1>1 DEF Init, Types, At

\* A new request takes a new member; only the one that returns leaves its own behind.
LEMMA MembersStep == Types /\ MembersDiffer /\ [Next]_vars => MembersDiffer'
<1> SUFFICES ASSUME Types, MembersDiffer, [Next]_vars PROVE MembersDiffer'
  OBVIOUS
<1>0. /\ \A r \in Requests : call[r] \in Calls
      /\ \A p \in passed : p \in Admissions
      /\ sent \in Nat
  BY DEF Types
<1>i. Idle.stage = "idle"
  BY DEF Idle
<1>1. CASE Tick
  BY <1>1 DEF Tick, MembersDiffer, At
<1>2. ASSUME NEW r \in Requests, Send(r) PROVE MembersDiffer'
  <2>1. PICK limit \in Limits :
          Moves(r, [Idle EXCEPT !.stage = "waiting", !.member = sent', !.limit = limit, !.try = 1])
    BY <1>2 DEF Send
  <2> DEFINE c == [Idle EXCEPT !.stage = "waiting", !.member = sent', !.limit = limit, !.try = 1]
  <2>2. c.stage = "waiting" /\ c.member = sent + 1 /\ sent' = sent + 1 /\ passed' = passed
    BY <1>2 DEF Idle, Send
  <2>3. \A s \in Requests : call'[s] = IF s = r THEN c ELSE call[s]
    BY <2>1, CallAfter
  <2>4. \A s \in Requests : call[s].member \in Nat /\ (At(s, "idle") \/ call[s].member < sent + 1)
    BY <1>0 DEF MembersDiffer, Calls
  <2>5. \A p \in passed : p.member \in Nat /\ p.member < sent + 1
    BY <1>0 DEF MembersDiffer, Admissions
  <2> HIDE DEF c
  <2> QED BY <1>0, <2>2, <2>3, <2>4, <2>5 DEF MembersDiffer, At
<1>3. ASSUME NEW r \in Requests, Retry(r) PROVE MembersDiffer'
  <2> DEFINE c == [call[r] EXCEPT !.stage = "waiting", !.try = @ + 1, !.allowed = FALSE, !.at = 0]
  <2>1. Moves(r, c) /\ ~At(r, "idle") /\ sent' = sent /\ passed' = passed
    BY <1>3 DEF Retry, At
  <2>2. c.stage = "waiting" /\ c.member = call[r].member
    BY <1>0 DEF Calls
  <2>3. \A s \in Requests : call'[s] = IF s = r THEN c ELSE call[s]
    BY <2>1, CallAfter
  <2> HIDE DEF c
  <2> QED BY <2>1, <2>2, <2>3 DEF MembersDiffer, At
<1>4. ASSUME NEW r \in Requests, ~At(r, "idle"), Moves(r, Idle), sent' = sent,
             NEW p, p.member = call[r].member, passed' \subseteq passed \union {p}
      PROVE  MembersDiffer'
  <2>1. \A s \in Requests : call'[s] = IF s = r THEN Idle ELSE call[s]
    BY <1>4, CallAfter
  <2>2. \A q \in passed : q.member # p.member
    BY <1>4 DEF MembersDiffer
  <2>3. p.member <= sent
    BY <1>4 DEF MembersDiffer
  <2> QED BY <1>4, <1>i, <2>1, <2>2, <2>3 DEF MembersDiffer, At
<1>5. ASSUME NEW r \in Requests, GiveUp(r) PROVE MembersDiffer'
  <2> DEFINE p == [member |-> call[r].member, at |-> clock, degraded |-> TRUE]
  <2>1. ~At(r, "idle") /\ Moves(r, Idle) /\ sent' = sent /\ passed' \subseteq passed \union {p}
    BY <1>5 DEF GiveUp, Passes, At
  <2>2. p.member = call[r].member
    OBVIOUS
  <2> HIDE DEF p
  <2> QED BY <1>4, <2>1, <2>2
<1>6. ASSUME NEW r \in Requests, Reply(r) PROVE MembersDiffer'
  <2> DEFINE p == [member |-> call[r].member, at |-> call[r].at, degraded |-> FALSE]
  <2>1. ~At(r, "idle") /\ Moves(r, Idle) /\ sent' = sent /\ passed' \subseteq passed \union {p}
    BY <1>6 DEF Reply, Passes, At
  <2>2. p.member = call[r].member
    OBVIOUS
  <2> HIDE DEF p
  <2> QED BY <1>4, <2>1, <2>2
<1>7. ASSUME NEW c \in wire, RunScript(c) PROVE MembersDiffer'
  <2>1. \A s \in Requests : call'[s].member = call[s].member /\ (At(s, "idle")' <=> At(s, "idle"))
    <3> SUFFICES ASSUME NEW s \in Requests
                 PROVE  /\ call'[s].member = call[s].member
                        /\ At(s, "idle")' <=> At(s, "idle")
      OBVIOUS
    <3>1. call[s] \in Calls
      BY DEF Types
    <3>2. CASE At(s, "waiting") /\ Command(call[s]) = c
      <4>1. call'[s] = [call[s] EXCEPT !.stage = "answered",
                                       !.allowed = (Cardinality(Live) < c.limit), !.at = clock]
        BY <1>7, <3>2, CallAfterScript
      <4>2. call'[s].member = call[s].member /\ call'[s].stage = "answered"
        BY <3>1, <4>1 DEF Calls
      <4> QED BY <3>2, <4>2 DEF At
    <3>3. CASE ~(At(s, "waiting") /\ Command(call[s]) = c)
      BY <1>7, <3>3, CallAfterScript DEF At
    <3> QED BY <3>2, <3>3
  <2> QED BY <1>7, <2>1 DEF RunScript, MembersDiffer
<1>8. CASE UNCHANGED vars
  BY <1>8 DEF vars, MembersDiffer, At
<1> QED BY <1>1, <1>2, <1>3, <1>5, <1>6, <1>7, <1>8 DEF Next, Step

-----------------------------------------------------------------------------
(* Why the script is exact: an admission that is still within its window   *)
(* has an entry of its own in a set that has not expired, with a score no  *)
(* older than the admission, and the set is never larger than the limit.   *)

Granted(r) == [member |-> call[r].member, at |-> call[r].at, degraded |-> FALSE]

\* Requests counted in: let through on the script's word, or about to be.
Admitted ==
  {p \in passed : ~p.degraded}
    \union {Granted(r) : r \in {s \in Requests : At(s, "answered") /\ call[s].allowed}}

SetIsSmall == IsFiniteSet(zset) /\ Cardinality(zset) <= MaxLimit

OneEntryEach == \A e, f \in zset : e.member = f.member => e = f

Recorded ==
  \A a \in Admitted :
    /\ a.at <= clock
    /\ a.at + Window > clock =>
         /\ a.at + Ttl <= expires
         /\ \E e \in zset : e.member = a.member /\ a.at <= e.score

Within(admissions, t) == {a \in admissions : t <= a.at /\ a.at < t + Window}

WindowHoldsALimit ==
  \A t \in Nat : IsFiniteSet(Within(Admitted, t)) /\ Cardinality(Within(Admitted, t)) <= MaxLimit

DegradedIfOpen == \A p \in passed : p.degraded => failOpen

\* A command nobody waits for was sent again or given up.
StragglersAreUnsure ==
  \A c \in wire :
    \/ c.member \in unsure
    \/ \E r \in Requests : At(r, "waiting") /\ Command(call[r]) = c

Charged ==
  \A e \in zset :
    \/ e.member \in unsure
    \/ \E p \in passed : p.member = e.member
    \/ \E r \in Requests : At(r, "answered") /\ call[r].allowed /\ call[r].member = e.member

\* What the script finds in the set.
LEMMA LiveFacts ==
  ASSUME Types, SetIsSmall
  PROVE  /\ Live \subseteq zset /\ IsFiniteSet(Live)
         /\ Cardinality(Live) \in Nat /\ Cardinality(Live) <= MaxLimit
<1>1. Live \in SUBSET zset
  BY DEF Live
<1>2. IsFiniteSet(Live) /\ Cardinality(Live) <= Cardinality(zset)
  BY <1>1, FS_Subset DEF SetIsSmall
<1>3. Cardinality(Live) \in Nat /\ Cardinality(zset) \in Nat
  BY <1>2, FS_CardinalityType DEF SetIsSmall
<1> QED BY <1>1, <1>2, <1>3, LimitsAssumption DEF SetIsSmall

\* The script adds to a set with room only, and never a second entry of a member.
LEMMA SetStep == Types /\ SetIsSmall /\ OneEntryEach /\ [Next]_vars => SetIsSmall' /\ OneEntryEach'
<1> SUFFICES ASSUME Types, SetIsSmall, OneEntryEach, [Next]_vars
             PROVE  SetIsSmall' /\ OneEntryEach'
  OBVIOUS
<1>1. CASE UNCHANGED zset
  BY <1>1 DEF SetIsSmall, OneEntryEach
<1>2. ASSUME NEW c \in wire, RunScript(c) PROVE SetIsSmall' /\ OneEntryEach'
  <2> DEFINE rest == Others(Live, c.member)
             new == Score(c.member)
  <2>1. c.limit \in Nat /\ c.limit <= MaxLimit /\ MaxLimit \in Nat
    BY LimitsAssumption DEF Types, Commands
  <2>2. CASE zset' = Live
    BY <2>2, LiveFacts DEF SetIsSmall, OneEntryEach
  <2>3. CASE Cardinality(Live) < c.limit /\ zset' = rest \union {new}
    <3>1. rest \in SUBSET Live /\ new.member = c.member /\ \A e \in rest : e.member # c.member
      BY DEF Others, Score
    <3>2. IsFiniteSet(rest) /\ Cardinality(rest) <= Cardinality(Live)
      <4> HIDE DEF rest
      <4> QED BY <3>1, LiveFacts, FS_Subset
    <3>3. Cardinality(rest) \in Nat
      <4> HIDE DEF rest
      <4> QED BY <3>2, FS_CardinalityType
    <3> HIDE DEF rest, new
    <3>4. /\ IsFiniteSet(rest \union {new})
          /\ Cardinality(rest \union {new}) \in {Cardinality(rest), Cardinality(rest) + 1}
      BY <3>2, FS_AddElement
    <3>5. Cardinality(zset') <= MaxLimit
      BY <2>1, <2>3, <3>2, <3>3, <3>4, LiveFacts
    <3>6. OneEntryEach'
      BY <2>3, <3>1, LiveFacts DEF OneEntryEach
    <3> QED BY <2>3, <3>4, <3>5, <3>6 DEF SetIsSmall
  <2> QED BY <1>2, <2>2, <2>3 DEF RunScript, Script
<1>3. CASE UNCHANGED vars
  BY <1>1, <1>3 DEF vars
<1> QED BY <1>1, <1>2, <1>3 DEF Next, Step, Tick, Send, Retry, GiveUp, Reply

\* Admissions of different requests have different members.
LEMMA AdmissionsDiffer ==
  ASSUME Types, MembersDiffer, NEW a \in Admitted, NEW b \in Admitted, a.member = b.member
  PROVE  a = b
<1>1. \A d \in Admitted :
        \/ d \in passed
        \/ \E r \in Requests : At(r, "answered") /\ d = Granted(r)
  BY DEF Admitted
<1>2. \A r \in Requests : Granted(r).member = call[r].member /\ (At(r, "answered") => ~At(r, "idle"))
  BY DEF Granted, At
<1>3. CASE a \in passed
  BY <1>1, <1>2, <1>3 DEF MembersDiffer
<1>4. CASE \E r \in Requests : At(r, "answered") /\ a = Granted(r)
  BY <1>1, <1>2, <1>4 DEF MembersDiffer
<1> QED BY <1>1, <1>3, <1>4

\* Nothing but the script admits a request.
LEMMA OnlyTheScriptAdmits ==
  ASSUME Types, NEW r \in Requests, Step(r) PROVE Admitted' \subseteq Admitted
<1>0. \A s \in Requests : call[s] \in Calls
  BY DEF Types
<1>1. ASSUME NEW c, Moves(r, c), c.stage # "answered", passed' = passed
      PROVE  Admitted' \subseteq Admitted
  <2>1. \A s \in Requests : call'[s] = IF s = r THEN c ELSE call[s]
    BY <1>1, CallAfter
  <2> QED BY <1>1, <2>1 DEF Admitted, Granted, At
<1>i. Idle.stage # "answered"
  BY DEF Idle
<1>2. CASE Send(r)
  <2>1. PICK limit \in Limits :
          Moves(r, [Idle EXCEPT !.stage = "waiting", !.member = sent', !.limit = limit, !.try = 1])
    BY <1>2 DEF Send
  <2> DEFINE c == [Idle EXCEPT !.stage = "waiting", !.member = sent', !.limit = limit, !.try = 1]
  <2>2. c.stage # "answered" /\ passed' = passed
    BY <1>2 DEF Idle, Send
  <2> HIDE DEF c
  <2>3. Moves(r, c)
    BY <2>1 DEF c
  <2> QED BY <1>1, <2>2, <2>3
<1>3. CASE Retry(r)
  <2> DEFINE c == [call[r] EXCEPT !.stage = "waiting", !.try = @ + 1, !.allowed = FALSE, !.at = 0]
  <2>1. Moves(r, c) /\ c.stage # "answered" /\ passed' = passed
    BY <1>0, <1>3 DEF Retry, Calls
  <2> HIDE DEF c
  <2> QED BY <1>1, <2>1
<1>4. ASSUME Moves(r, Idle), NEW p, passed' \subseteq passed \union {p}, p.degraded \/ p \in Admitted
      PROVE  Admitted' \subseteq Admitted
  <2>1. \A s \in Requests : call'[s] = IF s = r THEN Idle ELSE call[s]
    BY <1>4, CallAfter
  <2> QED BY <1>4, <1>i, <2>1 DEF Admitted, Granted, At
<1>5. CASE GiveUp(r)
  <2> DEFINE p == [member |-> call[r].member, at |-> clock, degraded |-> TRUE]
  <2>1. p.degraded
    BY Zenon
  <2>2. Moves(r, Idle) /\ passed' \subseteq passed \union {p}
    BY <1>5 DEF GiveUp, Passes
  <2> HIDE DEF p
  <2> QED BY <1>4, <2>1, <2>2
<1>6. CASE Reply(r)
  <2>1. Moves(r, Idle) /\ At(r, "answered") /\ (call[r].allowed \/ passed' = passed)
    BY <1>6 DEF Reply
  <2>2. passed' = passed \/ passed' = passed \union {Granted(r)}
    BY <1>6 DEF Reply, Passes, Granted
  <2>3. CASE passed' = passed
    BY <1>1, <1>i, <2>1, <2>3
  <2>4. CASE passed' # passed
    <3>1. Granted(r) \in Admitted
      BY <2>1, <2>4 DEF Admitted
    <3> QED BY <1>4, <2>1, <2>2, <2>4, <3>1
  <2> QED BY <2>3, <2>4
<1> QED BY <1>2, <1>3, <1>5, <1>6 DEF Step

\* The script admits the request that waits for it, if it does, and only when the
\* set had room.
LEMMA ScriptAdmits ==
  ASSUME Types, MembersDiffer, NEW c \in wire, RunScript(c), NEW a \in Admitted', a \notin Admitted
  PROVE  /\ Cardinality(Live) < c.limit
         /\ a = [member |-> c.member, at |-> clock, degraded |-> FALSE]
         /\ \A b \in Admitted : b.member # c.member
<1>0. \A s \in Requests : call[s] \in Calls
  BY DEF Types
<1>1. PICK r \in Requests : At(r, "answered")' /\ call'[r].allowed /\ a = Granted(r)'
  BY DEF RunScript, Admitted
<1>2. At(r, "waiting") /\ Command(call[r]) = c
  <2>1. call'[r] # call[r]
    BY <1>1 DEF Admitted, At, Granted
  <2> QED BY <2>1, CallAfterScript
<1> DEFINE allowed == Cardinality(Live) < c.limit
<1> HIDE DEF allowed
<1>3. call'[r] = [call[r] EXCEPT !.stage = "answered", !.allowed = allowed, !.at = clock]
  BY <1>2, CallAfterScript, Zenon DEF allowed
<1>4. call'[r].allowed = allowed /\ call'[r].at = clock /\ call'[r].member = call[r].member
  BY <1>0, <1>3 DEF Calls
<1>5. call[r].member = c.member
  BY <1>2 DEF Command
<1>6. \A b \in Admitted : b.member # c.member
  <2>1. \A s \in Requests : At(s, "answered") => s # r /\ ~At(s, "idle")
    BY <1>2 DEF At
  <2>2. ~At(r, "idle")
    BY <1>2 DEF At
  <2> QED BY <1>5, <2>1, <2>2 DEF Admitted, Granted, MembersDiffer
<1> QED BY <1>1, <1>4, <1>5, <1>6 DEF allowed, Granted

\* An admission within its window has its entry among those the script counts.
LEMMA StillCounted ==
  ASSUME Types, Recorded, NEW a \in Admitted, a.at + Window > clock
  PROVE  \E e \in Live : e.member = a.member /\ a.at <= e.score
<1>1. a.at \in Nat /\ clock \in Nat /\ expires \in Nat
  BY DEF Types, Admitted, Admissions, Granted, Calls
<1>2. PICK e \in zset : e.member = a.member /\ a.at <= e.score
  BY DEF Recorded
<1>3. a.at + Ttl <= expires
  BY DEF Recorded
<1>4. e.score \in Nat
  BY DEF Types, Entries
<1>5. e.score > clock - Window /\ ~(expires <= clock)
  BY <1>1, <1>2, <1>3, <1>4, TimesAssumption
<1> QED BY <1>2, <1>5 DEF Live

\* Neither time nor another script takes an entry away while it counts.
LEMMA RecordedStep == Types /\ MembersDiffer /\ Recorded /\ [Next]_vars => Recorded'
<1> SUFFICES ASSUME Types, MembersDiffer, Recorded, [Next]_vars PROVE Recorded'
  OBVIOUS
<1>0. clock \in Nat /\ expires \in Nat /\ \A a \in Admitted : a.at \in Nat
  BY DEF Types, Admitted, Admissions, Granted, Calls
<1>1. CASE Tick
  <2>1. Admitted' = Admitted
    BY <1>1 DEF Tick, Admitted, Granted, At
  <2>2. clock' = clock + 1 /\ zset' = zset /\ expires' = expires
    BY <1>1 DEF Tick
  <2> QED BY <1>0, <2>1, <2>2, TimesAssumption DEF Recorded
<1>2. ASSUME NEW r \in Requests, Step(r) PROVE Recorded'
  <2>1. clock' = clock /\ zset' = zset /\ expires' = expires
    BY <1>2 DEF Step, Send, Retry, GiveUp, Reply
  <2> QED BY <1>2, <2>1, OnlyTheScriptAdmits DEF Recorded
<1>3. ASSUME NEW c \in wire, RunScript(c) PROVE Recorded'
  <2> SUFFICES ASSUME NEW a \in Admitted'
               PROVE  /\ a.at <= clock
                      /\ a.at + Window > clock =>
                           /\ a.at + Ttl <= expires'
                           /\ \E e \in zset' : e.member = a.member /\ a.at <= e.score
    BY <1>3 DEF RunScript, Recorded
  <2>1. expires' = clock + Ttl
    BY <1>3 DEF RunScript, Script
  <2>2. Score(c.member).member = c.member /\ Score(c.member).score = clock
    BY DEF Score
  <2>3. CASE a \notin Admitted
    <3>1. Cardinality(Live) < c.limit /\ a.member = c.member /\ a.at = clock
      BY <1>3, <2>3, ScriptAdmits
    <3>2. Score(c.member) \in zset'
      BY <1>3, <3>1 DEF RunScript, Script
    <3> QED BY <1>0, <2>1, <2>2, <3>1, <3>2
  <2>4. CASE a \in Admitted
    <3>1. a.at <= clock
      BY <2>4 DEF Recorded
    <3>2. ASSUME a.at + Window > clock
          PROVE  \E e \in zset' : e.member = a.member /\ a.at <= e.score
      <4>1. PICK e \in Live : e.member = a.member /\ a.at <= e.score
        BY <2>4, <3>2, StillCounted
      <4>2. e \in zset' \/ (e.member = c.member /\ Score(c.member) \in zset')
        BY <1>3, <4>1 DEF RunScript, Script, Others
      <4> QED BY <2>2, <3>1, <4>1, <4>2
    <3>3. a.at + Ttl <= clock + Ttl
      BY <1>0, <2>4, <3>1, TimesAssumption
    <3> QED BY <2>1, <3>1, <3>2, <3>3
  <2> QED BY <2>3, <2>4
<1>4. CASE UNCHANGED vars
  BY <1>4 DEF vars, Recorded, Admitted, Granted, At
<1> QED BY <1>1, <1>2, <1>3, <1>4 DEF Next

\* The admissions of a window that has not passed are no more than the entries the
\* script counts: each has its own.
LEMMA NoMoreThanLive ==
  ASSUME Types, MembersDiffer, SetIsSmall, Recorded,
         NEW S, S \subseteq Admitted, \A a \in S : a.at + Window > clock
  PROVE  IsFiniteSet(S) /\ Cardinality(S) <= Cardinality(Live)
<1> DEFINE entry == [a \in S |-> CHOOSE e \in Live : e.member = a.member]
<1>1. \A a \in S : entry[a] \in Live /\ entry[a].member = a.member
  BY StillCounted
<1>2. \A a, b \in S : entry[a] = entry[b] => a = b
  BY <1>1, AdmissionsDiffer
<1>3. entry \in [S -> Live]
  BY <1>1
<1> HIDE DEF entry
<1>4. entry \in Injection(S, Live)
  BY <1>2, <1>3 DEF Injection, IsInjective
<1> QED BY <1>4, LiveFacts, FS_Injection

\* Fewer admissions are no more admissions of any window.
LEMMA WithinSubset ==
  ASSUME NEW S, NEW T, S \subseteq T, NEW t, IsFiniteSet(Within(T, t)),
         Cardinality(Within(T, t)) <= MaxLimit
  PROVE  IsFiniteSet(Within(S, t)) /\ Cardinality(Within(S, t)) <= MaxLimit
<1>1. Within(S, t) \in SUBSET Within(T, t)
  BY DEF Within
<1>2. IsFiniteSet(Within(S, t)) /\ Cardinality(Within(S, t)) <= Cardinality(Within(T, t))
  BY <1>1, FS_Subset
<1>3. Cardinality(Within(S, t)) \in Nat /\ Cardinality(Within(T, t)) \in Nat
  BY <1>2, FS_CardinalityType
<1> QED BY <1>2, <1>3, LimitsAssumption

\* A script that admits had room for one more in every window that holds the present.
LEMMA WindowStep ==
  Types /\ MembersDiffer /\ SetIsSmall /\ Recorded /\ WindowHoldsALimit /\ [Next]_vars
    => WindowHoldsALimit'
<1> SUFFICES ASSUME Types, MembersDiffer, SetIsSmall, Recorded, WindowHoldsALimit, [Next]_vars
             PROVE  WindowHoldsALimit'
  OBVIOUS
<1>1. CASE Admitted' \subseteq Admitted
  BY <1>1, WithinSubset DEF WindowHoldsALimit
<1>2. ASSUME NEW c \in wire, RunScript(c), ~(Admitted' \subseteq Admitted)
      PROVE  WindowHoldsALimit'
  <2> DEFINE new == [member |-> c.member, at |-> clock, degraded |-> FALSE]
  <2>1. PICK a \in Admitted' : a \notin Admitted
    BY <1>2
  <2>2. Cardinality(Live) < c.limit
    BY <1>2, <2>1, ScriptAdmits
  <2>3. Admitted' \subseteq Admitted \union {new}
    BY <1>2, ScriptAdmits
  <2>4. new.at = clock
    OBVIOUS
  <2> HIDE DEF new
  <2> SUFFICES ASSUME NEW t \in Nat
               PROVE  /\ IsFiniteSet(Within(Admitted', t))
                      /\ Cardinality(Within(Admitted', t)) <= MaxLimit
    BY DEF WindowHoldsALimit, Within
  <2> DEFINE S == Within(Admitted, t)
  <2>5. IsFiniteSet(S) /\ Cardinality(S) <= MaxLimit
    BY DEF WindowHoldsALimit
  <2>6. CASE ~(t <= clock /\ clock < t + Window)
    <3>1. Within(Admitted', t) = Within(Admitted' \intersect Admitted, t)
      BY <2>3, <2>4, <2>6 DEF Within
    <3> QED BY <2>5, <3>1, WithinSubset
  <2>7. CASE t <= clock /\ clock < t + Window
    <3>1. S \subseteq Admitted /\ \A d \in S : d.at + Window > clock
      <4>1. \A d \in Admitted : d.at \in Nat
        BY DEF Types, Admitted, Admissions, Granted, Calls
      <4>2. clock \in Nat
        BY DEF Types
      <4> QED BY <2>7, <4>1, <4>2, TimesAssumption DEF Within
    <3>2. Cardinality(S) <= Cardinality(Live)
      <4> HIDE DEF S
      <4> QED BY <3>1, NoMoreThanLive
    <3>3. Cardinality(S) \in Nat
      BY <2>5, FS_CardinalityType
    <3>4. Cardinality(S) + 1 <= MaxLimit
      <4>1. c.limit \in Nat /\ c.limit <= MaxLimit /\ MaxLimit \in Nat
        BY LimitsAssumption DEF Types, Commands
      <4>2. Cardinality(Live) \in Nat
        BY LiveFacts
      <4> HIDE DEF S
      <4> QED BY <2>2, <3>2, <3>3, <4>1, <4>2
    <3>5. Within(Admitted', t) \in SUBSET (S \union {new})
      BY <2>3 DEF Within
    <3> HIDE DEF S
    <3>6. IsFiniteSet(S \union {new})
          /\ Cardinality(S \union {new}) \in {Cardinality(S), Cardinality(S) + 1}
      BY <2>5, FS_AddElement
    <3>7. IsFiniteSet(Within(Admitted', t))
          /\ Cardinality(Within(Admitted', t)) <= Cardinality(S \union {new})
      BY <3>5, <3>6, FS_Subset
    <3>8. Cardinality(Within(Admitted', t)) \in Nat
      BY <3>7, FS_CardinalityType
    <3> QED BY <3>3, <3>4, <3>6, <3>7, <3>8, LimitsAssumption
  <2> QED BY <2>6, <2>7
<1>3. CASE Tick \/ UNCHANGED vars
  <2>1. Admitted' = Admitted
    BY <1>3 DEF Tick, vars, Admitted, Granted, At
  <2> QED BY <1>1, <2>1
<1> QED BY <1>1, <1>2, <1>3, OnlyTheScriptAdmits DEF Next

\* Only the fail-open policy lets a request through without an answer.
LEMMA DegradedStep == DegradedIfOpen /\ [Next]_vars => DegradedIfOpen'
<1> SUFFICES ASSUME DegradedIfOpen, [Next]_vars PROVE DegradedIfOpen'
  OBVIOUS
<1>1. failOpen' = failOpen
  BY DEF Next, vars
<1>2. CASE passed' = passed
  BY <1>1, <1>2 DEF DegradedIfOpen
<1>3. ASSUME NEW r \in Requests, GiveUp(r) PROVE DegradedIfOpen'
  BY <1>1, <1>2, <1>3 DEF GiveUp, Passes, DegradedIfOpen
<1>4. ASSUME NEW r \in Requests, Reply(r) PROVE DegradedIfOpen'
  <2>1. [member |-> call[r].member, at |-> call[r].at, degraded |-> FALSE].degraded = FALSE
    OBVIOUS
  <2>2. \A p \in passed' : p \in passed \/ p.degraded = FALSE
    BY <1>4, <2>1 DEF Reply, Passes
  <2> QED BY <1>1, <2>2 DEF DegradedIfOpen
<1> QED BY <1>2, <1>3, <1>4 DEF Next, Step, Tick, Send, Retry, RunScript, vars

-----------------------------------------------------------------------------
\* No minute of Redis time holds more counted requests than the largest limit, and
\* the set never more members, whatever is lost, sent twice, or run after the
\* request was given up.
THEOREM SharedWindowExactHolds == Spec => []SharedWindowExact
<1> DEFINE Inv == /\ Types /\ MembersDiffer /\ SetIsSmall /\ OneEntryEach /\ Recorded
                  /\ WindowHoldsALimit /\ DegradedIfOpen
<1>1. Init => Inv
  <2> SUFFICES ASSUME Init PROVE Inv
    OBVIOUS
  <2>1. Admitted = {} /\ \A t : Within(Admitted, t) = {}
    BY DEF Init, Admitted, At, Idle, Within
  <2>2. SetIsSmall /\ WindowHoldsALimit
    BY <2>1, FS_EmptySet, LimitsAssumption DEF Init, SetIsSmall, WindowHoldsALimit
  <2> QED BY <2>1, <2>2, TypesInit
          DEF Init, MembersDiffer, OneEntryEach, Recorded, DegradedIfOpen, At, Idle
<1>2. Inv /\ [Next]_vars => Inv'
  BY TypesStep, MembersStep, SetStep, RecordedStep, WindowStep, DegradedStep
<1>3. Inv => SharedWindowExact
  <2> SUFFICES ASSUME Inv, NEW e \in passed
               PROVE  Cardinality({f \in passed : /\ failOpen => ~f.degraded
                                                  /\ e.at <= f.at /\ f.at < e.at + Window}) <= MaxLimit
    BY DEF SharedWindowExact, SetIsSmall
  <2> DEFINE S == {f \in passed : ~f.degraded}
  <2>1. {f \in passed : /\ failOpen => ~f.degraded
                        /\ e.at <= f.at /\ f.at < e.at + Window} = Within(S, e.at)
    BY DEF DegradedIfOpen, Within
  <2>2. S \subseteq Admitted
    BY DEF Admitted
  <2>3. e.at \in Nat
    BY DEF Types, Admissions
  <2> QED BY <2>1, <2>2, <2>3, WithinSubset DEF WindowHoldsALimit
<1> QED BY <1>1, <1>2, <1>3, PTL DEF Spec

-----------------------------------------------------------------------------
\* A member is in the set because its request was let through, or its fate is unknown.
LEMMA ChargedStep ==
  Types /\ MembersDiffer /\ StragglersAreUnsure /\ Charged /\ [Next]_vars
    => StragglersAreUnsure' /\ Charged'
<1> SUFFICES ASSUME Types, MembersDiffer, StragglersAreUnsure, Charged, [Next]_vars
             PROVE  StragglersAreUnsure' /\ Charged'
  OBVIOUS
<1>0. \A r \in Requests : call[r] \in Calls
  BY DEF Types
<1>1. CASE Tick \/ UNCHANGED vars
  BY <1>1 DEF Tick, vars, StragglersAreUnsure, Charged, At
<1>2. ASSUME NEW r \in Requests, NEW c, Moves(r, c), zset' = zset, passed \subseteq passed',
             unsure \subseteq unsure',
             wire' \subseteq wire \/ (c.stage = "waiting" /\ wire' = wire \union {Command(c)}),
             At(r, "waiting") => call[r].member \in unsure',
             At(r, "answered") /\ call[r].allowed =>
               call[r].member \in unsure' \/ \E p \in passed' : p.member = call[r].member
      PROVE  StragglersAreUnsure' /\ Charged'
  <2>1. \A s \in Requests : call'[s] = IF s = r THEN c ELSE call[s]
    BY <1>2, CallAfter
  <2>2. \A k \in wire : k.member \in unsure' \/ \E s \in Requests : At(s, "waiting")' /\ Command(call'[s]) = k
    <3> SUFFICES ASSUME NEW k \in wire, k.member \notin unsure'
                 PROVE  \E s \in Requests : At(s, "waiting")' /\ Command(call'[s]) = k
      OBVIOUS
    <3>1. PICK s \in Requests : At(s, "waiting") /\ Command(call[s]) = k
      BY <1>2 DEF StragglersAreUnsure
    <3>2. s # r
      BY <1>2, <3>1 DEF Command
    <3> QED BY <2>1, <3>1, <3>2 DEF At
  <2>3. StragglersAreUnsure'
    <3>1. c.stage = "waiting" => At(r, "waiting")' /\ Command(call'[r]) = Command(c)
      BY <2>1 DEF At
    <3> QED BY <1>2, <2>2, <3>1 DEF StragglersAreUnsure
  <2>4. Charged'
    <3> SUFFICES ASSUME NEW e \in zset, e.member \notin unsure', \A p \in passed' : p.member # e.member
                 PROVE  \E s \in Requests : At(s, "answered")' /\ call'[s].allowed /\ call'[s].member = e.member
      BY <1>2 DEF Charged
    <3>1. PICK s \in Requests : At(s, "answered") /\ call[s].allowed /\ call[s].member = e.member
      BY <1>2 DEF Charged
    <3>2. s # r
      BY <1>2, <3>1
    <3> QED BY <2>1, <3>1, <3>2 DEF At
  <2> QED BY <2>3, <2>4
<1>3. ASSUME NEW r \in Requests, Send(r) PROVE StragglersAreUnsure' /\ Charged'
  <2>1. PICK limit \in Limits :
          LET c == [Idle EXCEPT !.stage = "waiting", !.member = sent', !.limit = limit, !.try = 1]
          IN Moves(r, c) /\ wire' = wire \union {Command(c)}
    BY <1>3 DEF Send
  <2> DEFINE c == [Idle EXCEPT !.stage = "waiting", !.member = sent', !.limit = limit, !.try = 1]
  <2>2. c.stage = "waiting" /\ Moves(r, c) /\ wire' = wire \union {Command(c)}
    BY <2>1 DEF Idle
  <2>3. ~At(r, "waiting") /\ ~At(r, "answered")
    BY <1>3 DEF Send, At
  <2>4. zset' = zset /\ passed' = passed /\ unsure' = unsure
    BY <1>3 DEF Send
  <2> HIDE DEF c
  <2> QED BY <1>2, <2>2, <2>3, <2>4
<1>4. ASSUME NEW r \in Requests, Retry(r) PROVE StragglersAreUnsure' /\ Charged'
  <2> DEFINE c == [call[r] EXCEPT !.stage = "waiting", !.try = @ + 1, !.allowed = FALSE, !.at = 0]
  <2>1. Moves(r, c) /\ wire' = wire \union {Command(c)}
    BY <1>4 DEF Retry
  <2>2. c.stage = "waiting"
    BY <1>0 DEF Calls
  <2>3. zset' = zset /\ passed' = passed /\ unsure' = unsure \union {call[r].member}
    BY <1>4 DEF Retry
  <2> HIDE DEF c
  <2> QED BY <1>2, <2>1, <2>2, <2>3
<1>5. ASSUME NEW r \in Requests, GiveUp(r) PROVE StragglersAreUnsure' /\ Charged'
  <2>1. Moves(r, Idle) /\ wire' = wire /\ zset' = zset /\ passed \subseteq passed'
        /\ unsure' = unsure \union {call[r].member}
    BY <1>5 DEF GiveUp, Passes
  <2> QED BY <1>2, <2>1
<1>6. ASSUME NEW r \in Requests, Reply(r) PROVE StragglersAreUnsure' /\ Charged'
  <2>1. Moves(r, Idle) /\ wire' = wire /\ zset' = zset /\ passed \subseteq passed' /\ unsure' = unsure
    BY <1>6 DEF Reply, Passes
  <2>2. call[r].allowed => \E p \in passed' : p.member = call[r].member
    <3> DEFINE p == [member |-> call[r].member, at |-> call[r].at, degraded |-> FALSE]
    <3>1. call[r].allowed => passed' = passed \union {p}
      BY <1>6 DEF Reply, Passes
    <3>2. p.member = call[r].member
      OBVIOUS
    <3> HIDE DEF p
    <3> QED BY <3>1, <3>2
  <2>3. ~At(r, "waiting")
    BY <1>6 DEF Reply, At
  <2> QED BY <1>2, <2>1, <2>2, <2>3
<1>7. ASSUME NEW c \in wire, RunScript(c) PROVE StragglersAreUnsure' /\ Charged'
  <2> DEFINE allowed == Cardinality(Live) < c.limit
  <2> HIDE DEF allowed
  <2>1. \A s \in Requests :
          call'[s] = IF At(s, "waiting") /\ Command(call[s]) = c
                     THEN [call[s] EXCEPT !.stage = "answered", !.allowed = allowed, !.at = clock]
                     ELSE call[s]
    BY <1>7, CallAfterScript, Zenon DEF allowed
  <2>2. /\ wire' = wire \ {c} /\ passed' = passed /\ unsure' = unsure
        /\ zset' \subseteq zset \union (IF allowed THEN {Score(c.member)} ELSE {})
    BY <1>7 DEF RunScript, Script, allowed, Live, Others
  <2>3. StragglersAreUnsure'
    BY <2>1, <2>2 DEF StragglersAreUnsure, At
  <2>4. \A s \in Requests : At(s, "answered") => call'[s] = call[s]
    BY <2>1 DEF At
  <2>5. ASSUME allowed, c.member \notin unsure
        PROVE  \E s \in Requests : At(s, "answered")' /\ call'[s].allowed /\ call'[s].member = c.member
    <3>1. PICK s \in Requests : At(s, "waiting") /\ Command(call[s]) = c
      BY <2>5 DEF StragglersAreUnsure
    <3>2. call'[s] = [call[s] EXCEPT !.stage = "answered", !.allowed = allowed, !.at = clock]
      BY <2>1, <3>1
    <3>3. call'[s].stage = "answered" /\ call'[s].allowed = allowed /\ call'[s].member = call[s].member
      BY <1>0, <3>2 DEF Calls
    <3> QED BY <2>5, <3>1, <3>3 DEF At, Command
  <2>6. Score(c.member).member = c.member
    BY DEF Score
  <2>7. Charged'
    <3> SUFFICES ASSUME NEW e \in zset', e.member \notin unsure, \A p \in passed : p.member # e.member
                 PROVE  \E s \in Requests : At(s, "answered")' /\ call'[s].allowed /\ call'[s].member = e.member
      BY <2>2 DEF Charged
    <3>1. CASE e \in zset
      BY <2>4, <3>1 DEF Charged, At
    <3>2. CASE allowed /\ e = Score(c.member)
      BY <2>5, <2>6, <3>2
    <3> QED BY <2>2, <3>1, <3>2
  <2> QED BY <2>3, <2>7
<1> QED BY <1>1, <1>3, <1>4, <1>5, <1>6, <1>7 DEF Next, Step

\* Every member in the set stands for one request that was let through or is about
\* to be, or for one whose command was sent again or given up.
THEOREM ChargedForAReasonHolds == Spec => []ChargedForAReason
<1> DEFINE Inv == /\ Types /\ MembersDiffer /\ SetIsSmall /\ OneEntryEach
                  /\ StragglersAreUnsure /\ Charged
<1>1. Init => Inv
  BY TypesInit, FS_EmptySet, LimitsAssumption
     DEF Init, MembersDiffer, SetIsSmall, OneEntryEach, StragglersAreUnsure, Charged, At, Idle
<1>2. Inv /\ [Next]_vars => Inv'
  BY TypesStep, MembersStep, SetStep, ChargedStep
<1>3. Inv => ChargedForAReason
  BY DEF ChargedForAReason, OneEntryEach, Charged
<1> QED BY <1>1, <1>2, <1>3, PTL DEF Spec
=============================================================================
