----------------------------- MODULE RateWindow -----------------------------
(***************************************************************************)
(* The in-memory sliding window of one client token                        *)
(* (internal/gateway/ratelimit.go) under concurrent requests.  serveHTTP   *)
(* reads the clock before the backend's and the window's mutexes           *)
(* (gateway.go:290), so requests may reach the window out of the order of  *)
(* their clock readings, by at most MaxLag ticks.  Each request carries    *)
(* the limit of the runtime snapshot it captured, so a reload that changes *)
(* rate_limit_rpm leaves both limits in use for a while.                   *)
(***************************************************************************)
EXTENDS Integers, Sequences, FiniteSets

CONSTANTS
  Requests,  \* goroutines that serve the client's requests, again and again
  Limits,    \* values of rate_limit_rpm; 0 is unlimited
  MaxLimit,  \* the largest of them
  Window,    \* time.Minute, in ticks
  Second,    \* time.Second, in ticks
  MaxLag,    \* bound: ticks between time.Now() and the window's mutex
  MaxTime    \* bound: length of the run, in ticks

ASSUME LimitsAssumption ==
  /\ Limits \subseteq Nat
  /\ MaxLimit \in Nat
  /\ \A l \in Limits : l <= MaxLimit
ASSUME TimesAssumption ==
  Window \in Nat \ {0} /\ Second \in Nat \ {0} /\ MaxLag \in Nat /\ MaxTime \in Nat

VARIABLES
  now,       \* the clock
  requests,  \* rateWindow.requests: admission instants still retained
  call,      \* call[r]: where request r is
  admitted,  \* history: the instants of all admissions, in mutex order
  told       \* history: a Retry-After given since the last admission, or Untold

vars == <<now, requests, call, admitted, told>>

Calls == [stage : {"idle", "waiting"}, clock : Int, limit : Limits \union {0}]
Idle == [stage |-> "idle", clock |-> 0, limit |-> 0]

Tellings == [at : Int, limit : Limits \union {0}]
Untold == [at |-> 0, limit |-> 0]

At(r, stage) == call[r].stage = stage
Moves(r, c) == call' = [call EXCEPT ![r] = c]

Init ==
  /\ now = 0
  /\ requests = <<>>
  /\ call = [r \in Requests |-> Idle]
  /\ admitted = <<>>
  /\ told = Untold

-----------------------------------------------------------------------------
\* The loop of prune, on entries s with the given cutoff, stops after n entries:
\* it drops from the front while entries are not after the cutoff, and does not
\* look behind the first later one.
PruneStops(s, cutoff, n) ==
  /\ \A i \in 1..n : s[i] <= cutoff
  /\ n < Len(s) => s[n + 1] > cutoff

\* Mutants of Pruned: a fixed window, which forgets all its entries when the
\* oldest has expired; no pruning at all.
PrunedFixedWindow(s, t) == {IF s # <<>> /\ s[1] <= t - Window THEN <<>> ELSE s}
PrunedNever(s, t) == {s}

\* What prune(t) leaves of s, as a set with this one element.
Pruned(s, t) ==
  {SubSeq(s, n + 1, Len(s)) : n \in {m \in 0..Len(s) : PruneStops(s, t - Window, m)}}

\* The handler takes the limit from its snapshot and the time from the clock.
Arrive(r) ==
  /\ At(r, "idle")
  /\ \E limit \in Limits :
       Moves(r, [stage |-> "waiting", clock |-> now, limit |-> limit])
  /\ UNCHANGED <<now, requests, admitted, told>>

\* A limit of zero never reaches the window.
AllowUnlimited(r) ==
  /\ At(r, "waiting")
  /\ call[r].limit = 0
  /\ Moves(r, Idle)
  /\ UNCHANGED <<now, requests, admitted, told>>

\* rateWindow.allow under its mutex.
Allow(r) ==
  /\ At(r, "waiting")
  /\ call[r].limit > 0
  /\ \E retained \in Pruned(requests, call[r].clock) :
       /\ Len(retained) < call[r].limit
       /\ requests' = Append(retained, call[r].clock)
  /\ admitted' = Append(admitted, call[r].clock)
  /\ told' = Untold
  /\ Moves(r, Idle)
  /\ UNCHANGED now

\* RetryAfter of a rejection (clamped at zero).
RetryAfter(retained, t) ==
  LET reset == Window - (t - retained[1]) IN IF reset < 0 THEN 0 ELSE reset

\* Mutant of Rounded: the fraction of a second is cut off.
RoundedDown(d) == d - (d % Second)

\* Duration.Round(time.Second), for durations that are not negative.
Rounded(d) ==
  LET rest == d % Second IN IF 2 * rest < Second THEN d - rest ELSE d + (Second - rest)

\* The Retry-After header: whole seconds, and one at least.
Header(d) == IF Rounded(d) < Second THEN Second ELSE Rounded(d)

\* The answer 429, after which the client counts the seconds of its header.  It is
\* recorded if one place of the quota is what it waits for: where the limit was
\* lowered more entries may be retained, and the header names the end of the first.
Reject(r) ==
  /\ At(r, "waiting")
  /\ call[r].limit > 0
  /\ \E retained \in Pruned(requests, call[r].clock) :
       /\ Len(retained) >= call[r].limit
       /\ requests' = retained
       /\ told' = IF Len(retained) > call[r].limit THEN told
                  ELSE [at    |-> now + Header(RetryAfter(retained, call[r].clock)),
                        limit |-> call[r].limit]
  /\ Moves(r, Idle)
  /\ UNCHANGED <<now, admitted>>

Tick ==
  /\ now < MaxTime
  /\ \A r \in Requests : At(r, "waiting") => now - call[r].clock < MaxLag
  /\ now' = now + 1
  /\ UNCHANGED <<requests, call, admitted, told>>

Step(r) == Arrive(r) \/ AllowUnlimited(r) \/ Allow(r) \/ Reject(r)
Next == Tick \/ \E r \in Requests : Step(r)
Spec == Init /\ [][Next]_vars

-----------------------------------------------------------------------------
\* The memory of a token is bounded by its largest limit.
TypeOK ==
  /\ now \in Nat
  /\ requests \in Seq(Int)
  /\ Len(requests) <= MaxLimit
  /\ call \in [Requests -> Calls]
  /\ admitted \in Seq(Int)
  /\ told \in Tellings

\* Admissions in the window of the given length that starts at instant t.
AdmittedIn(t, length) ==
  {i \in DOMAIN admitted : t <= admitted[i] /\ admitted[i] < t + length}

\* The documented contract: no one-minute window holds more admissions than the
\* limit (ratelimit.go:8; docs/RATE_LIMITING.md:3).
ExactWindow ==
  \A i \in DOMAIN admitted : Cardinality(AdmittedIn(admitted[i], Window)) <= MaxLimit

\* What the code guarantees whatever the order in which requests reach the
\* mutex: a full quota of admissions spans at least a window less MaxLag, in
\* every pair of admissions a quota apart (ratelimit.go:28-39, 58-72).
QuotaSpansWindow ==
  \A i, j \in DOMAIN admitted :
    j - i >= MaxLimit => admitted[j] - admitted[i] >= Window - MaxLag

\* A client is told 429 only when it really had its limit of admissions in the
\* window that ends now, MaxLag ticks more at most: an entry hidden behind a
\* later one outlives its minute by no more than that (ratelimit.go:63-66).
RejectionsAreEarned ==
  [][\A r \in Requests : Reject(r) =>
       Cardinality({i \in DOMAIN admitted :
                      admitted[i] > call[r].clock - Window - MaxLag}) >= call[r].limit]_vars

\* Retry-After is the exact wait rounded to the nearest second, so it may name an
\* instant at which the token still has no place (gateway.go:306-309).  Half a second
\* more is enough: from then on no request under the limit it was told for, or a
\* higher one, is rejected until the token is admitted again, whatever stragglers
\* and requests under other limits pruned in between (ratelimit.go:29-36, 55-72).
RetryAfterIsEnough ==
  [][\A r \in Requests :
       Reject(r) /\ told # Untold /\ call[r].limit >= told.limit =>
         call[r].clock < told.at + Second \div 2]_vars
=============================================================================
