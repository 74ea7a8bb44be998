----------------------------- MODULE TokenQuota -----------------------------
(***************************************************************************)
(* The in-memory rate-limit backend's windows across hot reloads           *)
(* (internal/gateway/ratelimit_backend.go, Gateway.Reload in runtime.go).  *)
(*                                                                         *)
(* A request looks up or creates its token's window under the backend's    *)
(* mutex and counts itself under the window's own mutex; in between, a     *)
(* reload may delete that window from the map (Retain), and the request    *)
(* goes on with a window nobody else finds.  A run of this module lasts    *)
(* less than a minute, so that no entry expires and a window is the number *)
(* of its entries; RateWindow has the sliding of one window.               *)
(***************************************************************************)
EXTENDS Naturals, Sequences

CONSTANTS
  Requests,
  Tokens,      \* application tokens that some configuration enables
  NoToken,     \* what an idle request carries
  Limit,       \* rate_limit_rpm of each of them
  MaxReloads   \* bound: reloads applied

ASSUME TokensAssumption == Tokens # {} /\ NoToken \notin Tokens
ASSUME LimitAssumption == Limit \in Nat \ {0}
ASSUME MaxReloadsAssumption == MaxReloads \in Nat

VARIABLES
  configured,  \* the tokens of the current runtime snapshot
  reload,      \* "idle", or "swapped" when only Retain is left to do
  windows,     \* windows[t]: t's window in the backend's map, NoWindow if none
  counts,      \* counts[w]: entries of window w, in the order of creation
  call,        \* call[r]: where request r is
  reloads,     \* bound: number of reloads so far
  admitted,    \* history: admissions of each token
  removals,    \* history: configurations that came without the token
  carried      \* history: tokens on their way to the map at the last Retain

vars == <<configured, reload, windows, counts, call, reloads, admitted, removals, carried>>
histories == <<admitted, removals, carried>>

NoWindow == 0

Idle == [stage |-> "idle", token |-> NoToken, window |-> NoWindow]
Calls ==
  {Idle}
    \union [stage : {"authenticated"}, token : Tokens, window : {NoWindow}]
    \union [stage : {"counting"}, token : Tokens, window : Nat \ {NoWindow}]

\* validate rejects a configuration that enables no client.
Configurations == (SUBSET Tokens) \ {{}}

At(r, stage) == call[r].stage = stage
Moves(r, c) == call' = [call EXCEPT ![r] = c]
Leaves(r) == Moves(r, Idle)

Init ==
  /\ configured \in Configurations
  /\ reload = "idle"
  /\ windows = [t \in Tokens |-> NoWindow]
  /\ counts = <<>>
  /\ call = [r \in Requests |-> Idle]
  /\ reloads = 0
  /\ admitted = [t \in Tokens |-> 0]
  /\ removals = [t \in Tokens |-> IF t \in configured THEN 0 ELSE 1]
  /\ carried = {}

-----------------------------------------------------------------------------
\* ServeHTTP takes the snapshot and authenticates the request against it.
Authenticate(r) ==
  /\ At(r, "idle")
  /\ \E t \in configured :
       Moves(r, [stage |-> "authenticated", token |-> t, window |-> NoWindow])
  /\ UNCHANGED <<configured, reload, windows, counts, reloads, histories>>

\* memoryRateLimitBackend.Allow under b.mu: the token's window, a new one if the
\* map has none.  The request's token may be gone from the configuration.
FindWindow(r) ==
  /\ At(r, "authenticated")
  /\ windows[call[r].token] # NoWindow
  /\ Moves(r, [call[r] EXCEPT !.stage = "counting", !.window = windows[call[r].token]])
  /\ UNCHANGED <<configured, reload, windows, counts, reloads, histories>>

\* Mutant of CreateWindow: the lookup is not repeated under the lock that writes.
CreateWindowAlways(r) ==
  /\ At(r, "authenticated")
  /\ counts' = Append(counts, 0)
  /\ windows' = [windows EXCEPT ![call[r].token] = Len(counts')]
  /\ Moves(r, [call[r] EXCEPT !.stage = "counting", !.window = Len(counts')])
  /\ UNCHANGED <<configured, reload, reloads, histories>>

CreateWindow(r) ==
  /\ At(r, "authenticated")
  /\ windows[call[r].token] = NoWindow
  /\ counts' = Append(counts, 0)
  /\ windows' = [windows EXCEPT ![call[r].token] = Len(counts')]
  /\ Moves(r, [call[r] EXCEPT !.stage = "counting", !.window = Len(counts')])
  /\ UNCHANGED <<configured, reload, reloads, histories>>

\* rateWindow.allow under w.mu, for the window found before.
AllowRequest(r) ==
  /\ At(r, "counting")
  /\ counts[call[r].window] < Limit
  /\ counts' = [counts EXCEPT ![call[r].window] = @ + 1]
  /\ admitted' = [admitted EXCEPT ![call[r].token] = @ + 1]
  /\ Leaves(r)
  /\ UNCHANGED <<configured, reload, windows, reloads, removals, carried>>

RejectRequest(r) ==
  /\ At(r, "counting")
  /\ counts[call[r].window] >= Limit
  /\ Leaves(r)
  /\ UNCHANGED <<configured, reload, windows, counts, reloads, histories>>

-----------------------------------------------------------------------------
\* Reload publishes the next snapshot under runtimeMu (Gateway.reloadMu admits
\* one reload at a time) ...
SwapSnapshot ==
  /\ reload = "idle"
  /\ reloads < MaxReloads
  /\ configured' \in Configurations
  /\ removals' = [t \in Tokens |-> IF t \in configured' THEN removals[t] ELSE removals[t] + 1]
  /\ reload' = "swapped"
  /\ reloads' = reloads + 1
  /\ UNCHANGED <<windows, counts, call, admitted, carried>>

Carried == {call[r].token : r \in {q \in Requests : At(q, "authenticated")}}

\* Mutants of Retain: the backend starts again from an empty map; it keeps what
\* it has.
RetainNothing ==
  /\ reload = "swapped"
  /\ windows' = [t \in Tokens |-> NoWindow]
  /\ carried' = Carried
  /\ reload' = "idle"
  /\ UNCHANGED <<configured, counts, call, reloads, admitted, removals>>

RetainEverything ==
  /\ reload = "swapped"
  /\ carried' = Carried
  /\ reload' = "idle"
  /\ UNCHANGED <<configured, windows, counts, call, reloads, admitted, removals>>

\* ... and then deletes the windows of all other tokens under b.mu.
Retain ==
  /\ reload = "swapped"
  /\ windows' = [t \in Tokens |-> IF t \in configured THEN windows[t] ELSE NoWindow]
  /\ carried' = Carried
  /\ reload' = "idle"
  /\ UNCHANGED <<configured, counts, call, reloads, admitted, removals>>

Step(r) ==
  \/ Authenticate(r) \/ FindWindow(r) \/ CreateWindow(r)
  \/ AllowRequest(r) \/ RejectRequest(r)

Next == SwapSnapshot \/ Retain \/ \E r \in Requests : Step(r)

Spec == Init /\ [][Next]_vars

-----------------------------------------------------------------------------
TypeOK ==
  /\ configured \in Configurations
  /\ reload \in {"idle", "swapped"}
  /\ windows \in [Tokens -> Nat]
  /\ counts \in Seq(Nat)
  /\ \A w \in 1..Len(counts) : counts[w] <= Limit
  /\ call \in [Requests -> Calls]
  /\ reloads \in Nat
  /\ admitted \in [Tokens -> Nat]
  /\ removals \in [Tokens -> Nat]
  /\ carried \subseteq Tokens

\* "in-memory quota survives ordinary reloads" (docs/ARCHITECTURE.md:116): a
\* token that every configuration enables never gets more than its limit within
\* the minute, whatever reloads and stragglers do to the other windows
\* (ratelimit_backend.go:41-49, 52-60).
QuotaSurvivesReloads ==
  \A t \in Tokens : removals[t] = 0 => admitted[t] <= Limit

\* A fresh quota is granted only by a configuration without the token: each
\* removal may bring one more window, counting the windows that were already
\* deleted but are still in the hands of a straggler.
QuotaPerRemoval ==
  \A t \in Tokens : admitted[t] <= Limit * (1 + removals[t])

\* The map does not grow with the tokens that ever existed: between reloads, a
\* window of a token that is no longer configured belongs to a request that had
\* authenticated before the last Retain and recreated it afterwards; it stays
\* until the next reload (ratelimit_backend.go:31-37, 41-49).
LeftoversAreStragglers ==
  reload = "idle" =>
    \A t \in Tokens : windows[t] # NoWindow => t \in configured \union carried
=============================================================================
