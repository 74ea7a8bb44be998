---------------------------- MODULE Books_proofs ----------------------------
(***************************************************************************)
(* Proofs about what an operator reads: the metrics and the log            *)
(* (RequestBooks), for any finite set of concurrent requests and any       *)
(* number of requests served; and the ring of recent entries with the      *)
(* console over it (LogRing, OperatorConsole), for any values of           *)
(* logging.recent and any default, any entries and any terminal sizes.     *)
(* The two share no state.                                                 *)
(*                                                                         *)
(* Every step moves one request from call[r] to some c.  A request's share *)
(* in each gauge and in each difference between metrics and log depends on *)
(* its record alone, so a step is right if the books change by c's shares  *)
(* less call[r]'s (lemma Advance).  The console's rows and totals are loops *)
(* over a snapshot of any length: such a loop has a value after each round *)
(* (LoopRuns), and what it lists and counts is proved by induction on the  *)
(* rounds, in the form of a least counterexample in a set (UpTo).          *)
(***************************************************************************)
EXTENDS RequestBooks, OperatorConsole, FiniteSetTheorems, WellFoundedInduction, TLAPS

Bit(b) == IF b THEN 1 ELSE 0

\* Shares of a request in what the metrics are ahead of the log.
Pends(c, class) == c.stage = "logging" /\ ~c.aborted /\ c.class = class
Owes(c) == c.stage = "classing" \/ (c.stage = "logging" /\ ~c.aborted)

SumLogged == logged["2xx"] + logged["4xx"] + logged["5xx"] + logged["other"]

(***************************************************************************)
(* What each stage says about the rest of the record.  The third conjunct  *)
(* is why ExcusedIsSilent holds: an excused exchange left an error behind, *)
(* and a client that has gone does not come back before Judge asks.        *)
(***************************************************************************)
Shape(c) ==
  /\ c.stage \in Proxying \union {"counting", "leaving"} => c.proxied
  /\ c.begun => c.stage \in {"upstream", "copying"}
  /\ c.verdict = "excused" => /\ c.gone /\ c.err
                              /\ c.stage \in {"judging", "logging", "leaving"}
  /\ c.aborted => c.stage \in {"logging", "leaving"}
  /\ c.stage \in {"idle"} \union Handling => ~c.proxied

CallsOK == call \in [Requests -> Calls] /\ \A r \in Requests : Shape(call[r])

CountersOK ==
  /\ failOpen \in BOOLEAN
  /\ arrived \in Nat /\ requests \in Nat /\ upstreamErrors \in Nat
  /\ authFailures \in Nat /\ rateLimited \in Nat /\ backendErrors \in Nat
  /\ byClass \in [Counted -> Nat] /\ logged \in [Classes -> Nat]

Proxied == {r \in Requests : call[r].proxied}
Begun == {r \in Requests : call[r].begun}
Pending(class) == {r \in Requests : Pends(call[r], class)}
Owing == {r \in Requests : Owes(call[r])}

BooksOK ==
  /\ inFlight = Cardinality(Proxied)
  /\ providerInFlight = Cardinality(Begun)
  /\ \A class \in Counted : byClass[class] = logged[class] + Cardinality(Pending(class))
  /\ requests = SumLogged + Cardinality(Owing)

IInv == CallsOK /\ CountersOK /\ BooksOK

-----------------------------------------------------------------------------
\* Two sets of requests that differ in r at most.
LEMMA CountChange ==
  ASSUME NEW S \in SUBSET Requests, NEW T \in SUBSET Requests, NEW r \in Requests,
         S \ {r} = T \ {r}
  PROVE  /\ Cardinality(S) \in Nat /\ Cardinality(T) \in Nat
         /\ Cardinality(T) = Cardinality(S) + Bit(r \in T) - Bit(r \in S)
<1>1. IsFiniteSet(S) /\ IsFiniteSet(T)
  BY RequestsAssumption, FS_Subset
<1>2. Cardinality(S) \in Nat /\ Cardinality(T) \in Nat
  BY <1>1, FS_CardinalityType
<1>3. Cardinality(S \ {r}) = IF r \in S THEN Cardinality(S) - 1 ELSE Cardinality(S)
  BY <1>1, FS_RemoveElement
<1>4. Cardinality(T \ {r}) = IF r \in T THEN Cardinality(T) - 1 ELSE Cardinality(T)
  BY <1>1, FS_RemoveElement
<1> QED BY <1>2, <1>3, <1>4 DEF Bit

\* One request moves on and the books change by its shares alone.
LEMMA Advance ==
  ASSUME IInv, NEW r \in Requests, NEW c \in Calls,
         call' = [call EXCEPT ![r] = c], Shape(c), CountersOK',
         inFlight' = inFlight + Bit(c.proxied) - Bit(call[r].proxied),
         providerInFlight' = providerInFlight + Bit(c.begun) - Bit(call[r].begun),
         \A k \in Counted : byClass'[k] - logged'[k] =
           byClass[k] - logged[k] + Bit(Pends(c, k)) - Bit(Pends(call[r], k)),
         requests' - SumLogged' = requests - SumLogged + Bit(Owes(c)) - Bit(Owes(call[r]))
  PROVE  IInv'
<1>1. /\ call'[r] = c
      /\ \A s \in Requests : s # r => call'[s] = call[s]
      /\ call' \in [Requests -> Calls]
  BY DEF IInv, CallsOK
<1>2. CallsOK'
  <2>1. \A s \in Requests : Shape(call'[s])
    <3> SUFFICES ASSUME NEW s \in Requests PROVE Shape(call'[s])
      OBVIOUS
    <3>1. CASE s = r
      BY <3>1, <1>1
    <3>2. CASE s # r
      BY <3>2, <1>1 DEF IInv, CallsOK
    <3> QED BY <3>1, <3>2
  <2>2. (\A s \in Requests : Shape(call[s]))' <=> \A s \in Requests : Shape(call'[s])
    BY DEF Shape
  <2> QED BY <1>1, <2>1, <2>2 DEF CallsOK
<1>3. inFlight' = Cardinality(Proxied')
  <2>1. Proxied \ {r} = Proxied' \ {r} /\ (r \in Proxied <=> call[r].proxied)
        /\ (r \in Proxied' <=> c.proxied)
    BY <1>1 DEF Proxied
  <2>2. Cardinality(Proxied') = Cardinality(Proxied) + Bit(c.proxied) - Bit(call[r].proxied)
    BY <2>1, CountChange DEF Proxied, Bit
  <2> QED BY <2>2 DEF IInv, BooksOK
<1>4. providerInFlight' = Cardinality(Begun')
  <2>1. Begun \ {r} = Begun' \ {r} /\ (r \in Begun <=> call[r].begun)
        /\ (r \in Begun' <=> c.begun)
    BY <1>1 DEF Begun
  <2>2. Cardinality(Begun') = Cardinality(Begun) + Bit(c.begun) - Bit(call[r].begun)
    BY <2>1, CountChange DEF Begun, Bit
  <2> QED BY <2>2 DEF IInv, BooksOK
<1>5. ASSUME NEW k \in Counted
      PROVE  byClass'[k] = logged'[k] + Cardinality({s \in Requests : Pends(call'[s], k)})
  <2> DEFINE T == {s \in Requests : Pends(call'[s], k)}
  <2>1. Pending(k) \ {r} = T \ {r} /\ (r \in Pending(k) <=> Pends(call[r], k))
        /\ (r \in T <=> Pends(c, k))
    BY <1>1 DEF Pending
  <2>2. Pending(k) \in SUBSET Requests /\ T \in SUBSET Requests
    BY DEF Pending
  <2> HIDE DEF T
  <2>3. /\ Cardinality(T) = Cardinality(Pending(k)) + Bit(Pends(c, k)) - Bit(Pends(call[r], k))
        /\ Cardinality(T) \in Nat /\ Cardinality(Pending(k)) \in Nat
    BY <2>1, <2>2, CountChange DEF Bit
  <2>4. /\ byClass[k] \in Nat /\ byClass'[k] \in Nat
        /\ logged[k] \in Nat /\ logged'[k] \in Nat
    BY DEF IInv, CountersOK, Counted
  <2>5. byClass[k] = logged[k] + Cardinality(Pending(k))
    BY DEF IInv, BooksOK
  <2>6. /\ byClass'[k] - logged'[k] =
           byClass[k] - logged[k] + Bit(Pends(c, k)) - Bit(Pends(call[r], k))
        /\ Bit(Pends(c, k)) \in Int /\ Bit(Pends(call[r], k)) \in Int
    BY DEF Bit
  <2>7. byClass'[k] = logged'[k] + Cardinality(T)
    BY <2>3, <2>4, <2>5, <2>6
  <2> QED BY <2>7 DEF T
<1>6. requests' = SumLogged' + Cardinality({s \in Requests : Owes(call'[s])})
  <2> DEFINE T == {s \in Requests : Owes(call'[s])}
  <2>1. Owing \ {r} = T \ {r} /\ (r \in Owing <=> Owes(call[r])) /\ (r \in T <=> Owes(c))
    BY <1>1 DEF Owing
  <2>2. Owing \in SUBSET Requests /\ T \in SUBSET Requests
    BY DEF Owing
  <2> HIDE DEF T
  <2>3. /\ Cardinality(T) = Cardinality(Owing) + Bit(Owes(c)) - Bit(Owes(call[r]))
        /\ Cardinality(T) \in Nat /\ Cardinality(Owing) \in Nat
    BY <2>1, <2>2, CountChange DEF Bit
  <2>4. requests \in Nat /\ requests' \in Nat /\ SumLogged \in Nat /\ SumLogged' \in Nat
    BY DEF IInv, CountersOK, SumLogged, Classes
  <2>5. requests = SumLogged + Cardinality(Owing)
    BY DEF IInv, BooksOK
  <2>6. /\ requests' - SumLogged' = requests - SumLogged + Bit(Owes(c)) - Bit(Owes(call[r]))
        /\ Bit(Owes(c)) \in Int /\ Bit(Owes(call[r])) \in Int
    BY DEF Bit
  <2>7. requests' = SumLogged' + Cardinality(T)
    BY <2>3, <2>4, <2>5, <2>6
  <2> QED BY <2>7 DEF T
<1>7. BooksOK'
  BY <1>3, <1>4, <1>5, <1>6 DEF BooksOK, Pending, Owing, Pends, Owes
<1> QED BY <1>2, <1>7 DEF IInv

\* A step that leaves the counters and the log alone.
LEMMA Gauge ==
  ASSUME IInv, NEW r \in Requests, NEW c \in Calls,
         call' = [call EXCEPT ![r] = c], Shape(c), CountersOK',
         inFlight' = inFlight + Bit(c.proxied) - Bit(call[r].proxied),
         providerInFlight' = providerInFlight + Bit(c.begun) - Bit(call[r].begun),
         byClass' = byClass, logged' = logged, requests' = requests,
         Owes(c) <=> Owes(call[r]),
         \A k \in Counted : Pends(c, k) <=> Pends(call[r], k)
  PROVE  IInv'
<1>2. /\ requests \in Nat /\ SumLogged \in Nat /\ SumLogged' = SumLogged
      /\ \A k \in Counted : byClass[k] \in Nat /\ logged[k] \in Nat
  BY DEF IInv, CountersOK, SumLogged, Classes, Counted
<1>4. requests' - SumLogged' = requests - SumLogged + Bit(Owes(c)) - Bit(Owes(call[r]))
  BY <1>2 DEF Bit
<1>5. \A k \in Counted : byClass'[k] - logged'[k] =
        byClass[k] - logged[k] + Bit(Pends(c, k)) - Bit(Pends(call[r], k))
  <2> SUFFICES ASSUME NEW k \in Counted
               PROVE  byClass'[k] - logged'[k] =
                        byClass[k] - logged[k] + Bit(Pends(c, k)) - Bit(Pends(call[r], k))
    OBVIOUS
  <2>1. Bit(Pends(c, k)) = Bit(Pends(call[r], k)) /\ Bit(Pends(c, k)) \in Int
    BY DEF Bit
  <2> QED BY <1>2, <2>1
<1> QED BY <1>4, <1>5, Advance

\* A step that moves a request without touching the books.
LEMMA Quiet ==
  ASSUME IInv, NEW r \in Requests, NEW c \in Calls,
         call' = [call EXCEPT ![r] = c], Shape(c), CountersOK',
         inFlight' = inFlight, providerInFlight' = providerInFlight,
         byClass' = byClass, logged' = logged, requests' = requests,
         c.proxied <=> call[r].proxied, c.begun <=> call[r].begun,
         Owes(c) <=> Owes(call[r]),
         \A k \in Counted : Pends(c, k) <=> Pends(call[r], k)
  PROVE  IInv'
<1>1. inFlight \in Nat /\ providerInFlight \in Nat
  BY RequestsAssumption, FS_Subset, FS_CardinalityType DEF IInv, BooksOK, Proxied, Begun
<1>2. /\ inFlight' = inFlight + Bit(c.proxied) - Bit(call[r].proxied)
      /\ providerInFlight' = providerInFlight + Bit(c.begun) - Bit(call[r].begun)
  BY <1>1 DEF Bit
<1> QED BY <1>2, Gauge

-----------------------------------------------------------------------------
\* What the invariant says of one request.
LEMMA CallFacts ==
  ASSUME IInv, NEW r \in Requests
  PROVE  call[r] \in Calls /\ Shape(call[r])
BY DEF IInv, CallsOK

\* A request that is not under way has no share in anything.
LEMMA IdleFacts == Idle \in Calls /\ Shape(Idle) /\ ~Idle.proxied /\ ~Idle.begun /\ ~Owes(Idle)
BY DEF Idle, Calls, Stages, Classes, Handling, Proxying, Shape, Owes

\* Before the first request the books are empty and balance.
LEMMA InitIInv == Init => IInv
<1> SUFFICES ASSUME Init PROVE IInv
  OBVIOUS
<1>1. CallsOK
  BY IdleFacts DEF Init, CallsOK
<1>2. CountersOK
  BY DEF Init, CountersOK
<1>3. \A r \in Requests : call[r] = Idle
  BY DEF Init
<1>4. Proxied = {} /\ Begun = {} /\ Owing = {} /\ \A k : Pending(k) = {}
  BY <1>3, IdleFacts DEF Proxied, Begun, Owing, Pending, Owes, Pends
<1>5. SumLogged = 0
  BY DEF Init, SumLogged, Classes
<1>6. \A k \in Counted : byClass[k] = 0 /\ logged[k] = 0
  BY DEF Init, Counted
<1>7. BooksOK
  BY <1>4, <1>5, <1>6, FS_EmptySet DEF Init, BooksOK
<1> QED BY <1>1, <1>2, <1>7 DEF IInv

\* Before the exchange ends no step of the handler changes a share.
LEMMA NextIInv == IInv /\ [Next]_vars => IInv'
<1> SUFFICES ASSUME IInv, [Next]_vars PROVE IInv'
  OBVIOUS
<1>1. CASE UNCHANGED vars
  BY <1>1 DEF vars, counters, gauges, IInv, CallsOK, CountersOK, BooksOK, SumLogged,
              Proxied, Begun, Pending, Owing
<1>2. ASSUME NEW r \in Requests, Step(r), UNCHANGED failOpen PROVE IInv'
  <2>0. /\ call[r] \in Calls /\ Shape(call[r]) /\ CountersOK
    BY CallFacts DEF IInv
  <2> DEFINE old == call[r]
  <2>g. /\ inFlight \in Nat /\ providerInFlight \in Nat
        /\ call[r].begun => providerInFlight > 0
    <3>1. Begun # {} => Cardinality(Begun) # 0
      BY RequestsAssumption, FS_Subset, FS_EmptySet DEF Begun
    <3> QED
      BY <3>1, RequestsAssumption, FS_Subset, FS_CardinalityType
      DEF IInv, BooksOK, Proxied, Begun
  <2>l. /\ requests \in Nat /\ SumLogged \in Nat
        /\ \A k \in Counted : byClass[k] \in Nat /\ logged[k] \in Nat
        /\ byClass \in [Counted -> Nat] /\ logged \in [Classes -> Nat]
        /\ logged["2xx"] \in Nat /\ logged["4xx"] \in Nat
        /\ logged["5xx"] \in Nat /\ logged["other"] \in Nat
    BY <2>0 DEF CountersOK, SumLogged, Classes, Counted
  \* What ends an exchange: c leaves the provider's gauge, and is excused only
  \* with an error and without a client.
  <2>e. ASSUME NEW failed \in BOOLEAN, NEW c \in Calls, ExchangeOver(r, failed, c),
               c.proxied <=> call[r].proxied, c.begun <=> call[r].begun, ~c.aborted,
               call[r].stage \in {"upstream", "copying"}, c.stage \in {"judging", "copied"},
               failed => c.stage = "judging" /\ c.err
        PROVE  IInv'
    <3> DEFINE v == CASE failed /\ c.gone  -> "excused"
                      [] failed /\ ~c.gone -> "charged"
                      [] ~failed           -> "none"
               d == [c EXCEPT !.begun = FALSE, !.verdict = v]
    <3>1. v \in {"none", "excused", "charged"} /\ (v = "excused" => failed /\ c.gone)
      BY <2>e
    <3>2. call' = [call EXCEPT ![r] = d]
      BY <2>e DEF ExchangeOver, Becomes
    <3> HIDE DEF v
    <3>3. /\ d \in Calls /\ Shape(d) /\ ~d.begun
          /\ d.proxied <=> call[r].proxied
          /\ ~Owes(d) /\ ~Owes(call[r]) /\ \A k : ~Pends(d, k) /\ ~Pends(call[r], k)
      BY <2>0, <2>e, <3>1 DEF Calls, Handling, Proxying, Shape, Owes, Pends
    <3> HIDE DEF d
    <3>4. CountersOK'
      BY <1>2, <2>0, <2>e DEF ExchangeOver, CountersOK, counters
    <3>5. /\ inFlight' = inFlight + Bit(d.proxied) - Bit(call[r].proxied)
          /\ providerInFlight' = providerInFlight + Bit(d.begun) - Bit(call[r].begun)
      BY <2>e, <2>g, <3>3 DEF ExchangeOver, Bit
    <3>6. byClass' = byClass /\ logged' = logged /\ requests' = requests
      BY <2>e DEF ExchangeOver, counters
    <3> QED BY <3>2, <3>3, <3>4, <3>5, <3>6, Gauge
  <2>1. CASE ServeHTTP(r)
    <3> DEFINE c == [call[r] EXCEPT !.stage = "routing"]
    <3>1. c \in Calls /\ Shape(c)
      BY <2>0, <2>1, IdleFacts DEF ServeHTTP, At, Calls, Stages, Handling, Proxying, Closing, Classes, Shape
    <3>2. CountersOK'
      BY <1>2, <2>0, <2>1 DEF ServeHTTP, CountersOK, counters
    <3>3. /\ call' = [call EXCEPT ![r] = c]
          /\ inFlight' = inFlight /\ providerInFlight' = providerInFlight
          /\ byClass' = byClass /\ logged' = logged /\ requests' = requests
      BY <2>0, <2>1 DEF ServeHTTP, Goes, counters, gauges, Calls
    <3>4. /\ c.proxied <=> call[r].proxied
          /\ c.begun <=> call[r].begun
          /\ Owes(c) <=> Owes(call[r])
          /\ \A k \in Counted : Pends(c, k) <=> Pends(call[r], k)
      BY <2>0, <2>1, IdleFacts DEF ServeHTTP, At, Calls, Shape, Proxying, Handling, Owes, Pends, Idle
    <3> HIDE DEF c
    <3> QED BY <3>1, <3>2, <3>3, <3>4, Quiet
  <2>2. CASE ClientLeaves(r)
    <3> DEFINE c == [call[r] EXCEPT !.gone = TRUE]
    <3>1. c \in Calls /\ Shape(c)
      BY <2>0, <2>2, IdleFacts DEF ClientLeaves, At, Calls, Stages, Handling, Proxying, Closing, Classes, Shape
    <3>2. CountersOK'
      BY <1>2, <2>0, <2>2 DEF ClientLeaves, CountersOK, counters
    <3>3. /\ call' = [call EXCEPT ![r] = c]
          /\ inFlight' = inFlight /\ providerInFlight' = providerInFlight
          /\ byClass' = byClass /\ logged' = logged /\ requests' = requests
      BY <2>0, <2>2 DEF ClientLeaves, Goes, counters, gauges, Calls
    <3>4. /\ c.proxied <=> call[r].proxied
          /\ c.begun <=> call[r].begun
          /\ Owes(c) <=> Owes(call[r])
          /\ \A k \in Counted : Pends(c, k) <=> Pends(call[r], k)
      BY <2>0, <2>2, IdleFacts DEF ClientLeaves, At, Calls, Shape, Proxying, Handling, Owes, Pends, Idle
    <3> HIDE DEF c
    <3> QED BY <3>1, <3>2, <3>3, <3>4, Quiet
  <2>3. CASE ServeOperations(r)
    <3> DEFINE c == Idle
    <3>1. c \in Calls /\ Shape(c)
      BY <2>0, <2>3, IdleFacts DEF ServeOperations, At, Calls, Stages, Handling, Proxying, Closing, Classes, Shape
    <3>2. CountersOK'
      BY <1>2, <2>0, <2>3 DEF ServeOperations, CountersOK, counters
    <3>3. /\ call' = [call EXCEPT ![r] = c]
          /\ inFlight' = inFlight /\ providerInFlight' = providerInFlight
          /\ byClass' = byClass /\ logged' = logged /\ requests' = requests
      BY <2>0, <2>3 DEF ServeOperations, Becomes, counters, gauges, Calls
    <3>4. /\ c.proxied <=> call[r].proxied
          /\ c.begun <=> call[r].begun
          /\ Owes(c) <=> Owes(call[r])
          /\ \A k \in Counted : Pends(c, k) <=> Pends(call[r], k)
      BY <2>0, <2>3, IdleFacts DEF ServeOperations, At, Calls, Shape, Proxying, Handling, Owes, Pends, Idle
    <3> HIDE DEF c
    <3> QED BY <3>1, <3>2, <3>3, <3>4, Quiet
  <2>4. CASE Unauthorized(r)
    <3> DEFINE c == [call[r] EXCEPT !.stage = "recording", !.class = "4xx"]
    <3>1. c \in Calls /\ Shape(c)
      BY <2>0, <2>4, IdleFacts DEF Unauthorized, At, Calls, Stages, Handling, Proxying, Closing, Classes, Shape
    <3>2. CountersOK'
      BY <1>2, <2>0, <2>4 DEF Unauthorized, CountersOK, counters
    <3>3. /\ call' = [call EXCEPT ![r] = c]
          /\ inFlight' = inFlight /\ providerInFlight' = providerInFlight
          /\ byClass' = byClass /\ logged' = logged /\ requests' = requests
      BY <2>0, <2>4 DEF Unauthorized, Becomes, counters, gauges, Calls
    <3>4. /\ c.proxied <=> call[r].proxied
          /\ c.begun <=> call[r].begun
          /\ Owes(c) <=> Owes(call[r])
          /\ \A k \in Counted : Pends(c, k) <=> Pends(call[r], k)
      BY <2>0, <2>4, IdleFacts DEF Unauthorized, At, Calls, Shape, Proxying, Handling, Owes, Pends, Idle
    <3> HIDE DEF c
    <3> QED BY <3>1, <3>2, <3>3, <3>4, Quiet
  <2>5. CASE Authenticate(r)
    <3> DEFINE c == [call[r] EXCEPT !.stage = "limiting"]
    <3>1. c \in Calls /\ Shape(c)
      BY <2>0, <2>5, IdleFacts DEF Authenticate, At, Calls, Stages, Handling, Proxying, Closing, Classes, Shape
    <3>2. CountersOK'
      BY <1>2, <2>0, <2>5 DEF Authenticate, CountersOK, counters
    <3>3. /\ call' = [call EXCEPT ![r] = c]
          /\ inFlight' = inFlight /\ providerInFlight' = providerInFlight
          /\ byClass' = byClass /\ logged' = logged /\ requests' = requests
      BY <2>0, <2>5 DEF Authenticate, Goes, counters, gauges, Calls
    <3>4. /\ c.proxied <=> call[r].proxied
          /\ c.begun <=> call[r].begun
          /\ Owes(c) <=> Owes(call[r])
          /\ \A k \in Counted : Pends(c, k) <=> Pends(call[r], k)
      BY <2>0, <2>5, IdleFacts DEF Authenticate, At, Calls, Shape, Proxying, Handling, Owes, Pends, Idle
    <3> HIDE DEF c
    <3> QED BY <3>1, <3>2, <3>3, <3>4, Quiet
  <2>6. CASE LimiterAllows(r)
    <3> DEFINE c == [call[r] EXCEPT !.stage = "entering"]
    <3>1. c \in Calls /\ Shape(c)
      BY <2>0, <2>6, IdleFacts DEF LimiterAllows, At, Calls, Stages, Handling, Proxying, Closing, Classes, Shape
    <3>2. CountersOK'
      BY <1>2, <2>0, <2>6 DEF LimiterAllows, CountersOK, counters
    <3>3. /\ call' = [call EXCEPT ![r] = c]
          /\ inFlight' = inFlight /\ providerInFlight' = providerInFlight
          /\ byClass' = byClass /\ logged' = logged /\ requests' = requests
      BY <2>0, <2>6 DEF LimiterAllows, Goes, counters, gauges, Calls
    <3>4. /\ c.proxied <=> call[r].proxied
          /\ c.begun <=> call[r].begun
          /\ Owes(c) <=> Owes(call[r])
          /\ \A k \in Counted : Pends(c, k) <=> Pends(call[r], k)
      BY <2>0, <2>6, IdleFacts DEF LimiterAllows, At, Calls, Shape, Proxying, Handling, Owes, Pends, Idle
    <3> HIDE DEF c
    <3> QED BY <3>1, <3>2, <3>3, <3>4, Quiet
  <2>7. CASE LimiterRejects(r)
    <3> DEFINE c == [call[r] EXCEPT !.stage = "recording", !.class = "4xx"]
    <3>1. c \in Calls /\ Shape(c)
      BY <2>0, <2>7, IdleFacts DEF LimiterRejects, At, Calls, Stages, Handling, Proxying, Closing, Classes, Shape
    <3>2. CountersOK'
      BY <1>2, <2>0, <2>7 DEF LimiterRejects, CountersOK, counters
    <3>3. /\ call' = [call EXCEPT ![r] = c]
          /\ inFlight' = inFlight /\ providerInFlight' = providerInFlight
          /\ byClass' = byClass /\ logged' = logged /\ requests' = requests
      BY <2>0, <2>7 DEF LimiterRejects, Becomes, counters, gauges, Calls
    <3>4. /\ c.proxied <=> call[r].proxied
          /\ c.begun <=> call[r].begun
          /\ Owes(c) <=> Owes(call[r])
          /\ \A k \in Counted : Pends(c, k) <=> Pends(call[r], k)
      BY <2>0, <2>7, IdleFacts DEF LimiterRejects, At, Calls, Shape, Proxying, Handling, Owes, Pends, Idle
    <3> HIDE DEF c
    <3> QED BY <3>1, <3>2, <3>3, <3>4, Quiet
  <2>8. CASE LimiterFails(r)
    <3> DEFINE c == IF failOpen THEN [call[r] EXCEPT !.stage = "entering"]
                ELSE [call[r] EXCEPT !.stage = "recording", !.class = "5xx"]
    <3>1. c \in Calls /\ Shape(c)
      BY <2>0, <2>8, IdleFacts DEF LimiterFails, At, Calls, Stages, Handling, Proxying, Closing, Classes, Shape
    <3>2. CountersOK'
      BY <1>2, <2>0, <2>8 DEF LimiterFails, CountersOK, counters
    <3>3. /\ call' = [call EXCEPT ![r] = c]
          /\ inFlight' = inFlight /\ providerInFlight' = providerInFlight
          /\ byClass' = byClass /\ logged' = logged /\ requests' = requests
      BY <2>0, <2>8 DEF LimiterFails, Becomes, counters, gauges, Calls
    <3>4. /\ c.proxied <=> call[r].proxied
          /\ c.begun <=> call[r].begun
          /\ Owes(c) <=> Owes(call[r])
          /\ \A k \in Counted : Pends(c, k) <=> Pends(call[r], k)
      BY <2>0, <2>8, IdleFacts DEF LimiterFails, At, Calls, Shape, Proxying, Handling, Owes, Pends, Idle
    <3> HIDE DEF c
    <3> QED BY <3>1, <3>2, <3>3, <3>4, Quiet
  <2>9. CASE EnterProxy(r)
    <3> DEFINE c == [call[r] EXCEPT !.stage = "proxying", !.proxied = TRUE]
    <3>1. /\ c \in Calls /\ Shape(c) /\ c.proxied /\ ~call[r].proxied
          /\ c.begun <=> call[r].begun
      BY <2>0, <2>9 DEF EnterProxy, At, Calls, Stages, Handling, Proxying, Shape
    <3>2. CountersOK'
      BY <1>2, <2>0, <2>9 DEF EnterProxy, CountersOK, counters
    <3>3. ~Owes(c) /\ ~Owes(call[r]) /\ \A k : ~Pends(c, k) /\ ~Pends(call[r], k)
      BY <2>0, <2>9 DEF EnterProxy, At, Calls, Owes, Pends
    <3>4. inFlight' = inFlight + Bit(c.proxied) - Bit(call[r].proxied)
      BY <2>9, <2>g, <3>1 DEF EnterProxy, Bit
    <3>5. providerInFlight' = providerInFlight + Bit(c.begun) - Bit(call[r].begun)
      BY <2>9, <2>g, <3>1 DEF EnterProxy, Bit
    <3>6. /\ call' = [call EXCEPT ![r] = c]
          /\ byClass' = byClass /\ logged' = logged /\ requests' = requests
      BY <2>9 DEF EnterProxy, Becomes, counters
    <3> HIDE DEF c
    <3> QED BY <3>1, <3>2, <3>3, <3>4, <3>5, <3>6, Gauge
  <2>10. CASE LocalError(r)
    <3>1. PICK class \in {"4xx", "5xx"} : call' = [call EXCEPT ![r] = [call[r] EXCEPT !.stage = "judging", !.err = TRUE, !.class = class]]
      BY <2>10 DEF LocalError, Becomes
    <3> DEFINE c == [call[r] EXCEPT !.stage = "judging", !.err = TRUE, !.class = class]
    <3>2. c \in Calls /\ Shape(c)
      BY <2>0, <2>10, <3>1 DEF LocalError, At, Calls, Stages, Handling, Proxying, Closing, Classes, Shape
    <3>3. CountersOK'
      BY <1>2, <2>0, <2>10 DEF LocalError, CountersOK, counters
    <3>4. /\ inFlight' = inFlight /\ providerInFlight' = providerInFlight
          /\ byClass' = byClass /\ logged' = logged /\ requests' = requests
      BY <2>10 DEF LocalError, counters, gauges
    <3>5. /\ c.proxied <=> call[r].proxied
          /\ c.begun <=> call[r].begun
          /\ Owes(c) <=> Owes(call[r])
          /\ \A k \in Counted : Pends(c, k) <=> Pends(call[r], k)
      BY <2>0, <2>10 DEF LocalError, At, Calls, Owes, Pends
    <3>6. call' = [call EXCEPT ![r] = c]
      BY <3>1
    <3> HIDE DEF c
    <3> QED BY <3>2, <3>3, <3>4, <3>5, <3>6, Quiet
  <2>11. CASE CircuitRefuses(r)
    <3> DEFINE c == [call[r] EXCEPT !.stage = "copying", !.class = "5xx"]
    <3>1. c \in Calls /\ Shape(c)
      BY <2>0, <2>11, IdleFacts DEF CircuitRefuses, At, Calls, Stages, Handling, Proxying, Closing, Classes, Shape
    <3>2. CountersOK'
      BY <1>2, <2>0, <2>11 DEF CircuitRefuses, CountersOK, counters
    <3>3. /\ call' = [call EXCEPT ![r] = c]
          /\ inFlight' = inFlight /\ providerInFlight' = providerInFlight
          /\ byClass' = byClass /\ logged' = logged /\ requests' = requests
      BY <2>0, <2>11 DEF CircuitRefuses, Becomes, counters, gauges, Calls
    <3>4. /\ c.proxied <=> call[r].proxied
          /\ c.begun <=> call[r].begun
          /\ Owes(c) <=> Owes(call[r])
          /\ \A k \in Counted : Pends(c, k) <=> Pends(call[r], k)
      BY <2>0, <2>11, IdleFacts DEF CircuitRefuses, At, Calls, Shape, Proxying, Handling, Owes, Pends, Idle
    <3> HIDE DEF c
    <3> QED BY <3>1, <3>2, <3>3, <3>4, Quiet
  <2>12. CASE ProviderBegin(r)
    <3> DEFINE c == [call[r] EXCEPT !.stage = "upstream", !.begun = TRUE]
    <3>1. /\ c \in Calls /\ Shape(c) /\ c.begun /\ ~call[r].begun
          /\ c.proxied <=> call[r].proxied
      BY <2>0, <2>12 DEF ProviderBegin, At, Calls, Stages, Handling, Proxying, Shape
    <3>2. CountersOK'
      BY <1>2, <2>0, <2>12 DEF ProviderBegin, CountersOK, counters
    <3>3. ~Owes(c) /\ ~Owes(call[r]) /\ \A k : ~Pends(c, k) /\ ~Pends(call[r], k)
      BY <2>0, <2>12 DEF ProviderBegin, At, Calls, Owes, Pends
    <3>4. inFlight' = inFlight + Bit(c.proxied) - Bit(call[r].proxied)
      BY <2>12, <2>g, <3>1 DEF ProviderBegin, Bit
    <3>5. providerInFlight' = providerInFlight + Bit(c.begun) - Bit(call[r].begun)
      BY <2>12, <2>g, <3>1 DEF ProviderBegin, Bit
    <3>6. /\ call' = [call EXCEPT ![r] = c]
          /\ byClass' = byClass /\ logged' = logged /\ requests' = requests
      BY <2>12 DEF ProviderBegin, Becomes, counters
    <3> HIDE DEF c
    <3> QED BY <3>1, <3>2, <3>3, <3>4, <3>5, <3>6, Gauge
  <2>13. CASE RoundTripError(r)
    <3> DEFINE c == [call[r] EXCEPT !.stage = "judging", !.err = TRUE, !.class = "5xx"]
    <3>1. c \in Calls /\ c.stage \in {"judging", "copied"} /\ (TRUE => c.stage = "judging" /\ c.err)
      BY <2>0 DEF Calls, Stages, Proxying, Classes
    <3>2. /\ c.proxied <=> call[r].proxied
          /\ c.begun <=> call[r].begun
          /\ ~c.aborted /\ call[r].stage \in {"upstream", "copying"}
      BY <2>0, <2>13 DEF RoundTripError, At, Calls, Shape
    <3>3. ExchangeOver(r, TRUE, c)
      BY <2>13 DEF RoundTripError
    <3> HIDE DEF c
    <3> QED BY <2>e, <3>1, <3>2, <3>3
  <2>14. CASE BodyEnds(r)
    <3> DEFINE c == [call[r] EXCEPT !.stage = "copied"]
    <3>1. c \in Calls /\ c.stage \in {"judging", "copied"} /\ (FALSE => c.stage = "judging" /\ c.err)
      BY <2>0 DEF Calls, Stages, Proxying, Classes
    <3>2. /\ c.proxied <=> call[r].proxied
          /\ c.begun <=> call[r].begun
          /\ ~c.aborted /\ call[r].stage \in {"upstream", "copying"}
      BY <2>0, <2>14 DEF BodyEnds, At, Calls, Shape
    <3>3. ExchangeOver(r, FALSE, c)
      BY <2>14 DEF BodyEnds
    <3> HIDE DEF c
    <3> QED BY <2>e, <3>1, <3>2, <3>3
  <2>15. CASE BodyBreaks(r)
    <3> DEFINE c == [call[r] EXCEPT !.stage = "judging", !.err = TRUE]
    <3>1. c \in Calls /\ c.stage \in {"judging", "copied"} /\ (TRUE => c.stage = "judging" /\ c.err)
      BY <2>0 DEF Calls, Stages, Proxying, Classes
    <3>2. /\ c.proxied <=> call[r].proxied
          /\ c.begun <=> call[r].begun
          /\ ~c.aborted /\ call[r].stage \in {"upstream", "copying"}
      BY <2>0, <2>15 DEF BodyBreaks, At, Calls, Shape
    <3>3. ExchangeOver(r, TRUE, c)
      BY <2>15 DEF BodyBreaks
    <3> HIDE DEF c
    <3> QED BY <2>e, <3>1, <3>2, <3>3
  <2>16. CASE ClientWriteFails(r)
    <3> DEFINE c == [call[r] EXCEPT !.stage = "judging", !.err = TRUE]
    <3>1. c \in Calls /\ c.stage \in {"judging", "copied"} /\ (FALSE => c.stage = "judging" /\ c.err)
      BY <2>0 DEF Calls, Stages, Proxying, Classes
    <3>2. /\ c.proxied <=> call[r].proxied
          /\ c.begun <=> call[r].begun
          /\ ~c.aborted /\ call[r].stage \in {"upstream", "copying"}
      BY <2>0, <2>16 DEF ClientWriteFails, At, Calls, Shape
    <3>3. ExchangeOver(r, FALSE, c)
      BY <2>16 DEF ClientWriteFails
    <3> HIDE DEF c
    <3> QED BY <2>e, <3>1, <3>2, <3>3
  <2>17. CASE ResponseHeaders(r)
    <3>1. PICK class \in Classes : call' = [call EXCEPT ![r] = [call[r] EXCEPT !.stage = "copying", !.class = class]]
      BY <2>17 DEF ResponseHeaders, Becomes
    <3> DEFINE c == [call[r] EXCEPT !.stage = "copying", !.class = class]
    <3>2. c \in Calls /\ Shape(c)
      BY <2>0, <2>17, <3>1 DEF ResponseHeaders, At, Calls, Stages, Handling, Proxying, Closing, Classes, Shape
    <3>3. CountersOK'
      BY <1>2, <2>0, <2>17 DEF ResponseHeaders, CountersOK, counters
    <3>4. /\ inFlight' = inFlight /\ providerInFlight' = providerInFlight
          /\ byClass' = byClass /\ logged' = logged /\ requests' = requests
      BY <2>17 DEF ResponseHeaders, counters, gauges
    <3>5. /\ c.proxied <=> call[r].proxied
          /\ c.begun <=> call[r].begun
          /\ Owes(c) <=> Owes(call[r])
          /\ \A k \in Counted : Pends(c, k) <=> Pends(call[r], k)
      BY <2>0, <2>17 DEF ResponseHeaders, At, Calls, Owes, Pends
    <3>6. call' = [call EXCEPT ![r] = c]
      BY <3>1
    <3> HIDE DEF c
    <3> QED BY <3>2, <3>3, <3>4, <3>5, <3>6, Quiet
  <2>18. CASE ProxyReturns(r)
    <3> DEFINE c == [call[r] EXCEPT !.stage = "judging", !.err = call[r].gone]
    <3>1. c \in Calls /\ Shape(c)
      BY <2>0, <2>18, IdleFacts DEF ProxyReturns, At, Calls, Stages, Handling, Proxying, Closing, Classes, Shape
    <3>2. CountersOK'
      BY <1>2, <2>0, <2>18 DEF ProxyReturns, CountersOK, counters
    <3>3. /\ call' = [call EXCEPT ![r] = c]
          /\ inFlight' = inFlight /\ providerInFlight' = providerInFlight
          /\ byClass' = byClass /\ logged' = logged /\ requests' = requests
      BY <2>0, <2>18 DEF ProxyReturns, Becomes, counters, gauges, Calls
    <3>4. /\ c.proxied <=> call[r].proxied
          /\ c.begun <=> call[r].begun
          /\ Owes(c) <=> Owes(call[r])
          /\ \A k \in Counted : Pends(c, k) <=> Pends(call[r], k)
      BY <2>0, <2>18, IdleFacts DEF ProxyReturns, At, Calls, Shape, Proxying, Handling, Owes, Pends, Idle
    <3> HIDE DEF c
    <3> QED BY <3>1, <3>2, <3>3, <3>4, Quiet
  <2>19. CASE Judge(r)
    <3> DEFINE aborted == call[r].err /\ call[r].gone
               stage == CASE aborted                   -> "logging"
                          [] call[r].err /\ ~aborted    -> "counting"
                          [] ~call[r].err               -> "recording"
               c == [call[r] EXCEPT !.aborted = aborted, !.stage = stage]
    <3>1. /\ aborted \in BOOLEAN /\ stage \in {"logging", "counting", "recording"}
          /\ stage = "logging" <=> aborted
          /\ call[r].err /\ call[r].gone => aborted
      OBVIOUS
    <3>2. /\ call[r].stage = "judging" /\ call' = [call EXCEPT ![r] = c]
      BY <2>19 DEF Judge, At, Becomes
    <3> HIDE DEF aborted, stage
    <3>3. c \in Calls /\ Shape(c)
      BY <2>0, <3>1, <3>2 DEF Calls, Stages, Handling, Proxying, Closing, Shape
    <3>4. CountersOK'
      BY <1>2, <2>0, <2>19 DEF Judge, CountersOK, counters
    <3>5. /\ c.proxied <=> call[r].proxied
          /\ c.begun <=> call[r].begun
          /\ Owes(c) <=> Owes(call[r])
          /\ \A k \in Counted : Pends(c, k) <=> Pends(call[r], k)
      BY <2>0, <3>1, <3>2 DEF Calls, Owes, Pends
    <3> HIDE DEF c
    <3> QED BY <2>19, <3>2, <3>3, <3>4, <3>5, Quiet DEF Judge, counters, gauges
  <2>20. CASE CountError(r)
    <3> DEFINE c == [call[r] EXCEPT !.stage = "recording"]
    <3>1. c \in Calls /\ Shape(c)
      BY <2>0, <2>20, IdleFacts DEF CountError, At, Calls, Stages, Handling, Proxying, Closing, Classes, Shape
    <3>2. CountersOK'
      BY <1>2, <2>0, <2>20 DEF CountError, CountersOK, counters
    <3>3. /\ call' = [call EXCEPT ![r] = c]
          /\ inFlight' = inFlight /\ providerInFlight' = providerInFlight
          /\ byClass' = byClass /\ logged' = logged /\ requests' = requests
      BY <2>0, <2>20 DEF CountError, Goes, counters, gauges, Calls
    <3>4. /\ c.proxied <=> call[r].proxied
          /\ c.begun <=> call[r].begun
          /\ Owes(c) <=> Owes(call[r])
          /\ \A k \in Counted : Pends(c, k) <=> Pends(call[r], k)
      BY <2>0, <2>20, IdleFacts DEF CountError, At, Calls, Shape, Proxying, Handling, Owes, Pends, Idle
    <3> HIDE DEF c
    <3> QED BY <3>1, <3>2, <3>3, <3>4, Quiet
  <2>21. CASE RecordRequest(r)
    <3> DEFINE c == [call[r] EXCEPT !.stage = "classing"]
    <3>1. /\ c \in Calls /\ Shape(c)
          /\ c.proxied <=> call[r].proxied
          /\ c.begun <=> call[r].begun
          /\ Owes(c) /\ ~Owes(call[r]) /\ \A k : ~Pends(c, k) /\ ~Pends(call[r], k)
      BY <2>0, <2>21 DEF RecordRequest, At, Calls, Stages, Handling, Proxying, Closing, Shape, Owes, Pends
    <3>2. CountersOK'
      BY <1>2, <2>0, <2>21 DEF RecordRequest, CountersOK
    <3> HIDE DEF c
    <3>3. /\ inFlight' = inFlight + Bit(c.proxied) - Bit(call[r].proxied)
          /\ providerInFlight' = providerInFlight + Bit(c.begun) - Bit(call[r].begun)
      BY <2>21, <2>g, <3>1 DEF RecordRequest, gauges, Bit
    <3>4. requests' - SumLogged' = requests - SumLogged + Bit(Owes(c)) - Bit(Owes(call[r]))
      BY <2>21, <2>l, <3>1 DEF RecordRequest, SumLogged, Bit
    <3>5. \A k \in Counted : byClass'[k] - logged'[k] =
            byClass[k] - logged[k] + Bit(Pends(c, k)) - Bit(Pends(call[r], k))
      BY <2>21, <2>l, <3>1 DEF RecordRequest, Bit
    <3> QED
      BY <2>21, <3>1, <3>2, <3>3, <3>4, <3>5, Advance DEF RecordRequest, Goes, c
  <2>22. CASE RecordClass(r)
    <3> DEFINE c == [call[r] EXCEPT !.stage = "logging"]
    <3>1. /\ c \in Calls /\ Shape(c)
          /\ c.proxied <=> call[r].proxied
          /\ c.begun <=> call[r].begun
          /\ Owes(c) /\ Owes(call[r])
          /\ \A k : (Pends(c, k) <=> k = call[r].class) /\ ~Pends(call[r], k)
      BY <2>0, <2>22 DEF RecordClass, At, Calls, Stages, Handling, Proxying, Closing, Shape, Owes, Pends
    <3>2. CountersOK'
      BY <1>2, <2>0, <2>22 DEF RecordClass, CountersOK
    <3> HIDE DEF c
    <3>3. /\ inFlight' = inFlight + Bit(c.proxied) - Bit(call[r].proxied)
          /\ providerInFlight' = providerInFlight + Bit(c.begun) - Bit(call[r].begun)
      BY <2>22, <2>g, <3>1 DEF RecordClass, gauges, Bit
    <3>4. requests' - SumLogged' = requests - SumLogged + Bit(Owes(c)) - Bit(Owes(call[r]))
      BY <2>22, <2>l, <3>1 DEF RecordClass, SumLogged, Bit
    <3>5. \A k \in Counted : byClass'[k] - logged'[k] =
            byClass[k] - logged[k] + Bit(Pends(c, k)) - Bit(Pends(call[r], k))
      BY <2>22, <2>l, <3>1 DEF RecordClass, Bit
    <3> QED
      BY <2>22, <3>1, <3>2, <3>3, <3>4, <3>5, Advance DEF RecordClass, Goes, c
  <2>23. CASE LogRequest(r)
    <3> DEFINE c == IF call[r].proxied THEN [call[r] EXCEPT !.stage = "leaving"] ELSE Idle
    <3>1. /\ c \in Calls /\ Shape(c)
          /\ c.proxied <=> call[r].proxied
          /\ c.begun <=> call[r].begun
          /\ ~Owes(c) /\ (Owes(call[r]) <=> ~call[r].aborted)
          /\ \A k : ~Pends(c, k) /\ (Pends(call[r], k) <=> (~call[r].aborted /\ k = call[r].class))
      BY <2>0, <2>23, IdleFacts
      DEF LogRequest, At, Calls, Stages, Handling, Proxying, Closing, Shape, Owes, Pends, Idle
    <3>2. call[r].class \in Classes /\ call' = [call EXCEPT ![r] = c]
      BY <2>0, <2>23 DEF LogRequest, AfterLog, Becomes, Calls
    <3>3. logged' = IF call[r].aborted THEN logged
                    ELSE [logged EXCEPT ![call[r].class] = logged[call[r].class] + 1]
      BY <2>23 DEF LogRequest
    <3>4. CountersOK'
      BY <1>2, <2>0, <2>23, <3>2, <3>3 DEF LogRequest, CountersOK, counters
    <3> HIDE DEF c
    <3>5. /\ inFlight' = inFlight + Bit(c.proxied) - Bit(call[r].proxied)
          /\ providerInFlight' = providerInFlight + Bit(c.begun) - Bit(call[r].begun)
      BY <2>23, <2>g, <3>1 DEF LogRequest, gauges, Bit
    <3>6. SumLogged' = SumLogged + Bit(~call[r].aborted)
      BY <2>0, <2>l, <3>2, <3>3 DEF SumLogged, Bit, Classes, CountersOK
    <3>7. requests' - SumLogged' = requests - SumLogged + Bit(Owes(c)) - Bit(Owes(call[r]))
      BY <2>23, <2>l, <3>1, <3>6 DEF LogRequest, counters, Bit
    <3>8. \A k \in Counted : byClass'[k] - logged'[k] =
            byClass[k] - logged[k] + Bit(Pends(c, k)) - Bit(Pends(call[r], k))
      BY <2>0, <2>23, <2>l, <3>1, <3>2, <3>3 DEF LogRequest, counters, Bit, CountersOK, Counted
    <3> QED
      BY <2>23, <3>1, <3>2, <3>4, <3>5, <3>7, <3>8, Advance
  <2>24. CASE Leave(r)
    <3>1. /\ call[r].proxied /\ ~call[r].begun /\ ~Owes(call[r]) /\ \A k : ~Pends(call[r], k)
      BY <2>0, <2>24 DEF Leave, At, Calls, Shape, Owes, Pends
    <3>2. ~Owes(Idle) /\ \A k : ~Pends(Idle, k)
      BY DEF Idle, Owes, Pends
    <3>3. CountersOK'
      BY <1>2, <2>0, <2>24 DEF Leave, CountersOK, counters
    <3>4. /\ inFlight' = inFlight + Bit(Idle.proxied) - Bit(call[r].proxied)
          /\ providerInFlight' = providerInFlight + Bit(Idle.begun) - Bit(call[r].begun)
      BY <2>24, <2>g, <3>1, IdleFacts DEF Leave, Bit
    <3>5. /\ call' = [call EXCEPT ![r] = Idle]
          /\ byClass' = byClass /\ logged' = logged /\ requests' = requests
      BY <2>24 DEF Leave, Becomes, counters
    <3> QED BY <3>1, <3>2, <3>3, <3>4, <3>5, IdleFacts, Gauge
  <2> QED
    BY <1>2, <2>1, <2>2, <2>3, <2>4, <2>5, <2>6, <2>7, <2>8, <2>9, <2>10, <2>11, <2>12, <2>13, <2>14, <2>15, <2>16, <2>17, <2>18, <2>19, <2>20, <2>21, <2>22, <2>23, <2>24 DEF Step
<1> QED BY <1>1, <1>2 DEF Next

-----------------------------------------------------------------------------
\* The books balance with the requests under way, whatever paths they take through
\* the handler (gateway.go:205-349, metrics.go).
THEOREM Invariance == Spec => []IInv
BY InitIInv, NextIInv, PTL DEF Spec

\* Every counter keeps its type; no gauge goes below zero.
THEOREM TypeCorrect == Spec => []TypeOK
<1>1. IInv => TypeOK
  BY RequestsAssumption, FS_Subset, FS_CardinalityType
  DEF IInv, CallsOK, CountersOK, BooksOK, Proxied, Begun, TypeOK
<1> QED BY <1>1, Invariance, PTL

\* The gauges are exact on every path through the handler.
THEOREM GaugesNestHolds == Spec => []GaugesNest
<1>1. IInv => GaugesNest
  BY DEF IInv, CallsOK, BooksOK, Proxied, Begun, Shape, Proxying, GaugesNest
<1> QED BY <1>1, Invariance, PTL

\* What the transport excused the handler never charges.
THEOREM ExcusedIsSilentHolds == Spec => []ExcusedIsSilent
<1>1. IInv => ExcusedIsSilent
  BY DEF IInv, CallsOK, Shape, ExcusedIsSilent
<1> QED BY <1>1, Invariance, PTL

\* Metrics and log agree request by request.
THEOREM LogsMatchMetricsHolds == Spec => []LogsMatchMetrics
<1>1. IInv => LogsMatchMetrics
  BY DEF IInv, BooksOK, Pending, Owing, Pends, Owes, SumLogged, LogsMatchMetrics, At
<1> QED BY <1>1, Invariance, PTL

-----------------------------------------------------------------------------
(* The ring.                                                               *)

\* A limit that is not set or not positive becomes the default.
LEMMA LimitIsPositive == \A recent \in Recents : LimitOf(recent) \in Nat \ {0}
BY RecentsAssumption, DefaultRecentAssumption DEF LimitOf

\* What the two ways of rebuilding the slice return.
LEMMA ShiftedProperties ==
  ASSUME NEW s \in Seq(Nat), NEW e \in Nat
  PROVE  /\ Shifted(s, e) \in Seq(Nat)
         /\ Len(Shifted(s, e)) = Len(s)
         /\ \A i \in 1..Len(s) : Shifted(s, e)[i] = IF i < Len(s) THEN s[i + 1] ELSE e
<1>1. Len(s) \in Nat /\ \A i \in 1..Len(s) : s[i] \in Nat
  OBVIOUS
<1>2. Shifted(s, e) \in [1..Len(s) -> Nat]
  BY <1>1 DEF Shifted
<1>3. Shifted(s, e) \in Seq(Nat) /\ Len(Shifted(s, e)) = Len(s)
  BY <1>1, <1>2
<1> QED BY <1>3 DEF Shifted

\* Trimming keeps the end of the slice.
LEMMA TrimmedProperties ==
  ASSUME NEW s \in Seq(Nat), NEW n \in Nat, n <= Len(s)
  PROVE  /\ Trimmed(s, n) \in Seq(Nat)
         /\ Len(Trimmed(s, n)) = n
         /\ \A i \in 1..n : Trimmed(s, n)[i] = s[Len(s) - n + i]
<1>1. Len(s) \in Nat /\ \A i \in 1..Len(s) : s[i] \in Nat
  OBVIOUS
<1>2. Trimmed(s, n) \in [1..n -> Nat]
  BY <1>1 DEF Trimmed
<1>3. Trimmed(s, n) \in Seq(Nat) /\ Len(Trimmed(s, n)) = n
  BY <1>1, <1>2
<1> QED BY <1>3 DEF Trimmed

\* A new ring is empty.
LEMMA RingStarts == RingInit => RingTypeOK /\ NewestKept
BY LimitIsPositive DEF RingInit, RingTypeOK, NewestKept

\* One step keeps the newest entries and loses nothing that fits.
LEMMA RingStep ==
  ASSUME RingTypeOK, NewestKept, [RingNext]_ringVars
  PROVE  /\ RingTypeOK' /\ NewestKept'
         /\ LET wanted == Len(entries) + (added' - added)
            IN Len(entries') = IF wanted > limit' THEN limit' ELSE wanted
<1>0. /\ entries \in Seq(Nat) /\ Len(entries) \in Nat
      /\ limit \in Nat \ {0} /\ added \in Nat
      /\ Len(entries) <= limit /\ Len(entries) <= added
      /\ \A i \in 1..Len(entries) : entries[i] = added - Len(entries) + i
  BY DEF RingTypeOK, NewestKept
<1>1. CASE Add /\ Len(entries) >= limit
  <2>1. entries' = Shifted(entries, added + 1) /\ added' = added + 1 /\ limit' = limit
    BY <1>1 DEF Add
  <2>2. /\ entries' \in Seq(Nat) /\ Len(entries') = Len(entries)
        /\ \A i \in 1..Len(entries) :
             entries'[i] = IF i < Len(entries) THEN entries[i + 1] ELSE added + 1
    BY <1>0, <2>1, ShiftedProperties
  <2>3. ASSUME NEW i \in 1..Len(entries)
        PROVE  entries'[i] = (added + 1) - Len(entries) + i
    <3>1. CASE i < Len(entries)
      <4>1. i + 1 \in 1..Len(entries)
        BY <1>0, <3>1
      <4>2. entries[i + 1] = added - Len(entries) + (i + 1)
        BY <1>0, <4>1
      <4> QED BY <1>0, <2>2, <3>1, <4>2
    <3>2. CASE i = Len(entries)
      BY <1>0, <2>2, <3>2
    <3> QED BY <1>0, <3>1, <3>2
  <2>4. Len(entries) = limit
    BY <1>0, <1>1
  <2>5. NewestKept'
    <3>1. \A i \in 1..Len(entries') : entries'[i] = added' - Len(entries') + i
      BY <2>1, <2>2, <2>3
    <3>2. Len(entries') <= limit' /\ Len(entries') <= added'
      BY <1>0, <2>1, <2>2
    <3> QED BY <3>1, <3>2 DEF NewestKept
  <2>6. RingTypeOK'
    BY <1>0, <2>1, <2>2 DEF RingTypeOK
  <2> QED BY <1>0, <2>1, <2>2, <2>4, <2>5, <2>6
<1>2. CASE Add /\ Len(entries) < limit
  <2>1. entries' = Append(entries, added + 1) /\ added' = added + 1 /\ limit' = limit
    BY <1>0, <1>2 DEF Add
  <2>2. /\ entries' \in Seq(Nat) /\ Len(entries') = Len(entries) + 1
        /\ \A i \in 1..Len(entries) : entries'[i] = entries[i]
        /\ entries'[Len(entries) + 1] = added + 1
    BY <1>0, <2>1
  <2>3. ASSUME NEW i \in 1..Len(entries')
        PROVE  entries'[i] = added' - Len(entries') + i
    <3>1. CASE i = Len(entries) + 1
      BY <1>0, <2>1, <2>2, <3>1
    <3>2. CASE i \in 1..Len(entries)
      BY <1>0, <2>1, <2>2, <3>2
    <3> QED BY <1>0, <2>2, <3>1, <3>2
  <2> QED BY <1>0, <1>2, <2>1, <2>2, <2>3 DEF RingTypeOK, NewestKept
<1>3. ASSUME NEW recent \in Recents, Resize(recent), Len(entries) > LimitOf(recent)
      PROVE  /\ RingTypeOK' /\ NewestKept'
             /\ LET wanted == Len(entries) + (added' - added)
                IN Len(entries') = IF wanted > limit' THEN limit' ELSE wanted
  <2> DEFINE n == LimitOf(recent)
  <2>1. /\ entries' = Trimmed(entries, n) /\ limit' = n /\ added' = added
        /\ n \in Nat \ {0} /\ n < Len(entries)
    BY <1>0, <1>3, LimitIsPositive DEF Resize
  <2> HIDE DEF n
  <2>2. /\ entries' \in Seq(Nat) /\ Len(entries') = n
        /\ \A i \in 1..n : entries'[i] = entries[Len(entries) - n + i]
    <3>1. n \in Nat /\ n <= Len(entries)
      BY <1>0, <2>1
    <3> QED BY <1>0, <2>1, <3>1, TrimmedProperties
  <2>3. ASSUME NEW i \in 1..n PROVE entries'[i] = added - n + i
    <3>1. Len(entries) - n + i \in 1..Len(entries)
      BY <1>0, <2>1
    <3>2. entries[Len(entries) - n + i] = added - Len(entries) + (Len(entries) - n + i)
      BY <1>0, <3>1
    <3> QED BY <1>0, <2>1, <2>2, <3>2
  <2> QED BY <1>0, <2>1, <2>2, <2>3 DEF RingTypeOK, NewestKept
<1>4. ASSUME NEW recent \in Recents, Resize(recent), ~(Len(entries) > LimitOf(recent))
      PROVE  /\ RingTypeOK' /\ NewestKept'
             /\ LET wanted == Len(entries) + (added' - added)
                IN Len(entries') = IF wanted > limit' THEN limit' ELSE wanted
  <2>1. /\ entries' = entries /\ limit' = LimitOf(recent) /\ added' = added
        /\ LimitOf(recent) \in Nat \ {0} /\ Len(entries) <= LimitOf(recent)
    BY <1>0, <1>4, LimitIsPositive DEF Resize
  <2> QED BY <1>0, <2>1 DEF RingTypeOK, NewestKept
<1>5. CASE UNCHANGED ringVars
  BY <1>0, <1>5 DEF ringVars, RingTypeOK, NewestKept
<1> QED BY <1>0, <1>1, <1>2, <1>3, <1>4, <1>5 DEF RingNext

\* The ring keeps its type, and holds the newest entries, at most its limit.
THEOREM NewestKeptHolds == RingSpec => [](RingTypeOK /\ NewestKept)
<1>1. RingTypeOK /\ NewestKept /\ [RingNext]_ringVars => (RingTypeOK /\ NewestKept)'
  BY RingStep
<1> QED BY <1>1, RingStarts, PTL DEF RingSpec

\* No step gives up an entry for which there is room.
THEOREM KeepsWhatFitsHolds == RingSpec => KeepsWhatFits
<1> DEFINE Fits == LET wanted == Len(entries) + (added' - added)
                   IN Len(entries') = IF wanted > limit' THEN limit' ELSE wanted
<1>1. RingTypeOK /\ NewestKept /\ [RingNext]_ringVars => [Fits]_ringVars
  BY RingStep
<1>2. KeepsWhatFits <=> [][Fits]_ringVars
  BY DEF KeepsWhatFits
<1> HIDE DEF Fits
<1> QED BY <1>1, <1>2, NewestKeptHolds, PTL DEF RingSpec

-----------------------------------------------------------------------------
(* The console.                                                            *)

\* The console only looks: whatever it does, the ring goes through the steps of
\* LogRing, and what is proved of the ring holds under a console.
THEOREM ConsoleWatches == ConsoleSpec => RingSpec
<1>1. ConsoleInit => RingInit
  BY DEF ConsoleInit
<1>2. [ConsoleNext]_consoleVars => [RingNext]_ringVars
  BY DEF ConsoleNext, consoleVars, console
<1> QED BY <1>1, <1>2, PTL DEF ConsoleSpec, RingSpec

\* What the tables show is settled by the section, the filter, the snapshot and, if
\* there is room, by the size.
ScreenFollows ==
  ~Tiny(size) =>
    /\ columnsFor = ContentWidth(size)
    /\ rowsFor = RowsAt(size)
    /\ showHelp => helpFor = active

\* Whatever is pressed, resized or refreshed, the tables follow.
LEMMA ScreenStep == ScreenFollows /\ [ConsoleNext]_consoleVars => ScreenFollows'
<1> SUFFICES ASSUME ScreenFollows, [ConsoleNext]_consoleVars PROVE ScreenFollows'
  OBVIOUS
<1> USE DEF ScreenFollows
<1>1. CASE Refresh
  BY <1>1 DEF Refresh
<1>2. ASSUME NEW s \in Sizes, WindowSize(s) PROVE ScreenFollows'
  BY <1>2 DEF WindowSize, screen
<1>3. CASE OpenHelp
  BY <1>3 DEF OpenHelp
<1>4. CASE CloseHelp
  BY <1>4 DEF CloseHelp, screen
<1>5. CASE PauseKey
  BY <1>5 DEF PauseKey, screen
<1>6. ASSUME NEW section, SetActive(section) PROVE ScreenFollows'
  BY <1>6 DEF SetActive, screen
<1>7. ASSUME NEW f \in Filters, FilterKey(f) PROVE ScreenFollows'
  <2>1. ~Tiny(size) => rowsFor' = RowsAt(size)
    BY <1>7 DEF FilterKey, RowsAt, Tables
  <2> QED BY <1>7, <2>1 DEF FilterKey
<1>8. CASE SecondPasses
  BY <1>8 DEF SecondPasses, screen
<1>9. CASE Tick
  <2>1. CASE Refresh
    BY <2>1, <1>1
  <2>2. CASE UNCHANGED <<active, filter, paused, showHelp, size, logs, screen>>
    BY <2>2 DEF screen
  <2> QED BY <1>9, <2>1, <2>2 DEF Tick
<1>10. CASE Key
  BY <1>1, <1>3, <1>4, <1>5, <1>6, <1>7, <1>10
     DEF Key, RefreshKey, NextTab, PrevTab, Back, Jump
<1>11. CASE UNCHANGED console
  BY <1>11 DEF console, screen
<1> QED BY <1>2, <1>8, <1>9, <1>10, <1>11 DEF ConsoleNext, Update, consoleVars

\* A row never has more or fewer cells than there are columns when it is drawn, and
\* the help that is shown is the active section's, for any terminal sizes.
THEOREM FitsTheScreenHolds == ConsoleSpec => []FitsTheScreen
<1>1. ConsoleInit => ScreenFollows
  BY DEF ConsoleInit, ScreenFollows
<1>2. ScreenFollows => FitsTheScreen
  <2> SUFFICES ASSUME ScreenFollows, ~Tiny(size), NEW t \in Tables
               PROVE  /\ CellsAt(RowCells[t], rowsFor[t]) = CellsAt(ColumnCells[t], columnsFor)
                      /\ showHelp => helpFor = active
    BY DEF FitsTheScreen, Tables
  <2>1. rowsFor[t] = columnsFor
    BY DEF ScreenFollows, RowsAt
  <2>2. RowCells[t] = ColumnCells[t]
    BY DEF RowCells, ColumnCells, Tables, LogRow, LogColumns, ProviderRow, ProviderColumns,
           ClientRow, ClientColumns
  <2> QED BY <2>1, <2>2 DEF ScreenFollows
<1> QED BY <1>1, <1>2, ScreenStep, PTL DEF ConsoleSpec

-----------------------------------------------------------------------------
(* What a snapshot makes of the Requests section.  Rows and totals are loops *)
(* over it; what they compute is proved by induction on their rounds.        *)

\* Induction up to n on a set of numbers, by its least counterexample.
LEMMA UpTo ==
  ASSUME NEW n \in Nat, NEW P, 0 \in P, \A i \in 1 .. n : i - 1 \in P => i \in P
  PROVE  \A i \in 0 .. n : i \in P
<1> DEFINE Wrong == {i \in 0 .. n : i \notin P}
<1> SUFFICES ASSUME Wrong # {} PROVE FALSE
  OBVIOUS
<1>1. Wrong \subseteq Nat
  OBVIOUS
<1>2. PICK i \in Wrong : \A j \in Wrong : <<j, i>> \notin OpToRel(<, Nat)
  BY <1>1, NatLessThanWellFounded, WFMin
<1>3. i \in 0 .. n /\ i \notin P /\ \A j \in Wrong : ~(j < i)
  BY <1>1, <1>2 DEF OpToRel
<1>4. i \in 1 .. n
  BY <1>3
<1>5. i - 1 \notin Wrong
  BY <1>3, <1>4
<1> QED BY <1>3, <1>4, <1>5

\* A loop of n rounds over values of X, and the values g that it has after each.
Loop(n, X, start, round) ==
  n \in Nat /\ start \in X /\ round \in [1 .. n -> [X -> X]]
Runs(g, n, X, start, round) ==
  /\ g \in [0 .. n -> X] /\ g[0] = start
  /\ \A i \in 1 .. n : g[i] = round[i][g[i - 1]]

\* Every loop runs to its end: the recursion that defines its values has a solution.
LEMMA LoopRuns ==
  ASSUME NEW n, NEW X, NEW start, NEW round, Loop(n, X, start, round)
  PROVE  \E g : Runs(g, n, X, start, round)
<1> USE DEF Loop
<1> DEFINE Value(g, m) == Runs(g, m, X, start, round)
           P == {m \in 0 .. n : \E g : Value(g, m)}
<1>1. 0 \in P
  <2> DEFINE g == [i \in 0 .. 0 |-> start]
  <2>1. Value(g, 0)
    BY DEF Runs
  <2> HIDE DEF g
  <2>2. \E h : Value(h, 0)
    BY <2>1
  <2> QED BY <2>2
<1>2. ASSUME NEW m \in 1 .. n, m - 1 \in P PROVE m \in P
  <2>1. PICK g : Value(g, m - 1)
    BY <1>2
  <2> DEFINE h == [i \in 0 .. m |-> IF i < m THEN g[i] ELSE round[m][g[m - 1]]]
  <2>2. m - 1 \in 0 .. (m - 1) /\ g[m - 1] \in X /\ round[m] \in [X -> X]
    BY <2>1 DEF Runs
  <2>3. h \in [0 .. m -> X] /\ h[0] = start
    BY <2>1, <2>2 DEF Runs
  <2>4. ASSUME NEW i \in 1 .. m PROVE h[i] = round[i][h[i - 1]]
    <3>1. h[i - 1] = g[i - 1]
      OBVIOUS
    <3>2. CASE i < m
      BY <2>1, <3>1, <3>2 DEF Runs
    <3>3. CASE i = m
      BY <3>1, <3>3
    <3> QED BY <3>2, <3>3
  <2> HIDE DEF h
  <2>5. Value(h, m)
    BY <2>3, <2>4 DEF Runs
  <2> QED BY <2>5
<1> HIDE DEF P
<1>3. \A i \in 0 .. n : i \in P
  BY <1>1, <1>2, UpTo, Zenon
<1> QED
  <2>1. n \in P
    BY <1>3
  <2> QED BY <2>1 DEF P

\* The entries that a log can hold.
Numbered == 1 .. MaxAdded

\* The entry that the loop of updateLogRows comes to in round i, and what it makes
\* of the rows so far.
Visited(log, i) == log[Len(log) + 1 - i]
Listed(log, f, i, s) ==
  IF Matches(f, Entry[Visited(log, i)]) THEN Append(s, Visited(log, i)) ELSE s

\* The rows that updateLogRows has after each round.
LEMMA ShownRuns ==
  ASSUME NEW log \in Seq(Nat), NEW f
  PROVE  \E rows \in [0 .. Len(log) -> Seq(Nat)] :
           /\ rows[0] = <<>>
           /\ \A i \in 1 .. Len(log) : rows[i] = Listed(log, f, i, rows[i - 1])
           /\ Shown(log, f) = rows[Len(log)]
<1> DEFINE L == Len(log)
           Is(g) == g = [i \in 0 .. L |-> IF i = 0 THEN <<>> ELSE Listed(log, f, i, g[i - 1])]
           rows == CHOOSE g : Is(g)
           round == [i \in 1 .. L |-> [s \in Seq(Nat) |-> Listed(log, f, i, s)]]
<1>1. L \in Nat /\ <<>> \in Seq(Nat)
  OBVIOUS
<1>2. \A i \in 1 .. L : \A s \in Seq(Nat) : Listed(log, f, i, s) \in Seq(Nat)
  BY <1>1 DEF Listed, Visited
<1>3. Shown(log, f) = rows[L]
  BY DEF Shown, Listed, Visited
<1>4. round \in [1 .. L -> [Seq(Nat) -> Seq(Nat)]]
  BY <1>2
<1>5. \A i \in 1 .. L : \A s \in Seq(Nat) : round[i][s] = Listed(log, f, i, s)
  OBVIOUS
<1> HIDE DEF L, round
<1>6. PICK g : Runs(g, L, Seq(Nat), <<>>, round)
  BY <1>1, <1>4, LoopRuns DEF Loop
<1>7. \A i \in 1 .. L : g[i] = Listed(log, f, i, g[i - 1])
  <2>1. ASSUME NEW i \in 1 .. L PROVE g[i - 1] \in Seq(Nat)
    BY <1>1, <1>6 DEF Runs
  <2> QED BY <1>5, <1>6, <2>1 DEF Runs
<1>8. Is(g)
  <2>1. \A i \in 0 .. L : g[i] = IF i = 0 THEN <<>> ELSE Listed(log, f, i, g[i - 1])
    BY <1>1, <1>6, <1>7 DEF Runs
  <2>2. g = [i \in 0 .. L |-> g[i]]
    BY <1>6 DEF Runs
  <2> QED BY <2>1, <2>2, Zenon
<1>9. Is(rows)
  BY <1>8, Zenon
<1> HIDE DEF rows
<1>10. rows[0] = <<>> /\ \A i \in 1 .. L : rows[i] = Listed(log, f, i, rows[i - 1])
  BY <1>1, <1>9
<1> DEFINE P == {i \in 0 .. L : rows[i] \in Seq(Nat)}
<1>11. \A i \in 0 .. L : i \in P
  <2>1. 0 \in P
    <3>1. 0 \in 0 .. L
      BY <1>1
    <3> QED BY <1>1, <1>10, <3>1, Zenon
  <2>2. \A i \in 1 .. L : i - 1 \in P => i \in P
    BY <1>1, <1>2, <1>10
  <2> HIDE DEF P
  <2> QED BY <1>1, <2>1, <2>2, UpTo, Zenon
<1>12. rows \in [0 .. L -> Seq(Nat)]
  <2>1. \A i \in 0 .. L : rows[i] \in Seq(Nat)
    BY <1>11
  <2>2. rows = [i \in 0 .. L |-> rows[i]]
    BY <1>9
  <2> QED BY <2>1, <2>2
<1> QED BY <1>3, <1>10, <1>12 DEF L

\* The rows are a sequence of entries.
LEMMA ShownIsSeq == \A log \in Seq(Numbered) : \A f : Shown(log, f) \in Seq(Nat)
<1> SUFFICES ASSUME NEW log \in Seq(Numbered), NEW f PROVE Shown(log, f) \in Seq(Nat)
  OBVIOUS
<1>1. log \in Seq(Nat) /\ Len(log) \in Nat
  BY EntryAssumption DEF Numbered
<1>2. PICK rows \in [0 .. Len(log) -> Seq(Nat)] : Shown(log, f) = rows[Len(log)]
  BY <1>1, ShownRuns
<1> QED BY <1>1, <1>2

\* After i rounds s lists the newest i entries that pass the filter, newest first.
Lists(log, f, i, s) ==
  /\ s \in Seq(Nat)
  /\ \A a, b \in 1 .. Len(s) : a < b => s[a] > s[b]
  /\ \A a \in 1 .. Len(s) : \E j \in 1 .. i : s[a] = Visited(log, j) /\ Matches(f, Entry[s[a]])
  /\ \A j \in 1 .. i :
       Matches(f, Entry[Visited(log, j)]) => \E a \in 1 .. Len(s) : s[a] = Visited(log, j)

\* One more round lists one more entry, if it passes.
LEMMA RoundLists ==
  ASSUME NEW log \in Seq(Nat), NEW k \in Int, \A i \in 1 .. Len(log) : log[i] = k + i, NEW f,
         NEW i \in 1 .. Len(log), NEW s, Lists(log, f, i - 1, s)
  PROVE  Lists(log, f, i, Listed(log, f, i, s))
<1> DEFINE L == Len(log)
           v(j) == Visited(log, j)
           m(n) == Matches(f, Entry[n])
<1>1. L \in Nat /\ \A j \in 1 .. L : v(j) \in Nat /\ v(j) = k + L + 1 - j
  BY DEF Visited
<1>2. s \in Seq(Nat) /\ Len(s) \in Nat /\ \A a \in 1 .. Len(s) : s[a] \in Nat
  BY DEF Lists
<1>3. \A a, b \in 1 .. Len(s) : a < b => s[a] > s[b]
  BY DEF Lists
<1>4. \A a \in 1 .. Len(s) : \E j \in 1 .. (i - 1) : s[a] = v(j) /\ m(s[a])
  BY DEF Lists
<1>5. \A j \in 1 .. (i - 1) : m(v(j)) => \E a \in 1 .. Len(s) : s[a] = v(j)
  BY DEF Lists
<1>6. CASE ~m(v(i))
  <2>1. Listed(log, f, i, s) = s
    BY <1>6 DEF Listed
  <2>2. \A a \in 1 .. Len(s) : \E j \in 1 .. i : s[a] = v(j) /\ m(s[a])
    <3> HIDE DEF v, m
    <3>1. ASSUME NEW a \in 1 .. Len(s) PROVE \E j \in 1 .. i : s[a] = v(j) /\ m(s[a])
      <4>1. PICK j \in 1 .. (i - 1) : s[a] = v(j) /\ m(s[a])
        BY <1>4
      <4>2. j \in 1 .. i
        BY <1>1
      <4> QED BY <4>1, <4>2
    <3> QED BY <3>1
  <2>3. \A j \in 1 .. i : m(v(j)) => \E a \in 1 .. Len(s) : s[a] = v(j)
    <3> HIDE DEF v, m
    <3>1. \A j \in 1 .. i : j = i \/ j \in 1 .. (i - 1)
      BY <1>1
    <3> QED BY <1>5, <1>6, <3>1
  <2> QED BY <1>2, <1>3, <2>1, <2>2, <2>3 DEF Lists
<1>7. CASE m(v(i))
  <2> DEFINE t == Append(s, v(i))
  <2>1. Listed(log, f, i, s) = t
    BY <1>7 DEF Listed
  <2>2. /\ t \in Seq(Nat) /\ Len(t) = Len(s) + 1 /\ t[Len(s) + 1] = v(i)
        /\ \A a \in 1 .. Len(s) : t[a] = s[a]
    <3> HIDE DEF v
    <3> QED BY <1>1, <1>2
  <2> HIDE DEF v, m, t
  <2>3. \A a \in 1 .. Len(t) : a = Len(s) + 1 \/ a \in 1 .. Len(s)
    BY <1>2, <2>2
  <2>4. ASSUME NEW a \in 1 .. Len(s) PROVE s[a] > v(i)
    <3>1. PICK j \in 1 .. (i - 1) : s[a] = v(j)
      BY <1>4
    <3>2. j \in 1 .. L /\ i \in 1 .. L
      BY <1>1
    <3>3. v(j) = k + L + 1 - j /\ v(i) = k + L + 1 - i
      BY <1>1, <3>2
    <3> HIDE DEF L
    <3> QED BY <1>1, <3>1, <3>3
  <2>5. ASSUME NEW a \in 1 .. Len(t), NEW b \in 1 .. Len(t), a < b PROVE t[a] > t[b]
    <3>1. a \in 1 .. Len(s)
      BY <1>2, <2>2, <2>5
    <3> QED BY <1>3, <2>2, <2>3, <2>4, <2>5, <3>1
  <2>6. \A a \in 1 .. Len(t) : \E j \in 1 .. i : t[a] = v(j) /\ m(t[a])
    <3>1. ASSUME NEW a \in 1 .. Len(s) PROVE \E j \in 1 .. i : t[a] = v(j) /\ m(t[a])
      <4>1. PICK j \in 1 .. (i - 1) : s[a] = v(j) /\ m(s[a])
        BY <1>4
      <4>2. j \in 1 .. i /\ t[a] = s[a]
        BY <1>1, <2>2
      <4> QED BY <4>1, <4>2
    <3>2. \E j \in 1 .. i : t[Len(s) + 1] = v(j) /\ m(t[Len(s) + 1])
      BY <1>1, <1>7, <2>2
    <3> QED BY <2>3, <3>1, <3>2
  <2>7. \A j \in 1 .. i : m(v(j)) => \E a \in 1 .. Len(t) : t[a] = v(j)
    <3>1. \A j \in 1 .. i : j = i \/ j \in 1 .. (i - 1)
      BY <1>1
    <3>2. Len(s) + 1 \in 1 .. Len(t) /\ 1 .. Len(s) \subseteq 1 .. Len(t)
      BY <1>2, <2>2
    <3> QED BY <1>5, <2>2, <3>1, <3>2
  <2> QED BY <2>1, <2>2, <2>5, <2>6, <2>7 DEF Lists, v, m
<1> QED BY <1>6, <1>7

\* Of consecutive entries updateLogRows lists those that pass the filter, each once
\* and newest first.
LEMMA ShownLists ==
  ASSUME NEW log \in Seq(Nat), NEW k \in Int, \A i \in 1 .. Len(log) : log[i] = k + i, NEW f
  PROVE  LET s == Shown(log, f)
         IN  /\ s \in Seq(Nat)
             /\ \A a, b \in 1 .. Len(s) : a < b => s[a] > s[b]
             /\ Range(s) = {n \in Range(log) : Matches(f, Entry[n])}
<1> DEFINE L == Len(log)
<1>1. L \in Nat
  OBVIOUS
<1>2. PICK rows \in [0 .. L -> Seq(Nat)] :
        /\ rows[0] = <<>>
        /\ \A i \in 1 .. L : rows[i] = Listed(log, f, i, rows[i - 1])
        /\ Shown(log, f) = rows[L]
  BY ShownRuns
<1> DEFINE P == {i \in 0 .. L : Lists(log, f, i, rows[i])}
<1>3. \A i \in 0 .. L : i \in P
  <2>1. Lists(log, f, 0, <<>>)
    BY DEF Lists
  <2>2. 0 \in P
    BY <1>1, <1>2, <2>1
  <2>3. ASSUME NEW i \in 1 .. L, i - 1 \in P PROVE i \in P
    <3>1. Lists(log, f, i - 1, rows[i - 1])
      BY <2>3
    <3>2. Lists(log, f, i, Listed(log, f, i, rows[i - 1]))
      BY <3>1, RoundLists
    <3> QED BY <1>1, <1>2, <3>2
  <2> HIDE DEF P
  <2> QED BY <1>1, <2>2, <2>3, UpTo, Zenon
<1>4. Lists(log, f, L, Shown(log, f))
  <2>1. L \in P
    BY <1>1, <1>3
  <2> QED BY <1>2, <2>1
<1> DEFINE s == Shown(log, f)
<1>5. s \in Seq(Nat) /\ DOMAIN s = 1 .. Len(s) /\ DOMAIN log = 1 .. L
  BY <1>4 DEF Lists
<1>6. \A n : n \in Range(log) <=> \E j \in 1 .. L : n = Visited(log, j)
  <2>1. \A j \in 1 .. L : L + 1 - j \in 1 .. L /\ Visited(log, j) = log[L + 1 - j]
    BY <1>1 DEF Visited
  <2>2. \A i \in 1 .. L : log[i] = Visited(log, L + 1 - i)
    <3>1. \A i \in 1 .. L : L + 1 - (L + 1 - i) = i
      BY <1>1
    <3> QED BY <3>1 DEF Visited
  <2>3. \A n : n \in Range(log) <=> \E i \in 1 .. L : n = log[i]
    BY <1>5 DEF Range
  <2>4. ASSUME NEW n, NEW i \in 1 .. L, n = log[i] PROVE \E j \in 1 .. L : n = Visited(log, j)
    <3>1. L + 1 - i \in 1 .. L
      BY <2>1
    <3> QED BY <2>2, <2>4, <3>1
  <2> HIDE DEF L
  <2>5. ASSUME NEW n, NEW j \in 1 .. L, n = Visited(log, j) PROVE \E i \in 1 .. L : n = log[i]
    BY <2>1, <2>5
  <2> QED BY <2>3, <2>4, <2>5
<1>7. \A n : n \in Range(s) <=> \E a \in 1 .. Len(s) : n = s[a]
  BY <1>5 DEF Range
<1>8. Range(s) = {n \in Range(log) : Matches(f, Entry[n])}
  <2>1. \A a \in 1 .. Len(s) :
          \E j \in 1 .. L : s[a] = Visited(log, j) /\ Matches(f, Entry[s[a]])
    BY <1>4 DEF Lists
  <2>2. \A j \in 1 .. L : Matches(f, Entry[Visited(log, j)])
                            => \E a \in 1 .. Len(s) : s[a] = Visited(log, j)
    BY <1>4 DEF Lists
  <2> HIDE DEF s, L
  <2>3. ASSUME NEW n \in Range(s) PROVE n \in Range(log) /\ Matches(f, Entry[n])
    BY <1>6, <1>7, <2>1
  <2>4. ASSUME NEW n \in Range(log), Matches(f, Entry[n]) PROVE n \in Range(s)
    BY <1>6, <1>7, <2>2, <2>4
  <2> QED BY <2>3, <2>4
<1> QED BY <1>4, <1>8 DEF Lists

-----------------------------------------------------------------------------
(* What a snapshot makes of Overview and Clients.                            *)

\* The totals and the clients' shares, as summarize keeps them.
Tallies ==
  [requests : Nat, twoXX : Nat, fourXX : Nat, fiveXX : Nat,
   clients : [Clients -> [requests : Nat, errors : Nat]]]

\* What summarize adds to each total and to each client's share for one entry.
LEMMA CountEntryFields ==
  ASSUME NEW s \in Tallies, NEW n \in Numbered
  PROVE  LET e == Entry[n]
             t == CountEntry(s, e)
             asked(d) == OneIf(e.status # 0 /\ d)
         IN  /\ t \in Tallies
             /\ t.requests = s.requests + OneIf(e.status # 0)
             /\ t.fourXX = s.fourXX + OneIf(e.status \in 400..499)
             /\ t.fiveXX = s.fiveXX + OneIf(e.status >= 500)
             /\ \A c \in Clients :
                  /\ t.clients[c].requests = s.clients[c].requests + asked(e.client = c)
                  /\ t.clients[c].errors = s.clients[c].errors + asked(e.client = c /\ e.status >= 400)
<1> DEFINE e == Entry[n]
           t == CountEntry(s, e)
<1>1. e.status \in Int /\ e.client \in Clients
  <2>1. n \in DOMAIN Entry /\ e.status \in Int
    BY EntryAssumption DEF Numbered
  <2> QED BY <2>1, Zenon DEF Clients
<1>2. /\ OneIf(e.status >= 400) \in Nat /\ OneIf(e.status >= 500) \in Nat
      /\ OneIf(e.status >= 200 /\ e.status < 300) \in Nat
      /\ OneIf(e.status >= 400 /\ e.status < 500) \in Nat
  BY DEF OneIf
<1>3. /\ s.requests \in Nat /\ s.twoXX \in Nat /\ s.fourXX \in Nat /\ s.fiveXX \in Nat
      /\ s.clients \in [Clients -> [requests : Nat, errors : Nat]]
      /\ \A c \in Clients : s.clients[c].requests \in Nat /\ s.clients[c].errors \in Nat
  BY DEF Tallies
<1> HIDE DEF e
<1>4. CASE e.status = 0
  <2>1. t = s
    BY <1>4 DEF CountEntry
  <2>2. \A c : ~(e.status # 0 /\ e.client = c) /\ ~(e.status # 0 /\ e.client = c /\ e.status >= 400)
    BY <1>4
  <2>3. ~(e.status # 0) /\ ~(e.status \in 400..499) /\ ~(e.status >= 500)
    BY <1>4
  <2>4. ASSUME NEW c \in Clients
        PROVE  /\ t.clients[c].requests
                    = s.clients[c].requests + OneIf(e.status # 0 /\ e.client = c)
               /\ t.clients[c].errors
                    = s.clients[c].errors
                        + OneIf(e.status # 0 /\ e.client = c /\ e.status >= 400)
    BY <1>3, <2>1, <2>2 DEF OneIf
  <2>5. /\ t.requests = s.requests + OneIf(e.status # 0)
        /\ t.fourXX = s.fourXX + OneIf(e.status \in 400..499)
        /\ t.fiveXX = s.fiveXX + OneIf(e.status >= 500)
    BY <1>3, <2>1, <2>3 DEF OneIf
  <2> QED BY <2>1, <2>4, <2>5 DEF e
<1>5. CASE e.status # 0
  <2> DEFINE of == [requests |-> s.clients[e.client].requests + 1,
                    errors |-> s.clients[e.client].errors + OneIf(e.status >= 400)]
             clients == [s.clients EXCEPT ![e.client] = of]
  <2>1. t = [requests |-> s.requests + 1,
             twoXX |-> s.twoXX + OneIf(e.status >= 200 /\ e.status < 300),
             fourXX |-> s.fourXX + OneIf(e.status >= 400 /\ e.status < 500),
             fiveXX |-> s.fiveXX + OneIf(e.status >= 500),
             clients |-> clients]
    BY <1>5 DEF CountEntry
  <2>2. of \in [requests : Nat, errors : Nat]
    BY <1>1, <1>2, <1>3
  <2>3. clients \in [Clients -> [requests : Nat, errors : Nat]]
    <3> HIDE DEF of
    <3> QED BY <1>3, <2>2
  <2>4. \A c \in Clients : clients[c] = IF c = e.client THEN of ELSE s.clients[c]
    BY <1>3
  <2> HIDE DEF of, clients
  <2>5. /\ t.requests = s.requests + 1
        /\ t.twoXX = s.twoXX + OneIf(e.status >= 200 /\ e.status < 300)
        /\ t.fourXX = s.fourXX + OneIf(e.status >= 400 /\ e.status < 500)
        /\ t.fiveXX = s.fiveXX + OneIf(e.status >= 500)
        /\ t.clients = clients
    BY <2>1
  <2>6. t \in Tallies
    BY <1>2, <1>3, <2>1, <2>3 DEF Tallies
  <2>7. /\ t.requests = s.requests + OneIf(e.status # 0)
        /\ t.fourXX = s.fourXX + OneIf(e.status \in 400..499)
        /\ t.fiveXX = s.fiveXX + OneIf(e.status >= 500)
    BY <1>1, <1>5, <2>5 DEF OneIf
  <2>8. ASSUME NEW c \in Clients
        PROVE  /\ t.clients[c].requests
                    = s.clients[c].requests + OneIf(e.status # 0 /\ e.client = c)
               /\ t.clients[c].errors
                    = s.clients[c].errors
                        + OneIf(e.status # 0 /\ e.client = c /\ e.status >= 400)
    <3>1. CASE c = e.client
      BY <1>1, <1>5, <2>4, <2>5, <3>1 DEF OneIf, of
    <3>2. CASE c # e.client
      BY <1>3, <2>4, <2>5, <3>2 DEF OneIf
    <3> QED BY <3>1, <3>2
  <2> QED BY <2>6, <2>7, <2>8 DEF e
<1> QED BY <1>4, <1>5

\* The classes that summarize counts.
Requested == {n \in Numbered : Entry[n].status # 0}
Refused == {n \in Numbered : Entry[n].status \in 400..499}
Failed == {n \in Numbered : Entry[n].status >= 500}
AskedBy(c) == {n \in Numbered : Entry[n].status # 0 /\ Entry[n].client = c}
FaultsOf(c) ==
  {n \in Numbered : Entry[n].status # 0 /\ Entry[n].client = c /\ Entry[n].status >= 400}

\* The tally s is that of the entries in K.
Counts(K, s) ==
  /\ s \in Tallies
  /\ s.requests = Cardinality(K \intersect Requested)
  /\ s.fourXX = Cardinality(K \intersect Refused)
  /\ s.fiveXX = Cardinality(K \intersect Failed)
  /\ \A c \in Clients :
       /\ s.clients[c].requests = Cardinality(K \intersect AskedBy(c))
       /\ s.clients[c].errors = Cardinality(K \intersect FaultsOf(c))

\* A new element counts where it belongs.
LEMMA OneMore ==
  ASSUME NEW K, IsFiniteSet(K), NEW n, n \notin K, NEW W
  PROVE  Cardinality((K \union {n}) \intersect W) = Cardinality(K \intersect W) + OneIf(n \in W)
<1>1. IsFiniteSet(K \intersect W) /\ Cardinality(K \intersect W) \in Nat
  BY FS_Subset, FS_CardinalityType
<1>2. CASE n \in W
  <2>1. (K \union {n}) \intersect W = (K \intersect W) \union {n}
    BY <1>2
  <2>2. Cardinality((K \intersect W) \union {n}) = Cardinality(K \intersect W) + 1
    BY <1>1, FS_AddElement
  <2> QED BY <1>2, <2>1, <2>2 DEF OneIf
<1>3. CASE n \notin W
  <2>1. (K \union {n}) \intersect W = K \intersect W
    BY <1>3
  <2>2. OneIf(n \in W) = 0
    BY <1>3 DEF OneIf
  <2> HIDE DEF OneIf
  <2>3. Cardinality(K \intersect W) = Cardinality(K \intersect W) + 0
    BY <1>1
  <2> QED BY <2>1, <2>2, <2>3
<1> QED BY <1>2, <1>3

\* One more entry keeps the tally right.
LEMMA CountsOneMore ==
  ASSUME NEW K \in SUBSET Numbered, NEW n \in Numbered \ K, NEW s, Counts(K, s)
  PROVE  Counts(K \union {n}, CountEntry(s, Entry[n]))
<1> DEFINE t == CountEntry(s, Entry[n])
<1>1. IsFiniteSet(K) /\ s \in Tallies
  <2>1. IsFiniteSet(1 .. MaxAdded)
    BY EntryAssumption, FS_Interval
  <2>2. IsFiniteSet(K)
    BY <2>1, FS_Subset DEF Numbered
  <2> QED BY <2>2 DEF Counts
<1>2. \A W : Cardinality((K \union {n}) \intersect W)
               = Cardinality(K \intersect W) + OneIf(n \in W)
  BY <1>1, OneMore
<1>3. /\ (n \in Requested) = (Entry[n].status # 0)
      /\ (n \in Refused) = (Entry[n].status \in 400..499)
      /\ (n \in Failed) = (Entry[n].status >= 500)
  BY DEF Requested, Refused, Failed
<1>4. \A c : /\ (n \in AskedBy(c)) = (Entry[n].status # 0 /\ Entry[n].client = c)
             /\ (n \in FaultsOf(c))
                  = (Entry[n].status # 0 /\ Entry[n].client = c /\ Entry[n].status >= 400)
  BY DEF AskedBy, FaultsOf
<1>5. /\ t \in Tallies
      /\ t.requests = s.requests + OneIf(n \in Requested)
      /\ t.fourXX = s.fourXX + OneIf(n \in Refused)
      /\ t.fiveXX = s.fiveXX + OneIf(n \in Failed)
  BY <1>1, <1>3, CountEntryFields
<1>6. ASSUME NEW c \in Clients
      PROVE  /\ t.clients[c].requests = s.clients[c].requests + OneIf(n \in AskedBy(c))
             /\ t.clients[c].errors = s.clients[c].errors + OneIf(n \in FaultsOf(c))
  BY <1>1, <1>4, CountEntryFields
<1> HIDE DEF t
<1>7. /\ t.requests = Cardinality((K \union {n}) \intersect Requested)
      /\ t.fourXX = Cardinality((K \union {n}) \intersect Refused)
      /\ t.fiveXX = Cardinality((K \union {n}) \intersect Failed)
  BY <1>2, <1>5, Zenon DEF Counts
<1>8. ASSUME NEW c \in Clients
      PROVE  /\ t.clients[c].requests = Cardinality((K \union {n}) \intersect AskedBy(c))
             /\ t.clients[c].errors = Cardinality((K \union {n}) \intersect FaultsOf(c))
  BY <1>2, <1>6, Zenon DEF Counts
<1> QED BY <1>5, <1>7, <1>8, Zenon DEF Counts, t

\* The totals that summarize has after each round.
LEMMA SummarizeRuns ==
  ASSUME NEW log \in Seq(Numbered)
  PROVE  \E stats \in [0 .. Len(log) -> Tallies] :
           /\ stats[0] = Nothing
           /\ \A i \in 1 .. Len(log) : stats[i] = CountEntry(stats[i - 1], Entry[log[i]])
           /\ Summarize(log) = stats[Len(log)]
<1> DEFINE L == Len(log)
           After(i, s) == CountEntry(s, Entry[log[i]])
           Is(g) == g = [i \in 0 .. L |-> IF i = 0 THEN Nothing ELSE After(i, g[i - 1])]
           stats == CHOOSE g : Is(g)
           round == [i \in 1 .. L |-> [s \in Tallies |-> After(i, s)]]
<1>1. L \in Nat /\ Nothing \in Tallies
  BY DEF Nothing, Tallies
<1>2. \A i \in 1 .. L : \A s \in Tallies : After(i, s) \in Tallies
  BY CountEntryFields
<1>3. Summarize(log) = stats[L]
  BY DEF Summarize
<1> HIDE DEF After
<1>4. round \in [1 .. L -> [Tallies -> Tallies]]
  BY <1>2
<1>5. \A i \in 1 .. L : \A s \in Tallies : round[i][s] = After(i, s)
  OBVIOUS
<1> HIDE DEF L, round
<1>6. PICK g : Runs(g, L, Tallies, Nothing, round)
  BY <1>1, <1>4, LoopRuns DEF Loop
<1>7. \A i \in 1 .. L : g[i] = After(i, g[i - 1])
  <2>1. ASSUME NEW i \in 1 .. L PROVE g[i - 1] \in Tallies
    BY <1>1, <1>6 DEF Runs
  <2> QED BY <1>5, <1>6, <2>1 DEF Runs
<1>8. Is(g)
  <2>1. \A i \in 0 .. L : g[i] = IF i = 0 THEN Nothing ELSE After(i, g[i - 1])
    BY <1>1, <1>6, <1>7 DEF Runs
  <2>2. g = [i \in 0 .. L |-> g[i]]
    BY <1>6 DEF Runs
  <2> QED BY <2>1, <2>2, Zenon
<1>9. Is(stats)
  BY <1>8, Zenon
<1> HIDE DEF stats
<1>10. stats[0] = Nothing /\ \A i \in 1 .. L : stats[i] = After(i, stats[i - 1])
  BY <1>1, <1>9
<1> DEFINE P == {i \in 0 .. L : stats[i] \in Tallies}
<1>11. \A i \in 0 .. L : i \in P
  <2>1. 0 \in P
    <3>1. 0 \in 0 .. L
      BY <1>1
    <3> QED BY <1>1, <1>10, <3>1, Zenon
  <2>2. \A i \in 1 .. L : i - 1 \in P => i \in P
    BY <1>1, <1>2, <1>10
  <2> HIDE DEF P
  <2> QED BY <1>1, <2>1, <2>2, UpTo, Zenon
<1>12. stats \in [0 .. L -> Tallies]
  <2>1. \A i \in 0 .. L : stats[i] \in Tallies
    BY <1>11
  <2>2. stats = [i \in 0 .. L |-> stats[i]]
    BY <1>9
  <2> QED BY <2>1, <2>2
<1> QED BY <1>3, <1>10, <1>12 DEF L, After

\* Of different entries summarize counts each once: every total is the number of
\* entries of its class, and every client's share the number of its own.
LEMMA SummarizeCounts ==
  ASSUME NEW log \in Seq(Numbered),
         \A i, j \in 1 .. Len(log) : log[i] = log[j] => i = j
  PROVE  Counts(Range(log), Summarize(log))
<1> DEFINE L == Len(log)
           Seen(i) == {log[j] : j \in 1 .. i}
<1>1. L \in Nat /\ \A i \in 1 .. L : log[i] \in Numbered
  OBVIOUS
<1>2. PICK stats \in [0 .. L -> Tallies] :
        /\ stats[0] = Nothing
        /\ \A i \in 1 .. L : stats[i] = CountEntry(stats[i - 1], Entry[log[i]])
        /\ Summarize(log) = stats[L]
  BY SummarizeRuns
<1> DEFINE P == {i \in 0 .. L : Counts(Seen(i), stats[i])}
<1>3. \A i \in 0 .. L : i \in P
  <2>1. Counts(Seen(0), Nothing)
    <3>1. Seen(0) = {}
      OBVIOUS
    <3>2. \A W : Cardinality({} \intersect W) = 0
      <4>1. \A W : {} \intersect W = {}
        OBVIOUS
      <4> QED BY <4>1, FS_EmptySet
    <3> QED BY <3>1, <3>2 DEF Counts, Nothing, Tallies
  <2>2. 0 \in P
    BY <1>1, <1>2, <2>1
  <2>3. ASSUME NEW i \in 1 .. L, i - 1 \in P PROVE i \in P
    <3>1. Counts(Seen(i - 1), stats[i - 1])
      BY <2>3
    <3>2. Seen(i) = Seen(i - 1) \union {log[i]}
      <4>1. \A j : j \in 1 .. i <=> j \in 1 .. (i - 1) \/ j = i
        BY <1>1
      <4> HIDE DEF L
      <4> QED BY <4>1
    <3>3. Seen(i - 1) \in SUBSET Numbered
      BY <1>1
    <3>4. log[i] \in Numbered \ Seen(i - 1)
      BY <1>1
    <3>5. Counts(Seen(i), CountEntry(stats[i - 1], Entry[log[i]]))
      <4> DEFINE K == Seen(i - 1)
                 n == log[i]
                 t == stats[i - 1]
      <4>1. K \in SUBSET Numbered /\ n \in Numbered \ K /\ Counts(K, t)
        BY <3>1, <3>3, <3>4
      <4> HIDE DEF K, n, t
      <4>2. Counts(K \union {n}, CountEntry(t, Entry[n]))
        BY <4>1, CountsOneMore
      <4> QED BY <3>2, <4>2 DEF K, n, t
    <3> QED BY <1>1, <1>2, <3>5
  <2> HIDE DEF P
  <2> QED BY <1>1, <2>2, <2>3, UpTo, Zenon
<1>4. Counts(Seen(L), Summarize(log))
  <2>1. L \in P
    BY <1>1, <1>3
  <2> QED BY <1>2, <2>1
<1>5. Seen(L) = Range(log)
  BY DEF Range
<1> QED BY <1>4, <1>5

\* A sequence has no more values than places.
LEMMA RangeFits ==
  ASSUME NEW s \in Seq(Nat)
  PROVE  /\ IsFiniteSet(Range(s)) /\ Cardinality(Range(s)) <= Len(s)
<1>1. Len(s) \in Nat /\ s \in [1 .. Len(s) -> Range(s)]
  BY DEF Range
<1>2. \A n \in Range(s) : \E i \in 1 .. Len(s) : s[i] = n
  BY DEF Range
<1>3. s \in Surjection(1 .. Len(s), Range(s))
  BY <1>1, <1>2, Zenon DEF Surjection
<1>4. IsFiniteSet(1 .. Len(s)) /\ Cardinality(1 .. Len(s)) = Len(s)
  BY <1>1, FS_Interval
<1> QED BY <1>3, <1>4, FS_Surjection

-----------------------------------------------------------------------------
(* The sections, whatever is pressed.                                        *)

\* Entries are numbered up to the bound.
AddedBounded == added <= MaxAdded

\* Only Add numbers an entry, and not beyond the bound.
LEMMA AddedStep == AddedBounded /\ RingTypeOK /\ [RingNext]_ringVars => AddedBounded'
BY EntryAssumption DEF AddedBounded, RingTypeOK, RingNext, Add, Resize, ringVars

\* The rows of the Requests section are those that filter and snapshot make, and the
\* snapshot is a run of consecutive entries: no order of refreshes, filters and
\* resizes leaves rows of an earlier filter or snapshot behind (model.go:233-310).
ShowsTheSnapshot ==
  /\ visibleLogs = Shown(logs, filter)
  /\ logs \in Seq(Numbered)
  /\ \A i \in 1 .. Len(logs) : logs[i] = logs[1] - 1 + i

\* The ring is such a run whenever it is read.
LEMMA RingIsConsecutive ==
  RingTypeOK /\ NewestKept /\ AddedBounded =>
    /\ entries \in Seq(Numbered)
    /\ \A i \in 1 .. Len(entries) : entries[i] = entries[1] - 1 + i
<1> SUFFICES ASSUME RingTypeOK, NewestKept, AddedBounded
             PROVE  /\ entries \in Seq(Numbered)
                    /\ \A i \in 1 .. Len(entries) : entries[i] = entries[1] - 1 + i
  OBVIOUS
<1>1. entries \in Seq(Nat) /\ Len(entries) \in Nat /\ added \in Nat /\ MaxAdded \in Nat
  BY EntryAssumption DEF RingTypeOK
<1>2. Len(entries) <= added /\ \A k \in 1..Len(entries) : entries[k] = added - Len(entries) + k
  BY DEF NewestKept, AddedBounded
<1>3. \A k \in 1..Len(entries) : entries[k] \in Numbered
  BY <1>1, <1>2 DEF Numbered, AddedBounded
<1>4. entries \in Seq(Numbered)
  BY <1>1, <1>3
<1>5. ASSUME NEW i \in 1 .. Len(entries) PROVE entries[i] = entries[1] - 1 + i
  <2>1. 1 \in 1 .. Len(entries)
    BY <1>1
  <2>2. entries[1] = added - Len(entries) + 1 /\ entries[i] = added - Len(entries) + i
    BY <1>2, <2>1
  <2>3. \A a, l, e, f : a \in Nat /\ l \in Nat /\ e = a - l + 1 /\ f = a - l + i => f = e - 1 + i
    OBVIOUS
  <2> QED BY <1>1, <2>2, <2>3
<1> QED BY <1>4, <1>5

\* Every step that takes a snapshot, changes the filter or makes rows keeps the three
\* together.
LEMMA SnapshotStep ==
  /\ RingTypeOK /\ NewestKept /\ AddedBounded
  /\ ShowsTheSnapshot /\ [ConsoleNext]_consoleVars
  => ShowsTheSnapshot'
<1> SUFFICES ASSUME RingTypeOK, NewestKept, AddedBounded, ShowsTheSnapshot,
                    [ConsoleNext]_consoleVars
             PROVE  ShowsTheSnapshot'
  OBVIOUS
<1>1. CASE Refresh
  <2>1. logs' = entries /\ visibleLogs' = Shown(logs', filter')
    BY <1>1 DEF Refresh
  <2> QED BY <2>1, RingIsConsecutive DEF ShowsTheSnapshot
<1>2. ASSUME logs' = logs, visibleLogs' = Shown(logs', filter') PROVE ShowsTheSnapshot'
  BY <1>2 DEF ShowsTheSnapshot
<1>3. ASSUME NEW s \in Sizes, WindowSize(s) PROVE ShowsTheSnapshot'
  BY <1>2, <1>3 DEF WindowSize, screen, ShowsTheSnapshot
<1>4. ASSUME NEW f \in Filters, FilterKey(f) PROVE ShowsTheSnapshot'
  BY <1>2, <1>4 DEF FilterKey
<1>5. ASSUME UNCHANGED <<logs, filter, visibleLogs>> PROVE ShowsTheSnapshot'
  BY <1>2, <1>5 DEF ShowsTheSnapshot
<1>6. CASE Tick
  BY <1>1, <1>5, <1>6 DEF Tick, screen
<1>7. CASE Key
  BY <1>1, <1>4, <1>5, <1>7
     DEF Key, OpenHelp, CloseHelp, RefreshKey, PauseKey, SetActive, NextTab, PrevTab, Back,
         Jump, screen
<1>8. CASE SecondPasses \/ UNCHANGED console
  BY <1>5, <1>8 DEF SecondPasses, console, screen
<1> QED BY <1>3, <1>6, <1>7, <1>8 DEF ConsoleNext, Update, consoleVars

\* The rows are those that the snapshot and the filter make, and a snapshot is a run
\* of consecutive entries, whatever came in which order.
THEOREM ShowsTheSnapshotHolds == ConsoleSpec => []ShowsTheSnapshot
<1>1. ConsoleInit => ShowsTheSnapshot /\ AddedBounded
  BY EntryAssumption DEF ConsoleInit, RingInit, ShowsTheSnapshot, AddedBounded
<1> QED BY <1>1, ConsoleWatches, NewestKeptHolds, AddedStep, SnapshotStep, PTL
        DEF ConsoleSpec, RingSpec

\* The Requests section lists the entries of one snapshot of the ring that pass the
\* selected filter, each once and newest first, for any entries.
THEOREM ListsTheSnapshotHolds == ConsoleSpec => []ListsTheSnapshot
<1>1. ShowsTheSnapshot => ListsTheSnapshot
  <2> SUFFICES ASSUME ShowsTheSnapshot PROVE ListsTheSnapshot
    OBVIOUS
  <2>1. /\ logs \in Seq(Nat) /\ Len(logs) \in Nat
        /\ \A i \in 1 .. Len(logs) : logs[i] \in Nat /\ logs[i] = logs[1] - 1 + i
    BY EntryAssumption DEF ShowsTheSnapshot, Numbered
  <2>2. PICK k \in Int : \A i \in 1 .. Len(logs) : logs[i] = k + i
    <3>1. CASE Len(logs) = 0
      <4>1. \A i \in 1 .. Len(logs) : logs[i] = 0 + i
        BY <3>1
      <4> QED BY <4>1
    <3>2. CASE Len(logs) # 0
      <4> DEFINE first == logs[1] - 1
      <4>1. first \in Int
        BY <2>1, <3>2
      <4>2. \A i \in 1 .. Len(logs) : logs[i] = first + i
        BY <2>1
      <4> HIDE DEF first
      <4> QED BY <4>1, <4>2
    <3> QED BY <3>1, <3>2
  <2>3. ASSUME NEW i \in 1 .. Len(logs) - 1 PROVE logs[i + 1] = logs[i] + 1
    <3>1. i \in 1 .. Len(logs) /\ i + 1 \in 1 .. Len(logs)
      BY <2>1
    <3>2. logs[i] = k + i /\ logs[i + 1] = k + (i + 1)
      BY <2>2, <3>1
    <3> QED BY <2>2, <3>2
  <2>4. /\ visibleLogs \in Seq(Nat)
        /\ \A a, b \in 1 .. Len(visibleLogs) : a < b => visibleLogs[a] > visibleLogs[b]
        /\ Range(visibleLogs) = {n \in Range(logs) : Matches(filter, Entry[n])}
    BY <2>1, <2>2, ShownLists DEF ShowsTheSnapshot
  <2> QED BY <2>3, <2>4 DEF ListsTheSnapshot
<1> QED BY <1>1, ShowsTheSnapshotHolds, PTL

\* Overview, Clients and Requests agree: every total and every client's share is the
\* number of the snapshot's entries of its class, and no filter lists fewer.
THEOREM SectionsAgreeHolds == ConsoleSpec => []SectionsAgree
<1>1. ShowsTheSnapshot /\ ListsTheSnapshot => SectionsAgree
  <2> SUFFICES ASSUME ShowsTheSnapshot, ListsTheSnapshot PROVE SectionsAgree
    OBVIOUS
  <2> DEFINE stats == Summarize(logs)
             Held == Range(logs)
             Asked == {n \in Held : Entry[n].status # 0}
             Rejected == {n \in Asked : Entry[n].status \in 400..499}
             Broken == {n \in Asked : Entry[n].status >= 500}
             Of(c) == {n \in Asked : Entry[n].client = c}
  <2>1. /\ logs \in Seq(Numbered) /\ Len(logs) \in Nat
        /\ \A i \in 1 .. Len(logs) : logs[i] \in Nat /\ logs[i] = logs[1] - 1 + i
    BY EntryAssumption DEF ShowsTheSnapshot, Numbered
  <2>2. ASSUME NEW i \in 1 .. Len(logs), NEW j \in 1 .. Len(logs), logs[i] = logs[j]
        PROVE  i = j
    <3>1. 1 \in 1 .. Len(logs)
      BY <2>1
    <3> QED BY <2>1, <2>2, <3>1
  <2>3. Counts(Held, stats)
    BY <2>1, <2>2, SummarizeCounts
  <2>4. Held \subseteq Numbered /\ \A n \in Numbered : Entry[n].status \in Int
    BY <2>1, EntryAssumption DEF Range, Numbered
  <2> HIDE DEF Held, stats
  <2>5. /\ Held \intersect Requested = Asked
        /\ Held \intersect Refused = Rejected
        /\ Held \intersect Failed = Broken
    BY <2>4 DEF Requested, Refused, Failed
  <2>6. ASSUME NEW c
        PROVE  /\ Held \intersect AskedBy(c) = Of(c)
               /\ Held \intersect FaultsOf(c) = Of(c) \intersect (Rejected \union Broken)
    BY <2>4 DEF AskedBy, FaultsOf
  <2>7. \A K \in SUBSET Range(visibleLogs) : Cardinality(K) <= Len(visibleLogs)
    <3>1. visibleLogs \in Seq(Nat)
      BY ShownIsSeq DEF ShowsTheSnapshot
    <3>2. /\ IsFiniteSet(Range(visibleLogs)) /\ Cardinality(Range(visibleLogs)) \in Nat
          /\ Cardinality(Range(visibleLogs)) <= Len(visibleLogs) /\ Len(visibleLogs) \in Nat
      BY <3>1, RangeFits, FS_CardinalityType
    <3>3. ASSUME NEW K \in SUBSET Range(visibleLogs)
          PROVE  Cardinality(K) \in Nat /\ Cardinality(K) <= Cardinality(Range(visibleLogs))
      BY <3>2, FS_Subset, FS_CardinalityType
    <3> QED BY <3>2, <3>3
  <2>8. Range(visibleLogs) = {n \in Held : Matches(filter, Entry[n])}
    BY DEF ListsTheSnapshot, Held
  <2>9. /\ filter = "all" => Asked \subseteq Range(visibleLogs)
        /\ filter = "warnings" => Rejected \subseteq Range(visibleLogs)
        /\ filter = "errors" => Broken \subseteq Range(visibleLogs)
    <3>1. CASE filter = "all"
      BY <2>8, <3>1 DEF Matches
    <3>2. CASE filter = "warnings"
      BY <2>4, <2>8, <3>2 DEF Matches
    <3>3. CASE filter = "errors"
      BY <2>4, <2>8, <3>3 DEF Matches
    <3> QED BY <3>1, <3>2, <3>3
  <2>10. /\ stats.requests = Cardinality(Asked)
         /\ stats.fourXX = Cardinality(Rejected) /\ stats.fiveXX = Cardinality(Broken)
         /\ \A c \in Clients :
              /\ stats.clients[c].requests = Cardinality(Of(c))
              /\ stats.clients[c].errors = Cardinality(Of(c) \intersect (Rejected \union Broken))
    <3> HIDE DEF Asked, Rejected, Broken, Of
    <3> QED BY <2>3, <2>5, <2>6 DEF Counts
  <2>11. /\ filter = "all" => stats.requests <= Len(visibleLogs)
         /\ filter = "warnings" => stats.fourXX <= Len(visibleLogs)
         /\ filter = "errors" => stats.fiveXX <= Len(visibleLogs)
    <3> HIDE DEF Asked, Rejected, Broken
    <3> QED BY <2>7, <2>9, <2>10
  <2> QED BY <2>10, <2>11 DEF SectionsAgree, stats, Held
<1> QED BY <1>1, ShowsTheSnapshotHolds, ListsTheSnapshotHolds, PTL
=============================================================================
