------------------------------- MODULE LogRing -------------------------------
(***************************************************************************)
(* The ring of recent log entries (internal/gateway/logring.go).  Add and  *)
(* Resize each run under the ring's mutex; the slice has no start index,   *)
(* so a full ring is shifted in place.  Entries are numbered in the order  *)
(* in which they were added.                                               *)
(***************************************************************************)
EXTENDS Integers, Sequences

CONSTANTS
  Recents,        \* values of logging.recent, also by programs that use New
  DefaultRecent,  \* logring.go:33, 57
  MaxAdded        \* bound: entries added

ASSUME RecentsAssumption == Recents \subseteq Int /\ Recents # {}
ASSUME DefaultRecentAssumption == DefaultRecent \in Nat \ {0}

VARIABLES
  entries,  \* LogRing.entries
  limit,    \* LogRing.limit
  added     \* history: entries added so far

ringVars == <<entries, limit, added>>

LimitOf(recent) == IF recent <= 0 THEN DefaultRecent ELSE recent

\* NewLogRing.
RingInit ==
  /\ entries = <<>>
  /\ \E recent \in Recents : limit = LimitOf(recent)
  /\ added = 0

\* Mutant of Add: the ring shifts one entry too early.
AddShiftsEarly ==
  /\ added < MaxAdded
  /\ entries' = IF Len(entries) >= limit - 1
                THEN [i \in 1..Len(entries) |->
                        IF i < Len(entries) THEN entries[i + 1] ELSE added + 1]
                ELSE Append(entries, added + 1)
  /\ added' = added + 1
  /\ UNCHANGED limit

\* The full ring shifts by one and the new entry takes the last place.
Shifted(s, e) == [i \in 1..Len(s) |-> IF i < Len(s) THEN s[i + 1] ELSE e]

Add ==
  /\ added < MaxAdded
  /\ entries' = IF Len(entries) >= limit
                THEN Shifted(entries, added + 1)
                ELSE Append(entries, added + 1)
  /\ added' = added + 1
  /\ UNCHANGED limit

\* Mutant of Trimmed: the first n entries of s.
TrimmedAtEnd(s, n) == [i \in 1..n |-> s[i]]

\* The last n entries of s.
Trimmed(s, n) == [i \in 1..n |-> s[Len(s) - n + i]]

\* Resize to the limit in force does nothing.
Resize(recent) ==
  /\ LimitOf(recent) # limit
  /\ entries' = IF Len(entries) > LimitOf(recent)
                THEN Trimmed(entries, LimitOf(recent))
                ELSE entries
  /\ limit' = LimitOf(recent)
  /\ UNCHANGED added

RingNext == Add \/ \E recent \in Recents : Resize(recent)

RingSpec == RingInit /\ [][RingNext]_ringVars

-----------------------------------------------------------------------------
RingTypeOK ==
  /\ entries \in Seq(Nat)
  /\ limit \in Nat \ {0}
  /\ added \in Nat

\* "logging.recent is resized live while retaining newest entries"
\* (docs/ARCHITECTURE.md:118): after any mixture of additions and resizings the
\* ring holds the newest entries, all of them in order, none twice, and never
\* more than its limit (logring.go:38-75).
NewestKept ==
  /\ Len(entries) <= limit
  /\ Len(entries) <= added
  /\ \A i \in 1..Len(entries) : entries[i] = added - Len(entries) + i

\* The ring gives up an entry only for lack of room: a step that leaves room
\* loses nothing (logring.go:47, 64).
KeepsWhatFits ==
  [][LET wanted == Len(entries) + (added' - added)
     IN Len(entries') = IF wanted > limit' THEN limit' ELSE wanted]_ringVars
=============================================================================
