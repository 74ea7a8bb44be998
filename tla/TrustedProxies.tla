--------------------------- MODULE TrustedProxies ---------------------------
(***************************************************************************)
(* Who a request comes from (internal/gateway/trusted_proxy.go), and what  *)
(* the hosts on its way write about that.  A host is an IP address as      *)
(* Unmap leaves it; the trusted prefixes are the set of hosts they hold.   *)
(***************************************************************************)
EXTENDS Naturals, Sequences, FiniteSetsExt

CONSTANTS
  Hosts,      \* every address that sends or relays requests
  Naming,     \* the reverse proxies that name their caller in X-Real-IP
  Malformed,  \* a header entry that is not an address
  Absent      \* no X-Real-IP header

ASSUME HostsAssumption ==
  Malformed \notin Hosts /\ Absent \notin Hosts /\ Malformed # Absent /\ Naming \subseteq Hosts

\* What X-Forwarded-For and X-Real-IP of a request may hold.
Claims == [forwarded : Seq(Hosts \union {Malformed}), realIP : Hosts \union {Malformed, Absent}]

\* parseForwardedChain: one bad entry spoils the chain.
ValidChain(forwarded) == \A i \in DOMAIN forwarded : forwarded[i] # Malformed

\* Mutant of FirstUntrusted: the walk goes from the left to the right.
FirstFromTheLeft(trusted, chain) ==
  chain[Min({Len(chain)} \union {i \in DOMAIN chain : chain[i] \notin trusted})]

\* The walk over the chain from the right, which ends at the first entry at the
\* latest.
FirstUntrusted(trusted, chain) ==
  chain[Max({1} \union {i \in DOMAIN chain : chain[i] \notin trusted})]

\* resolveClientIP; the server's RemoteAddr always parses.
ResolveClientIP(trusted, peer, claims) ==
  IF peer \notin trusted
  THEN peer
  ELSE IF claims.forwarded # <<>> /\ ValidChain(claims.forwarded)
  THEN FirstUntrusted(trusted, Append(claims.forwarded, peer))
  ELSE IF claims.realIP \in Hosts THEN claims.realIP ELSE peer

-----------------------------------------------------------------------------
\* A controlled reverse proxy appends the host it was called by to X-Forwarded-For,
\* as the walk needs it.  Nothing asks it to touch X-Real-IP: it names the caller
\* there, or passes on what it was sent (in trusted_proxy_test.go:63-64 the two
\* headers disagree).
Relayed(host, caller, claims) ==
  [forwarded |-> Append(claims.forwarded, caller),
   realIP |-> IF host \in Naming THEN caller ELSE claims.realIP]

\* The hosts of a path that are not trusted.  What happened behind the last of
\* them is known from trusted hosts alone.
Outsiders(trusted, path) == {i \in DOMAIN path : path[i] \notin trusted}
=============================================================================
