-------------------------- MODULE MCOperatorConsole --------------------------
(* OperatorConsole over LogRing on small instances. *)
EXTENDS OperatorConsole

SmallRecents == {-1, 1}

Says(client, level, status, auth) ==
  [client |-> client, level |-> level, status |-> status, auth |-> auth]

\* A failed authentication, a provider's failure, a refused reload, and a success.
FourEntries ==
  << Says("anonymous", "warn", 401, TRUE),
     Says("bob", "error", 500, FALSE), Says("system", "error", 0, FALSE),
     Says("alice", "info", 200, FALSE) >>

\* Wide, low, and compact.
ThreeSizes ==
  {[width |-> 140, height |-> 40], [width |-> 140, height |-> 10], [width |-> 60, height |-> 24]}
=============================================================================
