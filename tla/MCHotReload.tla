---------------------------- MODULE MCHotReload ----------------------------
(* HotReload on small instances. *)
EXTENDS HotReload, TLC

CONSTANTS usual, other

\* One of the settings differs from the usual ones, or none does.
OneDiffers ==
  {f \in [Settings -> {usual, other}] :
     \A x, y \in Settings : f[x] = other /\ f[y] = other => x = y}
=============================================================================
