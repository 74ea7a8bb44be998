SPECIFICATION FairSpecReadiness
CONSTANTS
  Requests = {r1, r2}
  Policies <- AllPolicies
  MaxReloads = 1
  DefaultFailureThreshold = 5
  DefaultOpenFor = 3
  MaxLag = 1
INVARIANTS PermitPerSnapshot BornHalfOpenIsFrozen
PROPERTIES OpenIsProbed ReadyAgain DrainedStaysUnready
