SPECIFICATION Spec
CONSTANTS
  Requests = {r1, r2}
  Limits <- OneOrTwo
  MaxLimit = 2
  Window = 2
  Ttl = 3
  MaxTries = 2
  MaxSent = 3
  MaxTime = 3
SYMMETRY Symmetry
INVARIANTS SharedWindowExact ChargedForAReason
CHECK_DEADLOCK FALSE
