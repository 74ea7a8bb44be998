SPECIFICATION Spec
CONSTANTS
  Requests = {r1, r2, r3}
  Limits <- OneTwoUnlimited
  MaxLimit = 2
  Window = 6
  Second = 3
  MaxLag = 1
  MaxTime = 11
SYMMETRY Symmetry
INVARIANT QuotaSpansWindow
PROPERTIES RejectionsAreEarned RetryAfterIsEnough
