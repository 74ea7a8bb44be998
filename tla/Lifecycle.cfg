SPECIFICATION StartSpec
CONSTANTS
  Requests = {r1, r2}
INVARIANTS Isolation LimiterOutlivesRequests StartTypeOK
PROPERTIES StopEnds SavesWhatWasSubmitted
CHECK_DEADLOCK FALSE
