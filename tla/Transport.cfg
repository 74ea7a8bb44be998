SPECIFICATION FairSpec
CONSTANTS
  Requests = {r1, r2, r3}
  Policy <- MCPolicy
  DefaultFailureThreshold = 5
  DefaultOpenFor = 3
  MaxLag = 1
INVARIANTS OneProbe OpenForItsPeriod InFlightExact
PROPERTIES ImplementsContract ProbeIsJudged
