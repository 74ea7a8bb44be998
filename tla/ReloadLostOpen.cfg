SPECIFICATION Spec
CONSTANTS
  Requests = {r1, r2}
  Policies <- OnePolicy
  MaxReloads = 1
  DefaultFailureThreshold = 5
  DefaultOpenFor = 3
  MaxLag = 1
PROPERTY CircuitSurvivesReload
