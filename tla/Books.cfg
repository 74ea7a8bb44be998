SPECIFICATION Spec
CONSTANTS
  Requests = {r1, r2}
  MaxServed = 3
SYMMETRY Symmetry
INVARIANTS GaugesNest ExcusedIsSilent LogsMatchMetrics
CHECK_DEADLOCK FALSE
