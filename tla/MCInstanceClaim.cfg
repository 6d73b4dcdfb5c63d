SPECIFICATION Spec
CONSTANTS
  Daemons = {d1, d2, d3}
  Nobody = nobody
INVARIANTS ClaimIsExclusive
CHECK_DEADLOCK FALSE
