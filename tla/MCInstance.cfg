SPECIFICATION Spec
CONSTANTS
  Daemons = {d1, d2, d3, d4}
  Nobody = nobody
SYMMETRY Alike
INVARIANTS TypeOK AloneIsReachable StopLeavesNothing OneClaimUntilRemoved
PROPERTIES LeftoversBlockNobody
CHECK_DEADLOCK FALSE
