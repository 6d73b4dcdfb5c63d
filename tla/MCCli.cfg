SPECIFICATION LiveSpec
CONSTANTS
  x = x
  y = y
  script = script
  h4 = h4
  s4 = s4
  h6 = h6
  s6 = s6
  f4 = f4
  u1 = u1
  u2 = u2
  Callers = {x, y, script}
  Script = script
  Bad = bad
  Unset = unset
  Addresses = {h4, s4, h6, s6, f4}
  V6 = {h6, s6}
  Listens <- Pairs
  DefaultListen <- Four
  Bits = 2
  PortBits = 2
  Characters = {"a", "b", "A", "B", ".", "*", " ", ":", "[", "]", "/", "0", "1", "+"}
  KEPT_FILES = 2
  MaxDays = 3
  PlanKeys <- Keys
  PlanOf <- PlanAt
CHECK_DEADLOCK FALSE
INVARIANTS SuccessMeansDone TestTells DoctorTells ShownOnceInOrder ShownWithoutGaps
PROPERTIES  EveryVerbEnds
