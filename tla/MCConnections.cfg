SPECIFICATION Spec
CONSTANTS
  Subscribers = {s1}
  Capacity = 1
  c1 = c1
  c2 = c2
  c3 = c3
  Conns = {c1, c2, c3}
  Visits <- AnyAndBrief
  Upstreams = {u1, u2}
  far = far
  Destinations = {far, own}
  Own = own
  None = none
SYMMETRY Alike
INVARIANTS TypeOK OneLineEach AnswersTell RulesAreKept EventTells OnlyItsBody GapsAreTold
CHECK_DEADLOCK FALSE
