SPECIFICATION Spec
CONSTANTS
  a1 = a1
  a2 = a2
  Addresses = {a1, a2}
  NoAddress = none
  Lists <- Ranked
  Dials = {d1}
  Hold = 2
  MaxPublications = 2
PROPERTIES NeverDisplacedByLowerRanked
