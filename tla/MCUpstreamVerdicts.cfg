SPECIFICATION LiveSpec
CONSTANTS
  a1 = a1
  a2 = a2
  Addresses = {a1, a2}
  NoAddress = none
  Lists <- Ranked
  Dials = {d1, d2}
  Hold = 1
  MaxPublications = 2
PROPERTIES UpInServiceKeeps PatrolConverges FirstTakesBack
