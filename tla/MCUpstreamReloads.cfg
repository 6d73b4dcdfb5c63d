SPECIFICATION HSpec
CONSTANTS
  a1 = a1
  a2 = a2
  Addresses = {a1, a2}
  NoAddress = none
  Lists <- Reloaded
  Dials = {d1}
  Hold = 1
  MaxPublications = 4
INVARIANTS HandleIsOneRun LoggedIsObserved
PROPERTIES NoVerdictAcrossRemoval ReloadLoggedOnce TwoProbesAgree
