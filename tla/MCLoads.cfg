SPECIFICATION LiveSpec
CONSTANTS
  r1 = r1
  r2 = r2
  r3 = r3
  u1 = u1
  p0 = p0
  p1 = p1
  p2 = p2
  home = home
  other = other
  Rules = {r1, r2, r3}
  Lists = {u1}
  Ports = {p0, p1, p2}
  Bad = bad
  Unset = unset
  Scripts <- TwoScripts
  DefaultPort = p0
  DefaultPath = home
  Clients = {daemon, cli}
  Booting = daemon
  Requests <- Asking
  Supervised = TRUE
  MaxRules = 2
  MaxRuns = 2
  MaxRestarts = 1
INVARIANTS NoScriptWaitsForNothing CompletionIsOfItsRun
PROPERTIES StagedByItsRun LoadsAreAtomic EveryClientAnswered
