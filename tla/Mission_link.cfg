SPECIFICATION Spec
CONSTANTS
  l1 = l1
  l2 = l2
  g1 = g1
  g2 = g2
  Links = {l1}
  Stations = {g1, g2}
  NoStation = none
  MaxItems = 2
  Kinds <- MCOneLink
  Marks = {TRUE, FALSE}
  Outcomes = {"ok", "fail", "torn"}
  Preemptive = TRUE
  MaxTransfers = 2
  MaxBoots = 1
INVARIANTS ActiveComplete PersistedMatchesActive
PROPERTY RequestsInRange
