SPECIFICATION SpecOrderly
CONSTANTS
  l1 = l1
  l2 = l2
  g1 = g1
  g2 = g2
  Links = {l1, l2}
  Stations = {g1}
  NoStation = none
  MaxItems = 2
  Kinds <- MCContend
  Marks = {FALSE}
  Outcomes = {"ok", "fail"}
  Preemptive = FALSE
  MaxTransfers = 2
  MaxBoots = 1
INVARIANTS OneTransfer InactiveStorage
PROPERTY ImplementsMissionStore
