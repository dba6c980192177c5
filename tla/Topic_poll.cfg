SPECIFICATION FairSpec
CONSTANTS
  a1 = a1
  a2 = a2
  s1 = s1
  Advertisers = {a1, a2}
  Subscribers = {s1}
  Instances = 2
  Multi = {a2}
  Wants <- MCWants
  Limited = {s1}
  MaxWaiters = 1
  MaxMessages = 2
  Closes = TRUE
INVARIANTS TypeOK NothingMissed SleepersAreTold NoStaleWaiters
PROPERTIES KeepsItsInstance CatchesUp
CHECK_DEADLOCK FALSE
