SPECIFICATION FairSpec
CONSTANTS
  MaxItems = 3
  Plans <- MCPlans
  Cards <- MCCards
  Starts <- MCStarts
  MaxTries = 3
  RotaryWing = TRUE
  MaxEvents = 2
INVARIANTS TypeOK FlownItem JumpsCounted
PROPERTIES NoItemSkipped PickedUp MissionEnds
