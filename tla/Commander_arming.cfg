SPECIFICATION Spec
CONSTANTS
  IsRotaryWing = TRUE
  HilSetup = FALSE
  StartupInHil = FALSE
  DatalinkLossEnabled = TRUE
  DisarmOnLand = TRUE
  GeofenceAction = "NONE"
  Sensed = {"safety_on", "landed"}
  Steady = {"local_altitude", "local_position", "global_position"}
  Healths = {TRUE, FALSE}
  Switches <- MCManualSwitch
  Gestures = {"none", "arm", "disarm"}
  Commands <- MCArmCommands
  MaxCommands = 2
  MaxLosses = 0
  MissionResults <- MCNoResults
INVARIANTS ArmedAgrees HilLocked
