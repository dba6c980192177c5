SPECIFICATION FairSpec
CONSTANTS
  IsRotaryWing = TRUE
  HilSetup = FALSE
  StartupInHil = FALSE
  DatalinkLossEnabled = TRUE
  DisarmOnLand = FALSE
  GeofenceAction = "RTL"
  Sensed = {"global_position", "gps_failure", "usb_connected"}
  Steady = {"local_altitude", "local_position", "landed", "data_link_lost"}
  Healths = {TRUE}
  Switches <- MCModeSwitches
  Gestures = {"none", "arm"}
  Commands <- MCModeCommands
  MaxCommands = 1
  MaxLosses = 0
  MissionResults <- MCNoResults
INVARIANT AutoHasHome
PROPERTIES InitIsLeft TerminationPublished
