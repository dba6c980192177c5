SPECIFICATION LiveSpec
CONSTANTS
  IsRotaryWing = TRUE
  HilSetup = FALSE
  StartupInHil = FALSE
  DatalinkLossEnabled = TRUE
  DisarmOnLand = FALSE
  GeofenceAction = "NONE"
  Sensed = {"data_link_lost", "gps_failure", "global_position"}
  Steady = {"local_altitude", "local_position", "rc_signal_lost"}
  Healths = {TRUE}
  Switches <- MCNoSwitches
  Gestures = {"none"}
  Commands <- MCFlights
  MaxCommands = 1
  MaxLosses = 1
  MissionResults <- MCAnyResult
  DatalinkLossObc = TRUE
  RcLossObc = TRUE
  LossLimit = 0
  SkipCommsHold = FALSE
  RcLoiters = TRUE
  LandDelays = TRUE
  Finishes = {FALSE}
PROPERTIES DataLinkLossTerminates NoWayBack RcLossTerminates GpsLossTerminates
