----------------------------- MODULE MCCommander -----------------------------
(* Small instances of Commander. *)
EXTENDS Commander

MCBench == {"sensors_initialized", "landed"}
Sp(mode, on) == [mode |-> mode, on |-> on, off |-> {"loiter", "return"} \ on]
MCManualSwitch == {Sp("OFF", {})}
MCModeSwitches == {Sp("OFF", {}), Sp("ON", {})}

SetMode(hil, arm, main) == Command("DO_SET_MODE", arm, [hil |-> hil, main |-> main])
Arm(on, from) == Command("COMPONENT_ARM_DISARM", on, from)
CalibrateCommand(kind) == Command("CALIBRATION", TRUE, kind)
MCArmCommands ==
    {Arm(TRUE, "ground"), Arm(FALSE, "ground"), Arm(TRUE, "onboard"), Arm(FALSE, "onboard"),
     SetMode(TRUE, FALSE, "none"), SetMode(TRUE, TRUE, "AUTO_MISSION"),
     Command("REBOOT", TRUE, "none"), Command("DO_FLIGHTTERMINATION", FALSE, "none"),
     CalibrateCommand("sensor"), CalibrateCommand("rc_start"), CalibrateCommand("rc_end"),
     CalibrateCommand("esc")}
MCModeCommands ==
    {Command("NAV_TAKEOFF", TRUE, "none"), Command("OVERRIDE_GOTO", TRUE, "AUTO_LOITER"),
     Command("DO_SET_HOME", FALSE, "none"), Command("NAV_GUIDED_ENABLE", TRUE, "none"),
     CalibrateCommand("sensor")}
MCNoResults == {NoResult}
=============================================================================
