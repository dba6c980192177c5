----------------------------- MODULE MCFailsafe -----------------------------
(* Small instances of the commander with the navigator. *)
EXTENDS Failsafe

Mode(arm, main) == Command("DO_SET_MODE", arm, [hil |-> FALSE, main |-> main])
MCFlights == {Mode(TRUE, "AUTO_MISSION"), Mode(TRUE, "MANUAL"), Mode(TRUE, "AUTO_RTL"),
              Command("REBOOT", TRUE, "none")}
MCNoSwitches == {NoSwitch}
MCAnyResult == Results
=============================================================================
