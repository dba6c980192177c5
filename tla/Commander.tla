------------------------------ MODULE Commander ------------------------------
(***************************************************************************)
(* The commander (src/modules/commander/commander.cpp): the main loop that *)
(* reads the topics, runs the state machines of VehicleState, handles      *)
(* commands and publishes the state of the vehicle, and the low priority   *)
(* thread that calibrates sensors and reboots.  Both threads work on the   *)
(* same records.                                                           *)
(*                                                                         *)
(* The main loop is cut where it calls the state machines, so that the     *)
(* other thread runs between any two of them.  What it senses is chosen    *)
(* anew in every cycle.  Positions, commands and the results of the        *)
(* navigator come from the environment.                                    *)
(***************************************************************************)
EXTENDS VehicleState, Naturals, Sequences

CONSTANTS
    HilSetup,               \* is_hil_setup(autostart_id)
    StartupInHil,           \* startup_in_hil
    DatalinkLossEnabled,    \* COM_DL_LOSS_EN
    DisarmOnLand,           \* COM_DISARM_LAND > 0
    GeofenceAction,         \* GF_ACTION
    Sensed,                 \* bound: the conditions a reading may change
    Steady,                 \* bound: the other conditions every reading finds
    Healths,                \* bound: answers of Commander::preflightCheck
    Switches, Gestures,     \* bound: of the remote control
    Commands, MaxCommands,  \* bound: vehicle_commands, and how many are sent
    MaxLosses,              \* bound: data_link_lost_counter stops here
    MissionResults          \* bound: what the navigator may publish

FenceActions == {"NONE", "WARN", "LOITER", "RTL", "TERMINATE"}
Command(name, on, arg) == [name |-> name, on |-> on, arg |-> arg]
Calibrations == {"sensor", "rc_start", "rc_end", "esc", "none"}
\* what the second parameter of a command may say
Arguments(name) ==
    CASE name = "DO_SET_MODE" -> [hil : BOOLEAN, main : MainStates \cup {"none"}]
      [] name = "COMPONENT_ARM_DISARM" -> {"ground", "onboard"}
      [] name = "OVERRIDE_GOTO" -> {"AUTO_LOITER", "AUTO_MISSION"}
      [] name = "DO_FLIGHTTERMINATION" -> Failures
      [] name = "CALIBRATION" -> Calibrations
      [] OTHER -> {"none"}
Results == [finished : BOOLEAN, stay_in_failsafe : BOOLEAN, flight_termination : BOOLEAN]
NoResult == [finished |-> FALSE, stay_in_failsafe |-> FALSE, flight_termination |-> FALSE]
SwitchNames == {"offboard", "return", "acro", "rattitude", "posctl", "loiter"}
\* a switch that is in neither set is in its middle or not mapped
SwitchPositions == [mode : {"NONE", "OFF", "MIDDLE", "ON"}, on : SUBSET SwitchNames,
                    off : SUBSET SwitchNames]
NoSwitch == [mode |-> "NONE", on |-> {}, off |-> {}]

ASSUME CommanderAssumption ==
    /\ HilSetup \in BOOLEAN /\ StartupInHil \in BOOLEAN
    /\ DatalinkLossEnabled \in BOOLEAN /\ DisarmOnLand \in BOOLEAN
    /\ GeofenceAction \in FenceActions
    /\ Sensed \subseteq Conditions /\ Steady \subseteq Conditions \ Sensed
    /\ Healths \subseteq BOOLEAN
    /\ Switches \subseteq SwitchPositions /\ Gestures \subseteq {"none", "arm", "disarm"}
    /\ \A c \in Commands : c.on \in BOOLEAN /\ c.arg \in Arguments(c.name)
    /\ MaxCommands \in Nat /\ MaxLosses \in Nat
    /\ MissionResults \subseteq Results

VARIABLES
    status, armed,          \* the records both threads write
    loop,                   \* main loop: where it is, and its local variables
    lp,                     \* low priority thread: where it is, and its calibration
    commands,               \* the newest vehicle_command each thread has not read
    issued,
    mission_result,         \* topics of the navigator
    geofence_result,
    published               \* topics of the commander

sharedVars == <<status, armed>>
topicVars == <<mission_result, geofence_result>>
envVars == <<commands, issued, mission_result, geofence_result>>
vars == <<status, armed, loop, lp, envVars, published>>

NoCommand == Command("none", FALSE, "none")

Fences == [loiter_on : BOOLEAN, rtl_on : BOOLEAN, before : MainStates \cup {"MAX"}]
Sections == {"sense", "land", "battery", "standby", "results", "rc", "links",
             "command", "finish"}
LpSteps == {"wait", "reset", "start", "calibrate", "preflight", "standby"}

\* who acts on the actuators, and flag_control_termination_enabled
ControlModes == [armed : BOOLEAN, by : {"manual", "auto", "offboard", "none"},
                 termination : BOOLEAN]

BootStatus(healthy) ==
    [arming_state |-> "INIT", main_state |-> "MANUAL", nav_state |-> "MANUAL",
     hil_on |-> StartupInHil, failsafe |-> FALSE, failure_cmd |-> "none",
     calibration_enabled |-> FALSE, rc_input_blocked |-> FALSE,
     offboard_by_command |-> FALSE,
     conditions |-> {"landed", "rc_signal_lost", "offboard_control_signal_lost",
                     "data_link_lost"}
                    \cup (IF healthy THEN {"sensors_initialized"} ELSE {})]
BootArmed == [armed |-> FALSE, ready_to_arm |-> FALSE, lockdown |-> FALSE,
              force_failsafe |-> FALSE, in_esc_calibration_mode |-> FALSE]
BootLoop ==
    [at |-> "sense", status_changed |-> TRUE, was_armed |-> FALSE, was_landed |-> TRUE,
     critical_done |-> FALSE, check_for_disarming |-> FALSE, inair |-> FALSE,
     sp_man |-> NoSwitch, last_sp_man |-> NoSwitch, pre_offboard |-> "MANUAL",
     fence |-> [loiter_on |-> FALSE, rtl_on |-> FALSE, before |-> "MAX"],
     mission_result |-> NoResult, losses |-> 0]
BootPublished ==
    [nav_state |-> "MANUAL", landed |-> TRUE, losses |-> 0, armed |-> BootArmed,
     control_mode |-> [armed |-> FALSE, by |-> "none", termination |-> FALSE]]

Init ==
    /\ \E healthy \in Healths : status = BootStatus(healthy)
    /\ armed = BootArmed /\ loop = BootLoop
    /\ lp = [at |-> "wait", kind |-> "none"]
    /\ commands = [main |-> NoCommand, low_prio |-> NoCommand] /\ issued = 0
    /\ mission_result = NoResult
    /\ geofence_result = [action |-> "NONE", violated |-> FALSE]
    /\ published = BootPublished

\* px4_systemreset: every task starts again
SystemReset ==
    /\ \E healthy \in Healths : status' = BootStatus(healthy)
    /\ armed' = BootArmed /\ loop' = BootLoop
    /\ lp' = [at |-> "wait", kind |-> "none"]
    /\ commands' = [main |-> NoCommand, low_prio |-> NoCommand]
    /\ mission_result' = NoResult
    /\ geofence_result' = [action |-> "NONE", violated |-> FALSE]
    /\ published' = BootPublished
    /\ UNCHANGED issued

-----------------------------------------------------------------------------
\* What a reading of some conditions may find, and the record after it
Readings(which) == {seen \cup (Steady \cap which) : seen \in SUBSET (Sensed \cap which)}
Sense(s, which, seen) == [s EXCEPT !.conditions = (@ \ which) \cup seen]

\* The main loop goes on to another section; changed raises status_changed
Goes(section, changed) ==
    [loop EXCEPT !.at = section, !.status_changed = @ \/ changed]

\* arming_state_transition by one thread, if wanted
Arming(wanted, s, new, checks, healthy) ==
    IF wanted THEN arming_state_transition(s, armed, new, checks, healthy)
    ELSE [ret |-> "NOT_CHANGED", status |-> s, armed |-> armed]
\* arm_disarm
ArmDisarm(wanted, s, arm, healthy) ==
    IF wanted /\ arm /\ HilSetup /\ ~s.hil_on
    THEN [ret |-> "DENIED", status |-> s, armed |-> armed]
    ELSE Arming(wanted, s, IF arm THEN "ARMED" ELSE "STANDBY", TRUE, healthy)
\* How the safety switch and the sticks disarm
Disarmed(s) == IF s.arming_state = "ARMED" THEN "STANDBY" ELSE "STANDBY_ERROR"

InputConditions == {"offboard_control_signal_lost", "power_bad", "usb_connected",
                    "safety_on", "global_position", "local_position", "local_altitude"}
ReportedConditions == InputConditions \ {"power_bad", "usb_connected"}

\* Offboard signal, power, safety switch and positions
SenseInputs ==
    /\ loop.at = "sense"
    /\ \E seen \in Readings(InputConditions), sp \in Switches, updated \in BOOLEAN,
          healthy \in Healths :
        LET s == Sense(status, InputConditions, seen)
            changed == (seen \cap ReportedConditions)
                         # (status.conditions \cap ReportedConditions)
            wanted == updated /\ Holds(s, "safety_on") /\ ~s.hil_on /\ armed.armed
            r == Arming(wanted, s, Disarmed(s), TRUE, healthy)
        IN  /\ Holds(status, "usb_connected") => Holds(s, "usb_connected")
            /\ Holds(status, "safety_on") # Holds(s, "safety_on") => updated
            /\ status' = r.status /\ armed' = r.armed
            /\ loop' = [Goes("land", changed \/ r.ret = "CHANGED") EXCEPT !.sp_man = sp]
    /\ UNCHANGED <<lp, envVars, published>>

\* A board that is on USB power and stays on resets when the cable goes away
UsbDisconnected ==
    /\ loop.at = "sense"
    /\ Holds(status, "usb_connected") /\ "usb_connected" \in Sensed
    /\ SystemReset

\* The land detector, and disarming some time after a landing: timing what
\* remains of it starts with the first report on the ground
LandDetector ==
    /\ loop.at = "land"
    /\ \E updated \in BOOLEAN, seen \in Readings({"landed"}), elapsed \in BOOLEAN,
          healthy \in Healths :
        LET reported == (updated /\ Holds(status, "local_altitude")) \/ loop.check_for_disarming
            s == IF reported THEN Sense(status, {"landed"}, seen) ELSE status
            timing == DisarmOnLand /\ reported /\ "landed" \in seen
            expired == timing /\ elapsed /\ loop.check_for_disarming /\ loop.inair
            r == ArmDisarm(expired, s, FALSE, healthy)
        IN  /\ ~updated => seen = status.conditions \cap {"landed"}
            /\ status' = r.status /\ armed' = r.armed
            /\ loop' = [Goes("battery", s # status) EXCEPT
                          !.check_for_disarming = (@ \/ (timing /\ loop.inair)) /\ ~expired,
                          !.inair = (@ \/ (DisarmOnLand /\ reported /\ ~timing)) /\ ~expired]
    /\ UNCHANGED <<lp, envVars, published>>

\* A critical battery locks arming, once
Battery ==
    /\ loop.at = "battery"
    /\ \E critical \in BOOLEAN, healthy \in Healths :
        LET now == critical /\ ~loop.critical_done /\ ~Holds(status, "usb_connected")
            r == Arming(now /\ ~armed.armed, status, "STANDBY_ERROR", TRUE, healthy)
        IN  /\ critical => "power_bad" \in Sensed
            /\ status' = r.status /\ armed' = r.armed
            /\ loop' = [Goes("standby", now) EXCEPT !.critical_done = @ \/ now]
    /\ UNCHANGED <<lp, envVars, published>>

\* If in INIT state, try to proceed to STANDBY state
ProceedToStandby ==
    /\ loop.at = "standby"
    /\ \E healthy \in Healths :
        LET r == Arming(~status.calibration_enabled /\ status.arming_state = "INIT",
                        status, "STANDBY", TRUE, healthy)
        IN  /\ status' = r.status /\ armed' = r.armed
            /\ loop' = Goes("results", r.ret = "CHANGED")
    /\ UNCHANGED <<lp, envVars, published>>

-----------------------------------------------------------------------------
\* The main state the fence asks for
Fenced(s) ==
    CASE GeofenceAction = "LOITER" -> main_state_transition(s, "AUTO_LOITER")
      [] GeofenceAction = "RTL" -> main_state_transition(s, "AUTO_RTL")
      [] OTHER -> s

\* The fence's flags stand until the state it chose is left or a switch chooses
\* it; before is the last main state without one.  e is what s became.
Standing(s, e, f) ==
    LET entered(state) == e.main_state = state /\ s.main_state # state
        loiter_on == /\ f.loiter_on \/ (GeofenceAction = "LOITER" /\ entered("AUTO_LOITER"))
                     /\ e.main_state = "AUTO_LOITER" /\ "loiter" \in loop.sp_man.off
        rtl_on == /\ f.rtl_on \/ (GeofenceAction = "RTL" /\ entered("AUTO_RTL"))
                  /\ e.main_state = "AUTO_RTL" /\ "return" \in loop.sp_man.off
    IN  [loiter_on |-> loiter_on, rtl_on |-> rtl_on,
         before |-> IF loiter_on \/ rtl_on THEN f.before ELSE e.main_state]
\* Moving the sticks takes the fence's state back
Reverts(f, moved) ==
    moved /\ (f.loiter_on \/ f.rtl_on) /\ f.before \in ManualStates \ {"RATTITUDE"}

\* GPS, the results of the navigator, the action on a violated fence (at most
\* every ten seconds: due) and the termination the navigator asks for
MissionAndFence ==
    /\ loop.at = "results"
    /\ \E seen \in Readings({"gps_failure"}), due \in BOOLEAN, moved \in BOOLEAN :
        LET s == Sense(status, {"gps_failure"}, seen)
            fenced == armed.armed /\ geofence_result.action # "NONE"
            violated == fenced /\ due /\ geofence_result.violated
            e == IF violated THEN Fenced(s) ELSE s
            f == Standing(s, e, loop.fence)
            terminates == \/ violated /\ GeofenceAction = "TERMINATE"
                          \/ armed.armed /\ mission_result.flight_termination
        IN  /\ status' = IF fenced /\ Reverts(f, moved)
                         THEN main_state_transition(e, f.before) ELSE e
            /\ armed' = [armed EXCEPT !.force_failsafe = @ \/ terminates]
            /\ loop' = [Goes("rc", s # status \/ terminates) EXCEPT
                          !.fence = IF fenced THEN f ELSE @,
                          !.mission_result = mission_result]
    /\ UNCHANGED <<lp, envVars, published>>

-----------------------------------------------------------------------------
\* What the switches ask for, in the order in which it is tried
RcWishes(sp) ==
    (IF "offboard" \in sp.on THEN <<"OFFBOARD">> ELSE <<>>)
      \o (IF "return" \in sp.on THEN <<"AUTO_RTL", "AUTO_LOITER">> ELSE <<>>)
      \o CASE sp.mode = "NONE" -> <<>>
           [] sp.mode = "OFF" ->
                <<IF {"acro", "rattitude"} \cap sp.on = {} THEN "MANUAL"
                  ELSE IF ~IsRotaryWing THEN "STAB"
                  ELSE IF "acro" \in sp.on THEN "ACRO" ELSE "RATTITUDE">>
           [] sp.mode = "MIDDLE" ->
                (IF "posctl" \in sp.on THEN <<"POSCTL">> ELSE <<>>) \o <<"ALTCTL", "MANUAL">>
           [] sp.mode = "ON" ->
                (IF "loiter" \in sp.on THEN <<"AUTO_LOITER">>
                 ELSE <<"AUTO_MISSION", "AUTO_LOITER">>) \o <<"POSCTL", "ALTCTL", "MANUAL">>

\* set_main_state_rc: the first of them that is allowed
set_main_state_rc(s, sp) ==
    LET wishes == RcWishes(sp)
        allowed == {i \in DOMAIN wishes : MainAllowed(s, wishes[i])}
        first == CHOOSE i \in allowed : \A j \in allowed : i <= j
    IN  IF s.offboard_by_command THEN main_state_transition(s, "OFFBOARD")
        ELSE IF sp = loop.last_sp_man \/ allowed = {} THEN s
        ELSE main_state_transition(s, wishes[first])

StickDisarms(s) ==
    IsRotaryWing /\ IsArmed(s) /\ (s.main_state \in StickStates \/ Holds(s, "landed"))
StickArms(s) ==
    /\ s.main_state \in {"MANUAL", "STAB"} /\ s.arming_state = "STANDBY"
    /\ ~(~Holds(s, "home_position") /\ GeofenceAction = "RTL")

\* RC input check: a recent manual_control_setpoint, its sticks and switches
RcInput ==
    /\ loop.at = "rc" /\ ~status.rc_input_blocked /\ "rc_signal_lost" \notin Steady
    /\ \E gesture \in Gestures, healthy \in Healths :
        LET s == With(status, "rc_signal_lost", FALSE)
            r == CASE gesture = "disarm" ->
                        Arming(StickDisarms(s), s, Disarmed(s), TRUE, healthy)
                   [] gesture = "arm" -> Arming(StickArms(s), s, "ARMED", TRUE, healthy)
                   [] gesture = "none" -> Arming(FALSE, s, "ARMED", TRUE, healthy)
        IN  /\ status' = set_main_state_rc(r.status, loop.sp_man) /\ armed' = r.armed
            /\ loop' = [Goes("links", s # status \/ r.ret = "CHANGED"
                                       \/ status'.main_state # status.main_state) EXCEPT
                          !.last_sp_man = IF status.offboard_by_command THEN @ ELSE loop.sp_man]
    /\ UNCHANGED <<lp, envVars, published>>
\* No recent setpoint; while its input is blocked its loss goes unnoticed
RcSilent ==
    /\ loop.at = "rc"
    /\ status.rc_input_blocked \/ "rc_signal_lost" \in Sensed \cup Steady
    /\ status' = IF status.rc_input_blocked THEN status
                 ELSE With(status, "rc_signal_lost", TRUE)
    /\ loop' = Goes("links", status' # status)
    /\ UNCHANGED <<armed, lp, envVars, published>>

\* Data links and, for fixed wings in the air, the engine: once found failed it
\* stays so until disarmed
LinksAndEngine ==
    /\ loop.at = "links"
    /\ \E seen \in Readings({"data_link_lost", "engine_failure"}) :
        LET failed == ~IsRotaryWing /\ armed.armed
                        /\ ("engine_failure" \in seen \/ Holds(status, "engine_failure"))
            s == With(Sense(status, {"data_link_lost"}, seen \ {"engine_failure"}),
                      "engine_failure", failed)
            lost == Holds(s, "data_link_lost") /\ ~Holds(status, "data_link_lost")
        IN  /\ status' = s
            /\ loop' = [Goes("command", s # status) EXCEPT
                          !.losses = IF lost /\ @ < MaxLosses THEN @ + 1 ELSE @]
    /\ UNCHANGED <<armed, lp, envVars, published>>

-----------------------------------------------------------------------------
\* handle_command, one action per command
Reads(name) ==
    /\ loop.at = "command" /\ commands.main.name = name
    /\ commands' = [commands EXCEPT !.main = NoCommand]
    /\ loop' = Goes("finish", TRUE)
    /\ UNCHANGED <<lp, issued, topicVars>>
cmd == commands.main

\* HIL, then arming, then the main state, whatever became of the ones before
DoSetMode ==
    /\ Reads("DO_SET_MODE")
    /\ \E listed \in BOOLEAN, healthy \in Healths :
        LET s == hil_state_transition(status, cmd.arg.hil, listed)
            r == ArmDisarm(TRUE, s, cmd.on, healthy)
            home == cmd.on /\ r.ret = "CHANGED" /\ Holds(s, "global_position")
        IN  /\ \E h \in IF home THEN {r.status, With(r.status, "home_position", TRUE)}
                      ELSE {r.status} :
                   status' = IF cmd.arg.main = "none" THEN h
                             ELSE main_state_transition(h, cmd.arg.main)
            /\ armed' = r.armed
            /\ published' = [published EXCEPT !.nav_state = IF s = status THEN @ ELSE s.nav_state]

\* A command of an onboard computer first puts the state to IN_AIR_RESTORE.
\* (!status.hil_state) != HIL_STATE_ON holds in HIL
ComponentArmDisarm ==
    /\ Reads("COMPONENT_ARM_DISARM")
    /\ \E healthy \in Healths :
        LET onboard == cmd.arg = "onboard"
            s == IF onboard THEN [status EXCEPT !.arming_state = "IN_AIR_RESTORE"] ELSE status
            refused == ~onboard /\ status.hil_on /\ ~Holds(status, "sensors_initialized")
            r == ArmDisarm(~refused, s, cmd.on, healthy)
        IN  status' = r.status /\ armed' = r.armed
    /\ UNCHANGED published

OverrideGoto ==
    /\ Reads("OVERRIDE_GOTO")
    /\ status' = [status EXCEPT !.nav_state = cmd.arg]
    /\ UNCHANGED <<armed, published>>

FlightTermination ==
    /\ Reads("DO_FLIGHTTERMINATION")
    /\ armed' = [armed EXCEPT !.force_failsafe = cmd.on]
    /\ status' = [status EXCEPT !.failure_cmd = cmd.arg]
    /\ UNCHANGED published

\* on: use the current position
DoSetHome ==
    /\ Reads("DO_SET_HOME")
    /\ status' = IF cmd.on => Holds(status, "global_position")
                 THEN With(status, "home_position", TRUE) ELSE status
    /\ UNCHANGED <<armed, published>>

\* loop' of Reads and the state to come back to
GuidedEnable ==
    /\ loop.at = "command" /\ cmd.name = "NAV_GUIDED_ENABLE"
    /\ commands' = [commands EXCEPT !.main = NoCommand]
    /\ LET pre == IF status.main_state = "OFFBOARD" THEN loop.pre_offboard ELSE status.main_state
       IN  /\ loop' = [Goes("finish", TRUE) EXCEPT !.pre_offboard = pre]
           /\ status' = [main_state_transition(status, IF cmd.on THEN "OFFBOARD" ELSE pre)
                            EXCEPT !.offboard_by_command =
                                     cmd.on /\ MainAllowed(status, "OFFBOARD")]
    /\ UNCHANGED <<armed, lp, issued, topicVars, published>>

NavTakeoff ==
    /\ Reads("NAV_TAKEOFF")
    /\ status' = main_state_transition(status, "AUTO_TAKEOFF")
    /\ UNCHANGED <<armed, published>>

\* Commands of the low priority thread, and no command
Ignored ==
    /\ loop.at = "command" /\ cmd.name \in {"none", "REBOOT", "CALIBRATION"}
    /\ commands' = [commands EXCEPT !.main = NoCommand]
    /\ loop' = Goes("finish", cmd.name # "none")
    /\ UNCHANGED <<status, armed, lp, issued, topicVars, published>>

HandleCommand ==
    \/ DoSetMode \/ ComponentArmDisarm \/ OverrideGoto \/ FlightTermination
    \/ DoSetHome \/ GuidedEnable \/ NavTakeoff \/ Ignored

-----------------------------------------------------------------------------
\* The failures that together end a flight, the home position, the navigation
\* state, and the topics
LossOfControl(s) ==     \* two failures cannot be commanded at once
    /\ Holds(s, "gps_failure")
    /\ Holds(s, IF s.main_state \in ManualStates THEN "rc_signal_lost" ELSE "data_link_lost")

SetsHome(s, a) ==
    /\ Holds(s, "global_position")
    /\ \/ ~Holds(s, "home_position") /\ ~a.armed
       \/ ~loop.was_armed /\ a.armed
       \/ loop.was_landed /\ ~Holds(s, "landed")

\* set_control_mode; OFFBOARD leaves the termination flag as it was
set_control_mode(s, a) ==
    [armed |-> a.armed,
     by |-> CASE s.nav_state \in ManualStates -> "manual"
              [] s.nav_state = "OFFBOARD" -> "offboard"
              [] s.nav_state \in {"AUTO_LANDGPSFAIL", "TERMINATION"} -> "none"
              [] OTHER -> "auto",
     termination |-> IF s.nav_state = "OFFBOARD" THEN published.control_mode.termination
                     ELSE s.nav_state = "TERMINATION"]

\* Mutant of Publish: the topics are filled before the failures are looked at
Publish_before(s, a) ==
    [nav_state |-> s.nav_state, landed |-> Holds(s, "landed"), losses |-> loop.losses,
     armed |-> armed, control_mode |-> set_control_mode(s, a)]

Publish(s, a) ==
    [nav_state |-> s.nav_state, landed |-> Holds(s, "landed"), losses |-> loop.losses,
     armed |-> a, control_mode |-> set_control_mode(s, a)]

\* due: it is published at 5 Hz if nothing has changed; accurate: the position
\* is good enough for a home position
Finish ==
    /\ loop.at = "finish"
    /\ \E due \in BOOLEAN, accurate \in BOOLEAN :
        LET terminates == armed.armed /\ LossOfControl(status)
            a == [armed EXCEPT !.force_failsafe = @ \/ terminates]
            h == IF accurate /\ SetsHome(status, a)
                 THEN With(status, "home_position", TRUE) ELSE status
            s == set_nav_state(h, DatalinkLossEnabled, loop.mission_result.finished,
                               loop.mission_result.stay_in_failsafe)
            changed == loop.status_changed \/ terminates
                         \/ s.nav_state # status.nav_state \/ s.failsafe # status.failsafe
        IN  /\ status' = s /\ armed' = a
            /\ published' = IF changed \/ due THEN Publish(s, a) ELSE published
            /\ loop' = [loop EXCEPT !.at = "sense", !.status_changed = FALSE,
                                    !.was_armed = a.armed, !.was_landed = Holds(s, "landed")]
    /\ UNCHANGED <<lp, envVars>>

MainLoop ==
    \/ SenseInputs \/ LandDetector \/ Battery \/ ProceedToStandby \/ MissionAndFence
    \/ RcInput \/ RcSilent \/ LinksAndEngine \/ HandleCommand \/ Finish

-----------------------------------------------------------------------------
\* commander_low_prio_loop
LpReads(name) ==
    /\ lp.at = "wait" /\ commands.low_prio.name = name
    /\ commands' = [commands EXCEPT !.low_prio = NoCommand]
    /\ UNCHANGED <<loop, issued, topicVars, published>>

LpIgnores ==
    /\ \E name \in {"DO_SET_MODE", "COMPONENT_ARM_DISARM", "OVERRIDE_GOTO", "DO_SET_HOME",
                    "DO_FLIGHTTERMINATION", "NAV_GUIDED_ENABLE", "NAV_TAKEOFF"} : LpReads(name)
    /\ UNCHANGED <<status, armed, lp>>

\* The reset comes 100 ms after the answer
Reboot ==
    /\ LpReads("REBOOT")
    /\ lp' = IF is_safe(status, armed) THEN [lp EXCEPT !.at = "reset"] ELSE lp
    /\ UNCHANGED <<status, armed>>
Reset == lp.at = "reset" /\ SystemReset

\* Mutant of Calibrate: the arming state is written without a transition
Calibrate_directly ==
    /\ LpReads("CALIBRATION")
    /\ status.arming_state \in From("INIT")
    /\ status' = [status EXCEPT !.arming_state = "INIT"]
    /\ lp' = [at |-> "start", kind |-> commands.low_prio.arg]
    /\ UNCHANGED armed

Calibrate ==
    /\ LpReads("CALIBRATION")
    /\ \E healthy \in Healths :
        LET r == Arming(TRUE, status, "INIT", FALSE, healthy)
        IN  /\ status' = r.status /\ armed' = r.armed
            /\ lp' = IF r.ret = "DENIED" THEN lp
                     ELSE [at |-> "start", kind |-> commands.low_prio.arg]

\* calibration_enabled is set after the transition to INIT has been granted
CalibrationStarts ==
    /\ lp.at = "start"
    /\ status' = [status EXCEPT !.calibration_enabled = TRUE,
                                !.rc_input_blocked = @ \/ lp.kind = "rc_start"]
    /\ armed' = [armed EXCEPT !.in_esc_calibration_mode = lp.kind = "esc"]
    /\ lp' = [lp EXCEPT !.at = "calibrate"]
    /\ UNCHANGED <<loop, envVars, published>>

\* Mutant of CalibrationEnds: a failed calibration leaves its flag set
CalibrationEnds_flagged ==
    /\ lp.at = "calibrate"
    /\ \E ok \in BOOLEAN :
        /\ lp' = IF ok THEN [lp EXCEPT !.at = "preflight"] ELSE [at |-> "wait", kind |-> "none"]
        /\ status' = [status EXCEPT !.calibration_enabled = ~ok]
    /\ armed' = [armed EXCEPT !.in_esc_calibration_mode = FALSE]
    /\ UNCHANGED <<loop, envVars, published>>

CalibrationEnds ==
    /\ lp.at = "calibrate"
    /\ \E ok \in BOOLEAN :
        /\ lp.kind \in {"rc_start", "rc_end"} => ok
        /\ lp' = IF ok THEN [lp EXCEPT !.at = "preflight"] ELSE [at |-> "wait", kind |-> "none"]
    /\ status' = [status EXCEPT !.calibration_enabled = FALSE,
                                !.rc_input_blocked = @ /\ lp.kind # "rc_end"]
    /\ armed' = [armed EXCEPT !.in_esc_calibration_mode = FALSE]
    /\ UNCHANGED <<loop, envVars, published>>

PreflightAfterCalibration ==
    /\ lp.at = "preflight"
    /\ \E healthy \in Healths : status' = With(status, "sensors_initialized", healthy)
    /\ lp' = [lp EXCEPT !.at = "standby"]
    /\ UNCHANGED <<armed, loop, envVars, published>>

StandbyAfterCalibration ==
    /\ lp.at = "standby"
    /\ \E healthy \in Healths :
        LET r == Arming(TRUE, status, "STANDBY", FALSE, healthy)
        IN  status' = r.status /\ armed' = r.armed
    /\ lp' = [at |-> "wait", kind |-> "none"]
    /\ UNCHANGED <<loop, envVars, published>>

Calibration ==
    \/ CalibrationStarts \/ CalibrationEnds
    \/ PreflightAfterCalibration \/ StandbyAfterCalibration
LowPrio == LpIgnores \/ Reboot \/ Calibrate \/ Calibration

-----------------------------------------------------------------------------
\* A vehicle_command replaces one that has not been read
SendCommand ==
    /\ issued < MaxCommands
    /\ \E c \in Commands : commands' = [main |-> c, low_prio |-> c]
    /\ issued' = issued + 1
    /\ UNCHANGED <<status, armed, loop, lp, topicVars, published>>

\* What the navigator may have put into its topics when the commander looks
NavigatorPublishes ==
    /\ mission_result' \in {mission_result} \cup MissionResults
    /\ geofence_result' \in
         {geofence_result} \cup
         (IF GeofenceAction = "NONE" THEN {} ELSE [action : {GeofenceAction}, violated : BOOLEAN])
    /\ UNCHANGED <<status, armed, loop, lp, commands, issued, published>>

Resets == UsbDisconnected \/ Reset
Next == MainLoop \/ LowPrio \/ Resets \/ SendCommand \/ NavigatorPublishes

Spec == Init /\ [][Next]_vars
\* Both threads run on, and every calibration returns
FairSpec == Spec /\ WF_vars(MainLoop) /\ WF_vars(LowPrio \/ Reset)

-----------------------------------------------------------------------------
Loops == [at : Sections, status_changed : BOOLEAN, was_armed : BOOLEAN,
          was_landed : BOOLEAN, critical_done : BOOLEAN, check_for_disarming : BOOLEAN,
          inair : BOOLEAN, sp_man : Switches \cup {NoSwitch},
          last_sp_man : Switches \cup {NoSwitch}, pre_offboard : MainStates,
          fence : Fences, mission_result : Results, losses : 0 .. MaxLosses]
Publications == [nav_state : NavStates, landed : BOOLEAN, losses : 0 .. MaxLosses,
                 armed : Armeds, control_mode : ControlModes]
TypeOK ==
    /\ status \in Statuses /\ armed \in Armeds
    /\ loop \in Loops /\ lp \in [at : LpSteps, kind : Calibrations]
    /\ commands \in [main : Commands \cup {NoCommand}, low_prio : Commands \cup {NoCommand}]
    /\ issued \in 0 .. MaxCommands
    /\ mission_result \in Results
    /\ geofence_result \in [action : FenceActions, violated : BOOLEAN]
    /\ published \in Publications

\* What the arming state says and what the actuators are told agree, whichever
\* thread moved it last, unless a command of an onboard computer just put the
\* state aside (arming_state_transition, commander.cpp:689).
ArmedAgrees ==
    status.arming_state # "IN_AIR_RESTORE" =>
        /\ armed.armed <=> IsArmed(status)
        /\ armed.ready_to_arm <=> status.arming_state \in {"ARMED", "STANDBY"}

\* Actuators are locked down exactly as long as the vehicle is armed in HIL: HIL
\* cannot be entered in between (hil_state_transition, "enforce lockdown in HIL").
HilLocked == armed.armed => (armed.lockdown <=> status.hil_on)

\* No cycle ends with an armed vehicle that has lost its link and its position
\* without the termination being decided and the actuators being told.
TerminationPublished ==
    [][ (loop.at = "finish" /\ loop'.at = "sense" /\ armed'.armed /\ LossOfControl(status'))
            => armed'.force_failsafe /\ published'.armed.force_failsafe ]_vars

\* With sensors that stay healthy the vehicle does not remain in INIT, however
\* its calibrations end (commander.cpp:1907).
InitIsLeft == <>[](issued = MaxCommands) => []<>(status.arming_state # "INIT")

\* A state that flies to the home position or counts from it is never entered
\* without one, by switch, command, fence or fallback (main_state_transition).
AutoHasHome ==
    status.main_state \in AutoStates \ {"AUTO_LOITER"} => Holds(status, "home_position")

\* commander.cpp:1633: "disarm if safety is now on and still armed".
SafetySwitchDisarms ==
    [][ (/\ ~Holds(status, "safety_on") /\ Holds(status', "safety_on")
         /\ ~status.hil_on) => ~armed'.armed ]_vars
==============================================================================
