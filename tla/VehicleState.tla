---------------------------- MODULE VehicleState ----------------------------
(***************************************************************************)
(* The state machines of the vehicle (commander/state_machine_helper.cpp): *)
(* functions over the records vehicle_status and actuator_armed.  Each     *)
(* takes the records it may write and returns what it leaves behind.       *)
(*                                                                         *)
(* conditions is the set of the Boolean members of vehicle_status that are *)
(* TRUE; safety_on (there is a safety switch and it is on), power_bad (the *)
(* power check fails and its circuit breaker is not engaged) and           *)
(* usb_connected (and cb_usb is not engaged) are what the code makes of    *)
(* several members.                                                        *)
(***************************************************************************)
CONSTANT IsRotaryWing       \* status.is_rotary_wing

ASSUME IsRotaryWingAssumption == IsRotaryWing \in BOOLEAN

ArmingStates == {"INIT", "STANDBY", "ARMED", "ARMED_ERROR", "STANDBY_ERROR",
                 "REBOOT", "IN_AIR_RESTORE"}
StickStates == {"MANUAL", "ACRO", "STAB", "RATTITUDE"}
ManualStates == StickStates \cup {"ALTCTL", "POSCTL"}
AutoStates == {"AUTO_MISSION", "AUTO_LOITER", "AUTO_RTL", "AUTO_TAKEOFF"}
MainStates == ManualStates \cup AutoStates \cup {"OFFBOARD"}
NavStates == MainStates \cup {"AUTO_RCRECOVER", "AUTO_RTGS", "AUTO_LANDENGFAIL",
                              "AUTO_LANDGPSFAIL", "LAND", "DESCEND", "TERMINATION"}
Conditions == {"rc_signal_lost", "data_link_lost", "offboard_control_signal_lost",
               "gps_failure", "engine_failure", "landed", "global_position",
               "local_position", "local_altitude", "home_position",
               "sensors_initialized", "power_bad", "safety_on", "usb_connected"}
\* The failure a ground station commands; a new command resets the others
Failures == {"none", "engine", "data_link", "gps", "rc"}

Statuses == [arming_state : ArmingStates, main_state : MainStates,
             nav_state : NavStates, hil_on : BOOLEAN, failsafe : BOOLEAN,
             failure_cmd : Failures, calibration_enabled : BOOLEAN,
             rc_input_blocked : BOOLEAN, offboard_by_command : BOOLEAN,
             conditions : SUBSET Conditions]
Armeds == [armed : BOOLEAN, ready_to_arm : BOOLEAN, lockdown : BOOLEAN,
           force_failsafe : BOOLEAN, in_esc_calibration_mode : BOOLEAN]

Holds(s, c) == c \in s.conditions
With(s, c, b) == [s EXCEPT !.conditions = IF b THEN @ \cup {c} ELSE @ \ {c}]
IsArmed(s) == s.arming_state \in {"ARMED", "ARMED_ERROR"}

-----------------------------------------------------------------------------
\* arming_transitions, by the new state
From(new) ==
    CASE new = "INIT" -> {"INIT", "STANDBY", "STANDBY_ERROR"}
      [] new = "STANDBY" -> {"INIT", "STANDBY", "ARMED", "ARMED_ERROR"}
      [] new = "ARMED" -> {"STANDBY", "ARMED", "IN_AIR_RESTORE"}
      [] new = "ARMED_ERROR" -> {"ARMED", "ARMED_ERROR"}
      [] new = "STANDBY_ERROR" -> {"INIT", "STANDBY", "ARMED", "ARMED_ERROR", "STANDBY_ERROR"}
      [] new = "REBOOT" -> {"INIT", "STANDBY", "STANDBY_ERROR", "REBOOT", "IN_AIR_RESTORE"}
      [] new = "IN_AIR_RESTORE" -> {}

\* preflight_check; healthy is the answer of Commander::preflightCheck
PreflightOk(s, healthy, prearm) == healthy /\ ~(prearm /\ Holds(s, "usb_connected"))

\* The preflight check runs again as long as it has not passed, and its answer
\* takes the place of the prearm check's
Rechecks(s, new) ==
    ~Holds(s, "sensors_initialized") /\ new \in {"ARMED", "STANDBY"} /\ ~s.hil_on
PrearmOk(s, new, checks, healthy) ==
    IF Rechecks(s, new) THEN PreflightOk(s, healthy, FALSE)
    ELSE (checks /\ new = "ARMED" /\ ~s.hil_on) => PreflightOk(s, healthy, TRUE)

\* What the transition writes whether or not it is granted
Checked(s, new, healthy) ==
    CASE s.hil_on ->
            With([s EXCEPT !.arming_state = IF @ = "STANDBY_ERROR" THEN "STANDBY" ELSE @],
                 "sensors_initialized", TRUE)
      [] ~s.hil_on /\ Rechecks(s, new) ->
            With(s, "sensors_initialized", PreflightOk(s, healthy, FALSE))
      [] OTHER -> s

Target(s, new) ==
    IF new = "STANDBY" /\ s.arming_state = "ARMED_ERROR" THEN "STANDBY_ERROR" ELSE new

\* Arming on the ground outside of HIL needs the checks, the switch and power
Refused(s, new, prearm_ok) ==
    /\ new = "ARMED" /\ s.arming_state # "IN_AIR_RESTORE" /\ ~s.hil_on
    /\ ~prearm_ok \/ Holds(s, "safety_on") \/ Holds(s, "power_bad")

\* s is what Checked returns
Granted(s, new, prearm_ok) ==
    \/ s.hil_on /\ Target(s, new) = "STANDBY"
    \/ /\ s.arming_state \in From(new)
       /\ ~Refused(s, new, prearm_ok)
       /\ (~s.hil_on /\ Target(s, new) = "STANDBY" /\ s.arming_state # "STANDBY_ERROR")
            => Holds(s, "sensors_initialized")

\* arming_state_transition: the preflight checks and the section that disables
\* interrupts are one step
arming_state_transition(s, a, new, checks, healthy) ==
    LET c == Checked(s, new, healthy)
        l == [a EXCEPT !.lockdown = s.hil_on]
        t == Target(c, new)
    IN  CASE new = s.arming_state -> [ret |-> "NOT_CHANGED", status |-> s, armed |-> a]
          [] new # s.arming_state /\ Granted(c, new, PrearmOk(s, new, checks, healthy)) ->
                [ret |-> "CHANGED",
                 status |-> [c EXCEPT !.arming_state = t],
                 armed |-> [l EXCEPT !.armed = t \in {"ARMED", "ARMED_ERROR"},
                                     !.ready_to_arm = t \in {"ARMED", "STANDBY"}]]
          [] OTHER -> [ret |-> "DENIED", status |-> c, armed |-> l]

is_safe(s, a) == ~a.armed \/ a.lockdown \/ Holds(s, "safety_on")

-----------------------------------------------------------------------------
\* Mutant of MainAllowed: every automatic mode needs a position only
MainAllowed_position(s, new) ==
    CASE new \in StickStates -> TRUE
      [] new \in AutoStates \cup {"POSCTL", "ALTCTL"} -> Holds(s, "global_position")
      [] new = "OFFBOARD" -> ~Holds(s, "offboard_control_signal_lost")

\* main_state_transition: when a state may be entered, or entered again
MainAllowed(s, new) ==
    CASE new \in StickStates -> TRUE
      [] new = "ALTCTL" ->
            ~IsRotaryWing \/ Holds(s, "local_altitude") \/ Holds(s, "global_position")
      [] new = "POSCTL" -> Holds(s, "local_position") \/ Holds(s, "global_position")
      [] new = "AUTO_LOITER" -> Holds(s, "global_position")
      [] new \in {"AUTO_MISSION", "AUTO_RTL", "AUTO_TAKEOFF"} ->
            Holds(s, "global_position") /\ Holds(s, "home_position")
      [] new = "OFFBOARD" -> ~Holds(s, "offboard_control_signal_lost")
main_state_transition(s, new) ==
    IF MainAllowed(s, new) THEN [s EXCEPT !.main_state = new] ELSE s

\* Mutant of HilAllowed: an armed vehicle may be put into HIL
HilAllowed_armed(s, on, listed) == on /\ ~s.hil_on /\ listed

\* hil_state_transition: HIL is switched on while disarmed and never off;
\* listed tells whether the devices could be listed
HilAllowed(s, on, listed) ==
    on /\ ~s.hil_on /\ listed /\ s.arming_state \in {"INIT", "STANDBY", "STANDBY_ERROR"}
hil_state_transition(s, on, listed) ==
    IF HilAllowed(s, on, listed) THEN [s EXCEPT !.hil_on = TRUE] ELSE s

-----------------------------------------------------------------------------
\* set_nav_state, by the kind of main state: the navigation state and whether
\* it is a failsafe
Normal(nav) == [nav_state |-> nav, failsafe |-> FALSE]
Failsafe(nav) == [nav_state |-> nav, failsafe |-> TRUE]
Descent(s) ==
    IF Holds(s, "local_position") THEN "LAND"
    ELSE IF Holds(s, "local_altitude") THEN "DESCEND" ELSE "TERMINATION"
CanFlyHome(s) == Holds(s, "global_position") /\ Holds(s, "home_position")
Fallback(s, best) == Failsafe(IF CanFlyHome(s) THEN best ELSE Descent(s))

RcGone(s) == Holds(s, "rc_signal_lost") \/ s.failure_cmd = "rc"
ManualNav(s) ==
    IF RcGone(s) /\ IsArmed(s) /\ ~Holds(s, "landed")
    THEN Fallback(s, "AUTO_RCRECOVER")
    ELSE Normal(s.main_state)

\* Which loss ends a mission depends on COM_DL_LOSS_EN
LinksGone(s, dl_enabled, finished) ==
    IF dl_enabled THEN Holds(s, "data_link_lost")
    ELSE Holds(s, "rc_signal_lost") /\ (Holds(s, "data_link_lost") \/ finished)

\* Mutant of MissionNav: a link that is back ends the failsafe
MissionNav_back(s, dl_enabled, finished, stay) ==
    CASE Holds(s, "gps_failure") -> Normal("AUTO_LANDGPSFAIL")
      [] ~Holds(s, "gps_failure") /\ LinksGone(s, dl_enabled, finished) ->
            Fallback(s, "AUTO_RTGS")
      [] OTHER -> Normal("AUTO_MISSION")

\* Commands before failures before the loss of a link; stay keeps what there is
MissionNav(s, dl_enabled, finished, stay) ==
    CASE s.failure_cmd = "engine" -> Normal("AUTO_LANDENGFAIL")
      [] s.failure_cmd = "data_link" -> Normal("AUTO_RTGS")
      [] s.failure_cmd = "gps" -> Normal("AUTO_LANDGPSFAIL")
      [] s.failure_cmd = "rc" -> Normal("AUTO_RCRECOVER")
      [] s.failure_cmd = "none" ->
            IF Holds(s, "gps_failure") THEN Normal("AUTO_LANDGPSFAIL")
            ELSE IF Holds(s, "engine_failure") THEN Normal("AUTO_LANDENGFAIL")
            ELSE IF LinksGone(s, dl_enabled, finished)
                 THEN Fallback(s, IF dl_enabled THEN "AUTO_RTGS" ELSE "AUTO_RCRECOVER")
            ELSE Normal(IF stay THEN s.nav_state ELSE "AUTO_MISSION")
LoiterNav(s, dl_enabled) ==
    IF Holds(s, "engine_failure") THEN Normal("AUTO_LANDENGFAIL")
    ELSE IF Holds(s, IF dl_enabled THEN "data_link_lost" ELSE "rc_signal_lost")
         THEN Fallback(s, "AUTO_RTGS")
    ELSE Normal("AUTO_LOITER")
HomeNav(s) ==
    IF Holds(s, "engine_failure") THEN Normal("AUTO_LANDENGFAIL")
    ELSE IF CanFlyHome(s) THEN Normal(s.main_state) ELSE Failsafe(Descent(s))
OffboardNav(s) ==
    IF ~Holds(s, "offboard_control_signal_lost") THEN Normal("OFFBOARD")
    ELSE Failsafe(IF Holds(s, "rc_signal_lost") THEN Descent(s) ELSE "POSCTL")

set_nav_state(s, dl_enabled, finished, stay) ==
    LET n == CASE s.main_state \in ManualStates -> ManualNav(s)
               [] s.main_state = "AUTO_MISSION" -> MissionNav(s, dl_enabled, finished, stay)
               [] s.main_state = "AUTO_LOITER" -> LoiterNav(s, dl_enabled)
               [] s.main_state \in {"AUTO_RTL", "AUTO_TAKEOFF"} -> HomeNav(s)
               [] s.main_state = "OFFBOARD" -> OffboardNav(s)
    IN  [s EXCEPT !.nav_state = n.nav_state, !.failsafe = n.failsafe]
=============================================================================
