---------------------------- MODULE FailsafeModes ----------------------------
(***************************************************************************)
(* The navigator's main loop (src/modules/navigator/navigator_main.cpp)    *)
(* and the modes it runs in failsafes: return to launch, the outback       *)
(* challenge modes for the loss of the data link, of RC and of GPS, engine *)
(* failure, and loiter and takeoff.  Of the mission mode only what the     *)
(* others see of it is here; OffboardMission has the rest.                 *)
(*                                                                         *)
(* One iteration copies vehicle_status and then runs every mode, the       *)
(* active one and the others, and publishes the mission result.            *)
(***************************************************************************)
EXTENDS Naturals

CONSTANTS
    DatalinkLossObc, RcLossObc,     \* NAV_DLL_OBC, NAV_RCL_OBC
    LossLimit, SkipCommsHold,       \* NAV_DLL_N, NAV_DLL_CHSK
    RcLoiters,                      \* NAV_RCL_LT > 0
    LandDelays,                     \* RTL_LAND_DELAY is not 0
    GeofenceAction,                 \* GF_ACTION
    Finishes                        \* bound: what missions may say of finished

VARIABLES
    nav,                \* the modes and what they share
    published,          \* vehicle_status
    mission_result,     \* the topic
    geofence_result

navVars == <<nav, mission_result, geofence_result>>

\* The modes in the order of _navigation_mode_array
Place == [none |-> 0, mission |-> 1, loiter |-> 2, rtl |-> 3, dataLinkLoss |-> 4,
          engineFailure |-> 5, gpsFailure |-> 6, rcLoss |-> 7, takeoff |-> 8]
Modes == DOMAIN Place
\* Modes with a state of their own, and those that keep it while inactive as
\* long as the vehicle can loiter at its setpoint
Keeping == {"rtl", "dataLinkLoss", "gpsFailure", "rcLoss"}
Staged == Keeping \cup {"engineFailure"}

NavBoot ==
    [at |-> "poll", mode |-> "none", stage |-> [m \in Staged |-> "NONE"],
     can_loiter |-> FALSE,
     vstatus |-> [nav_state |-> "MANUAL", landed |-> TRUE, losses |-> 0],
     result |-> [finished |-> FALSE, stay_in_failsafe |-> FALSE,
                 flight_termination |-> FALSE]]

\* The mode for a navigation state
ModeOf(state) ==
    CASE state = "AUTO_MISSION" -> "mission"
      [] state = "AUTO_LOITER" -> "loiter"
      [] state = "AUTO_RCRECOVER" -> IF RcLossObc THEN "rcLoss" ELSE "rtl"
      [] state = "AUTO_RTL" -> "rtl"
      [] state = "AUTO_TAKEOFF" -> "takeoff"
      [] state = "AUTO_RTGS" -> IF DatalinkLossObc THEN "dataLinkLoss" ELSE "rtl"
      [] state = "AUTO_LANDENGFAIL" -> "engineFailure"
      [] state = "AUTO_LANDGPSFAIL" -> "gpsFailure"
      [] OTHER -> "none"

\* Mutants of DllAfter and RclAfter: the last stage is skipped, never comes
DllAfter_skips(stage) ==
    CASE stage = "NONE" -> "COMMSHOLD"
      [] stage = "COMMSHOLD" -> "AIRFIELD"
      [] OTHER -> "END"
RclAfter_waits(stage) == "LOITER"

\* advance_dll, advance_rcl, advance_ef and advance_rtl
DllAfter(stage) ==
    CASE stage = "NONE" ->
            IF nav.vstatus.losses <= LossLimit /\ ~SkipCommsHold THEN "COMMSHOLD"
            ELSE "AIRFIELD"
      [] stage = "COMMSHOLD" -> "AIRFIELD"
      [] stage = "AIRFIELD" -> "TERMINATE"
      [] OTHER -> "END"
RclAfter(stage) ==
    CASE stage = "NONE" -> IF RcLoiters THEN "LOITER" ELSE "TERMINATE"
      [] stage = "LOITER" -> "TERMINATE"
      [] OTHER -> "END"
RtlAfter(stage) ==
    CASE stage = "CLIMB" -> "RETURN"
      [] stage = "RETURN" -> "DESCEND"
      [] stage = "DESCEND" -> IF LandDelays THEN "LOITER" ELSE "LAND"
      [] stage = "LOITER" -> "LAND"
      [] stage = "LAND" -> "LANDED"
      [] OTHER -> stage
After(mode, stage) ==
    CASE mode = "dataLinkLoss" -> DllAfter(stage)
      [] mode = "rcLoss" -> RclAfter(stage)
      [] mode = "engineFailure" -> "LOITERDOWN"
      [] mode = "rtl" -> RtlAfter(stage)

\* Whether an advance makes the commander stay in failsafe
Stays(mode, stage) ==
    CASE mode = "dataLinkLoss" ->
            stage \in {"COMMSHOLD", "AIRFIELD"} \/ (stage = "NONE" /\ nav.vstatus.losses > LossLimit)
      [] mode = "rcLoss" -> After(mode, stage) = "TERMINATE"
      [] OTHER -> FALSE

-----------------------------------------------------------------------------
\* An iteration starts when the global position is published; without that the
\* poll times out and nothing happens.  vehicle_status is copied, and the fence
\* checked now and then.
Poll ==
    /\ nav.at = "poll"
    /\ nav' = [nav EXCEPT !.at = "run", !.vstatus =
                 [nav_state |-> published.nav_state, landed |-> published.landed,
                  losses |-> published.losses]]
    /\ geofence_result' \in
         {geofence_result} \cup
         (IF GeofenceAction = "NONE" THEN {} ELSE [action : {GeofenceAction}, violated : BOOLEAN])
    /\ UNCHANGED mission_result

active == ModeOf(nav.vstatus.nav_state)
Activates == nav.mode # active
\* _can_loiter_at_sp when the modes are run
CanLoiter == nav.can_loiter /\ active # "none"

\* What the active mode leaves behind
Leaves(stage, can_loiter, stay, terminates) ==
    [stage |-> stage, can_loiter |-> can_loiter, stay |-> stay,
     terminates |-> terminates, finished |-> nav.result.finished]
Unmoved(stage) == Leaves(stage, CanLoiter, FALSE, FALSE)

\* The stages whose item is a place to loiter at
LoiterStages == {"LOITER", "COMMSHOLD", "AIRFIELD", "LOITERDOWN"}
\* set_rtl_item, set_dll_item, set_rcl_item and set_ef_item
SetItem(stage, stay) == Leaves(stage, stage \in LoiterStages, stay, stage = "TERMINATE")

\* The stages on_activation may choose; RTL goes on where it was
Entered(mode) ==
    IF mode # "rtl" THEN {After(mode, "NONE")}
    ELSE IF nav.stage["rtl"] # "NONE" THEN {nav.stage["rtl"]}
    ELSE IF nav.vstatus.landed THEN {"LANDED"} ELSE {"CLIMB", "RETURN"}
OnActivation ==
    CASE active \in Staged \ {"gpsFailure"} ->
            {SetItem(stage, Stays(active, "NONE")) : stage \in Entered(active)}
      [] active = "gpsFailure" -> {Leaves("LOITER", CanLoiter, FALSE, FALSE)}
      [] active = "loiter" -> {Leaves("NONE", ~nav.vstatus.landed, FALSE, FALSE)}
      [] active = "takeoff" -> {Leaves("NONE", TRUE, FALSE, FALSE)}

\* Mutant of GpsActive: the stage advances before its item is set
GpsActive_advanced(reached) ==
    LET stage == nav.stage["gpsFailure"]
    IN  CASE stage = "LOITER" -> {Unmoved(IF reached THEN "TERMINATE" ELSE "LOITER")}
          [] stage = "TERMINATE" -> {Leaves("END", CanLoiter, FALSE, FALSE)}
          [] OTHER -> {Unmoved(stage)}

\* on_active of gpsfailure.cpp, which knows only of time; it leaves it to the
\* modes before it whether the vehicle can loiter
GpsActive(reached) ==
    LET stage == nav.stage["gpsFailure"]
    IN  CASE stage = "LOITER" -> {Unmoved(IF reached THEN "TERMINATE" ELSE "LOITER")}
          [] stage = "TERMINATE" -> {Leaves("END", CanLoiter, FALSE, TRUE)}
          [] OTHER -> {Unmoved(stage)}
\* reached: the item is reached, or the time is over
OnActive(reached) ==
    CASE active \in {"loiter", "takeoff"} -> {Unmoved("NONE")}
      [] active = "gpsFailure" -> GpsActive(reached)
      [] active \in Staged \ {"gpsFailure"} ->
            LET stage == nav.stage[active]
            IN  {IF reached /\ stage # "LANDED"
                 THEN SetItem(After(active, stage), Stays(active, stage))
                 ELSE Unmoved(stage)}
\* mission.cpp, from outside
OnMission ==
    [stage : {"NONE"}, can_loiter : BOOLEAN, stay : {FALSE}, terminates : {FALSE},
     finished : Finishes]

\* on_inactive of the other modes, which run in the order of Place
Kept(mode, can_loiter) ==
    IF mode = "engineFailure" THEN "NONE"
    ELSE IF IF Place[active] < Place[mode] THEN can_loiter ELSE CanLoiter
    THEN nav.stage[mode] ELSE "NONE"

\* The modes run, and what they ask for is published
Run(reached) ==
    /\ nav.at = "run"
    /\ \E e \in CASE active = "none" -> {Leaves("NONE", FALSE, FALSE, FALSE)}
                 [] active = "mission" -> OnMission
                 [] active \notin {"none", "mission"} /\ Activates -> OnActivation
                 [] active \notin {"none", "mission"} /\ ~Activates -> OnActive(reached) :
        nav' = [nav EXCEPT
                  !.at = "poll", !.mode = active,
                  !.stage = [m \in Staged |->
                               IF m = active THEN e.stage ELSE Kept(m, e.can_loiter)],
                  !.can_loiter = e.can_loiter,
                  !.result = [finished |-> e.finished,
                              stay_in_failsafe |-> (@.stay_in_failsafe
                                                      /\ ~(Activates /\ active # "none")) \/ e.stay,
                              flight_termination |-> @.flight_termination \/ e.terminates]]
    /\ mission_result' = nav'.result
    /\ UNCHANGED geofence_result

Navigator == Poll \/ \E reached \in BOOLEAN : Run(reached)
=============================================================================
