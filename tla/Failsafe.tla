------------------------------ MODULE Failsafe ------------------------------
(***************************************************************************)
(* The commander and the navigator together.  The commander chooses the    *)
(* navigation state, the navigator runs the mode for it and answers with   *)
(* stay_in_failsafe and flight_termination in mission_result, which the    *)
(* commander reads once in a cycle.  Neither waits for the other.          *)
(***************************************************************************)
EXTENDS Commander

CONSTANTS DatalinkLossObc, RcLossObc, LossLimit, SkipCommsHold, RcLoiters,
          LandDelays, Finishes      \* see FailsafeModes

ASSUME FailsafeAssumption ==
    /\ DatalinkLossObc \in BOOLEAN /\ RcLossObc \in BOOLEAN
    /\ LossLimit \in Nat /\ SkipCommsHold \in BOOLEAN
    /\ RcLoiters \in BOOLEAN /\ LandDelays \in BOOLEAN
    /\ Finishes \subseteq BOOLEAN /\ Finishes # {}
    /\ Results \subseteq MissionResults

VARIABLE nav

N == INSTANCE FailsafeModes

navVars == N!navVars
allVars == <<vars, nav>>

FailsafeInit == Init /\ nav = N!NavBoot

\* A reset restarts the navigator too
FailsafeNext ==
    \/ (MainLoop \/ LowPrio \/ SendCommand) /\ UNCHANGED nav
    \/ Resets /\ nav' = N!NavBoot
    \/ N!Navigator /\ UNCHANGED <<status, armed, loop, lp, commands, issued, published>>

FailsafeSpec == FailsafeInit /\ [][FailsafeNext]_allVars

\* The commander runs on.  The navigator polls the global position, which is
\* published only while it is valid: an iteration is sure to start only as long as
\* the commander, which gives up a second after the last publication, holds the
\* position valid.  A begun iteration ends; a vehicle that is asked again and again
\* whether it has reached its waypoint, or has loitered long enough, has in the end.
LiveSpec ==
    /\ FailsafeSpec
    /\ WF_vars(MainLoop)
    /\ WF_navVars(Holds(status, "global_position") /\ N!Poll)
    /\ SF_navVars(N!Run(TRUE))

-----------------------------------------------------------------------------
\* What one failsafe needs, and nothing else that would take precedence
Flying(main) == armed.armed /\ status.main_state = main /\ status.failure_cmd = "none"
Healthy(s) == \A c \in {"gps_failure", "engine_failure"} : ~Holds(s, c)
Unhindered == Flying("AUTO_MISSION") /\ Healthy(status) /\ CanFlyHome(status)

\* Commander and navigator have seen that a mission that has lost its data link
\* is on its way to the airfield, or further, and stays in failsafe.
Committed ==
    /\ nav.mode = "dataLinkLoss"
    /\ nav.stage["dataLinkLoss"] \in {"AIRFIELD", "TERMINATE", "END"}
    /\ nav.result.stay_in_failsafe /\ loop.mission_result.stay_in_failsafe
    /\ status.nav_state = "AUTO_RTGS" /\ published.nav_state = "AUTO_RTGS"
    /\ nav.vstatus.nav_state = "AUTO_RTGS"

\* From then on there is no way back, even if the link is regained
\* (mission_result.msg): no step of either task ends it but termination, as long
\* as nobody takes over and the vehicle can fly home.
NoWayBack ==
    [][Committed /\ Unhindered' => Committed' \/ armed'.force_failsafe]_allVars

\* A mission that has lost its data link for good, or is committed, does not fly
\* on for ever: the vehicle holds, flies to the airfield and terminates, unless
\* somebody takes over (datalinkloss.cpp).
DataLinkLossTerminates ==
    (DatalinkLossObc /\ DatalinkLossEnabled) =>
        []<>(\/ armed.force_failsafe
             \/ ~(Unhindered /\ (Holds(status, "data_link_lost") \/ Committed)))

\* A manual flight that has lost its RC for good ends too (rcloss.cpp).
RcLossTerminates ==
    RcLossObc =>
        []<>(\/ armed.force_failsafe
             \/ ~(/\ Flying("MANUAL") /\ CanFlyHome(status) /\ ~Holds(status, "landed")
                  /\ Holds(status, "rc_signal_lost")))

\* So does a mission that has lost GPS for good, as long as the estimator still
\* finds a position: with a GPS failure the vehicle circles blindly for a while
\* (gpsfailure.cpp).  Without a position nothing wakes the navigator that would
\* ask for the termination (navigator_main.cpp).
GpsLossTerminates ==
    []<>(\/ armed.force_failsafe
         \/ ~(/\ Flying("AUTO_MISSION") /\ Holds(status, "gps_failure")
              /\ Holds(status, "global_position")))
=============================================================================
