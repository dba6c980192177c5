-------------------------- MODULE MCOffboardMission --------------------------
(* Small instances of OffboardMission. *)
EXTENDS OffboardMission

MCStarts == {NoSeq, 0}

\* The card is empty, or holds a loop flown twice and an end at which the vehicle
\* is to wait
MCCards == {<<>>, <<Stop("waypoint"), Jump(0, 1), Stop("hold")>>}

\* A DO_JUMP that leads to itself, another that leads back to it, and a landing
MCPlans == {<<Jump(1, 1), Jump(0, 1), Stop("land")>>}
=============================================================================
