---------------------------- MODULE FailsafeProofs ----------------------------
(***************************************************************************)
(* The commander with the navigator is a commander: what the navigator     *)
(* publishes is among what the commander's environment may publish, so     *)
(* what is proved of the commander holds of the two together.              *)
(***************************************************************************)
EXTENDS Failsafe, CommanderProofs

NavTyped == "result" \in DOMAIN nav /\ nav.result \in Results

\* What an active mode leaves says whether the mission is finished
LEMMA LeavesType ==
    ASSUME NEW stage, NEW can_loiter, NEW stay, NEW terminates
    PROVE  N!Leaves(stage, can_loiter, stay, terminates).finished = nav.result.finished
BY DEF N!Leaves

\* What an active navigator mode reports as finished is a truth value.
LEMMA ActiveTypes ==
    ASSUME NavTyped, NEW reached \in BOOLEAN
    PROVE  /\ \A e \in N!OnMission : e.finished \in BOOLEAN
           /\ N!active \notin {"none", "mission"} =>
                \A e \in N!OnActivation \cup N!OnActive(reached) : e.finished \in BOOLEAN
<1>1. nav.result.finished \in BOOLEAN
  BY DEF NavTyped, Results
<1>2. ASSUME NEW e \in N!OnMission PROVE e.finished \in BOOLEAN
  BY FailsafeAssumption DEF N!OnMission
<1>3. N!active \in {"loiter", "rtl", "dataLinkLoss", "engineFailure", "gpsFailure", "rcLoss",
                    "takeoff", "mission", "none"}
  BY DEF N!active, N!ModeOf
<1>4. ASSUME N!active \notin {"none", "mission"}, NEW e \in N!OnActivation
      PROVE  e.finished \in BOOLEAN
  <2>1. \E stage, can_loiter, stay, terminates :
          e = N!Leaves(stage, can_loiter, stay, terminates)
    <3>1. CASE N!active \in N!Staged \ {"gpsFailure"}
      <4>1. PICK stage \in N!Entered(N!active) :
              e = N!SetItem(stage, N!Stays(N!active, "NONE"))
        BY <1>4, <3>1 DEF N!OnActivation, N!Staged, N!Keeping
      <4>2. QED
        BY <4>1 DEF N!SetItem
    <3>2. CASE N!active = "gpsFailure"
      BY <1>4, <3>2 DEF N!OnActivation
    <3>3. CASE N!active = "loiter"
      BY <1>4, <3>3 DEF N!OnActivation, N!Staged, N!Keeping
    <3>4. CASE N!active = "takeoff"
      BY <1>4, <3>4 DEF N!OnActivation, N!Staged, N!Keeping
    <3>5. QED
      BY <1>3, <1>4, <3>1, <3>2, <3>3, <3>4 DEF N!Staged, N!Keeping
  <2>2. QED
    BY <1>1, <2>1, LeavesType
<1>5. ASSUME N!active \notin {"none", "mission"}, NEW e \in N!OnActive(reached)
      PROVE  e.finished \in BOOLEAN
  <2>1. \E stage, can_loiter, stay, terminates :
          e = N!Leaves(stage, can_loiter, stay, terminates)
    <3>1. CASE N!active \in N!Staged \ {"gpsFailure"}
      <4>1. \/ \E stage, stay : e = N!SetItem(stage, stay)
            \/ \E stage : e = N!Unmoved(stage)
        BY <1>5, <3>1 DEF N!OnActive, N!Staged, N!Keeping
      <4>2. QED
        <5>1. \A stage, stay : \E can_loiter, terminates :
                 N!SetItem(stage, stay)
                   = N!Leaves(stage, can_loiter, stay, terminates)
          BY DEF N!SetItem
        <5>2. \A stage : \E can_loiter, stay, terminates :
                 N!Unmoved(stage) = N!Leaves(stage, can_loiter, stay, terminates)
          BY DEF N!Unmoved
        <5>3. QED
          BY <4>1, <5>1, <5>2
    <3>2. CASE N!active = "gpsFailure"
      BY <1>5, <3>2 DEF N!OnActive, N!GpsActive, N!Unmoved
    <3>3. CASE N!active \in {"loiter", "takeoff"}
      BY <1>5, <3>3 DEF N!OnActive, N!Unmoved, N!Staged, N!Keeping
    <3>4. QED
      BY <1>3, <1>5, <3>1, <3>2, <3>3 DEF N!Staged, N!Keeping
  <2>2. QED
    BY <1>1, <2>1, LeavesType
<1>6. QED
  BY <1>2, <1>4, <1>5

(* The navigator publishes a mission result and a fence result of their types. *)
LEMMA NavigatorStep ==
    ASSUME NavTyped, N!Navigator
    PROVE  /\ NavTyped'
           /\ mission_result' \in {mission_result} \cup Results
           /\ geofence_result' \in
                {geofence_result} \cup
                (IF GeofenceAction = "NONE" THEN {}
                 ELSE [action : {GeofenceAction}, violated : BOOLEAN])
<1>1. CASE N!Poll
  <2>1. "result" \in DOMAIN nav' /\ nav'.result = nav.result
    BY <1>1 DEF N!Poll, NavTyped
  <2>2. QED
    BY <1>1, <2>1 DEF N!Poll, NavTyped
<1>2. ASSUME NEW reached \in BOOLEAN, N!Run(reached)
      PROVE  /\ NavTyped' /\ mission_result' \in Results
             /\ geofence_result' = geofence_result
  <2> DEFINE Choices ==
               CASE N!active = "none" -> {N!Leaves("NONE", FALSE, FALSE, FALSE)}
                 [] N!active = "mission" -> N!OnMission
                 [] N!active \notin {"none", "mission"} /\ N!Activates -> N!OnActivation
                 [] N!active \notin {"none", "mission"} /\ ~N!Activates -> N!OnActive(reached)
  <2>1. PICK e \in Choices : N!Run(reached)!2!(e)
    BY <1>2 DEF N!Run
  <2>2. e.finished \in BOOLEAN
    <3>1. CASE N!active = "none"
      <4>1. e = N!Leaves("NONE", FALSE, FALSE, FALSE)
        BY <3>1
      <4>2. QED
        BY <4>1 DEF NavTyped, Results, N!Leaves
    <3>2. CASE N!active = "mission"
      BY <3>2, ActiveTypes
    <3>3. CASE N!active \notin {"none", "mission"}
      BY <3>3, ActiveTypes
    <3>4. QED
      BY <3>1, <3>2, <3>3
  <2> DEFINE stays == (nav.result.stay_in_failsafe
                         /\ ~(N!Activates /\ N!active # "none")) \/ e.stay
             terminates == nav.result.flight_termination \/ e.terminates
             result == [finished |-> e.finished, stay_in_failsafe |-> stays,
                        flight_termination |-> terminates]
  <2>3. "result" \in DOMAIN nav' /\ nav'.result = result
    BY <2>1 DEF NavTyped
  <2>4. stays \in BOOLEAN /\ terminates \in BOOLEAN
    OBVIOUS
  <2> HIDE DEF stays, terminates
  <2>5. result \in Results
    BY <2>2, <2>4 DEF Results
  <2> HIDE DEF result
  <2>6. mission_result' = nav'.result /\ geofence_result' = geofence_result
    BY <1>2 DEF N!Run
  <2>7. QED
    BY <2>3, <2>5, <2>6 DEF NavTyped
<1>3. QED
  BY <1>1, <1>2 DEF N!Navigator

(* The commander that flies with this navigator is one that flies with any:
   every step of the two is a step of the commander or leaves it alone. *)
THEOREM FailsafeIsCommander == FailsafeSpec => Spec
<1>1. FailsafeInit => Init /\ NavTyped
  BY DEF FailsafeInit, N!NavBoot, NavTyped, Results
<1>2. ASSUME NavTyped, [FailsafeNext]_allVars PROVE NavTyped' /\ [Next]_vars
  <2>1. CASE (MainLoop \/ LowPrio \/ SendCommand) /\ UNCHANGED nav
    BY <1>2, <2>1 DEF Next, NavTyped
  <2>2. CASE Resets /\ nav' = N!NavBoot
    BY <2>2 DEF Next, N!NavBoot, NavTyped, Results
  <2>3. CASE N!Navigator /\ UNCHANGED <<status, armed, loop, lp, commands, issued, published>>
    <3>1. NavTyped' /\ NavigatorPublishes
      BY <1>2, <2>3, NavigatorStep, FailsafeAssumption DEF NavigatorPublishes
    <3>2. QED
      BY <3>1 DEF Next
  <2>4. CASE UNCHANGED allVars
    BY <1>2, <2>4 DEF allVars, NavTyped
  <2>5. QED
    BY <1>2, <2>1, <2>2, <2>3, <2>4 DEF FailsafeNext
<1>3. QED
  BY <1>1, <1>2, PTL DEF FailsafeSpec, Spec

(* So the arming state and the actuators agree with the navigator flying too. *)
THEOREM FailsafeArmingAgrees == FailsafeSpec => []ArmedAgrees
BY FailsafeIsCommander, ArmingStateAgrees, PTL

(* And no flight that has lost its link and position goes on unterminated. *)
THEOREM FailsafeTerminates == FailsafeSpec => TerminationPublished
BY FailsafeIsCommander, TerminationIsPublished, PTL
=============================================================================
