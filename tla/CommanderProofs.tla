--------------------------- MODULE CommanderProofs ---------------------------
(***************************************************************************)
(* Types of the commander, and what its two threads keep between them: the *)
(* arming state and the actuators agree, HIL is locked down, an automatic  *)
(* state has its home position and a termination reaches the topics.  For  *)
(* every vehicle, every set of readings, commands and switch positions.    *)
(***************************************************************************)
EXTENDS Commander, TLAPS

\* What a thread asks arming_state_transition for
Requested == {"INIT", "STANDBY", "ARMED", "STANDBY_ERROR"}
\* ArmedAgrees and HilLocked of two records
Agrees(s, a) ==
    s.arming_state # "IN_AIR_RESTORE" =>
        /\ a.armed <=> IsArmed(s)
        /\ a.ready_to_arm <=> s.arming_state \in {"ARMED", "STANDBY"}
Locked(s, a) == a.armed => (a.lockdown <=> s.hil_on)
\* AutoHasHome of a record
HasHome(s) == s.main_state \in AutoStates \ {"AUTO_LOITER"} => Holds(s, "home_position")

-----------------------------------------------------------------------------
\* The records of VehicleState keep their types

\* Setting a condition keeps a status a status, and the home position unless it is the one set.
LEMMA WithType ==
    ASSUME NEW s \in Statuses, NEW c \in Conditions, NEW b \in BOOLEAN
    PROVE  /\ With(s, c, b) \in Statuses
           /\ \A f \in DOMAIN s \ {"conditions"} : With(s, c, b)[f] = s[f]
           /\ c # "home_position" /\ Holds(s, "home_position")
                => Holds(With(s, c, b), "home_position")
BY DEF With, Statuses, Holds

\* The checks of an arming transition keep hil_on, the main state and the home position.
LEMMA CheckedType ==
    ASSUME NEW s \in Statuses, NEW new \in ArmingStates, NEW healthy \in BOOLEAN
    PROVE  /\ Checked(s, new, healthy) \in Statuses
           /\ Checked(s, new, healthy).hil_on = s.hil_on
           /\ Checked(s, new, healthy).main_state = s.main_state
           /\ Holds(s, "home_position") => Holds(Checked(s, new, healthy), "home_position")
<1> DEFINE e == [s EXCEPT !.arming_state = IF @ = "STANDBY_ERROR" THEN "STANDBY" ELSE @]
<1>1. e \in Statuses /\ e.hil_on = s.hil_on /\ e.main_state = s.main_state
        /\ e.conditions = s.conditions
  BY DEF Statuses, ArmingStates
<1>2. PreflightOk(s, healthy, FALSE) \in BOOLEAN /\ "sensors_initialized" \in Conditions
  BY DEF PreflightOk, Conditions
<1>3. CASE s.hil_on
  BY <1>1, <1>2, <1>3, WithType, ZenonT(60) DEF Checked, With, Holds, Statuses
<1>4. CASE ~s.hil_on
  BY <1>2, <1>4, WithType, ZenonT(60) DEF Checked, With, Holds, Statuses
<1>5. QED
  BY <1>3, <1>4

\* The three flags of an actuator_armed record that a transition sets keep it one.
LEMMA ArmedType ==
    ASSUME NEW a \in Armeds, NEW x \in BOOLEAN, NEW y \in BOOLEAN, NEW z \in BOOLEAN
    PROVE  LET r == [[a EXCEPT !.lockdown = z] EXCEPT !.armed = x, !.ready_to_arm = y]
           IN  r \in Armeds /\ r.armed = x /\ r.ready_to_arm = y /\ r.lockdown = z
BY DEF Armeds

\* An arming state written into a status keeps the rest.
LEMMA StateType ==
    ASSUME NEW s \in Statuses, NEW new \in ArmingStates
    PROVE  LET r == [s EXCEPT !.arming_state = new]
           IN  /\ r \in Statuses /\ r.arming_state = new /\ r.main_state = s.main_state
               /\ r.hil_on = s.hil_on /\ r.conditions = s.conditions
BY DEF Statuses

(* A transition keeps the types of its records; it touches neither the main
   state nor HIL, and forgets no home position. *)
LEMMA ArmingType ==
    ASSUME NEW s \in Statuses, NEW a \in Armeds, NEW new \in ArmingStates,
           NEW checks \in BOOLEAN, NEW healthy \in BOOLEAN
    PROVE  LET r == arming_state_transition(s, a, new, checks, healthy)
           IN  /\ r.status \in Statuses /\ r.armed \in Armeds
               /\ r.status.main_state = s.main_state /\ r.status.hil_on = s.hil_on
               /\ Holds(s, "home_position") => Holds(r.status, "home_position")
<1> DEFINE c == Checked(s, new, healthy)
           l == [a EXCEPT !.lockdown = s.hil_on]
           t == Target(c, new)
<1>1. /\ c \in Statuses /\ c.hil_on = s.hil_on /\ c.main_state = s.main_state
      /\ Holds(s, "home_position") => Holds(c, "home_position")
  BY CheckedType
<1>2. l \in Armeds
  BY DEF Armeds, Statuses
<1>3. t \in ArmingStates
  BY DEF Target, ArmingStates
<1>4. /\ [c EXCEPT !.arming_state = t] \in Statuses
      /\ [c EXCEPT !.arming_state = t].main_state = c.main_state
      /\ [c EXCEPT !.arming_state = t].hil_on = c.hil_on
      /\ [c EXCEPT !.arming_state = t].conditions = c.conditions
  BY <1>1, <1>3, StateType
<1>5. [l EXCEPT !.armed = t \in {"ARMED", "ARMED_ERROR"},
                !.ready_to_arm = t \in {"ARMED", "STANDBY"}] \in Armeds
  <2>1. (t \in {"ARMED", "ARMED_ERROR"}) \in BOOLEAN /\ (t \in {"ARMED", "STANDBY"}) \in BOOLEAN
          /\ s.hil_on \in BOOLEAN
    BY DEF Statuses
  <2>2. QED
    BY <2>1, ArmedType
<1> HIDE DEF c, l, t
<1>6. CASE new = s.arming_state
  BY <1>6 DEF arming_state_transition
<1>7. CASE new # s.arming_state /\ Granted(c, new, PrearmOk(s, new, checks, healthy))
  BY <1>1, <1>4, <1>5, <1>7 DEF arming_state_transition, c, l, t, Holds
<1>8. CASE new # s.arming_state /\ ~Granted(c, new, PrearmOk(s, new, checks, healthy))
  BY <1>1, <1>2, <1>8 DEF arming_state_transition, c, l, t, Holds
<1>9. QED
  BY <1>6, <1>7, <1>8

\* main_state_transition only changes the main state, and keeps AutoHasHome.
LEMMA MainType ==
    ASSUME NEW s \in Statuses, NEW new \in MainStates
    PROVE  LET r == main_state_transition(s, new)
           IN  /\ r \in Statuses /\ r.arming_state = s.arming_state /\ r.hil_on = s.hil_on
               /\ r.conditions = s.conditions
               /\ HasHome(s) => HasHome(r)
<1> DEFINE r == [s EXCEPT !.main_state = new]
<1>1. r \in Statuses /\ r.arming_state = s.arming_state /\ r.hil_on = s.hil_on
        /\ r.conditions = s.conditions /\ r.main_state = new
  BY DEF Statuses
<1>2. MainAllowed(s, new) => HasHome(r)
  BY <1>1 DEF MainAllowed, HasHome, Holds, AutoStates, StickStates
<1>3. QED
  BY <1>1, <1>2 DEF main_state_transition

\* hil_state_transition only changes hil_on, and that only when not armed.
LEMMA HilType ==
    ASSUME NEW s \in Statuses, NEW on \in BOOLEAN, NEW listed \in BOOLEAN
    PROVE  LET r == hil_state_transition(s, on, listed)
           IN  /\ r \in Statuses /\ r.arming_state = s.arming_state
               /\ r.main_state = s.main_state /\ r.conditions = s.conditions
               /\ r.hil_on # s.hil_on => s.arming_state \in {"INIT", "STANDBY", "STANDBY_ERROR"}
BY DEF hil_state_transition, HilAllowed, Statuses

(* The navigation state is chosen among the navigation states. *)
LEMMA NavType ==
    ASSUME NEW s \in Statuses, NEW dl \in BOOLEAN, NEW finished \in BOOLEAN, NEW stay \in BOOLEAN
    PROVE  LET r == set_nav_state(s, dl, finished, stay)
           IN  /\ r \in Statuses /\ r.arming_state = s.arming_state /\ r.hil_on = s.hil_on
               /\ r.main_state = s.main_state /\ r.conditions = s.conditions
<1> DEFINE Choices == [nav_state : NavStates, failsafe : BOOLEAN]
<1>1. MainStates \subseteq NavStates
  BY DEF NavStates
<1>2. s.main_state \in MainStates /\ s.nav_state \in NavStates /\ s.failure_cmd \in Failures
  BY DEF Statuses
<1>3. \A nav \in NavStates : Normal(nav) \in Choices /\ Failsafe(nav) \in Choices
  BY DEF Normal, Failsafe
<1>4. Descent(s) \in NavStates
  BY DEF Descent, NavStates
<1>5. \A best \in NavStates : Fallback(s, best) \in Choices
  BY <1>3, <1>4 DEF Fallback
<1>6. {"AUTO_RCRECOVER", "AUTO_RTGS", "AUTO_LANDENGFAIL", "AUTO_LANDGPSFAIL", "AUTO_MISSION",
       "AUTO_LOITER", "OFFBOARD", "POSCTL"} \subseteq NavStates
  BY DEF NavStates, MainStates, AutoStates, ManualStates
<1> HIDE DEF Choices
<1>7. ManualNav(s) \in Choices
  BY <1>1, <1>2, <1>3, <1>5, <1>6 DEF ManualNav
<1>8. MissionNav(s, dl, finished, stay) \in Choices
  <2>1. CASE s.failure_cmd = "none"
    BY <2>1, <1>2, <1>3, <1>5, <1>6 DEF MissionNav
  <2>2. CASE s.failure_cmd # "none"
    BY <2>2, <1>2, <1>3, <1>6 DEF MissionNav, Failures
  <2>3. QED
    BY <2>1, <2>2
<1>9. LoiterNav(s, dl) \in Choices
  BY <1>3, <1>5, <1>6 DEF LoiterNav
<1>10. HomeNav(s) \in Choices
  BY <1>1, <1>2, <1>3, <1>4, <1>6 DEF HomeNav
<1>11. OffboardNav(s) \in Choices
  BY <1>3, <1>4, <1>6 DEF OffboardNav
<1>12. \A n \in Choices :
         LET r == [s EXCEPT !.nav_state = n.nav_state, !.failsafe = n.failsafe]
         IN  /\ r \in Statuses /\ r.arming_state = s.arming_state /\ r.hil_on = s.hil_on
             /\ r.main_state = s.main_state /\ r.conditions = s.conditions
  BY DEF Choices, Statuses
<1>13. s.main_state \in ManualStates \/ s.main_state \in {"AUTO_MISSION", "AUTO_LOITER",
         "AUTO_RTL", "AUTO_TAKEOFF", "OFFBOARD"}
  BY <1>2 DEF MainStates, AutoStates
<1>14. ManualStates \cap {"AUTO_MISSION", "AUTO_LOITER", "AUTO_RTL", "AUTO_TAKEOFF",
                         "OFFBOARD"} = {}
  BY DEF ManualStates, StickStates
<1> DEFINE n == CASE s.main_state \in ManualStates -> ManualNav(s)
                  [] s.main_state = "AUTO_MISSION" -> MissionNav(s, dl, finished, stay)
                  [] s.main_state = "AUTO_LOITER" -> LoiterNav(s, dl)
                  [] s.main_state \in {"AUTO_RTL", "AUTO_TAKEOFF"} -> HomeNav(s)
                  [] s.main_state = "OFFBOARD" -> OffboardNav(s)
<1>15. n \in Choices
  BY <1>7, <1>8, <1>9, <1>10, <1>11, <1>13, <1>14
<1> HIDE DEF n
<1>16. QED
  BY <1>12, <1>15 DEF set_nav_state, n

-----------------------------------------------------------------------------
\* What a transition does to the agreement of the two records

\* Whatever arming state is asked for, status and actuator_armed agree after arming_state_transition.
LEMMA ArmingAgrees ==
    ASSUME NEW s \in Statuses, NEW a \in Armeds, NEW new \in Requested,
           NEW checks \in BOOLEAN, NEW healthy \in BOOLEAN, Agrees(s, a), Locked(s, a)
    PROVE  LET r == arming_state_transition(s, a, new, checks, healthy)
           IN  Agrees(r.status, r.armed) /\ Locked(r.status, r.armed)
<1> DEFINE c == Checked(s, new, healthy)
           l == [a EXCEPT !.lockdown = s.hil_on]
           t == Target(c, new)
           ok == PrearmOk(s, new, checks, healthy)
<1>1. c \in Statuses /\ c.hil_on = s.hil_on
  <2>1. new \in ArmingStates
    BY DEF Requested, ArmingStates
  <2>2. QED
    BY <2>1, CheckedType
<1>2. \/ c.arming_state = s.arming_state
      \/ s.hil_on /\ s.arming_state = "STANDBY_ERROR" /\ c.arming_state = "STANDBY"
  <2>1. \A e \in Statuses : \A b : With(e, "sensors_initialized", b).arming_state = e.arming_state
    BY DEF With, Statuses
  <2>2. LET e == [s EXCEPT !.arming_state = IF @ = "STANDBY_ERROR" THEN "STANDBY" ELSE @]
        IN  /\ e \in Statuses
            /\ e.arming_state = IF s.arming_state = "STANDBY_ERROR" THEN "STANDBY"
                               ELSE s.arming_state
    BY DEF Statuses, ArmingStates
  <2>3. QED
    BY <2>1, <2>2 DEF Checked
<1>3. t \in Requested
  BY DEF Target, Requested
<1>4. l \in Armeds /\ l.lockdown = s.hil_on /\ l.armed = a.armed
        /\ l.ready_to_arm = a.ready_to_arm
  BY DEF Armeds, Statuses
<1> HIDE DEF c, l, t, ok
<1>5. CASE new = s.arming_state
  BY <1>5 DEF arming_state_transition
<1>6. CASE new # s.arming_state /\ Granted(c, new, ok)
  <2> DEFINE x == t \in {"ARMED", "ARMED_ERROR"}
             y == t \in {"ARMED", "STANDBY"}
             rs == [c EXCEPT !.arming_state = t]
             ra == [l EXCEPT !.armed = x, !.ready_to_arm = y]
  <2>1. rs.arming_state = t /\ rs.hil_on = s.hil_on
    BY <1>1 DEF Statuses
  <2>2. (ra.armed <=> x) /\ (ra.ready_to_arm <=> y) /\ ra.lockdown = s.hil_on
    <3>1. x \in BOOLEAN /\ y \in BOOLEAN /\ s.hil_on \in BOOLEAN
      BY DEF Statuses
    <3>2. QED
      BY <3>1, ArmedType, ZenonT(60) DEF l
  <2>3. Agrees(rs, ra) /\ Locked(rs, ra)
    BY <2>1, <2>2 DEF Agrees, Locked, IsArmed
  <2>4. QED
    BY <1>6, <2>3 DEF arming_state_transition, c, l, t, ok
<1>7. CASE new # s.arming_state /\ ~Granted(c, new, ok)
  <2>1. c.arming_state = s.arming_state
    <3> SUFFICES ASSUME s.hil_on, s.arming_state = "STANDBY_ERROR", c.arming_state = "STANDBY"
                 PROVE  FALSE
        BY <1>2
    <3>1. Granted(c, new, ok)
      BY <1>1, <1>7 DEF Granted, From, Refused, Target, Requested
    <3>2. QED
      BY <3>1, <1>7
  <2>2. Agrees(c, l) /\ Locked(c, l)
    BY <1>1, <1>4, <2>1 DEF Agrees, Locked, IsArmed
  <2>3. QED
    BY <1>7, <2>2 DEF arming_state_transition, c, l, t, ok
<1>8. QED
  BY <1>5, <1>6, <1>7

-----------------------------------------------------------------------------
\* Records as the threads leave them, and the steps that keep them so

Good(s, a) == /\ s \in Statuses /\ a \in Armeds
              /\ Agrees(s, a) /\ Locked(s, a) /\ HasHome(s)

(* What is sensed moves no state of the machines. *)
LEMMA GoodSense ==
    ASSUME NEW s, NEW a, Good(s, a), NEW which \in SUBSET Conditions,
           "home_position" \notin which, NEW seen \in Readings(which)
    PROVE  Good(Sense(s, which, seen), a)
<1>1. seen \subseteq Conditions
  BY CommanderAssumption DEF Readings
<1> DEFINE r == Sense(s, which, seen)
<1>2. r \in Statuses /\ r.conditions = (s.conditions \ which) \cup seen
        /\ r.arming_state = s.arming_state /\ r.hil_on = s.hil_on /\ r.main_state = s.main_state
  BY <1>1 DEF Good, Sense, Statuses
<1>3. Holds(s, "home_position") => Holds(r, "home_position")
  BY <1>2 DEF Holds
<1>4. QED
  BY <1>2, <1>3 DEF Good, Agrees, Locked, HasHome, IsArmed

\* A condition read from a topic keeps a good pair good, home_position being set only.
LEMMA GoodWith ==
    ASSUME NEW s, NEW a, Good(s, a), NEW c \in Conditions, NEW b \in BOOLEAN,
           c = "home_position" => b
    PROVE  Good(With(s, c, b), a)
<1> DEFINE r == With(s, c, b)
<1>1. r \in Statuses /\ r.arming_state = s.arming_state /\ r.hil_on = s.hil_on
        /\ r.main_state = s.main_state
        /\ r.conditions = IF b THEN s.conditions \cup {c} ELSE s.conditions \ {c}
  BY DEF Good, With, Statuses
<1>2. Holds(s, "home_position") => Holds(r, "home_position")
  BY <1>1 DEF Holds
<1>3. QED
  BY <1>1, <1>2 DEF Good, Agrees, Locked, HasHome, IsArmed

\* So does a main state transition.
LEMMA GoodMain ==
    ASSUME NEW s, NEW a, Good(s, a), NEW new \in MainStates
    PROVE  Good(main_state_transition(s, new), a)
<1> DEFINE r == main_state_transition(s, new)
<1>1. s \in Statuses /\ HasHome(s)
  BY DEF Good
<1>2. /\ r \in Statuses /\ r.arming_state = s.arming_state /\ r.hil_on = s.hil_on
      /\ HasHome(r)
  BY <1>1, MainType
<1> HIDE DEF r
<1>3. Good(r, a)
  BY <1>2 DEF Good, Agrees, Locked, IsArmed
<1>4. QED
  BY <1>3 DEF r

(* HIL is entered while disarmed, so the lockdown of an armed vehicle stays. *)
LEMMA GoodHil ==
    ASSUME NEW s, NEW a, Good(s, a), NEW on \in BOOLEAN, NEW listed \in BOOLEAN
    PROVE  Good(hil_state_transition(s, on, listed), a)
<1> DEFINE r == hil_state_transition(s, on, listed)
<1>1. /\ r \in Statuses /\ r.arming_state = s.arming_state
      /\ r.main_state = s.main_state /\ r.conditions = s.conditions
      /\ r.hil_on # s.hil_on => s.arming_state \in {"INIT", "STANDBY", "STANDBY_ERROR"}
  BY HilType DEF Good
<1>2. r.hil_on # s.hil_on => ~a.armed
  BY <1>1 DEF Good, Agrees, IsArmed
<1>3. QED
  BY <1>1, <1>2 DEF Good, Agrees, Locked, HasHome, IsArmed, Holds

\* So does set_nav_state, whatever is lost.
LEMMA GoodNav ==
    ASSUME NEW s, NEW a, Good(s, a), NEW dl \in BOOLEAN, NEW finished \in BOOLEAN,
           NEW stay \in BOOLEAN
    PROVE  Good(set_nav_state(s, dl, finished, stay), a)
<1> DEFINE r == set_nav_state(s, dl, finished, stay)
<1>1. s \in Statuses
  BY DEF Good
<1>2. /\ r \in Statuses /\ r.arming_state = s.arming_state /\ r.hil_on = s.hil_on
      /\ r.main_state = s.main_state /\ r.conditions = s.conditions
  BY <1>1, NavType
<1> HIDE DEF r
<1>3. Good(r, a)
  BY <1>2 DEF Good, Agrees, Locked, HasHome, IsArmed, Holds
<1>4. QED
  BY <1>3 DEF r

(* A transition of either thread; an onboard computer's starts from nowhere. *)
LEMMA GoodArming ==
    ASSUME NEW s, Good(s, armed), NEW wanted \in BOOLEAN, NEW new \in Requested,
           NEW checks \in BOOLEAN, NEW healthy \in BOOLEAN
    PROVE  LET r == Arming(wanted, s, new, checks, healthy) IN Good(r.status, r.armed)
<1>1. CASE ~wanted
  BY <1>1 DEF Arming
<1>2. CASE wanted
  <2> DEFINE r == arming_state_transition(s, armed, new, checks, healthy)
  <2>1. s \in Statuses /\ armed \in Armeds /\ Agrees(s, armed) /\ Locked(s, armed) /\ HasHome(s)
    BY DEF Good
  <2>2. new \in ArmingStates
    BY DEF Requested, ArmingStates
  <2>3. /\ r.status \in Statuses /\ r.armed \in Armeds
        /\ r.status.main_state = s.main_state
        /\ Holds(s, "home_position") => Holds(r.status, "home_position")
    BY <2>1, <2>2, ArmingType
  <2>4. Agrees(r.status, r.armed) /\ Locked(r.status, r.armed)
    BY <2>1, ArmingAgrees
  <2> HIDE DEF r
  <2>5. Good(r.status, r.armed)
    BY <2>1, <2>3, <2>4 DEF Good, HasHome
  <2>6. QED
    BY <1>2, <2>5 DEF Arming, r
<1>3. QED
  BY <1>1, <1>2

\* So does arm_disarm, whether it arms or refuses.
LEMMA GoodArmDisarm ==
    ASSUME NEW s, Good(s, armed), NEW wanted \in BOOLEAN, NEW arm \in BOOLEAN,
           NEW healthy \in BOOLEAN
    PROVE  LET r == ArmDisarm(wanted, s, arm, healthy) IN Good(r.status, r.armed)
<1>1. (IF arm THEN "ARMED" ELSE "STANDBY") \in Requested
  BY DEF Requested
<1>2. LET r == Arming(wanted, s, IF arm THEN "ARMED" ELSE "STANDBY", TRUE, healthy)
      IN  Good(r.status, r.armed)
  BY <1>1, GoodArming
<1>3. CASE wanted /\ arm /\ HilSetup /\ ~s.hil_on
  BY <1>3 DEF ArmDisarm
<1>4. CASE ~(wanted /\ arm /\ HilSetup /\ ~s.hil_on)
  BY <1>2, <1>4 DEF ArmDisarm
<1>5. QED
  BY <1>3, <1>4

\* So do the fields that the invariants do not read.
LEMMA GoodElsewhere ==
    ASSUME NEW s, NEW a, Good(s, a)
    PROVE  /\ Good([s EXCEPT !.arming_state = "IN_AIR_RESTORE"], a)
           /\ \A b \in BOOLEAN : Good(s, [a EXCEPT !.force_failsafe = b])
           /\ \A b \in BOOLEAN : Good(s, [a EXCEPT !.in_esc_calibration_mode = b])
           /\ \A x \in NavStates : Good([s EXCEPT !.nav_state = x], a)
           /\ \A f \in Failures : Good([s EXCEPT !.failure_cmd = f], a)
           /\ \A b \in BOOLEAN : Good([s EXCEPT !.offboard_by_command = b], a)
           /\ \A b, d \in BOOLEAN : Good([s EXCEPT !.calibration_enabled = b,
                                                   !.rc_input_blocked = d], a)
<1>1. Good([s EXCEPT !.arming_state = "IN_AIR_RESTORE"], a)
  BY DEF Good, Agrees, Locked, HasHome, Holds, Statuses, ArmingStates
<1>2. \A b \in BOOLEAN : Good(s, [a EXCEPT !.force_failsafe = b])
  BY DEF Good, Agrees, Locked, Armeds
<1>3. \A b \in BOOLEAN : Good(s, [a EXCEPT !.in_esc_calibration_mode = b])
  BY DEF Good, Agrees, Locked, Armeds
<1>4. \A x \in NavStates : Good([s EXCEPT !.nav_state = x], a)
  BY DEF Good, Agrees, Locked, HasHome, Holds, IsArmed, Statuses
<1>5. \A f \in Failures : Good([s EXCEPT !.failure_cmd = f], a)
  BY DEF Good, Agrees, Locked, HasHome, Holds, IsArmed, Statuses
<1>6. \A b \in BOOLEAN : Good([s EXCEPT !.offboard_by_command = b], a)
  BY DEF Good, Agrees, Locked, HasHome, Holds, IsArmed, Statuses
<1>7. \A b, d \in BOOLEAN : Good([s EXCEPT !.calibration_enabled = b,
                                           !.rc_input_blocked = d], a)
  BY DEF Good, Agrees, Locked, HasHome, Holds, IsArmed, Statuses
<1>8. QED
  BY <1>1, <1>2, <1>3, <1>4, <1>5, <1>6, <1>7

-----------------------------------------------------------------------------
\* The switches ask for main states, and one of those that are allowed is first

\* The length of a concatenation is at most the sum of the bounds of its parts.
LEMMA Joined ==
    ASSUME NEW M, NEW j \in Nat, NEW k \in Nat, NEW u \in Seq(M), NEW v \in Seq(M),
           Len(u) <= j, Len(v) <= k
    PROVE  u \o v \in Seq(M) /\ Len(u \o v) <= j + k
<1>1. Len(u) \in Nat /\ Len(v) \in Nat
  OBVIOUS
<1>2. u \o v \in Seq(M) /\ Len(u \o v) = Len(u) + Len(v)
  OBVIOUS
<1>3. QED
  BY <1>1, <1>2

\* The switches ask for at most eight main states in turn.
LEMMA WishesType ==
    ASSUME NEW sp \in SwitchPositions
    PROVE  RcWishes(sp) \in Seq(MainStates) /\ Len(RcWishes(sp)) <= 8
<1> DEFINE A == IF "offboard" \in sp.on THEN <<"OFFBOARD">> ELSE <<>>
           B == IF "return" \in sp.on THEN <<"AUTO_RTL", "AUTO_LOITER">> ELSE <<>>
           O == <<IF {"acro", "rattitude"} \cap sp.on = {} THEN "MANUAL"
                  ELSE IF ~IsRotaryWing THEN "STAB"
                  ELSE IF "acro" \in sp.on THEN "ACRO" ELSE "RATTITUDE">>
           P == IF "posctl" \in sp.on THEN <<"POSCTL">> ELSE <<>>
           Q == <<"ALTCTL", "MANUAL">>
           L == IF "loiter" \in sp.on THEN <<"AUTO_LOITER">> ELSE <<"AUTO_MISSION", "AUTO_LOITER">>
           R == <<"POSCTL", "ALTCTL", "MANUAL">>
           C == CASE sp.mode = "NONE" -> <<>>
                  [] sp.mode = "OFF" -> O
                  [] sp.mode = "MIDDLE" -> P \o Q
                  [] sp.mode = "ON" -> L \o R
           M == MainStates
<1>1. {"OFFBOARD", "AUTO_RTL", "AUTO_LOITER", "AUTO_MISSION", "MANUAL", "STAB", "ACRO",
       "RATTITUDE", "POSCTL", "ALTCTL"} \subseteq M
  BY DEF MainStates, AutoStates, ManualStates, StickStates
<1>2. sp.mode \in {"NONE", "OFF", "MIDDLE", "ON"}
  BY DEF SwitchPositions
<1> HIDE DEF M
<1>3. A \in Seq(M) /\ Len(A) <= 1
  BY <1>1
<1>4. B \in Seq(M) /\ Len(B) <= 2
  BY <1>1
<1>5. O \in Seq(M) /\ Len(O) <= 5
  BY <1>1
<1>6. P \in Seq(M) /\ Len(P) <= 1
  BY <1>1
<1>7. Q \in Seq(M) /\ Len(Q) <= 4
  BY <1>1
<1>8. L \in Seq(M) /\ Len(L) <= 2
  BY <1>1
<1>9. R \in Seq(M) /\ Len(R) <= 3
  BY <1>1
<1> HIDE DEF A, B, O, P, Q, L, R
<1>10. P \o Q \in Seq(M) /\ Len(P \o Q) <= 1 + 4
  BY <1>6, <1>7, Joined
<1>11. L \o R \in Seq(M) /\ Len(L \o R) <= 2 + 3
  BY <1>8, <1>9, Joined
<1>12. <<>> \in Seq(M) /\ Len(<<>>) <= 5
  OBVIOUS
<1>13. C \in Seq(M) /\ Len(C) <= 5
  <2>1. CASE sp.mode = "NONE"
    BY <2>1, <1>12
  <2>2. CASE sp.mode = "OFF"
    BY <2>2, <1>5
  <2>3. CASE sp.mode = "MIDDLE"
    BY <2>3, <1>10
  <2>4. CASE sp.mode = "ON"
    BY <2>4, <1>11
  <2>5. QED
    BY <1>2, <2>1, <2>2, <2>3, <2>4
<1> HIDE DEF C
<1>14. A \o B \in Seq(M) /\ Len(A \o B) <= 1 + 2
  BY <1>3, <1>4, Joined
<1>15. (A \o B) \o C \in Seq(M) /\ Len((A \o B) \o C) <= (1 + 2) + 5
  BY <1>13, <1>14, Joined
<1>16. RcWishes(sp) = (A \o B) \o C
  BY DEF RcWishes, A, B, C, O, P, Q, L, R
<1>17. QED
  BY <1>15, <1>16 DEF M

\* Among at most eight wishes one comes first.
LEMMA FirstExists ==
    ASSUME NEW S \in SUBSET (1 .. 8), S # {}
    PROVE  \E i \in S : \A j \in S : i <= j
<1>1. CASE 1 \in S
  BY <1>1
<1>2. CASE 1 \notin S /\ 2 \in S
  BY <1>2
<1>3. CASE S \cap {1, 2} = {} /\ 3 \in S
  BY <1>3
<1>4. CASE S \cap {1, 2, 3} = {} /\ 4 \in S
  BY <1>4
<1>5. CASE S \cap {1, 2, 3, 4} = {} /\ 5 \in S
  BY <1>5
<1>6. CASE S \cap {1, 2, 3, 4, 5} = {} /\ 6 \in S
  BY <1>6
<1>7. CASE S \cap {1, 2, 3, 4, 5, 6} = {} /\ 7 \in S
  BY <1>7
<1>8. CASE S \subseteq {8}
  <2>1. 8 \in S /\ \A j \in S : j = 8
    BY <1>8
  <2>2. QED
    BY <2>1
<1>9. QED
  BY <1>1, <1>2, <1>3, <1>4, <1>5, <1>6, <1>7, <1>8

(* The remote control moves the main state only as any other source does. *)
LEMMA GoodRc ==
    ASSUME NEW s, NEW a, Good(s, a), NEW sp \in Switches \cup {NoSwitch}
    PROVE  Good(set_main_state_rc(s, sp), a)
<1> DEFINE wishes == RcWishes(sp)
           allowed == {i \in DOMAIN wishes : MainAllowed(s, wishes[i])}
           first == CHOOSE i \in allowed : \A j \in allowed : i <= j
<1>1. sp \in SwitchPositions
  BY CommanderAssumption DEF NoSwitch, SwitchPositions
<1>2. wishes \in Seq(MainStates) /\ Len(wishes) <= 8
  BY <1>1, WishesType
<1> HIDE DEF wishes
<1>3. CASE s.offboard_by_command
  BY <1>3, GoodMain DEF set_main_state_rc, MainStates
<1>4. CASE ~s.offboard_by_command /\ (sp = loop.last_sp_man \/ allowed = {})
  BY <1>4 DEF set_main_state_rc, wishes
<1>5. CASE ~s.offboard_by_command /\ ~(sp = loop.last_sp_man \/ allowed = {})
  <2>1. allowed \subseteq 1 .. 8
    BY <1>2
  <2>2. first \in allowed
    BY <1>5, <2>1, FirstExists
  <2>3. wishes[first] \in MainStates
    BY <1>2, <2>2
  <2>4. Good(main_state_transition(s, wishes[first]), a)
    BY <2>3, GoodMain
  <2>5. QED
    BY <1>5, <2>4 DEF set_main_state_rc, wishes
<1>6. QED
  BY <1>3, <1>4, <1>5

-----------------------------------------------------------------------------
\* The inductive invariant: good records, and the types of everything else

Rest ==
    /\ loop \in Loops /\ lp \in [at : LpSteps, kind : Calibrations]
    /\ commands \in [main : Commands \cup {NoCommand}, low_prio : Commands \cup {NoCommand}]
    /\ issued \in 0 .. MaxCommands
    /\ mission_result \in Results
    /\ geofence_result \in [action : FenceActions, violated : BOOLEAN]
    /\ published \in Publications
IInv == Good(status, armed) /\ Rest

\* The values the commander boots with have their types and agree.
LEMMA Boots ==
    /\ \A healthy \in Healths : Good(BootStatus(healthy), BootArmed)
    /\ BootLoop \in Loops /\ NoResult \in Results /\ BootPublished \in Publications
    /\ [at |-> "wait", kind |-> "none"] \in [at : LpSteps, kind : Calibrations]
    /\ [action |-> "NONE", violated |-> FALSE] \in [action : FenceActions, violated : BOOLEAN]
    /\ [main |-> NoCommand, low_prio |-> NoCommand]
         \in [main : Commands \cup {NoCommand}, low_prio : Commands \cup {NoCommand}]
<1>1. BootArmed \in Armeds
  BY DEF BootArmed, Armeds
<1>2. ASSUME NEW healthy \in Healths PROVE Good(BootStatus(healthy), BootArmed)
  <2> DEFINE s == BootStatus(healthy)
  <2>1. "MANUAL" \in MainStates /\ "MANUAL" \in NavStates /\ "INIT" \in ArmingStates
          /\ "none" \in Failures
    BY DEF MainStates, ManualStates, StickStates, NavStates, ArmingStates, Failures
  <2>2. s.conditions \subseteq Conditions
    BY DEF BootStatus, Conditions
  <2>3. s \in Statuses /\ s.arming_state = "INIT" /\ s.main_state = "MANUAL"
    BY <2>1, <2>2, CommanderAssumption DEF BootStatus, Statuses
  <2>4. ~BootArmed.armed /\ ~BootArmed.ready_to_arm
    BY DEF BootArmed
  <2> HIDE DEF s
  <2>5. Good(s, BootArmed)
    BY <1>1, <2>3, <2>4 DEF Good, Agrees, Locked, HasHome, IsArmed, AutoStates
  <2>6. QED
    BY <2>5 DEF s
<1>3. NoResult \in Results
  BY DEF NoResult, Results
<1>4. BootLoop \in Loops
  <2>1. "MANUAL" \in MainStates /\ 0 \in 0 .. MaxLosses /\ "sense" \in Sections
    BY CommanderAssumption DEF MainStates, ManualStates, StickStates, Sections
  <2>2. [loiter_on |-> FALSE, rtl_on |-> FALSE, before |-> "MAX"] \in Fences
    BY DEF Fences
  <2>3. QED
    BY <1>3, <2>1, <2>2 DEF BootLoop, Loops
<1>5. BootPublished \in Publications
  <2>1. "MANUAL" \in NavStates /\ 0 \in 0 .. MaxLosses
    BY CommanderAssumption DEF MainStates, ManualStates, StickStates, NavStates
  <2>2. QED
    BY <1>1, <2>1 DEF BootPublished, Publications, ControlModes
<1>6. [at |-> "wait", kind |-> "none"] \in [at : LpSteps, kind : Calibrations]
  BY DEF LpSteps, Calibrations
<1>7. [action |-> "NONE", violated |-> FALSE] \in [action : FenceActions, violated : BOOLEAN]
  BY DEF FenceActions
<1>8. QED
  BY <1>2, <1>3, <1>4, <1>5, <1>6, <1>7

\* The inductive invariant holds at boot.
LEMMA IInvInit == Init => IInv
<1> SUFFICES ASSUME Init PROVE IInv
    OBVIOUS
<1>1. Good(status, armed)
  BY Boots DEF Init
<1>2. issued \in 0 .. MaxCommands
  BY CommanderAssumption DEF Init
<1>3. QED
  BY <1>1, <1>2, Boots DEF Init, IInv, Rest

\* A system reset starts over from the boot values.
LEMMA ResetStep == ASSUME IInv, SystemReset PROVE IInv'
<1>1. Good(status', armed')
  BY Boots DEF SystemReset
<1>2. issued' = issued /\ issued \in 0 .. MaxCommands
  BY DEF SystemReset, IInv, Rest
<1>3. Rest'
  BY <1>2, Boots DEF SystemReset, Rest
<1>4. QED
  BY <1>1, <1>3 DEF IInv

-----------------------------------------------------------------------------
\* One lemma per section of the main loop

\* Going to the next section of the loop keeps the loop record typed.
LEMMA GoesType ==
    ASSUME IInv, NEW section \in Sections, NEW changed
    PROVE  Goes(section, changed) \in Loops
BY DEF IInv, Rest, Goes, Loops

\* Sections that leave all but the records and the loop alone
LEMMA LoopStep ==
    ASSUME IInv, Good(status', armed'), loop' \in Loops, UNCHANGED <<lp, envVars, published>>
    PROVE  IInv'
BY DEF IInv, Rest, envVars

\* Health is a truth value.
LEMMA HealthType == \A healthy \in Healths : healthy \in BOOLEAN
BY CommanderAssumption

\* Reading the sensors, switches and parameters keeps the invariant.
LEMMA SenseStep == ASSUME IInv, SenseInputs PROVE IInv'
<1>1. PICK seen \in Readings(InputConditions), sp \in Switches, updated \in BOOLEAN,
           healthy \in Healths : SenseInputs!2!(seen, sp, updated, healthy)
  BY DEF SenseInputs
<1> DEFINE s == Sense(status, InputConditions, seen)
           wanted == updated /\ Holds(s, "safety_on") /\ ~s.hil_on /\ armed.armed
           r == Arming(wanted, s, Disarmed(s), TRUE, healthy)
           changed == (seen \cap ReportedConditions)
                        # (status.conditions \cap ReportedConditions)
                      \/ r.ret = "CHANGED"
           g == Goes("land", changed)
<1>2. status' = r.status /\ armed' = r.armed /\ loop' = [g EXCEPT !.sp_man = sp]
  BY <1>1
<1>3. Good(s, armed)
  <2>1. InputConditions \subseteq Conditions /\ "home_position" \notin InputConditions
    BY DEF InputConditions, Conditions
  <2>2. QED
    BY <2>1, GoodSense DEF IInv
<1>4. Disarmed(s) \in Requested /\ wanted \in BOOLEAN /\ healthy \in BOOLEAN
  BY HealthType DEF Disarmed, Requested
<1> HIDE DEF s, wanted, changed
<1>5. Good(status', armed')
  BY <1>2, <1>3, <1>4, GoodArming
<1>6. g \in Loops
  BY GoesType DEF Sections
<1> HIDE DEF g
<1>7. loop' \in Loops
  BY <1>2, <1>6 DEF Loops
<1>8. QED
  BY <1>5, <1>7, LoopStep DEF SenseInputs

\* So does the land detector's section.
LEMMA LandStep == ASSUME IInv, LandDetector PROVE IInv'
<1>1. PICK updated \in BOOLEAN, seen \in Readings({"landed"}), elapsed \in BOOLEAN,
           healthy \in Healths : LandDetector!2!(updated, seen, elapsed, healthy)
  BY DEF LandDetector
<1> DEFINE reported == (updated /\ Holds(status, "local_altitude")) \/ loop.check_for_disarming
           s == IF reported THEN Sense(status, {"landed"}, seen) ELSE status
           timing == DisarmOnLand /\ reported /\ "landed" \in seen
           expired == timing /\ elapsed /\ loop.check_for_disarming /\ loop.inair
           r == ArmDisarm(expired, s, FALSE, healthy)
           moved == s # status
           g == Goes("battery", moved)
<1>2. /\ status' = r.status /\ armed' = r.armed
      /\ loop' = [g EXCEPT !.check_for_disarming = (@ \/ (timing /\ loop.inair)) /\ ~expired,
                           !.inair = (@ \/ (DisarmOnLand /\ reported /\ ~timing)) /\ ~expired]
  BY <1>1
<1>3. Good(s, armed)
  <2>1. {"landed"} \subseteq Conditions
    BY DEF Conditions
  <2>2. QED
    BY <2>1, GoodSense DEF IInv
<1>4. expired \in BOOLEAN /\ timing \in BOOLEAN /\ reported \in BOOLEAN
  OBVIOUS
<1> HIDE DEF reported, s, timing, expired, moved
<1>5. g \in Loops
  BY GoesType DEF Sections
<1>6. Good(status', armed')
  BY <1>2, <1>3, <1>4, HealthType, GoodArmDisarm
<1> HIDE DEF g
<1>7. loop' \in Loops
  <2> DEFINE disarming == (g.check_for_disarming \/ (timing /\ loop.inair)) /\ ~expired
             inair == (g.inair \/ (DisarmOnLand /\ reported /\ ~timing)) /\ ~expired
  <2>1. loop' = [g EXCEPT !.check_for_disarming = disarming, !.inair = inair]
    BY <1>2
  <2>2. disarming \in BOOLEAN /\ inair \in BOOLEAN
    BY <1>4
  <2> HIDE DEF disarming, inair
  <2>3. QED
    BY <1>5, <2>1, <2>2, ZenonT(60) DEF Loops
<1>8. QED
  BY <1>6, <1>7, LoopStep DEF LandDetector

\* So does the battery section, the transition on a critical battery included.
LEMMA BatteryStep == ASSUME IInv, Battery PROVE IInv'
<1>1. PICK healthy \in Healths, now \in BOOLEAN :
        LET r == Arming(now /\ ~armed.armed, status, "STANDBY_ERROR", TRUE, healthy)
        IN  /\ status' = r.status /\ armed' = r.armed
            /\ loop' = [Goes("standby", now) EXCEPT !.critical_done = @ \/ now]
  BY DEF Battery
<1> DEFINE wanted == now /\ ~armed.armed
           r == Arming(wanted, status, "STANDBY_ERROR", TRUE, healthy)
<1>2. wanted \in BOOLEAN /\ healthy \in BOOLEAN /\ "STANDBY_ERROR" \in Requested
  BY HealthType DEF Requested
<1> HIDE DEF wanted
<1>3. Good(r.status, r.armed)
  BY <1>2, GoodArming DEF IInv
<1>4. Good(status', armed')
  BY <1>1, <1>3 DEF wanted
<1>5. loop' \in Loops
  BY <1>1, GoesType DEF Sections, Loops
<1>6. QED
  BY <1>4, <1>5, LoopStep DEF Battery

\* So does the automatic change from INIT to STANDBY.
LEMMA StandbyStep == ASSUME IInv, ProceedToStandby PROVE IInv'
<1> DEFINE wanted == ~status.calibration_enabled /\ status.arming_state = "INIT"
<1>1. PICK healthy \in Healths : ProceedToStandby!2!(healthy)
  BY DEF ProceedToStandby
<1> DEFINE r == Arming(wanted, status, "STANDBY", TRUE, healthy)
           changed == r.ret = "CHANGED"
<1>2. wanted \in BOOLEAN /\ healthy \in BOOLEAN /\ "STANDBY" \in Requested
  BY HealthType DEF Requested
<1> HIDE DEF wanted
<1>3. Good(r.status, r.armed)
  BY <1>2, GoodArming DEF IInv
<1>4. Good(status', armed')
  BY <1>1, <1>3 DEF wanted
<1>5. loop' = Goes("results", changed)
  BY <1>1 DEF wanted
<1> HIDE DEF changed
<1>6. loop' \in Loops
  BY <1>5, GoesType DEF Sections
<1>7. QED
  BY <1>4, <1>6, LoopStep DEF ProceedToStandby

(* The fence acts through main_state_transition, forwards and back. *)
LEMMA FenceStep == ASSUME IInv, MissionAndFence PROVE IInv'
<1>1. PICK seen \in Readings({"gps_failure"}), due \in BOOLEAN, moved \in BOOLEAN :
        MissionAndFence!2!(seen, due, moved)
  BY DEF MissionAndFence
<1> DEFINE s == Sense(status, {"gps_failure"}, seen)
           fenced == armed.armed /\ geofence_result.action # "NONE"
           violated == fenced /\ due /\ geofence_result.violated
           e == IF violated THEN Fenced(s) ELSE s
           f == Standing(s, e, loop.fence)
           terminates == \/ violated /\ GeofenceAction = "TERMINATE"
                         \/ armed.armed /\ mission_result.flight_termination
           changed == s # status \/ terminates
           reverts == fenced /\ Reverts(f, moved)
           g == Goes("rc", changed)
<1>2. /\ status' = IF reverts THEN main_state_transition(e, f.before) ELSE e
      /\ armed' = [armed EXCEPT !.force_failsafe = @ \/ terminates]
      /\ loop' = [g EXCEPT !.fence = IF fenced THEN f ELSE @, !.mission_result = mission_result]
  BY <1>1
<1>3. Good(s, armed)
  <2>1. {"gps_failure"} \subseteq Conditions /\ "home_position" \notin {"gps_failure"}
    BY DEF Conditions
  <2>2. QED
    BY <2>1, GoodSense DEF IInv
<1>4. violated \in BOOLEAN /\ terminates \in BOOLEAN /\ fenced \in BOOLEAN /\ reverts \in BOOLEAN
  OBVIOUS
<1> HIDE DEF s, violated, terminates, changed, fenced
<1>5. Good(e, armed)
  <2>1. {"AUTO_LOITER", "AUTO_RTL"} \subseteq MainStates
    BY DEF MainStates, AutoStates
  <2>2. Good(Fenced(s), armed)
    BY <1>3, <2>1, GoodMain DEF Fenced
  <2>3. QED
    BY <1>3, <2>2
<1>6. loop.fence \in Fences /\ e.main_state \in MainStates
  BY <1>5 DEF IInv, Rest, Loops, Good, Statuses
<1> HIDE DEF e
<1>7. f \in Fences
  <2>1. /\ f.loiter_on \in BOOLEAN /\ f.rtl_on \in BOOLEAN /\ f.before \in MainStates \cup {"MAX"}
        /\ f = [loiter_on |-> f.loiter_on, rtl_on |-> f.rtl_on, before |-> f.before]
    BY <1>6 DEF Standing, Fences
  <2>2. QED
    BY <2>1 DEF Fences
<1>8. Good(status', armed)
  <2>1. CASE reverts
    <3>1. f.before \in MainStates
      BY <2>1 DEF Reverts, MainStates, ManualStates
    <3>2. QED
      BY <1>2, <1>5, <2>1, <3>1, GoodMain
  <2>2. CASE ~reverts
    BY <1>2, <1>5, <2>2
  <2>3. QED
    BY <2>1, <2>2
<1>9. Good(status', armed')
  <2>1. (armed.force_failsafe \/ terminates) \in BOOLEAN
    OBVIOUS
  <2>2. QED
    BY <1>2, <1>8, <2>1, GoodElsewhere
<1>10. g \in Loops
  BY GoesType DEF Sections
<1> HIDE DEF g, f
<1>11. loop' \in Loops
  BY <1>2, <1>7, <1>10 DEF Loops, IInv, Rest
<1>12. QED
  BY <1>9, <1>11, LoopStep DEF MissionAndFence

\* So do the stick gestures and the mode switches.
LEMMA RcStep == ASSUME IInv, RcInput PROVE IInv'
<1>1. PICK gesture \in Gestures, healthy \in Healths : RcInput!2!(gesture, healthy)
  BY DEF RcInput
<1> DEFINE s == With(status, "rc_signal_lost", FALSE)
           r == CASE gesture = "disarm" ->
                       Arming(StickDisarms(s), s, Disarmed(s), TRUE, healthy)
                  [] gesture = "arm" -> Arming(StickArms(s), s, "ARMED", TRUE, healthy)
                  [] gesture = "none" -> Arming(FALSE, s, "ARMED", TRUE, healthy)
           changed == s # status \/ r.ret = "CHANGED" \/ status'.main_state # status.main_state
           g == Goes("links", changed)
<1>2. /\ status' = set_main_state_rc(r.status, loop.sp_man) /\ armed' = r.armed
      /\ loop' = [g EXCEPT !.last_sp_man = IF status.offboard_by_command THEN @ ELSE loop.sp_man]
  BY <1>1
<1>3. Good(s, armed)
  BY GoodWith DEF IInv, Conditions
<1>4. healthy \in BOOLEAN /\ gesture \in {"none", "arm", "disarm"}
  BY CommanderAssumption
<1> HIDE DEF s, changed
<1>5. Good(r.status, r.armed)
  <2> DEFINE disarms == StickDisarms(s)
             arms == StickArms(s)
  <2>1. disarms \in BOOLEAN /\ arms \in BOOLEAN
    BY DEF StickDisarms, StickArms
  <2>2. Disarmed(s) \in Requested /\ "ARMED" \in Requested
    BY DEF Disarmed, Requested
  <2> HIDE DEF disarms, arms
  <2>3. LET x == Arming(disarms, s, Disarmed(s), TRUE, healthy) IN Good(x.status, x.armed)
    BY <1>3, <1>4, <2>1, <2>2, GoodArming
  <2>4. LET x == Arming(arms, s, "ARMED", TRUE, healthy) IN Good(x.status, x.armed)
    BY <1>3, <1>4, <2>1, <2>2, GoodArming
  <2>5. LET x == Arming(FALSE, s, "ARMED", TRUE, healthy) IN Good(x.status, x.armed)
    BY <1>3, <1>4, <2>2, GoodArming
  <2>6. QED
    BY <1>4, <2>3, <2>4, <2>5 DEF disarms, arms
<1>6. loop.sp_man \in Switches \cup {NoSwitch}
  BY DEF IInv, Rest, Loops
<1> HIDE DEF r
<1>7. Good(status', armed')
  BY <1>2, <1>5, <1>6, GoodRc
<1>8. g \in Loops
  BY GoesType DEF Sections
<1> HIDE DEF g
<1>9. loop' \in Loops
  BY <1>2, <1>6, <1>8 DEF Loops
<1>10. QED
  BY <1>7, <1>9, LoopStep DEF RcInput

\* So does the loss of the RC signal.
LEMMA SilentStep == ASSUME IInv, RcSilent PROVE IInv'
<1>1. Good(With(status, "rc_signal_lost", TRUE), armed)
  BY GoodWith DEF IInv, Conditions
<1>2. Good(status', armed')
  BY <1>1 DEF RcSilent, IInv
<1> DEFINE changed == status' # status
<1>3. loop' = Goes("links", changed)
  BY DEF RcSilent
<1> HIDE DEF changed
<1>4. loop' \in Loops
  BY <1>3, GoesType DEF Sections
<1>5. QED
  BY <1>2, <1>4, LoopStep DEF RcSilent

\* So do the data link and engine checks.
LEMMA LinksStep == ASSUME IInv, LinksAndEngine PROVE IInv'
<1>1. PICK seen \in Readings({"data_link_lost", "engine_failure"}) : LinksAndEngine!2!(seen)
  BY DEF LinksAndEngine
<1> DEFINE failed == ~IsRotaryWing /\ armed.armed
                       /\ ("engine_failure" \in seen \/ Holds(status, "engine_failure"))
           q == Sense(status, {"data_link_lost"}, seen \ {"engine_failure"})
           s == With(q, "engine_failure", failed)
           lost == Holds(s, "data_link_lost") /\ ~Holds(status, "data_link_lost")
           changed == s # status
           g == Goes("command", changed)
<1>2. /\ status' = s
      /\ loop' = [g EXCEPT !.losses = IF lost /\ @ < MaxLosses THEN @ + 1 ELSE @]
  BY <1>1
<1>3. seen \ {"engine_failure"} \in Readings({"data_link_lost"})
  <2>1. PICK x \in SUBSET (Sensed \cap {"data_link_lost", "engine_failure"}) :
          seen = x \cup (Steady \cap {"data_link_lost", "engine_failure"})
    BY DEF Readings
  <2>2. x \ {"engine_failure"} \in SUBSET (Sensed \cap {"data_link_lost"})
    OBVIOUS
  <2>3. seen \ {"engine_failure"} = (x \ {"engine_failure"}) \cup (Steady \cap {"data_link_lost"})
    BY <2>1
  <2>4. QED
    BY <2>2, <2>3 DEF Readings
<1>4. Good(q, armed)
  <2>1. {"data_link_lost"} \subseteq Conditions /\ "home_position" \notin {"data_link_lost"}
    BY DEF Conditions
  <2>2. QED
    BY <1>3, <2>1, GoodSense DEF IInv
<1>5. Good(s, armed)
  <2>1. failed \in BOOLEAN /\ "engine_failure" \in Conditions
    BY DEF Conditions
  <2> HIDE DEF failed, q
  <2>2. QED
    BY <1>4, <2>1, GoodWith
<1>6. g \in Loops
  <2> HIDE DEF changed
  <2>1. QED
    BY GoesType DEF Sections
<1>7. lost \in BOOLEAN /\ MaxLosses \in Nat
  BY CommanderAssumption
<1> HIDE DEF s, g, lost
<1>8. loop' \in Loops
  BY <1>2, <1>6, <1>7 DEF Loops
<1>9. Good(status', armed')
  BY <1>2, <1>5 DEF LinksAndEngine
<1>10. QED
  BY <1>8, <1>9, LoopStep DEF LinksAndEngine

-----------------------------------------------------------------------------
\* The commands, the end of a cycle, and the other thread

\* A command that was taken has arguments of its kind.
LEMMA CommandTypes ==
    ASSUME IInv, cmd.name # "none"
    PROVE  cmd.on \in BOOLEAN /\ cmd.arg \in Arguments(cmd.name)
<1>1. cmd \in Commands \cup {NoCommand}
  BY DEF cmd, IInv, Rest
<1>2. cmd # NoCommand
  BY DEF NoCommand, Command
<1>3. QED
  BY <1>1, <1>2, CommanderAssumption

\* A thread that reads its command has none left
LEMMA TakenType ==
    ASSUME IInv
    PROVE  /\ [commands EXCEPT !.main = NoCommand]
                 \in [main : Commands \cup {NoCommand}, low_prio : Commands \cup {NoCommand}]
           /\ [commands EXCEPT !.low_prio = NoCommand]
                 \in [main : Commands \cup {NoCommand}, low_prio : Commands \cup {NoCommand}]
BY DEF IInv, Rest

\* Handling a command keeps the invariant if its own effects on status and actuator_armed do.
LEMMA ReadStep ==
    ASSUME IInv, NEW name, Reads(name), Good(status', armed'), published' \in Publications
    PROVE  IInv'
<1>1. loop' \in Loops
  BY GoesType DEF Reads, Sections
<1>2. QED
  BY <1>1, TakenType DEF Reads, IInv, Rest, topicVars

\* What was published was typed when it was.
LEMMA PublishedType ==
    ASSUME IInv PROVE published \in Publications /\ status \in Statuses /\ armed \in Armeds
BY DEF IInv, Rest, Good

\* DO_SET_MODE keeps the invariant.
LEMMA SetModeStep == ASSUME IInv, DoSetMode PROVE IInv'
<1>1. PICK listed \in BOOLEAN, healthy \in Healths : DoSetMode!2!(listed, healthy)
  BY DEF DoSetMode
<1> DEFINE s == hil_state_transition(status, cmd.arg.hil, listed)
           r == ArmDisarm(TRUE, s, cmd.on, healthy)
           home == cmd.on /\ r.ret = "CHANGED" /\ Holds(s, "global_position")
<1>2. PICK h \in IF home THEN {r.status, With(r.status, "home_position", TRUE)} ELSE {r.status} :
        status' = IF cmd.arg.main = "none" THEN h ELSE main_state_transition(h, cmd.arg.main)
  BY <1>1
<1>3. /\ armed' = r.armed
      /\ published' = [published EXCEPT !.nav_state = IF s = status THEN @ ELSE s.nav_state]
  BY <1>1
<1>4. cmd.on \in BOOLEAN /\ cmd.arg.hil \in BOOLEAN /\ cmd.arg.main \in MainStates \cup {"none"}
  BY CommandTypes DEF DoSetMode, Reads, cmd, Arguments
<1>5. Good(s, armed)
  BY <1>4, GoodHil DEF IInv
<1> HIDE DEF s, home
<1>6. Good(r.status, r.armed)
  BY <1>4, <1>5, HealthType, GoodArmDisarm
<1> HIDE DEF r
<1>7. Good(h, r.armed)
  BY <1>2, <1>6, GoodWith DEF Conditions
<1>8. Good(status', armed')
  BY <1>2, <1>3, <1>4, <1>7, GoodMain
<1>9. published' \in Publications
  BY <1>3, <1>5, PublishedType DEF Publications, Good, Statuses
<1>10. QED
  BY <1>8, <1>9, ReadStep DEF DoSetMode

\* COMPONENT_ARM_DISARM keeps the invariant.
LEMMA ArmDisarmStep == ASSUME IInv, ComponentArmDisarm PROVE IInv'
<1>1. PICK healthy \in Healths : ComponentArmDisarm!2!(healthy)
  BY DEF ComponentArmDisarm
<1> DEFINE onboard == cmd.arg = "onboard"
           s == IF onboard THEN [status EXCEPT !.arming_state = "IN_AIR_RESTORE"] ELSE status
           wanted == ~(~onboard /\ status.hil_on /\ ~Holds(status, "sensors_initialized"))
           r == ArmDisarm(wanted, s, cmd.on, healthy)
<1>2. status' = r.status /\ armed' = r.armed
  BY <1>1
<1>3. Good(s, armed)
  BY GoodElsewhere DEF IInv
<1>4. wanted \in BOOLEAN /\ cmd.on \in BOOLEAN
  BY CommandTypes DEF ComponentArmDisarm, Reads, cmd
<1> HIDE DEF s, wanted
<1>5. Good(r.status, r.armed)
  BY <1>3, <1>4, HealthType, GoodArmDisarm
<1>6. QED
  BY <1>2, <1>5, PublishedType, ReadStep DEF ComponentArmDisarm

\* The commands without an arming transition keep the invariant.
LEMMA OtherCommandsStep ==
    ASSUME IInv, OverrideGoto \/ FlightTermination \/ DoSetHome \/ NavTakeoff
    PROVE  IInv'
<1>1. CASE OverrideGoto
  <2>1. cmd.arg \in NavStates
    BY <1>1, CommandTypes
       DEF OverrideGoto, Reads, cmd, Arguments, NavStates, MainStates, AutoStates
  <2>2. Good(status', armed')
    BY <1>1, <2>1, GoodElsewhere DEF OverrideGoto, IInv
  <2>3. QED
    BY <1>1, <2>2, PublishedType, ReadStep DEF OverrideGoto
<1>2. CASE FlightTermination
  <2>1. cmd.arg \in Failures /\ cmd.on \in BOOLEAN
    BY <1>2, CommandTypes DEF FlightTermination, Reads, cmd, Arguments
  <2>2. Good(status', armed)
    BY <1>2, <2>1, GoodElsewhere DEF FlightTermination, IInv
  <2>3. Good(status', armed')
    BY <1>2, <2>1, <2>2, GoodElsewhere DEF FlightTermination
  <2>4. QED
    BY <1>2, <2>3, PublishedType, ReadStep DEF FlightTermination
<1>3. CASE DoSetHome
  <2>1. Good(With(status, "home_position", TRUE), armed)
    BY GoodWith DEF IInv, Conditions
  <2>2. Good(status', armed')
    BY <1>3, <2>1 DEF DoSetHome, IInv
  <2>3. QED
    BY <1>3, <2>2, PublishedType, ReadStep DEF DoSetHome
<1>4. CASE NavTakeoff
  <2>1. Good(status', armed')
    BY <1>4, GoodMain DEF NavTakeoff, IInv, MainStates, AutoStates
  <2>2. QED
    BY <1>4, <2>1, PublishedType, ReadStep DEF NavTakeoff
<1>5. QED
  BY <1>1, <1>2, <1>3, <1>4

\* NAV_GUIDED_ENABLE keeps it, the main state it returns to included.
LEMMA GuidedStep == ASSUME IInv, GuidedEnable PROVE IInv'
<1> DEFINE pre == IF status.main_state = "OFFBOARD" THEN loop.pre_offboard ELSE status.main_state
           new == IF cmd.on THEN "OFFBOARD" ELSE pre
           m == main_state_transition(status, new)
           by == cmd.on /\ MainAllowed(status, "OFFBOARD")
           g == Goes("finish", TRUE)
<1>1. loop' = [g EXCEPT !.pre_offboard = pre] /\ status' = [m EXCEPT !.offboard_by_command = by]
  BY DEF GuidedEnable
<1>2. pre \in MainStates /\ new \in MainStates
  BY DEF IInv, Rest, Loops, Good, Statuses, MainStates
<1>3. by \in BOOLEAN
  OBVIOUS
<1> HIDE DEF pre, new, by
<1>4. Good(m, armed)
  BY <1>2, GoodMain DEF IInv
<1> HIDE DEF m
<1>5. Good(status', armed')
  <2>1. Good([m EXCEPT !.offboard_by_command = by], armed)
    BY <1>3, <1>4, GoodElsewhere
  <2>2. QED
    BY <1>1, <2>1 DEF GuidedEnable
<1>6. g \in Loops
  BY GoesType DEF Sections
<1> HIDE DEF g
<1>7. loop' \in Loops
  BY <1>1, <1>2, <1>6 DEF Loops
<1>8. QED
  BY <1>5, <1>7, TakenType DEF GuidedEnable, IInv, Rest, topicVars

\* A command the commander leaves to others keeps it.
LEMMA IgnoredStep == ASSUME IInv, Ignored PROVE IInv'
<1> DEFINE changed == cmd.name # "none"
<1>1. loop' = Goes("finish", changed)
  BY DEF Ignored
<1> HIDE DEF changed
<1>2. loop' \in Loops
  BY <1>1, GoesType DEF Sections
<1>3. QED
  BY <1>2, TakenType DEF Ignored, IInv, Rest, topicVars

\* The end of the loop, which terminates flight and publishes, keeps it.
LEMMA FinishStep == ASSUME IInv, Finish PROVE IInv'
<1>1. PICK due \in BOOLEAN, accurate \in BOOLEAN : Finish!2!(due, accurate)
  BY DEF Finish
<1> DEFINE terminates == armed.armed /\ LossOfControl(status)
           a == [armed EXCEPT !.force_failsafe = @ \/ terminates]
           h == IF accurate /\ SetsHome(status, a)
                THEN With(status, "home_position", TRUE) ELSE status
           s == set_nav_state(h, DatalinkLossEnabled, loop.mission_result.finished,
                              loop.mission_result.stay_in_failsafe)
           changed == loop.status_changed \/ terminates
                        \/ s.nav_state # status.nav_state \/ s.failsafe # status.failsafe
           down == Holds(s, "landed")
<1>2. /\ status' = s /\ armed' = a
      /\ published' = IF changed \/ due THEN Publish(s, a) ELSE published
      /\ loop' = [loop EXCEPT !.at = "sense", !.status_changed = FALSE,
                              !.was_armed = a.armed, !.was_landed = down]
  BY <1>1
<1>3. terminates \in BOOLEAN /\ down \in BOOLEAN /\ changed \in BOOLEAN
  BY DEF Holds
<1>4. Good(status, a)
  <2>1. (armed.force_failsafe \/ terminates) \in BOOLEAN
    OBVIOUS
  <2>2. QED
    BY <2>1, GoodElsewhere DEF IInv
<1> HIDE DEF terminates, a
<1>5. Good(h, a)
  BY <1>4, GoodWith DEF Conditions
<1>6. loop.mission_result \in Results /\ loop \in Loops
  BY DEF IInv, Rest, Loops
<1> HIDE DEF h
<1>7. Good(s, a)
  BY <1>5, <1>6, CommanderAssumption, GoodNav DEF Results
<1> HIDE DEF s, changed, down
<1>8. published' \in Publications
  <2>1. a \in Armeds /\ a.armed \in BOOLEAN /\ s.nav_state \in NavStates
          /\ loop.losses \in 0 .. MaxLosses
    BY <1>6, <1>7 DEF Good, Armeds, Statuses, Loops
  <2>2. /\ published \in Publications
        /\ published.control_mode.termination \in BOOLEAN
    BY DEF IInv, Rest, Publications, ControlModes
  <2> DEFINE kept == published.control_mode.termination
             termination == IF s.nav_state = "OFFBOARD" THEN kept ELSE s.nav_state = "TERMINATION"
             by == CASE s.nav_state \in ManualStates -> "manual"
                     [] s.nav_state = "OFFBOARD" -> "offboard"
                     [] s.nav_state \in {"AUTO_LANDGPSFAIL", "TERMINATION"} -> "none"
                     [] OTHER -> "auto"
             landed == Holds(s, "landed")
  <2>3. termination \in BOOLEAN /\ landed \in BOOLEAN
    <3>1. CASE s.nav_state = "OFFBOARD"
      BY <2>2, <3>1 DEF Holds
    <3>2. CASE s.nav_state # "OFFBOARD"
      BY <3>2 DEF Holds
    <3>3. QED
      BY <3>1, <3>2
  <2>4. by \in {"manual", "auto", "offboard", "none"}
    OBVIOUS
  <2>5. /\ set_control_mode(s, a) = [armed |-> a.armed, by |-> by, termination |-> termination]
        /\ Publish(s, a) = [nav_state |-> s.nav_state, landed |-> landed, losses |-> loop.losses,
                            armed |-> a, control_mode |-> set_control_mode(s, a)]
    BY DEF set_control_mode, Publish
  <2> HIDE DEF kept, termination, by, landed
  <2>6. set_control_mode(s, a) \in ControlModes
    BY <2>1, <2>3, <2>4, <2>5 DEF ControlModes
  <2>7. Publish(s, a) \in Publications
    BY <2>1, <2>3, <2>5, <2>6 DEF Publications
  <2>8. QED
    BY <1>2, <2>2, <2>7
<1>9. loop' \in Loops
  BY <1>2, <1>3, <1>6, <1>7 DEF Loops, Sections, Good, Armeds
<1>10. QED
  BY <1>2, <1>7, <1>8, <1>9 DEF Finish, IInv, Rest, envVars

\* A step of the calibration thread keeps it if status and actuator_armed stay a good pair.
LEMMA LpStep ==
    ASSUME IInv, Good(status', armed'), lp' \in [at : LpSteps, kind : Calibrations],
           commands' \in {commands, [commands EXCEPT !.low_prio = NoCommand]},
           UNCHANGED <<loop, issued, topicVars, published>>
    PROVE  IInv'
BY TakenType DEF IInv, Rest, topicVars

(* The low priority thread moves the records as the main loop does. *)
LEMMA LowPrioStep == ASSUME IInv, LowPrio PROVE IInv'
<1>1. Good(status, armed) /\ lp \in [at : LpSteps, kind : Calibrations]
  BY DEF IInv, Rest
<1>2. [at |-> "wait", kind |-> "none"] \in [at : LpSteps, kind : Calibrations]
  BY Boots
<1>3. \A x \in LpSteps : [lp EXCEPT !.at = x] \in [at : LpSteps, kind : Calibrations]
  BY <1>1
<1>4. {"INIT", "STANDBY"} \subseteq Requested
  BY DEF Requested
<1>5. CASE LpIgnores \/ Reboot
  BY <1>1, <1>3, <1>5, LpStep DEF LpIgnores, Reboot, LpReads, LpSteps
<1>6. CASE Calibrate
  <2>1. PICK healthy \in Healths : Calibrate!2!(healthy)
    BY <1>6 DEF Calibrate
  <2> DEFINE r == Arming(TRUE, status, "INIT", FALSE, healthy)
  <2>2. Good(r.status, r.armed)
    BY <1>1, <1>4, HealthType, GoodArming
  <2>3. Good(status', armed')
    BY <2>1, <2>2
  <2>4. commands.low_prio.arg \in Calibrations
    <3>1. commands.low_prio \in Commands \cup {NoCommand}
      BY DEF IInv, Rest
    <3>2. commands.low_prio.name = "CALIBRATION"
      BY <1>6 DEF Calibrate, LpReads
    <3>3. commands.low_prio # NoCommand
      BY <3>2 DEF NoCommand, Command
    <3>4. QED
      BY <3>1, <3>2, <3>3, CommanderAssumption DEF Arguments
  <2>5. lp' \in [at : LpSteps, kind : Calibrations]
    BY <1>1, <2>1, <2>4 DEF LpSteps
  <2>6. QED
    BY <1>6, <2>3, <2>5, LpStep DEF Calibrate, LpReads
<1>7. CASE CalibrationStarts
  <2> DEFINE b == status.rc_input_blocked \/ lp.kind = "rc_start"
             e == lp.kind = "esc"
  <2>1. Good(status', armed)
    <3>1. b \in BOOLEAN
      OBVIOUS
    <3>2. QED
      BY <1>1, <1>7, <3>1, GoodElsewhere DEF CalibrationStarts
  <2>2. Good(status', armed')
    <3>1. e \in BOOLEAN
      OBVIOUS
    <3>2. QED
      BY <1>7, <2>1, <3>1, GoodElsewhere DEF CalibrationStarts
  <2>3. QED
    BY <1>3, <1>7, <2>2, LpStep DEF CalibrationStarts, LpSteps, envVars, topicVars
<1>8. CASE CalibrationEnds
  <2> DEFINE b == status.rc_input_blocked /\ lp.kind # "rc_end"
  <2>1. Good(status', armed)
    <3>1. b \in BOOLEAN
      OBVIOUS
    <3>2. QED
      BY <1>1, <1>8, <3>1, GoodElsewhere DEF CalibrationEnds
  <2>2. Good(status', armed')
    BY <1>8, <2>1, GoodElsewhere DEF CalibrationEnds
  <2>3. lp' \in [at : LpSteps, kind : Calibrations]
    BY <1>2, <1>3, <1>8 DEF CalibrationEnds, LpSteps
  <2>4. QED
    BY <1>8, <2>2, <2>3, LpStep DEF CalibrationEnds, envVars, topicVars
<1>9. CASE PreflightAfterCalibration
  <2>1. Good(status', armed')
    BY <1>1, <1>9, HealthType, GoodWith DEF PreflightAfterCalibration, Conditions
  <2>2. QED
    BY <1>3, <1>9, <2>1, LpStep DEF PreflightAfterCalibration, LpSteps, envVars, topicVars
<1>10. CASE StandbyAfterCalibration
  <2>1. PICK healthy \in Healths : StandbyAfterCalibration!2!(healthy)
    BY <1>10 DEF StandbyAfterCalibration
  <2> DEFINE r == Arming(TRUE, status, "STANDBY", FALSE, healthy)
  <2>2. Good(r.status, r.armed)
    BY <1>1, <1>4, HealthType, GoodArming
  <2>3. Good(status', armed')
    BY <2>1, <2>2
  <2>4. QED
    BY <1>2, <1>10, <2>3, LpStep DEF StandbyAfterCalibration, envVars, topicVars
<1>11. QED
  BY <1>5, <1>6, <1>7, <1>8, <1>9, <1>10 DEF LowPrio, Calibration

\* A command sent, and a result of the navigator, keep it.
LEMMA EnvironmentStep == ASSUME IInv, SendCommand \/ NavigatorPublishes PROVE IInv'
<1>1. CASE SendCommand
  <2>1. commands' \in [main : Commands \cup {NoCommand}, low_prio : Commands \cup {NoCommand}]
    BY <1>1 DEF SendCommand
  <2>2. issued' \in 0 .. MaxCommands
    BY <1>1, CommanderAssumption DEF SendCommand, IInv, Rest
  <2>3. QED
    BY <1>1, <2>1, <2>2 DEF SendCommand, IInv, Rest, topicVars
<1>2. CASE NavigatorPublishes
  <2>1. mission_result' \in Results
    BY <1>2, CommanderAssumption DEF NavigatorPublishes, IInv, Rest
  <2>2. geofence_result' \in [action : FenceActions, violated : BOOLEAN]
    BY <1>2, CommanderAssumption DEF NavigatorPublishes, IInv, Rest
  <2>3. QED
    BY <1>2, <2>1, <2>2 DEF NavigatorPublishes, IInv, Rest
<1>3. QED
  BY <1>1, <1>2

\* Every step keeps the inductive invariant.
LEMMA IInvStep == IInv /\ [Next]_vars => IInv'
<1> SUFFICES ASSUME IInv, [Next]_vars PROVE IInv'
    OBVIOUS
<1>1. CASE MainLoop
  BY <1>1, SenseStep, LandStep, BatteryStep, StandbyStep, FenceStep, RcStep, SilentStep,
     LinksStep, SetModeStep, ArmDisarmStep, OtherCommandsStep, GuidedStep, IgnoredStep,
     FinishStep DEF MainLoop, HandleCommand
<1>2. CASE LowPrio
  BY <1>2, LowPrioStep
<1>3. CASE Resets
  BY <1>3, ResetStep DEF Resets, UsbDisconnected, Reset
<1>4. CASE SendCommand \/ NavigatorPublishes
  BY <1>4, EnvironmentStep
<1>5. CASE UNCHANGED vars
  BY <1>5 DEF vars, envVars, IInv, Rest
<1>6. QED
  BY <1>1, <1>2, <1>3, <1>4, <1>5 DEF Next

-----------------------------------------------------------------------------
(* The inductive invariant holds in every reachable state. *)
LEMMA IInvHolds == Spec => []IInv
BY IInvInit, IInvStep, PTL DEF Spec

(* Every variable keeps its type, whatever is sensed, switched or commanded. *)
THEOREM CommanderTypes == Spec => []TypeOK
<1>1. IInv => TypeOK
  BY DEF IInv, Rest, Good, TypeOK
<1>2. QED
  BY <1>1, IInvHolds, PTL

(* Both threads leave the arming state and the actuators in agreement. *)
THEOREM ArmingStateAgrees == Spec => []ArmedAgrees
<1>1. IInv => ArmedAgrees
  BY DEF IInv, Good, Agrees, ArmedAgrees
<1>2. QED
  BY <1>1, IInvHolds, PTL

(* An armed vehicle is locked down if and only if it is in HIL. *)
THEOREM HilIsLockedDown == Spec => []HilLocked
<1>1. IInv => HilLocked
  BY DEF IInv, Good, Locked, HilLocked
<1>2. QED
  BY <1>1, IInvHolds, PTL

(* No main state that needs a home position is entered without one. *)
THEOREM AutoStatesHaveHome == Spec => []AutoHasHome
<1>1. IInv => AutoHasHome
  BY DEF IInv, Good, HasHome, AutoHasHome
<1>2. QED
  BY <1>1, IInvHolds, PTL

-----------------------------------------------------------------------------
\* The cycle that finds control lost tells the actuators

\* The end of a loop that finds control lost while armed publishes the termination.
LEMMA FinishTerminates ==
    ASSUME IInv, Finish, armed'.armed, LossOfControl(status')
    PROVE  armed'.force_failsafe /\ published'.armed.force_failsafe
<1>1. PICK due \in BOOLEAN, accurate \in BOOLEAN : Finish!2!(due, accurate)
  BY DEF Finish
<1> DEFINE terminates == armed.armed /\ LossOfControl(status)
           a == [armed EXCEPT !.force_failsafe = @ \/ terminates]
           h == IF accurate /\ SetsHome(status, a)
                THEN With(status, "home_position", TRUE) ELSE status
           s == set_nav_state(h, DatalinkLossEnabled, loop.mission_result.finished,
                              loop.mission_result.stay_in_failsafe)
           changed == loop.status_changed \/ terminates
                        \/ s.nav_state # status.nav_state \/ s.failsafe # status.failsafe
<1>2. /\ status' = s /\ armed' = a
      /\ published' = IF changed \/ due THEN Publish(s, a) ELSE published
  BY <1>1
<1>3. armed \in Armeds /\ status \in Statuses
  BY DEF IInv, Good
<1>4. a.armed = armed.armed /\ (terminates => a.force_failsafe)
  BY <1>3 DEF Armeds
<1>5. /\ h \in Statuses /\ h.main_state = status.main_state
      /\ \A c \in Conditions \ {"home_position"} : Holds(h, c) <=> Holds(status, c)
  BY <1>3 DEF With, Statuses, Holds, Conditions
<1> HIDE DEF h
<1>6. s.main_state = h.main_state /\ s.conditions = h.conditions
  <2>1. /\ loop.mission_result.finished \in BOOLEAN /\ DatalinkLossEnabled \in BOOLEAN
        /\ loop.mission_result.stay_in_failsafe \in BOOLEAN
    BY CommanderAssumption DEF IInv, Rest, Loops, Results
  <2>2. QED
    BY <1>5, <2>1, NavType
<1> HIDE DEF s
<1>7. LossOfControl(s) => LossOfControl(status)
  BY <1>5, <1>6 DEF LossOfControl, Holds, Conditions
<1>8. terminates
  BY <1>2, <1>4, <1>7
<1> HIDE DEF a
<1>9. published' = Publish(s, a)
  BY <1>2, <1>8
<1>10. QED
  BY <1>2, <1>4, <1>8, <1>9 DEF Publish

(* Losing both the link and the position of an armed vehicle terminates the
   flight, and the actuators hear of it in the same cycle. *)
THEOREM TerminationIsPublished == Spec => TerminationPublished
<1> DEFINE Ends == loop.at = "finish" /\ loop'.at = "sense" /\ armed'.armed
                     /\ LossOfControl(status')
           Told == armed'.force_failsafe /\ published'.armed.force_failsafe
<1>1. ASSUME IInv, Next, Ends PROVE Told
  <2>1. CASE Finish
    BY <1>1, <2>1, FinishTerminates
  <2>2. CASE MainLoop /\ ~Finish
    BY <1>1, <2>2 DEF MainLoop, SenseInputs, LandDetector, Battery, ProceedToStandby,
       MissionAndFence, RcInput, RcSilent, LinksAndEngine, HandleCommand, DoSetMode,
       ComponentArmDisarm, OverrideGoto, FlightTermination, DoSetHome, GuidedEnable,
       NavTakeoff, Ignored, Reads
  <2>3. CASE LowPrio \/ SendCommand \/ NavigatorPublishes
    <3>1. loop' = loop
      BY <2>3 DEF LowPrio, LpIgnores, Reboot, Calibrate, Calibration, CalibrationStarts,
         CalibrationEnds, PreflightAfterCalibration, StandbyAfterCalibration, LpReads,
         SendCommand, NavigatorPublishes
    <3>2. QED
      BY <1>1, <3>1
  <2>4. CASE Resets
    <3>1. armed' = BootArmed
      BY <2>4 DEF Resets, UsbDisconnected, Reset, SystemReset
    <3>2. QED
      BY <1>1, <3>1 DEF BootArmed
  <2>5. QED
    BY <1>1, <2>1, <2>2, <2>3, <2>4 DEF Next
<1>2. IInv /\ [Next]_vars => [Ends => Told]_vars
  BY <1>1
<1>3. QED
  BY <1>2, IInvHolds, PTL DEF Spec, TerminationPublished
=============================================================================
