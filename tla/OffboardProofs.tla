--------------------------- MODULE OffboardProofs ---------------------------
(***************************************************************************)
(* What the navigator makes of an offboard mission, for any missions,      *)
(* publications, failing calls and losses of power: the index of the item  *)
(* flown, the count of DO_JUMPs, and that no item is skipped.              *)
(***************************************************************************)
EXTENDS OffboardMission, TLAPS

USE DEF jumpVars

Current == m.index \in 0 .. m.count - 1

\* The set point is about to be made from another item
Moving ==
    /\ at.cur
    /\ at.pc \in {"read", "count", "jump"} \/ (at.pc \in {"save", "write"} /\ at.next = "read")

\* Unless it is, the mode being active, the mission flown is at the item the set
\* point was made from
Flown ==
    /\ m.type = "OFFBOARD" <=> m.flown # NoSeq
    /\ m.type = "OFFBOARD" /\ ~m.first_run => Moving \/ (m.flown = m.index /\ Current)

\* A DO_JUMP that is being made is an item of the mission
Jumping ==
    at.pc \in {"count", "jump"} =>
        Current /\ at.cur /\ at.item.kind = "jump" /\ at.tries > 0

\* What is to be published, or was, is a mission
Known ==
    /\ manager.phase # "idle" => manager.new # Unreadable
    /\ updated \/ at.pc = "update" => topic # Unreadable

\* Where a save and a search for an item go on
Goals(pc) == at.pc \in {"save", "write"} /\ at.next = pc
Searches == at.pc \in {"read", "count", "jump"} \/ Goals("read")
Returning ==
    /\ at.pc \in {"save", "write"} => at.next # "none" /\ m.index \in Seqs
    /\ at.pc = "update" => at.next \in {"read", "publish"}
    /\ Searches => at.after # "none"

\* on_active is what asks whether the item is reached, and what looks for one then
OnActive ==
    \/ at.pc = "reach" \/ Goals("reach") \/ (Searches /\ at.after = "reach")
    \/ at.pc = "update" /\ at.next = "read"
Active == OnActive => ~m.first_run
OnTheWay == at.pc = "update" /\ at.next = "publish" => m.first_run

Placed == Flown /\ Jumping /\ Known /\ Returning /\ Active /\ OnTheWay

(* The numbers a mission is made of. *)
LEMMA Numbers ==
    /\ MaxItems \in Nat /\ MaxItems >= 1 /\ MaxTries \in Nat /\ MaxTries >= 1
    /\ NoSeq = -1 /\ NoSeq \in Int /\ Seqs = 0 .. MaxItems - 1 /\ Indices = -1 .. MaxItems
    /\ Ids = {0, 1}
BY OffboardAssumption DEF NoSeq, Seqs, Indices, Ids

(* A record that can be read is a mission. *)
LEMMA Readable ==
    /\ \A r \in Records : r # Unreadable => r \in Missions
    /\ \A r \in Missions : r \in Records /\ r # Unreadable
    /\ Unreadable \in Records
    /\ \A i \in Ids, n \in 0 .. MaxItems, s \in Seqs \cup {NoSeq} : Mission(i, n, s) \in Missions
<1>1. \A i \in Ids, n \in 0 .. MaxItems, s \in Seqs \cup {NoSeq} : Mission(i, n, s) \in Missions
  BY DEF Missions, Mission
<1>2. \A r \in Missions : r # Unreadable
  BY DEF Missions, Unreadable, Mission, Ids
<1>3. QED
  BY <1>1, <1>2 DEF Records

(* The items of an upload, or of a mission found on the card, are items. *)
LEMMA Uploaded ==
    ASSUME NEW p \in Plans \cup Cards, NEW old \in [Seqs -> Items]
    PROVE  /\ Len(p) \in 0 .. MaxItems
           /\ [i \in Seqs |-> IF i < Len(p) THEN p[i + 1] ELSE old[i]] \in [Seqs -> Items]
           /\ \A i \in Seqs : i < Len(p) => p[i + 1] \in Items /\ p[i + 1].done = 0
<1>1. p \in Seq(Items) /\ Len(p) \in 0 .. MaxItems /\ \A i \in 1 .. Len(p) : p[i].done = 0
  BY OffboardAssumption
<1>2. \A i \in Seqs : i < Len(p) => i + 1 \in 1 .. Len(p)
  BY <1>1 DEF Seqs
<1>3. \A i \in 1 .. Len(p) : p[i] \in Items
  BY <1>1
<1>4. QED
  BY <1>1, <1>2, <1>3

(* The card at first: empty, or with a mission that was not flown yet. *)
LEMMA InitCard ==
    ASSUME Init
    PROVE  /\ saved \in Records /\ store \in [Ids -> [Seqs -> Items]]
           /\ \A i \in Ids, s \in Seqs : store[i][s].done = 0
           /\ manager = Booted /\ Booted.mission \in Missions
           /\ saved # Unreadable => saved = Booted.mission
<1>1. Stop("waypoint") \in Items /\ Stop("waypoint").done = 0
  BY DEF Items, Stops, Stop
<1>2. [s \in Seqs |-> Stop("waypoint")] \in [Seqs -> Items]
  BY <1>1
<1>3. PICK p \in Cards :
        /\ saved = IF p = <<>> THEN Unreadable ELSE Mission(0, Len(p), 0)
        /\ store = [i \in Ids |-> [s \in Seqs |->
                       IF i = 0 /\ s < Len(p) THEN p[s + 1] ELSE Stop("waypoint")]]
  BY DEF Init
<1>4. Len(p) \in 0 .. MaxItems /\ \A s \in Seqs : s < Len(p) => p[s + 1] \in Items /\ p[s + 1].done = 0
  BY <1>2, Uploaded
<1>5. saved \in Records /\ Mission(0, 0, 0) \in Missions
  BY <1>3, <1>4, Numbers, Readable
<1>6. store \in [Ids -> [Seqs -> Items]] /\ \A i \in Ids, s \in Seqs : store[i][s].done = 0
  BY <1>1, <1>3, <1>4
<1>7. manager = Booted
  BY DEF Init
<1>8. QED
  BY <1>5, <1>6, <1>7, Readable DEF Booted

(* The initial state. *)
LEMMA InitPlaced == Init => TypeOK /\ Placed
<1> SUFFICES ASSUME Init PROVE TypeOK /\ Placed
    OBVIOUS
<1> USE Numbers DEF Init
<1>1. Stop("waypoint") \in Items
  BY DEF Items, Stops
<1>2. Unreadable \in Records /\ Mission(0, 0, 0) \in Missions
  BY Readable
<1>3. NewMission \in Members /\ NoResult \in Results /\ Idle \in Places
  BY <1>1, <1>2 DEF NewMission, Members, NoResult, Results, Idle, Places
<1>4. TypeOK
  BY <1>1, <1>2, <1>3, InitCard DEF TypeOK, CardTypes, ManagerTypes, NavigatorTypes, CountTypes, Booted
<1>5. Placed
  BY InitCard DEF Booted, Placed, Flown, Jumping, Known, Returning, Active, OnActive, OnTheWay, NewMission, Idle, Searches, Goals
<1>6. QED
  BY <1>4, <1>5
-----------------------------------------------------------------------------
(* Types, and where the navigator is *)

\* A step that leaves the navigator where it is
NavigatorStays == UNCHANGED <<m, at>>

(* For Placed, such a step can only disturb what is published. *)
LEMMA StaysPlaced ==
    ASSUME Placed, NavigatorStays, Known'
    PROVE  Placed'
BY DEF Placed, NavigatorStays, Flown, Jumping, Returning, Active, OnActive, OnTheWay, Moving, Current,
       Searches, Goals

(* The mission manager installs missions and publishes them. *)
LEMMA StationPlaced ==
    ASSUME TypeOK, Placed, Station \/ Manager
    PROVE  TypeOK' /\ Placed'
<1> USE Numbers
<1>1. manager.mission \in Missions /\ Other \in Ids
  BY DEF TypeOK, ManagerTypes, Missions, Other
<1>2. ASSUME NEW new \in Missions, Install(new), store' \in [Ids -> [Seqs -> Items]],
             taken' \in [Ids -> [Seqs -> Nat]], crossed' \subseteq Ids \X Seqs, free' \in BOOLEAN
      PROVE  TypeOK' /\ Placed'
  <2>1. TypeOK'
    <3> USE <1>2 DEF Install, TypeOK, navigatorVars, topicVars, worldVars, resultVars
    <3>1. CardTypes'
      BY DEF CardTypes
    <3>2. ManagerTypes'
      BY Readable DEF ManagerTypes
    <3>3. NavigatorTypes'
      BY DEF NavigatorTypes
    <3>4. CountTypes'
      BY DEF CountTypes
    <3>5. QED
      BY <3>1, <3>2, <3>3, <3>4
  <2>2. NavigatorStays
    BY <1>2 DEF Install, NavigatorStays, navigatorVars
  <2>3. Known'
    BY <1>2, Readable DEF Install, Known, Placed, TypeOK, ManagerTypes, navigatorVars, topicVars
  <2>4. QED
    BY <2>1, <2>2, <2>3, StaysPlaced
<1>3. ASSUME NEW p \in Plans, NEW s \in Starts, upload(p, s) PROVE TypeOK' /\ Placed'
  <2>1. Len(p) \in 0 .. MaxItems /\ s \in Seqs \cup {NoSeq}
    BY Uploaded, OffboardAssumption DEF TypeOK, CardTypes
  <2>2. Mission(Other, Len(p), s) \in Missions
    BY <1>1, <2>1, Readable
  <2>3. store' \in [Ids -> [Seqs -> Items]]
    BY <1>1, <1>3, Uploaded DEF upload, TypeOK, CardTypes
  <2>4. taken' \in [Ids -> [Seqs -> Nat]]
    BY <1>1, <1>3 DEF upload, TypeOK, CountTypes
  <2>5. crossed' \subseteq Ids \X Seqs
    BY <1>1, <1>3 DEF upload, TypeOK, CountTypes
  <2>6. free' \in BOOLEAN
    BY <1>1, <1>3 DEF upload, TypeOK, CountTypes
  <2>7. QED
    BY <1>2, <1>3, <2>2, <2>3, <2>4, <2>5, <2>6 DEF upload
<1>4. ASSUME NEW s \in Starts, handle_mission_set_current(s) PROVE TypeOK' /\ Placed'
  <2>1. [manager.mission EXCEPT !.current_seq = s] \in Missions
    BY <1>1, OffboardAssumption DEF Missions
  <2>2. QED
    BY <1>2, <1>4, <2>1 DEF handle_mission_set_current, TypeOK, CardTypes, CountTypes
<1>5. CASE handle_mission_clear_all
  <2>1. Mission(Other, 0, 0) \in Missions
    BY <1>1, Readable
  <2>2. QED
    BY <1>2, <1>5, <2>1 DEF handle_mission_clear_all, TypeOK, CardTypes, CountTypes
<1>6. CASE save_mission
  <2>1. TypeOK'
    <3> USE <1>6 DEF save_mission, TypeOK, navigatorVars, topicVars, worldVars, resultVars
    <3>1. CardTypes'
      BY DEF CardTypes, ManagerTypes
    <3>2. ManagerTypes'
      BY Readable DEF ManagerTypes
    <3>3. NavigatorTypes'
      BY DEF NavigatorTypes
    <3>4. CountTypes'
      BY DEF CountTypes, IoError, bounds
    <3>5. QED
      BY <3>1, <3>2, <3>3, <3>4
  <2>2. NavigatorStays
    BY <1>6 DEF save_mission, NavigatorStays, navigatorVars
  <2>3. Known'
    BY <1>6 DEF save_mission, Known, Placed, TypeOK, ManagerTypes, navigatorVars, topicVars
  <2>4. QED
    BY <2>1, <2>2, <2>3, StaysPlaced
<1>7. CASE publish_mission
  <2>1. manager.new \in Missions
    BY <1>7, Readable DEF publish_mission, Placed, Known, TypeOK, ManagerTypes
  <2>2. TypeOK'
    BY <1>7, <2>1, Readable DEF publish_mission, TypeOK, CardTypes, ManagerTypes, NavigatorTypes,
       CountTypes, navigatorVars, cardVars, worldVars, resultVars, bounds
  <2>3. NavigatorStays
    BY <1>7 DEF publish_mission, NavigatorStays, navigatorVars
  <2>4. Known'
    BY <1>7, <2>1, <2>3, Readable DEF publish_mission, Known, TypeOK, ManagerTypes
  <2>5. QED
    BY <2>2, <2>3, <2>4, StaysPlaced
<1>8. QED
  BY <1>3, <1>4, <1>5, <1>6, <1>7 DEF Station, Manager

(* Modes and landings. *)
LEMMA WorldPlaced ==
    ASSUME TypeOK, Placed, set_nav_state \/ land_or_take_off
    PROVE  TypeOK' /\ Placed'
<1> USE DEF set_nav_state, land_or_take_off
<1>1. TypeOK'
  BY DEF TypeOK, CardTypes, ManagerTypes, NavigatorTypes, CountTypes, cardVars, topicVars,
     resultVars, bounds
<1>2. NavigatorStays /\ Known'
  BY DEF NavigatorStays, Known, Placed, topicVars
<1>3. QED
  BY <1>1, <1>2, StaysPlaced

(* After a loss of power everything but the card is as it was at first. *)
LEMMA PowerPlaced ==
    ASSUME TypeOK, Placed, power_loss
    PROVE  TypeOK' /\ Placed'
<1> USE Numbers
<1>1. Stop("waypoint") \in Items
  BY DEF Items, Stops
<1>2. Unreadable \in Records /\ Mission(0, 0, 0) \in Missions
  BY Readable
<1>3. NewMission \in Members /\ NoResult \in Results /\ Idle \in Places
  BY <1>1, <1>2 DEF NewMission, Members, NoResult, Results, Idle, Places
<1>4. manager' \in [mission : Missions, new : Records, phase : {"idle", "save", "publish"}]
  BY <1>2, Readable DEF power_loss, Booted, TypeOK, CardTypes
<1>5. TypeOK'
  <2> USE <1>2, <1>3, <1>4 DEF power_loss, TypeOK
  <2>1. CardTypes'
    BY DEF CardTypes, cardVars
  <2>2. ManagerTypes'
    BY DEF ManagerTypes
  <2>3. NavigatorTypes'
    BY DEF NavigatorTypes
  <2>4. CountTypes'
    BY DEF CountTypes
  <2>5. QED
    BY <2>1, <2>2, <2>3, <2>4
<1>6. m' = NewMission /\ at' = Idle /\ updated' = FALSE /\ manager'.phase = "idle"
  BY DEF power_loss, Booted
<1>7. Placed'
  BY <1>6 DEF Placed, Flown, Jumping, Known, Returning, Active, OnActive, OnTheWay, NewMission, Idle,
     Searches, Goals
<1>8. QED
  BY <1>5, <1>7

(* Where the navigator goes next is a place of its task. *)
LEMMA GoalTypes ==
    ASSUME TypeOK
    PROVE  /\ Done \in Places /\ SetItems("publish") \in Places /\ SetItems("reach") \in Places
           /\ \A a \in Places : a.pc \in {"read", "reach", "publish"} => SaveThen(a) \in Places
           /\ \A mm \in Members : mm.index \in Seqs => ReadNext(mm) \in Places
           /\ \A mm \in Members : CurrentItem(mm) \in Results
<1>1. at \in Places /\ result \in Results /\ MaxTries \in 0 .. MaxTries
  BY Numbers DEF TypeOK, NavigatorTypes
<1>2. Done \in Places
  BY <1>1 DEF Places, Done
<1>3. ASSUME NEW a \in Places, NEW t \in 0 .. MaxTries, NEW f \in {"publish", "reach"}
      PROVE  [a EXCEPT !.pc = "read", !.cur = TRUE, !.tries = t, !.after = f] \in Places
  BY DEF Places
<1>4. SetItems("publish") \in Places /\ SetItems("reach") \in Places
  BY <1>1, <1>3 DEF SetItems
<1>5. \A a \in Places : a.pc \in {"read", "reach", "publish"} => SaveThen(a) \in Places
  BY DEF Places, SaveThen
<1>6. ASSUME NEW mm \in Members, mm.index \in Seqs PROVE ReadNext(mm) \in Places
  <2> DEFINE i == IF mm.index < mm.count - 1 THEN mm.index + 1 ELSE mm.index
  <2>1. i \in Indices
    BY <1>6, Numbers DEF Members
  <2> HIDE DEF i
  <2>2. ASSUME NEW a \in Places, NEW t \in 0 .. MaxTries
        PROVE  [a EXCEPT !.pc = "read", !.cur = FALSE, !.tries = t, !.ptr = i] \in Places
    BY <2>1 DEF Places
  <2>3. ReadNext(mm) = [at EXCEPT !.pc = "read", !.cur = FALSE, !.tries = MaxTries, !.ptr = i]
    BY DEF ReadNext, i
  <2>4. QED
    BY <1>1, <2>2, <2>3
<1>7. \A mm \in Members : mm.index \in Indices
  BY DEF Members
<1>8. ASSUME NEW i \in Indices, NEW r \in Results
      PROVE  [r EXCEPT !.reached = FALSE, !.finished = FALSE, !.seq_current = i] \in Results
  BY DEF Results
<1>9. \A mm \in Members : CurrentItem(mm) \in Results
  BY <1>1, <1>7, <1>8 DEF CurrentItem
<1>10. QED
  BY <1>2, <1>4, <1>5, <1>6, <1>9

\* What the navigator's steps have in common: its own variables keep their types
Typed ==
    /\ m' \in Members /\ at' \in Places /\ result' \in Results /\ published' \in Results
    /\ mission_result_updated' \in BOOLEAN /\ landed' \in BOOLEAN
    /\ UNCHANGED <<topic, manager, mission_mode>>

(* The types of the rest. *)
LEMMA NavigatorTyped ==
    ASSUME TypeOK, Typed, CardTypes', CountTypes', updated' \in BOOLEAN
    PROVE  TypeOK'
BY DEF TypeOK, Typed, ManagerTypes, NavigatorTypes

(* Events are counted. *)
LEMMA Counted ==
    ASSUME TypeOK, UNCHANGED <<taken, crossed, free>>, UNCHANGED bounds \/ IoError
    PROVE  CountTypes'
BY DEF TypeOK, CountTypes, bounds, IoError

(* NavigatorMode::run: the mode is not active. *)
LEMMA InactivePlaced ==
    ASSUME TypeOK, Placed, run, on_inactive
    PROVE  TypeOK' /\ Placed'
<1>1. /\ at.pc = "idle" /\ at \in Places /\ m \in Members
      /\ UNCHANGED <<manager, saved, store, topic, updated, mission_mode, landed, published, taken, crossed,
                     free, result>>
  BY DEF run, on_inactive, Step, TypeOK, NavigatorTypes, cardVars, topicVars, worldVars
<1>2. at' = IF m.inited /\ updated THEN [at EXCEPT !.pc = "update", !.next = "publish"] ELSE Done
  BY DEF on_inactive
<1>3. PICK need \in BOOLEAN :
          IF m.inited THEN HomeKnown(Inactive(need)) /\ UNCHANGED bounds
          ELSE load_mission(Inactive(need))
  BY DEF on_inactive, TypeOK, NavigatorTypes, Members
<1> DEFINE mm == Inactive(need)
<1>4. mm \in Members /\ mm.first_run /\ mm.type = m.type /\ mm.flown = m.flown
  BY <1>1 DEF Inactive, Members
<1>5. \A n \in Members : HomeKnown(n) =>
          /\ m' \in Members /\ m'.type = n.type /\ m'.flown = n.flown /\ m'.first_run = n.first_run
          /\ mission_result_updated' \in BOOLEAN
  BY <1>1 DEF HomeKnown, Members, TypeOK, NavigatorTypes
<1>6. load_mission(mm) => \E n \in Members :
          HomeKnown(n) /\ n.type = mm.type /\ n.flown = mm.flown /\ n.first_run = mm.first_run
  <2> HIDE DEF mm
  <2>1. CASE saved # Unreadable /\ HomeKnown([mm EXCEPT !.inited = TRUE, !.id = saved.dataman_id,
                               !.count = saved.count, !.index = saved.current_seq])
    <3>1. saved \in Missions
      BY <2>1, Readable DEF TypeOK, CardTypes
    <3>2. saved.dataman_id \in Ids /\ saved.count \in 0 .. MaxItems /\ saved.current_seq \in Indices
      BY <3>1, Numbers DEF Missions
    <3> DEFINE n == [mm EXCEPT !.inited = TRUE, !.id = saved.dataman_id, !.count = saved.count,
                               !.index = saved.current_seq]
    <3>3. n \in Members /\ n.type = mm.type /\ n.flown = mm.flown /\ n.first_run = mm.first_run
      BY <1>4, <3>2 DEF Members
    <3> HIDE DEF n
    <3>4. HomeKnown(n)
      BY <2>1 DEF n
    <3>5. QED
      BY <3>3, <3>4
  <2>2. CASE HomeKnown([mm EXCEPT !.inited = TRUE])
    <3>1. LET n == [mm EXCEPT !.inited = TRUE] IN
          n \in Members /\ n.type = mm.type /\ n.flown = mm.flown /\ n.first_run = mm.first_run
      BY <1>4 DEF Members
    <3>2. QED
      BY <2>2, <3>1
  <2>3. QED
    BY <2>1, <2>2 DEF load_mission
<1> HIDE DEF mm
<1>7. m' \in Members /\ m'.type = m.type /\ m'.flown = m.flown /\ m'.first_run
      /\ mission_result_updated' \in BOOLEAN /\ (UNCHANGED bounds \/ IoError)
  BY <1>3, <1>4, <1>5, <1>6 DEF mm, load_mission
<1>8. at' \in Places /\ at'.pc \in {"update", "publish"} /\ (at'.pc = "update" => updated /\ at'.next = "publish")
  BY <1>1, <1>2 DEF Places, Done
<1>9. TypeOK'
  BY <1>1, <1>7, <1>8, NavigatorTyped, Counted DEF Typed, TypeOK, CardTypes, ManagerTypes, NavigatorTypes
<1>10. Placed'
  BY <1>1, <1>7, <1>8 DEF Placed, Flown, Jumping, Known, Returning, Active, OnActive, OnTheWay, Searches, Goals
<1>11. QED
  BY <1>9, <1>10

(* It becomes active, or is. *)
LEMMA ActivePlaced ==
    ASSUME TypeOK, Placed, run, on_activation \/ on_active
    PROVE  TypeOK' /\ Placed'
<1>1. /\ at.pc = "idle" /\ at \in Places /\ m \in Members
      /\ UNCHANGED <<manager, saved, store, topic, updated, mission_mode, landed, published, taken, crossed,
                     free, result, bounds>>
  BY DEF run, on_activation, on_active, Step, TypeOK, NavigatorTypes, cardVars, topicVars, worldVars
<1>2. CASE on_activation
  <2>1. m' = [m EXCEPT !.first_run = FALSE] /\ at' = SetItems("publish") /\ mission_result_updated'
    BY <1>2 DEF on_activation
  <2>2. TypeOK'
    BY <1>1, <2>1, GoalTypes, NavigatorTyped, Counted
    DEF Typed, TypeOK, CardTypes, ManagerTypes, NavigatorTypes, Members
  <2>3. /\ at'.pc = "read" /\ at'.cur /\ at'.after = "publish"
        /\ m'.type = m.type /\ m'.flown = m.flown
    BY <1>1, <2>1 DEF SetItems, Places, Members
  <2>4. Placed'
    BY <1>1, <2>3 DEF Placed, Flown, Jumping, Known, Returning, Active, OnActive, OnTheWay, Searches, Goals, Moving
  <2>5. QED
    BY <2>2, <2>4
<1>3. CASE on_active
  <2>1. /\ m' \in Members /\ ~m.first_run /\ mission_result_updated' \in BOOLEAN
        /\ m'.type = m.type /\ m'.flown = m.flown /\ m'.first_run = m.first_run
        /\ m'.index = m.index /\ m'.count = m.count
    BY <1>1, <1>3 DEF on_active, HomeKnown, Members, TypeOK, NavigatorTypes
  <2>2. /\ at' \in Places /\ at'.pc \in {"update", "reach"}
        /\ at'.pc = "update" => updated /\ at'.next = "read"
    BY <1>1, <1>3 DEF on_active, Places
  <2>3. TypeOK'
    BY <1>1, <2>1, <2>2, NavigatorTyped, Counted
    DEF Typed, TypeOK, CardTypes, ManagerTypes, NavigatorTypes
  <2>4. Placed'
    BY <1>1, <2>1, <2>2 DEF Placed, Flown, Current, Jumping, Known, Returning, Active, OnActive, OnTheWay,
       Searches, Goals, Moving
  <2>5. QED
    BY <2>3, <2>4
<1>4. QED
  BY <1>2, <1>3

(* update_offboard_mission leaves an index that is in the mission, or 0. *)
LEMMA UpdatePlaced ==
    ASSUME TypeOK, Placed, update_offboard_mission
    PROVE  TypeOK' /\ Placed'
<1>1. at.pc = "update" /\ at \in Places /\ m \in Members /\ topic \in Missions /\ result \in Results
      /\ UNCHANGED <<manager, saved, store, topic, mission_mode, landed, taken, crossed, bounds>>
  BY Readable DEF update_offboard_mission, Local, Step, TypeOK, NavigatorTypes, ManagerTypes, Placed,
     Known, cardVars, worldVars
<1>2. PICK feasible \in BOOLEAN :
          LET index == IF topic.current_seq \in 0 .. topic.count - 1 THEN topic.current_seq
                       ELSE IF m.index \in 0 .. topic.count - 1 THEN m.index ELSE 0
              mm == [m EXCEPT !.id = topic.dataman_id,
                              !.count = IF feasible THEN topic.count ELSE 0,
                              !.index = IF feasible THEN index ELSE 0] IN
          m' = mm /\ Publish(CurrentItem(mm))
  BY DEF update_offboard_mission
<1> DEFINE index == IF topic.current_seq \in 0 .. topic.count - 1 THEN topic.current_seq
                    ELSE IF m.index \in 0 .. topic.count - 1 THEN m.index ELSE 0
<1>3. index \in Seqs
  BY <1>1, Numbers DEF Missions, Members
<1>4. /\ m' \in Members /\ m'.index \in Seqs /\ m'.first_run = m.first_run
      /\ m'.type = m.type /\ m'.flown = m.flown
  <2> DEFINE id == topic.dataman_id
             c == IF feasible THEN topic.count ELSE 0
             i == IF feasible THEN index ELSE 0
  <2>1. m' = [m EXCEPT !.id = id, !.count = c, !.index = i]
    BY <1>2
  <2>2. id \in Ids /\ c \in 0 .. MaxItems /\ i \in Seqs /\ i \in Indices
    <3> HIDE DEF index
    <3>1. QED
      BY <1>1, <1>3, Numbers DEF Missions
  <2> HIDE DEF id, c, i
  <2>3. QED
    BY <1>1, <2>1, <2>2 DEF Members
<1>5. Publish(CurrentItem(m'))
  BY <1>2
<1>6. result' \in Results /\ published' \in Results /\ mission_result_updated'
  BY <1>4, <1>5, GoalTypes DEF Publish, TypeOK, NavigatorTypes
<1>7. at' = SaveThen(IF at.next = "read" THEN SetItems("reach") ELSE Done) /\ at.next \in {"read", "publish"}
      /\ updated' = FALSE /\ free' = TRUE
  BY <1>1 DEF update_offboard_mission, Placed, Returning
<1>8. at' \in Places
  <2>1. SetItems("reach").pc = "read" /\ Done.pc = "publish"
    BY <1>1 DEF SetItems, Done, Places
  <2>2. QED
    BY <1>7, <2>1, GoalTypes
<1>9. /\ at'.pc = "save"
      /\ IF at.next = "read" THEN at'.cur /\ at'.next = "read" /\ at'.after = "reach" /\ ~m.first_run
         ELSE at'.next = "publish" /\ m.first_run
  <2>1. CASE at.next = "read"
    <3> DEFINE a == SetItems("reach")
    <3>1. a.pc = "read" /\ a.cur /\ a.after = "reach" /\ a \in Places
      BY <1>1, GoalTypes DEF SetItems, Places
    <3> HIDE DEF a
    <3>2. at' = SaveThen(a)
      BY <1>7, <2>1 DEF a
    <3>3. ~m.first_run
      BY <1>1, <2>1 DEF Placed, Active, OnActive
    <3>4. QED
      BY <2>1, <3>1, <3>2, <3>3 DEF SaveThen, Places
  <2>2. CASE at.next = "publish"
    BY <1>1, <1>7, <2>2 DEF Done, SaveThen, Places, Placed, OnTheWay
  <2>3. QED
    BY <1>7, <2>1, <2>2
<1>10. TypeOK'
  BY <1>1, <1>4, <1>6, <1>7, <1>8, NavigatorTyped DEF Typed, TypeOK, CardTypes, CountTypes, NavigatorTypes,
     bounds
<1>11. Placed'
  BY <1>1, <1>4, <1>7, <1>9 DEF Placed, Flown, Jumping, Known, Returning, Active, OnActive, OnTheWay,
     Searches, Goals, Moving
<1>12. QED
  BY <1>10, <1>11

\* What a step of the task leaves alone unless it says otherwise
Elsewhere == UNCHANGED <<topic, updated, manager, mission_mode>>

(* save_offboard_mission_state goes on where it was to go on. *)
LEMMA SavePlaced ==
    ASSUME TypeOK, Placed, read_mission_state \/ write_mission_state
    PROVE  TypeOK' /\ Placed'
<1>1. /\ at.pc \in {"save", "write"} /\ at \in Places /\ m \in Members
      /\ at.next \in {"read", "reach", "publish"} /\ m.index \in Seqs
      /\ UNCHANGED <<store, topic, updated, manager, mission_mode, landed, m, result, published,
                     mission_result_updated, taken, crossed, free>>
  BY DEF read_mission_state, write_mission_state, Step, Placed, Returning, TypeOK, NavigatorTypes,
     Places, cardVars, topicVars, worldVars, resultVars
<1>2. saved' \in Records /\ (UNCHANGED bounds \/ IoError)
  BY <1>1 DEF read_mission_state, write_mission_state, TypeOK, CardTypes, Places, cardVars
<1>3. \/ \E r \in Records : at' = [at EXCEPT !.pc = "write", !.rec = r]
      \/ \E r \in Records : at' = [at EXCEPT !.pc = at.next, !.rec = r]
  <2>1. CASE read_mission_state
    <3>1. Mission(m.id, m.count, m.index) \in Records /\ saved \in Records
      BY <1>1, Readable DEF Members, TypeOK, CardTypes
    <3>2. at.rec \in Records /\ [at EXCEPT !.pc = at.next] = [at EXCEPT !.pc = at.next, !.rec = at.rec]
      BY <1>1 DEF Places
    <3>3. QED
      BY <2>1, <3>1, <3>2 DEF read_mission_state
  <2>2. CASE write_mission_state
    BY <2>2, Readable DEF write_mission_state
  <2>3. QED
    BY <2>1, <2>2
<1>4. /\ at' \in Places /\ at'.cur = at.cur /\ at'.next = at.next /\ at'.after = at.after
      /\ at'.pc \in {"write", at.next}
  BY <1>1, <1>3 DEF Places
<1>5. TypeOK'
  BY <1>1, <1>2, <1>4, NavigatorTyped, Counted DEF Typed, TypeOK, CardTypes, ManagerTypes, NavigatorTypes
<1>6. Placed'
  BY <1>1, <1>4 DEF Placed, Flown, Current, Jumping, Known, Returning, Active, OnActive, OnTheWay,
     Searches, Goals, Moving
<1>7. QED
  BY <1>5, <1>6

(* Where nothing is flown the navigator goes on with what it looked for. *)
LEMMA NothingFlown ==
    ASSUME TypeOK, Placed, NoItem, UNCHANGED <<topic, updated, manager, mission_mode, landed>>,
           at.pc \in {"read", "count"}, CardTypes', CountTypes'
    PROVE  TypeOK' /\ Placed'
<1>1. /\ at \in Places /\ m \in Members /\ result \in Results /\ published \in Results
      /\ at.after \in {"reach", "publish"}
  BY DEF TypeOK, NavigatorTypes, Places, Placed, Returning, Searches
<1>2. /\ m' \in Members /\ m'.type = "NONE" /\ m'.flown = NoSeq /\ m'.first_run = m.first_run
  BY <1>1 DEF NoItem, Members
<1>3. at' \in Places /\ at'.pc = at.after
  BY <1>1 DEF NoItem, Places
<1>4. result' \in Results /\ published' \in Results /\ mission_result_updated'
  BY <1>1 DEF NoItem, Publish, Results
<1>5. TypeOK'
  BY <1>2, <1>3, <1>4, NavigatorTyped DEF Typed, TypeOK, ManagerTypes, NavigatorTypes
<1>6. Placed'
  BY <1>1, <1>2, <1>3 DEF Placed, Flown, Jumping, Known, Returning, Active, OnActive, OnTheWay,
     Searches, Goals
<1>7. QED
  BY <1>5, <1>6

(* No item can be read. *)
LEMMA FailPlaced ==
    ASSUME TypeOK, Placed, read_fails
    PROVE  TypeOK' /\ Placed'
<1>1. /\ at.pc = "read" /\ at \in Places /\ at.after \in {"reach", "publish"}
      /\ UNCHANGED <<saved, store, topic, updated, manager, mission_mode, landed, taken, crossed>>
      /\ UNCHANGED bounds \/ IoError
  BY DEF read_fails, Step, cardVars, topicVars, worldVars, TypeOK, NavigatorTypes, Places, Placed,
     Returning, Searches
<1>2. CASE at.cur
  <2>1. NoItem /\ UNCHANGED free
    BY <1>2 DEF read_fails, NoItem
  <2>2. CardTypes' /\ CountTypes'
    BY <1>1, <2>1, Counted DEF TypeOK, CardTypes
  <2>3. QED
    BY <1>1, <2>1, <2>2, NothingFlown
<1>3. CASE ~at.cur
  <2>1. at' = [at EXCEPT !.pc = at.after] /\ UNCHANGED <<m, resultVars, free>>
    BY <1>3 DEF read_fails
  <2>2. at' \in Places /\ at'.pc = at.after
    BY <1>1, <2>1 DEF Places
  <2>3. TypeOK'
    BY <1>1, <2>1, <2>2, NavigatorTyped, Counted
    DEF Typed, TypeOK, CardTypes, ManagerTypes, NavigatorTypes, resultVars
  <2>4. Placed'
    BY <1>1, <1>3, <2>1, <2>2 DEF Placed, Flown, Current, Jumping, Known, Returning, Active, OnActive,
       OnTheWay, Searches, Goals, Moving
  <2>5. QED
    BY <2>3, <2>4
<1>4. QED
  BY <1>1, <1>2, <1>3 DEF Places

(* The search goes on at another item. *)
LEMMA MovePlaced ==
    ASSUME TypeOK, Placed, NEW s \in Indices, MoveTo(s),
           at.pc = "read" \/ (at.pc = "jump" /\ at.cur), at.pc = "read" => at.tries > 0,
           Elsewhere, landed' = landed, result' \in Results, published' \in Results,
           mission_result_updated' \in BOOLEAN, CardTypes', CountTypes'
    PROVE  TypeOK' /\ Placed'
<1>1. /\ at \in Places /\ m \in Members /\ at.after \in {"reach", "publish"}
      /\ at.tries - 1 \in 0 .. MaxTries
  BY Numbers DEF TypeOK, NavigatorTypes, Places, Placed, Returning, Searches, Jumping
<1> DEFINE t == at.tries - 1
<1>2. CASE at.cur
  <2>1. m' = [m EXCEPT !.index = s] /\ at' = [at EXCEPT !.pc = "read", !.tries = t]
    BY <1>1, <1>2 DEF MoveTo, Places
  <2> HIDE DEF t
  <2>2. /\ m' \in Members /\ m'.type = m.type /\ m'.flown = m.flown /\ m'.first_run = m.first_run
    BY <1>1, <2>1 DEF Members
  <2>3. at' \in Places /\ at'.pc = "read" /\ at'.cur /\ at'.after = at.after
    BY <1>1, <1>2, <2>1 DEF Places, t
  <2>4. TypeOK'
    BY <2>2, <2>3, NavigatorTyped DEF Elsewhere, Typed, TypeOK, ManagerTypes, NavigatorTypes
  <2>5. Placed'
    BY <1>1, <2>2, <2>3 DEF Elsewhere, Placed, Flown, Jumping, Known, Returning, Active, OnActive,
       OnTheWay, Searches, Goals, Moving
  <2>6. QED
    BY <2>4, <2>5
<1>3. CASE ~at.cur
  <2>1. m' = m /\ at' = [at EXCEPT !.ptr = s, !.tries = t] /\ at.pc = "read"
    BY <1>3 DEF MoveTo
  <2> HIDE DEF t
  <2>2. at' \in Places /\ at'.pc = "read" /\ at'.cur = at.cur /\ at'.after = at.after
    BY <1>1, <2>1 DEF Places, t
  <2>3. TypeOK'
    BY <1>1, <2>1, <2>2, NavigatorTyped DEF Elsewhere, Typed, TypeOK, ManagerTypes, NavigatorTypes
  <2>4. Placed'
    BY <1>1, <1>3, <2>1, <2>2 DEF Elsewhere, Placed, Flown, Current, Jumping, Known, Returning, Active,
       OnActive, OnTheWay, Searches, Goals, Moving
  <2>5. QED
    BY <2>3, <2>4
<1>4. QED
  BY <1>2, <1>3

(* The item that is read is one of the mission. *)
LEMMA IndexedItem ==
    ASSUME TypeOK, InMission
    PROVE  /\ Index \in Seqs /\ Index + 1 \in Indices /\ m.id \in Ids
           /\ store[m.id][Index] \in Items
           /\ store[m.id][Index].kind \in {"jump"} \cup Stops
<1>1. m \in Members /\ at \in Places /\ store \in [Ids -> [Seqs -> Items]]
  BY DEF TypeOK, NavigatorTypes, CardTypes
<1>2. m.id \in Ids /\ m.count \in 0 .. MaxItems /\ m.index \in Indices /\ at.ptr \in Indices
  BY <1>1 DEF Members, Places
<1>3. Index \in Seqs /\ Index + 1 \in Indices
  BY <1>2, Numbers DEF InMission, Index
<1>4. store[m.id][Index] \in Items
  BY <1>1, <1>2, <1>3
<1>5. \A i \in Items : i.kind \in {"jump"} \cup Stops
  BY DEF Items, Stop
<1>6. QED
  BY <1>2, <1>3, <1>4, <1>5

(* A DO_JUMP that is read. *)
LEMMA JumpItems ==
    /\ \A i \in Items : i.kind = "jump" =>
          i.to \in Indices /\ i.repeat \in Nat /\ i.done \in Nat
    /\ \A i \in Items : i.kind = "jump" =>
          LET j == [i EXCEPT !.done = @ + 1] IN
          j \in Items /\ j.kind = "jump" /\ j.done = i.done + 1 /\ j.repeat = i.repeat
<1>1. ASSUME NEW i \in Items, i.kind = "jump"
      PROVE  i \in [kind : {"jump"}, to : Indices, repeat : Nat, done : Nat]
  BY <1>1 DEF Items, Stop, Stops
<1>2. QED
  BY <1>1 DEF Items

(* read_mission_item looks at a DO_JUMP. *)
LEMMA JumpPlaced ==
    ASSUME TypeOK, Placed, read_jump \/ pass_jump
    PROVE  TypeOK' /\ Placed'
<1> DEFINE item == store[m.id][Index]
<1>1. /\ at.pc = "read" /\ InMission /\ at.tries > 0 /\ item.kind = "jump"
      /\ UNCHANGED <<saved, store, taken, crossed, free, landed, result, published, mission_result_updated, bounds>>
      /\ Elsewhere
  BY DEF read_jump, pass_jump, ItemRead, Local, Step, Elsewhere, cardVars, topicVars, worldVars, resultVars
<1>2. Index \in Seqs /\ Index + 1 \in Indices /\ item \in Items
  BY <1>1, IndexedItem
<1>3. item.to \in Indices
  BY <1>1, <1>2, JumpItems
<1>4. CardTypes' /\ CountTypes' /\ at \in Places /\ m \in Members /\ result' \in Results
      /\ published' \in Results /\ mission_result_updated' \in BOOLEAN
  BY <1>1, Counted DEF TypeOK, CardTypes, NavigatorTypes
<1>5. CASE MoveTo(Index + 1) \/ MoveTo(item.to)
  <2> HIDE DEF item
  <2>1. QED
    BY <1>1, <1>2, <1>3, <1>4, <1>5, MovePlaced
<1>6. CASE at.cur /\ at' = [at EXCEPT !.pc = "count", !.item = [item EXCEPT !.done = @ + 1]] /\ UNCHANGED m
  <2> DEFINE counted == [item EXCEPT !.done = @ + 1]
  <2>1. counted \in Items /\ counted.kind = "jump"
    BY <1>1, <1>2, JumpItems
  <2> HIDE DEF counted
  <2>2. at' = [at EXCEPT !.pc = "count", !.item = counted]
    BY <1>6 DEF counted
  <2>3. /\ at' \in Places /\ at'.pc = "count" /\ at'.cur /\ at'.item.kind = "jump"
        /\ at'.after = at.after /\ at'.tries = at.tries
    BY <1>4, <1>6, <2>1, <2>2 DEF Places
  <2>4. TypeOK'
    BY <1>1, <1>4, <1>6, <2>3, NavigatorTyped DEF Elsewhere, Typed, TypeOK, ManagerTypes, NavigatorTypes
  <2>5. Current
    BY <1>1, <1>6 DEF InMission, Index, Current
  <2>6. Placed'
    BY <1>1, <1>4, <1>6, <2>3, <2>5 DEF Elsewhere, Placed, Flown, Current, Jumping, Known, Returning,
       Active, OnActive, OnTheWay, Searches, Goals, Moving
  <2>7. QED
    BY <2>4, <2>6
<1>7. MoveTo(Index + 1) \/ MoveTo(item.to)
      \/ (at.cur /\ at' = [at EXCEPT !.pc = "count", !.item = [item EXCEPT !.done = @ + 1]] /\ UNCHANGED m)
  BY DEF read_jump, pass_jump
<1>8. QED
  BY <1>5, <1>6, <1>7

(* It is counted on the card, and followed. *)
LEMMA CountPlaced ==
    ASSUME TypeOK, Placed, count_jump \/ follow_jump
    PROVE  TypeOK' /\ Placed'
<1>1. /\ at \in Places /\ m \in Members /\ store \in [Ids -> [Seqs -> Items]]
      /\ taken \in [Ids -> [Seqs -> Nat]] /\ at.pc \in {"count", "jump"}
      /\ Current /\ at.cur /\ at.item.kind = "jump"
  BY DEF count_jump, follow_jump, Local, Step, TypeOK, NavigatorTypes, CardTypes, CountTypes, Placed, Jumping
<1>2. m.id \in Ids /\ m.index \in Seqs /\ at.item \in Items
  BY <1>1, Numbers DEF Members, Places, Current
<1>3. Elsewhere /\ landed' = landed
  BY DEF count_jump, follow_jump, Local, Step, Elsewhere, topicVars, worldVars
<1>4. CASE count_jump /\ IoError /\ NoItem /\ UNCHANGED store
  <2>1. CardTypes' /\ CountTypes'
    BY <1>4 DEF count_jump, NoItem, TypeOK, CardTypes, CountTypes, IoError
  <2>2. QED
    BY <1>3, <1>4, <2>1, NothingFlown DEF Elsewhere, count_jump, Step
<1>5. CASE count_jump /\ store' = [store EXCEPT ![m.id][m.index] = at.item]
           /\ at' = [at EXCEPT !.pc = "jump"] /\ UNCHANGED <<m, resultVars, free, bounds>>
  <2>1. CardTypes' /\ CountTypes'
    BY <1>1, <1>2, <1>5 DEF count_jump, TypeOK, CardTypes, CountTypes, bounds
  <2>2. /\ at' \in Places /\ at'.pc = "jump" /\ at'.cur /\ at'.item = at.item
        /\ at'.after = at.after /\ at'.tries = at.tries
    BY <1>1, <1>5 DEF Places
  <2>3. TypeOK'
    BY <1>1, <1>3, <1>5, <2>1, <2>2, NavigatorTyped
    DEF Elsewhere, Typed, TypeOK, ManagerTypes, NavigatorTypes, resultVars
  <2>4. Placed'
    BY <1>1, <1>3, <1>5, <2>2 DEF Elsewhere, Placed, Flown, Current, Jumping, Known, Returning,
       Active, OnActive, OnTheWay, Searches, Goals, Moving
  <2>5. QED
    BY <2>3, <2>4
<1>6. CASE follow_jump
  <2>1. at.pc = "jump" /\ MoveTo(at.item.to) /\ at.item.to \in Indices
    BY <1>1, <1>2, <1>6, JumpItems DEF follow_jump, Local, Step
  <2>2. CardTypes' /\ CountTypes'
    BY <1>1, <1>2, <1>6 DEF follow_jump, Local, TypeOK, CardTypes, CountTypes, cardVars, bounds
  <2>3. result' \in Results /\ published' \in Results /\ mission_result_updated'
    BY <1>6 DEF follow_jump, Publish, TypeOK, NavigatorTypes
  <2>4. QED
    BY <1>1, <1>3, <2>1, <2>2, <2>3, MovePlaced
<1>7. QED
  BY <1>4, <1>5, <1>6 DEF count_jump

(* The set point is made from an item of the mission. *)
LEMMA StopRead ==
    ASSUME TypeOK, Placed, read_stop
    PROVE  /\ at.pc = "read" /\ at.cur /\ Current /\ m.index \in Seqs /\ at.after \in {"reach", "publish"}
           /\ UNCHANGED <<saved, store, taken, crossed, landed, bounds>> /\ Elsewhere /\ free' = FALSE
           /\ m' \in Members /\ m'.type = "OFFBOARD" /\ m'.flown = m.index /\ m'.first_run = m.first_run
           /\ m'.index = m.index /\ m'.count = m.count /\ m'.id = m.id /\ m'.inited = m.inited
           /\ m'.stop = store[m.id][m.index].kind /\ m'.stop \in Stops
           /\ result' \in Results /\ published' \in Results /\ mission_result_updated' \in BOOLEAN
           /\ at' \in Places /\ at'.after = at.after
           /\ \/ at'.pc = at.after
              \/ at'.pc = "save" /\ at'.next = at.after
              \/ at'.pc = "save" /\ at'.next = "read" /\ ~at'.cur
<1>1. /\ at.pc = "read" /\ at.cur /\ InMission /\ store[m.id][Index].kind \in Stops
      /\ UNCHANGED <<saved, store, taken, crossed, landed, bounds>> /\ Elsewhere /\ free' = FALSE
  BY DEF read_stop, ItemRead, Local, Step, Elsewhere, cardVars, topicVars, worldVars
<1>2. /\ at \in Places /\ m \in Members /\ result \in Results /\ published \in Results
      /\ mission_result_updated \in BOOLEAN /\ at.after \in {"reach", "publish"}
  BY <1>1 DEF TypeOK, NavigatorTypes, Places, Placed, Returning, Searches
<1>3. Index = m.index /\ Current /\ m.index \in Seqs
  BY <1>1, IndexedItem DEF Index, InMission, Current
<1>4. PICK takeoff \in BOOLEAN, need \in BOOLEAN :
        LET kind == store[m.id][m.index].kind
            mm == [m EXCEPT !.type = "OFFBOARD", !.stop = kind, !.flown = m.index,
                            !.takeoff = takeoff, !.need = need] IN
        /\ m' = mm
        /\ IF takeoff
           THEN at' = [at EXCEPT !.pc = at.after] /\ UNCHANGED resultVars
           ELSE /\ Publish(CurrentItem(mm))
                /\ at' = SaveThen(IF kind = "hold" THEN [at EXCEPT !.pc = at.after]
                                  ELSE ReadNext(mm))
  <2>1. PICK low \in {TRUE, landed} :
         LET kind == store[m.id][m.index].kind
             lands == kind = "land"
             need == m.need \/ (RotaryWing /\ ~m.takeoff /\ landed)
             used == need /\ RotaryWing /\ ~lands
             takeoff == Takeoff(used, low)
             mm == [m EXCEPT !.type = "OFFBOARD", !.stop = kind, !.flown = m.index,
                             !.takeoff = takeoff,
                             !.need = (need /\ ~used) \/ (lands /\ ~takeoff)] IN
         /\ m' = mm
         /\ IF takeoff
            THEN at' = [at EXCEPT !.pc = at.after] /\ UNCHANGED resultVars
            ELSE /\ Publish(CurrentItem(mm))
                 /\ at' = SaveThen(IF kind = "hold" THEN [at EXCEPT !.pc = at.after]
                                   ELSE ReadNext(mm))
    BY DEF read_stop
  <2> DEFINE kind == store[m.id][m.index].kind
             lands == kind = "land"
             need == m.need \/ (RotaryWing /\ ~m.takeoff /\ landed)
             used == need /\ RotaryWing /\ ~lands
             takeoff == Takeoff(used, low)
             left == (need /\ ~used) \/ (lands /\ ~takeoff)
  <2>2. takeoff \in BOOLEAN /\ left \in BOOLEAN
    BY DEF Takeoff
  <2> HIDE DEF takeoff, left, kind
  <2>3. QED
    BY <2>1, <2>2 DEF takeoff, left, kind
<1> DEFINE kind == store[m.id][m.index].kind
<1>5. kind \in Stops
  BY <1>1, <1>3
<1> HIDE DEF kind
<1>6. m' = [m EXCEPT !.type = "OFFBOARD", !.stop = kind, !.flown = m.index, !.takeoff = takeoff,
                     !.need = need]
  BY <1>4 DEF kind
<1>7. /\ m' \in Members /\ m'.type = "OFFBOARD" /\ m'.flown = m.index /\ m'.first_run = m.first_run
      /\ m'.index = m.index /\ m'.count = m.count /\ m'.id = m.id /\ m'.stop = kind
      /\ m'.inited = m.inited
  BY <1>2, <1>3, <1>5, <1>6 DEF Members
<1>8. \/ takeoff /\ at' = [at EXCEPT !.pc = at.after] /\ UNCHANGED resultVars
      \/ ~takeoff /\ Publish(CurrentItem(m')) /\ at' = SaveThen([at EXCEPT !.pc = at.after])
      \/ ~takeoff /\ Publish(CurrentItem(m')) /\ at' = SaveThen(ReadNext(m'))
  BY <1>4
<1>9. result' \in Results /\ published' \in Results /\ mission_result_updated' \in BOOLEAN
  BY <1>2, <1>7, <1>8, GoalTypes DEF Publish, resultVars
<1>10. /\ at' \in Places /\ at'.after = at.after
       /\ \/ at'.pc = at.after
          \/ at'.pc = "save" /\ at'.next = at.after
          \/ at'.pc = "save" /\ at'.next = "read" /\ ~at'.cur
  <2>1. CASE at' = [at EXCEPT !.pc = at.after]
    BY <1>2, <2>1 DEF Places
  <2>2. CASE at' = SaveThen([at EXCEPT !.pc = at.after])
    BY <1>2, <2>2 DEF Places, SaveThen
  <2>3. CASE at' = SaveThen(ReadNext(m'))
    <3>1. ReadNext(m') \in Places
      BY <1>3, <1>7, GoalTypes
    <3>2. ReadNext(m').pc = "read" /\ ~ReadNext(m').cur /\ ReadNext(m').after = at.after
      BY <1>2 DEF ReadNext, Places
    <3>3. SaveThen(ReadNext(m')) \in Places
      BY <3>1, <3>2, GoalTypes
    <3> DEFINE a == ReadNext(m')
    <3> HIDE DEF a
    <3>4. a.pc = "read" /\ ~a.cur /\ a.after = at.after /\ a \in Places /\ at' = SaveThen(a)
      BY <2>3, <3>1, <3>2 DEF a
    <3>5. QED
      BY <2>3, <3>3, <3>4 DEF SaveThen, Places
  <2>4. QED
    BY <1>8, <2>1, <2>2, <2>3
<1>11. QED
  BY <1>1, <1>2, <1>3, <1>5, <1>7, <1>9, <1>10 DEF kind

(* It is one the index may stand at. *)
LEMMA StopPlaced ==
    ASSUME TypeOK, Placed, read_stop
    PROVE  TypeOK' /\ Placed'
<1>1. TypeOK'
  BY StopRead, NavigatorTyped
  DEF Elsewhere, Typed, TypeOK, CardTypes, ManagerTypes, NavigatorTypes, CountTypes, bounds
<1>2. m.index # NoSeq /\ at.after \in {"reach", "publish"}
  BY StopRead, Numbers
<1>3. /\ at.pc = "read" /\ at.cur /\ Current /\ m.index \in Seqs
      /\ Elsewhere /\ m'.type = "OFFBOARD" /\ m'.flown = m.index /\ m'.first_run = m.first_run
      /\ m'.index = m.index /\ m'.count = m.count /\ at'.after = at.after
      /\ \/ at'.pc = at.after
         \/ at'.pc = "save" /\ at'.next = at.after
         \/ at'.pc = "save" /\ at'.next = "read" /\ ~at'.cur
  BY StopRead
<1>4. Placed'
  BY <1>2, <1>3 DEF Elsewhere, Placed, Flown, Current, Jumping, Known, Returning,
     Active, OnActive, OnTheWay, Searches, Goals, Moving
<1>5. QED
  BY <1>1, <1>4

(* The item after it is read, for the next set point. *)
LEMMA NextPlaced ==
    ASSUME TypeOK, Placed, next_item_read
    PROVE  TypeOK' /\ Placed'
<1>1. /\ at.pc = "read" /\ ~at.cur /\ at \in Places /\ at.after \in {"reach", "publish"}
      /\ UNCHANGED <<saved, store, taken, crossed, free, landed, m, resultVars, bounds>> /\ Elsewhere
  BY DEF next_item_read, ItemRead, Local, Step, Elsewhere, cardVars, topicVars, worldVars, TypeOK,
     NavigatorTypes, Places, Placed, Returning, Searches
<1>2. at' \in Places /\ at'.pc = at.after
  BY <1>1 DEF next_item_read, Places
<1>3. TypeOK'
  BY <1>1, <1>2, NavigatorTyped, Counted
  DEF Elsewhere, Typed, TypeOK, CardTypes, ManagerTypes, NavigatorTypes, resultVars
<1>4. Placed'
  BY <1>1, <1>2 DEF Elsewhere, Placed, Flown, Current, Jumping, Known, Returning, Active, OnActive,
     OnTheWay, Searches, Goals, Moving
<1>5. QED
  BY <1>3, <1>4

(* The item is reached: the index is still in the mission, so that the next one *)
(* is at most one past its end.                                                 *)
LEMMA ReachPlaced ==
    ASSUME TypeOK, Placed, mission_item_reached \/ not_reached
    PROVE  TypeOK' /\ Placed'
<1>1. /\ at.pc = "reach" /\ at \in Places /\ m \in Members /\ ~m.first_run
      /\ UNCHANGED <<saved, store, taken, crossed, bounds>> /\ Elsewhere
  BY DEF mission_item_reached, not_reached, Local, Step, Elsewhere, cardVars, topicVars, worldVars, TypeOK,
     NavigatorTypes, Placed, Active, OnActive
<1>2. CardTypes' /\ Done \in Places /\ SetItems("publish") \in Places /\ Done.pc = "publish"
      /\ SetItems("publish").pc = "read" /\ SetItems("publish").cur /\ SetItems("publish").after = "publish"
  BY <1>1, GoalTypes DEF Done, SetItems, Places, TypeOK, CardTypes
<1>3. CASE not_reached
  <2>1. at' = Done /\ UNCHANGED <<m, resultVars, landed, free>>
    BY <1>3 DEF not_reached, worldVars
  <2>2. TypeOK'
    BY <1>1, <1>2, <2>1, NavigatorTyped, Counted
    DEF Elsewhere, Typed, TypeOK, ManagerTypes, NavigatorTypes, resultVars
  <2>3. Placed'
    BY <1>1, <1>2, <2>1 DEF Elsewhere, Placed, Flown, Current, Jumping, Known, Returning, Active,
       OnActive, OnTheWay, Searches, Goals, Moving
  <2>4. QED
    BY <2>2, <2>3
<1>4. CASE mission_item_reached
  <2>1. m.type = "OFFBOARD" /\ Current /\ m.flown = m.index
    BY <1>1, <1>4 DEF mission_item_reached, Placed, Flown, Moving
  <2>2. m.index + 1 \in Indices
    BY <1>1, <2>1, Numbers DEF Current, Members
  <2>3. /\ m' \in Members /\ m'.type = m.type /\ m'.flown = m.flown
        /\ at' \in Places
        /\ IF at'.pc = "read" THEN at'.cur /\ at'.after = "publish"
           ELSE at'.pc = "publish" /\ m' = m
    <3> DEFINE i == m.index + 1
    <3>1. \/ at' = Done /\ m' = m
          \/ at' = SetItems("publish") /\ m' \in {[m EXCEPT !.takeoff = FALSE], [m EXCEPT !.index = i]}
      BY <1>4 DEF mission_item_reached, advance_mission
    <3> HIDE DEF i
    <3>2. i \in Indices
      BY <2>2 DEF i
    <3>3. m' \in Members /\ m'.type = m.type /\ m'.flown = m.flown
      BY <1>1, <3>1, <3>2 DEF Members
    <3>4. QED
      BY <1>2, <3>1, <3>3
  <2>4. result' \in Results /\ published' \in Results /\ mission_result_updated'
    <3>1. m.index \in Indices /\ result \in Results /\ published \in Results
      BY <1>1 DEF Members, TypeOK, NavigatorTypes
    <3>2. Publish([result EXCEPT !.reached = TRUE, !.seq_reached = m.index])
      BY <1>4 DEF mission_item_reached
    <3>3. [result EXCEPT !.reached = TRUE, !.seq_reached = m.index] \in Results
      BY <3>1 DEF Results
    <3>4. QED
      BY <3>1, <3>2, <3>3 DEF Publish
  <2>5. landed' \in BOOLEAN /\ free' \in BOOLEAN
    BY <1>4 DEF mission_item_reached, TypeOK, CountTypes
  <2>6. CountTypes'
    BY <1>1, <2>5 DEF TypeOK, CountTypes, bounds
  <2>7. TypeOK'
    BY <1>1, <1>2, <2>3, <2>4, <2>5, <2>6, NavigatorTyped
    DEF Elsewhere, Typed, TypeOK, ManagerTypes, NavigatorTypes
  <2>8. Placed'
    BY <1>1, <2>1, <2>3 DEF Elsewhere, Placed, Flown, Current, Jumping, Known, Returning, Active,
       OnActive, OnTheWay, Searches, Goals, Moving
  <2>9. QED
    BY <2>7, <2>8
<1>5. QED
  BY <1>3, <1>4

(* The end of the loop. *)
LEMMA PublishPlaced ==
    ASSUME TypeOK, Placed, publish_mission_result
    PROVE  TypeOK' /\ Placed'
<1>1. /\ at.pc = "publish" /\ at' = Idle /\ UNCHANGED <<m, saved, store, taken, crossed, free, landed, bounds>>
      /\ Elsewhere
  BY DEF publish_mission_result, Local, Step, Elsewhere, cardVars, topicVars, worldVars
<1>2. at' \in Places
  <2>1. Stop("waypoint") \in Items
    BY DEF Items, Stops
  <2>2. 0 \in Indices /\ 0 \in 0 .. MaxTries
    BY Numbers
  <2>3. QED
    BY <1>1, <2>1, <2>2, Readable DEF Idle, Places
<1>3. result' \in Results /\ published' \in Results /\ mission_result_updated' \in BOOLEAN
  <2>1. result \in Results /\ published \in Results /\ 0 \in Indices /\ mission_result_updated \in BOOLEAN
    BY Numbers DEF TypeOK, NavigatorTypes
  <2>2. [result EXCEPT !.seq_reached = 0, !.seq_current = 0] \in Results
    BY <2>1 DEF Results
  <2>3. QED
    BY <2>1, <2>2 DEF publish_mission_result, resultVars
<1>4. TypeOK'
  BY <1>1, <1>2, <1>3, NavigatorTyped, Counted
  DEF Elsewhere, Typed, TypeOK, CardTypes, ManagerTypes, NavigatorTypes
<1>5. Placed'
  BY <1>1 DEF Idle, Elsewhere, Placed, Flown, Current, Jumping, Known, Returning, Active,
     OnActive, OnTheWay, Searches, Goals, Moving
<1>6. QED
  BY <1>4, <1>5

(* Every step keeps the types and the places. *)
LEMMA PlacedStep == TypeOK /\ Placed /\ [Next]_vars => TypeOK' /\ Placed'
<1> SUFFICES ASSUME TypeOK, Placed, [Next]_vars PROVE TypeOK' /\ Placed'
    OBVIOUS
<1>1. CASE Navigator
  <2>1. CASE run
    BY <2>1, InactivePlaced, ActivePlaced DEF run
  <2>2. QED
    BY <1>1, <2>1, UpdatePlaced, SavePlaced, FailPlaced, JumpPlaced, CountPlaced, StopPlaced, NextPlaced,
       ReachPlaced, PublishPlaced DEF Navigator
<1>2. CASE UNCHANGED vars
  <2>1. TypeOK'
    BY <1>2 DEF vars, TypeOK, CardTypes, ManagerTypes, NavigatorTypes, CountTypes, cardVars, topicVars,
       worldVars, resultVars, bounds
  <2>2. NavigatorStays /\ Known'
    BY <1>2 DEF NavigatorStays, Placed, Known, vars, topicVars
  <2>3. QED
    BY <2>1, <2>2, StaysPlaced
<1>3. QED
  BY <1>1, <1>2, StationPlaced, WorldPlaced, PowerPlaced DEF Next

(* Every variable keeps its type, for any missions, publications, failing   *)
(* calls and losses of power: no item is counted further from an index that *)
(* is not in the mission, and nothing unreadable is taken over.             *)
THEOREM TypeCorrect == Spec => []TypeOK
<1>1. Spec => [](TypeOK /\ Placed)
  BY InitPlaced, PlacedStep, PTL DEF Spec
<1>2. QED
  BY <1>1, PTL

(* Whatever is uploaded and whenever, a mission that is flown is at an item   *)
(* of it, the one the set point was made from (set_mission_items).            *)
THEOREM FlownIsInMission ==
    Spec => [](m.type = "OFFBOARD" /\ ~m.first_run /\ at.pc \in {"idle", "reach"} =>
                   m.flown = m.index /\ m.index \in 0 .. m.count - 1)
<1>1. Spec => [](TypeOK /\ Placed)
  BY InitPlaced, PlacedStep, PTL DEF Spec
<1>2. TypeOK /\ Placed => (m.type = "OFFBOARD" /\ ~m.first_run /\ at.pc \in {"idle", "reach"} =>
                              m.flown = m.index /\ m.index \in 0 .. m.count - 1)
  BY DEF Placed, Flown, Moving, Current
<1>3. QED
  BY <1>1, <1>2, PTL

\* A DO_JUMP counts no further than it is to be repeated
Within(item) == item.kind = "jump" => item.done <= item.repeat
AllWithin == Within(at.item) /\ \A i \in Ids, s \in Seqs : Within(store[i][s])

(* A step that counts nothing. *)
LEMMA SameItems ==
    ASSUME AllWithin, store' = store, at'.item \in {at.item, Stop("waypoint")}
    PROVE  AllWithin'
BY DEF AllWithin, Within, Stop

(* Going on elsewhere keeps the item that was read. *)
LEMMA GoalItems ==
    ASSUME TypeOK
    PROVE  /\ Done.item = at.item /\ \A after : SetItems(after).item = at.item
           /\ \A a \in Places : SaveThen(a).item = a.item
           /\ \A mm : ReadNext(mm).item = at.item
           /\ \A f : [at EXCEPT !.pc = f].item = at.item
<1>1. at \in Places
  BY DEF TypeOK, NavigatorTypes
<1>2. Done.item = at.item /\ \A after : SetItems(after).item = at.item
  BY <1>1 DEF Places, Done, SetItems
<1>3. \A a \in Places : SaveThen(a).item = a.item
  BY DEF Places, SaveThen
<1>4. ASSUME NEW mm PROVE ReadNext(mm).item = at.item
  <2> DEFINE i == IF mm.index < mm.count - 1 THEN mm.index + 1 ELSE mm.index
  <2>1. ReadNext(mm) = [at EXCEPT !.pc = "read", !.cur = FALSE, !.tries = MaxTries, !.ptr = i]
    BY DEF ReadNext
  <2> HIDE DEF i
  <2>2. QED
    BY <1>1, <2>1 DEF Places
<1>5. \A f : [at EXCEPT !.pc = f].item = at.item
  BY <1>1 DEF Places
<1>6. QED
  BY <1>2, <1>3, <1>4, <1>5

(* Where the search moves on, no count is changed. *)
LEMMA MoveItems ==
    ASSUME TypeOK, NEW s, MoveTo(s) PROVE at'.item = at.item
<1>1. at \in Places
  BY DEF TypeOK, NavigatorTypes
<1> DEFINE t == at.tries - 1
<1>2. \/ at' = [at EXCEPT !.pc = "read", !.tries = t]
      \/ at' = [at EXCEPT !.ptr = s, !.tries = t]
  BY <1>1 DEF MoveTo, Places
<1> HIDE DEF t
<1>3. QED
  BY <1>1, <1>2 DEF Places

(* Only uploads and DO_JUMPs that are counted change a count. *)
LEMMA WithinStep == TypeOK /\ Placed /\ AllWithin /\ [Next]_vars => AllWithin'
<1> SUFFICES ASSUME TypeOK, Placed, AllWithin, [Next]_vars PROVE AllWithin'
    OBVIOUS
<1>1. at \in Places /\ store \in [Ids -> [Seqs -> Items]]
  BY DEF TypeOK, NavigatorTypes, CardTypes
<1>2. ASSUME NEW p \in Plans, NEW s \in Starts, upload(p, s) PROVE AllWithin'
  <2>1. at' = at /\ manager.mission.dataman_id \in Ids /\ Other \in Ids
    BY <1>2, Numbers DEF upload, Install, navigatorVars, TypeOK, ManagerTypes, Missions, Other
  <2>2. ASSUME NEW i \in Ids, NEW q \in Seqs PROVE Within(store'[i][q])
    <3>1. CASE i = Other /\ q < Len(p)
      <4>1. store'[i][q] = p[q + 1]
        BY <1>1, <1>2, <2>1, <3>1 DEF upload
      <4>2. p[q + 1] \in Items /\ p[q + 1].done = 0
        BY <1>1, <2>1, <3>1, Uploaded
      <4>3. QED
        BY <4>1, <4>2, JumpItems DEF Within
    <3>2. CASE ~(i = Other /\ q < Len(p))
      <4>1. store'[i][q] = store[i][q]
        BY <1>1, <1>2, <2>1, <3>2 DEF upload
      <4>2. QED
        BY <4>1 DEF AllWithin
    <3>3. QED
      BY <3>1, <3>2
  <2>3. QED
    BY <2>1, <2>2 DEF AllWithin
<1>3. CASE count_jump
  <2>1. CASE store' = [store EXCEPT ![m.id][m.index] = at.item] /\ at' = [at EXCEPT !.pc = "jump"]
    <3>1. at'.item = at.item
      BY <2>1, GoalItems
    <3>2. \A i \in Ids, q \in Seqs : store'[i][q] \in {at.item, store[i][q]}
      BY <1>1, <2>1
    <3>3. QED
      BY <3>1, <3>2 DEF AllWithin
  <2>2. CASE store' = store /\ at' = [at EXCEPT !.pc = at.after]
    BY <2>2, GoalItems, SameItems
  <2>3. QED
    BY <1>3, <2>1, <2>2 DEF count_jump, NoItem
<1>4. CASE read_jump \/ pass_jump \/ follow_jump
  <2>2. CASE \E s : MoveTo(s)
    BY <1>4, <2>2, MoveItems, SameItems DEF read_jump, pass_jump, follow_jump, cardVars
  <2>3. CASE read_jump /\ ~\E s : MoveTo(s)
    <3> DEFINE item == store[m.id][Index]
               counted == [item EXCEPT !.done = @ + 1]
    <3>1. /\ item.kind = "jump" /\ item.done < item.repeat /\ InMission /\ store' = store
          /\ at' = [at EXCEPT !.pc = "count", !.item = counted]
      BY <2>3 DEF read_jump, ItemRead, cardVars
    <3>2. item \in Items
      BY <3>1, IndexedItem
    <3>3. item.done \in Nat /\ item.repeat \in Nat /\ counted.done = item.done + 1
          /\ counted.repeat = item.repeat
      BY <3>1, <3>2, JumpItems
    <3>4. Within(counted)
      BY <3>1, <3>3 DEF Within
    <3> HIDE DEF counted
    <3>5. at'.item = counted
      BY <1>1, <3>1 DEF Places
    <3>6. QED
      BY <3>1, <3>4, <3>5 DEF AllWithin
  <2>4. QED
    BY <1>4, <2>2, <2>3 DEF pass_jump, follow_jump
<1>5. CASE read_stop
  <2>1. store' = store /\ m' \in Members /\ m'.index \in Seqs /\ at.after \in {"reach", "publish"}
    BY <1>5, StopRead
  <2> DEFINE b == [at EXCEPT !.pc = at.after]
             n == ReadNext(m')
  <2>2. b \in Places /\ n \in Places /\ b.item = at.item /\ n.item = at.item
    BY <1>1, <2>1, GoalTypes, GoalItems DEF Places
  <2>3. at' = b \/ at' = SaveThen(b) \/ at' = SaveThen(n)
    BY <1>5 DEF read_stop
  <2> HIDE DEF b, n
  <2>4. at'.item = at.item
    BY <2>2, <2>3, GoalItems
  <2>5. QED
    BY <2>1, <2>4, SameItems
<1>6. CASE update_offboard_mission
  <2>1. store' = store /\ at' \in {SaveThen(SetItems("reach")), SaveThen(Done)}
    BY <1>6 DEF update_offboard_mission, cardVars
  <2>2. QED
    BY <2>1, GoalTypes, GoalItems, SameItems
<1>7. CASE run
  <2>1. store' = store /\ \/ at' \in {Done, SetItems("publish"), [at EXCEPT !.pc = "reach"]}
                          \/ \E f : at' = [at EXCEPT !.pc = "update", !.next = f]
    BY <1>7 DEF run, on_inactive, on_activation, on_active, cardVars
  <2>2. at'.item = at.item
    <3>1. CASE at' \in {Done, SetItems("publish")}
      BY <3>1, GoalItems
    <3>2. CASE at' = [at EXCEPT !.pc = "reach"] \/ \E f : at' = [at EXCEPT !.pc = "update", !.next = f]
      BY <1>1, <3>2 DEF Places
    <3>3. QED
      BY <2>1, <3>1, <3>2
  <2>3. QED
    BY <2>1, <2>2, SameItems
<1>8. CASE read_mission_state \/ write_mission_state \/ read_fails \/ next_item_read
           \/ mission_item_reached \/ not_reached \/ publish_mission_result
  <2>1. store' = store
    BY <1>8 DEF read_mission_state, write_mission_state, read_fails, next_item_read,
       mission_item_reached, not_reached, publish_mission_result, cardVars
  <2>2. \/ at' = Done \/ at' = SetItems("publish") \/ at' = Idle
        \/ \E f : at' = [at EXCEPT !.pc = f]
        \/ \E f, r : at' = [at EXCEPT !.pc = f, !.rec = r]
    BY <1>8 DEF read_mission_state, write_mission_state, read_fails, NoItem, next_item_read,
       mission_item_reached, not_reached, publish_mission_result
  <2>3. at'.item \in {at.item, Stop("waypoint")}
    <3>1. CASE at' = Done \/ at' = SetItems("publish") \/ at' = Idle
      BY <3>1, GoalItems DEF Idle
    <3>2. CASE (\E f : at' = [at EXCEPT !.pc = f]) \/ \E f, r : at' = [at EXCEPT !.pc = f, !.rec = r]
      BY <1>1, <3>2 DEF Places
    <3>3. QED
      BY <2>2, <3>1, <3>2
  <2>4. QED
    BY <2>1, <2>3, SameItems
<1>9. CASE power_loss
  <2>1. store' = store /\ at'.item = Stop("waypoint")
    BY <1>9 DEF power_loss, cardVars, Idle
  <2>2. QED
    BY <2>1, SameItems
<1>10. CASE \/ Manager \/ handle_mission_clear_all \/ \E s \in Starts : handle_mission_set_current(s)
            \/ set_nav_state \/ land_or_take_off \/ UNCHANGED vars
  <2>1. store' = store /\ at' = at
    BY <1>10 DEF Manager, save_mission, publish_mission, handle_mission_clear_all,
       handle_mission_set_current, Install, navigatorVars, set_nav_state, land_or_take_off, vars, cardVars
  <2>2. QED
    BY <2>1, SameItems
<1>11. QED
  BY <1>2, <1>3, <1>4, <1>5, <1>6, <1>7, <1>8, <1>9, <1>10 DEF Next, Station, Navigator

(* Whatever is uploaded and whenever, a DO_JUMP is never counted beyond what  *)
(* the mission asks, so the search for an item passes it in the end           *)
(* (read_mission_item).                                                       *)
THEOREM JumpsStayWithin ==
    Spec => [](\A i \in Ids, s \in Seqs : store[i][s].kind = "jump" => store[i][s].done <= store[i][s].repeat)
<1>1. ASSUME Init PROVE AllWithin
  <2>1. Within(at.item)
    BY <1>1 DEF Init, Idle, Within, Stop
  <2>2. \A i \in Ids, s \in Seqs : Within(store[i][s])
    BY <1>1, InitCard, JumpItems DEF Within
  <2>3. QED
    BY <2>1, <2>2 DEF AllWithin
<1>2. Spec => [](TypeOK /\ Placed /\ AllWithin)
  BY <1>1, InitPlaced, PlacedStep, WithinStep, PTL DEF Spec
<1>3. AllWithin =>
          \A i \in Ids, s \in Seqs : store[i][s].kind = "jump" => store[i][s].done <= store[i][s].repeat
  BY DEF AllWithin, Within
<1>4. QED
  BY <1>2, <1>3, PTL
-----------------------------------------------------------------------------
(* What the navigator flies *)

\* Before the first iteration nothing is known of the mission on the card
Fresh == ~m.inited => m.count = 0 /\ m.flown = NoSeq /\ at.pc = "idle" /\ ~mission_mode

\* What is published is the mission of the mission manager; the navigator has it
\* when nothing is left to take over, and finds it on the card at first
Behind ==
    /\ topic # Unreadable => topic = manager.mission
    /\ m.inited /\ ~updated /\ manager.phase # "publish" =>
           m.count = 0 \/ m.id = manager.mission.dataman_id
    /\ ~m.inited => IF manager.phase = "publish" THEN saved = manager.new
                    ELSE saved = Unreadable \/ saved = manager.mission

\* The item flown is of the kind the set point was made for, unless there is a
\* mission to take over: the one after it is uploaded over the one flown
Flies ==
    m.type = "OFFBOARD" /\ ~m.first_run =>
        Moving \/ updated \/ store[m.id][m.index].kind = m.stop

\* The item being read for the first time of a search for a set point
FirstTry == at.cur /\ (at.pc = "read" \/ Goals("read")) => at.tries = MaxTries

\* An item that was not reached is still the one at the index, and is no DO_JUMP
Held ==
    ~free /\ m.flown # NoSeq =>
        /\ m.flown = m.index /\ Current /\ store[m.id][m.index].kind \in Stops
        /\ at.pc \notin {"count", "jump"} /\ FirstTry

\* A DO_JUMP that is to be counted is as it was read; one that is to be followed was
\* counted once more than it was made, unless its mission was replaced meanwhile
Counting ==
    <<m.id, m.index>> \notin crossed =>
        /\ at.pc = "count" =>
              LET item == store[m.id][m.index] IN
              /\ item.kind = "jump" /\ item.done < item.repeat
              /\ at.item = [item EXCEPT !.done = @ + 1]
        /\ at.pc = "jump" =>
              store[m.id][m.index] = at.item /\ taken[m.id][m.index] < at.item.done

Steady == Fresh /\ Behind /\ Flies /\ Held /\ Counting /\ JumpsCounted

(* The initial state. *)
LEMMA InitSteady == Init => Steady
<1> SUFFICES ASSUME Init PROVE Steady
    OBVIOUS
<1>1. /\ m = NewMission /\ at = Idle /\ topic = Unreadable /\ ~mission_mode
      /\ manager.phase = "idle" /\ (saved = Unreadable \/ saved = manager.mission)
      /\ \A i \in Ids, s \in Seqs : taken[i][s] = 0 /\ boots = 0
  BY InitCard DEF Init, Booted
<1>2. Fresh /\ Behind /\ Flies /\ Held /\ Counting
  BY <1>1 DEF Fresh, Behind, Flies, Held, Counting, NewMission, Idle
<1>3. JumpsCounted
  BY <1>1, InitCard, JumpItems DEF JumpsCounted, Idle
<1>4. QED
  BY <1>2, <1>3 DEF Steady

(* No jump is made, and nothing on the card changes: the jumps count as before. *)
LEMMA SameCounts ==
    ASSUME JumpsCounted, UNCHANGED <<store, taken, crossed, boots>>,
           (at.pc # "jump" /\ at'.pc # "jump") \/ NavigatorStays
    PROVE  JumpsCounted'
BY DEF JumpsCounted, NavigatorStays

(* A step of the navigator that takes over no mission. *)
LEMMA SameMission ==
    ASSUME Steady, m.inited, m'.inited, m'.id = m.id, m'.count = m.count, Elsewhere
    PROVE  Fresh' /\ Behind'
BY DEF Steady, Fresh, Behind, Elsewhere

(* A step that leaves the navigator and the items where they are. *)
LEMMA StaysSteady ==
    ASSUME Steady, NavigatorStays, UNCHANGED <<store, taken, crossed, free, boots>>,
           mission_mode' = mission_mode \/ m.inited, updated => updated', Behind'
    PROVE  Steady'
<1>1. Fresh' /\ Flies' /\ Held' /\ Counting'
  BY DEF NavigatorStays, Steady, Fresh, Flies, Held, Counting, Moving, Goals, Current, FirstTry
<1>2. JumpsCounted'
  BY SameCounts DEF Steady
<1>3. QED
  BY <1>1, <1>2 DEF Steady

(* A mission is installed: what an upload writes over is flown no longer. *)
LEMMA StationSteady ==
    ASSUME TypeOK, Placed, Steady, Station \/ Manager
    PROVE  Steady'
<1>1. manager \in [mission : Missions, new : Records, phase : {"idle", "save", "publish"}]
  BY DEF TypeOK, ManagerTypes
<1>2. ASSUME NEW new, Install(new)
      PROVE  /\ Behind' /\ NavigatorStays /\ UNCHANGED <<boots, mission_mode, updated>>
             /\ manager.phase = "idle"
  BY <1>1, <1>2 DEF Install, Steady, Behind, NavigatorStays, navigatorVars, worldVars, topicVars
<1>3. ASSUME NEW p \in Plans, NEW s \in Starts, upload(p, s) PROVE Steady'
  <2> DEFINE Replaced(i, q) == i = Other /\ q < Len(p)
             Same(i, q) ==
                 /\ store'[i][q] = store[i][q] /\ taken'[i][q] = taken[i][q]
                 /\ <<i, q>> \in crossed' <=> <<i, q>> \in crossed
  <2>1. /\ Behind' /\ NavigatorStays /\ UNCHANGED <<boots, mission_mode, updated>>
        /\ manager.phase = "idle" /\ free' = (free \/ Other = m.id)
    BY <1>2, <1>3 DEF upload
  <2>2. /\ store \in [Ids -> [Seqs -> Items]] /\ taken \in [Ids -> [Seqs -> Nat]] /\ boots \in Nat
        /\ Other \in Ids /\ Other # manager.mission.dataman_id
    BY <1>1, Numbers DEF TypeOK, CardTypes, CountTypes, Missions, Other
  <2>3. ASSUME NEW i \in Ids, NEW q \in Seqs, Replaced(i, q)
        PROVE  /\ taken'[i][q] = 0 /\ store'[i][q] \in Items /\ store'[i][q].done = 0
               /\ at.pc \in {"count", "jump"} /\ <<i, q>> = <<m.id, m.index>> => <<i, q>> \in crossed'
    <3>1. store'[i][q] = p[q + 1] /\ taken'[i][q] = 0
      BY <1>3, <2>2, <2>3 DEF upload
    <3>2. p[q + 1] \in Items /\ p[q + 1].done = 0
      BY <2>2, <2>3, Uploaded
    <3>3. at.pc \in {"count", "jump"} /\ <<i, q>> = <<m.id, m.index>> => <<i, q>> \in crossed'
      BY <1>3, <2>3 DEF upload
    <3>4. QED
      BY <3>1, <3>2, <3>3
  <2>4. ASSUME NEW i \in Ids, NEW q \in Seqs, ~Replaced(i, q) PROVE Same(i, q)
    BY <1>3, <2>2, <2>4 DEF upload
  <2>5. Current => m.id \in Ids /\ m.index \in Seqs /\ m.count # 0
    BY Numbers DEF Current, TypeOK, NavigatorTypes, Members
  <2>6. Fresh' /\ Held'
    <3>1. Current /\ Other # m.id => Same(m.id, m.index)
      BY <2>4, <2>5
    <3>2. QED
      BY <2>1, <3>1 DEF Steady, NavigatorStays, Fresh, Held, Moving, Goals, Current, FirstTry
  <2>7. Flies'
    <3>1. Current /\ ~updated => Same(m.id, m.index)
      BY <2>1, <2>2, <2>4, <2>5 DEF Steady, Fresh, Behind
    <3>2. QED
      BY <2>1, <3>1 DEF Steady, NavigatorStays, Flies, Moving, Goals, Current, Placed, Flown
  <2>8. Counting'
    <3>1. at.pc \in {"count", "jump"} /\ <<m.id, m.index>> \notin crossed' => Same(m.id, m.index)
      BY <2>3, <2>4, <2>5 DEF Placed, Jumping
    <3>2. QED
      BY <2>1, <3>1 DEF Steady, NavigatorStays, Counting
  <2>9. JumpsCounted'
    <3> SUFFICES ASSUME NEW i \in Ids, NEW q \in Seqs, store'[i][q].kind = "jump", <<i, q>> \notin crossed'
                 PROVE  LET pending == IF at.pc = "jump" /\ m.id = i /\ m.index = q THEN 1 ELSE 0
                            done == store'[i][q].done IN
                        /\ done <= store'[i][q].repeat
                        /\ taken'[i][q] <= done /\ done <= taken'[i][q] + pending + boots
        BY <2>1 DEF JumpsCounted, NavigatorStays
    <3>1. CASE ~Replaced(i, q)
      BY <2>4, <3>1 DEF Steady, JumpsCounted
    <3>2. CASE Replaced(i, q)
      <4>1. store'[i][q] \in Items /\ store'[i][q].done = 0 /\ taken'[i][q] = 0
        BY <2>3, <3>2
      <4>2. store'[i][q].repeat \in Nat
        BY <4>1, JumpItems
      <4>3. QED
        BY <2>2, <4>1, <4>2
    <3>3. QED
      BY <3>1, <3>2
  <2>10. QED
    BY <2>1, <2>6, <2>7, <2>8, <2>9 DEF Steady
<1>4. CASE handle_mission_clear_all \/ \E s \in Starts : handle_mission_set_current(s)
  BY <1>2, <1>4, StaysSteady DEF handle_mission_clear_all, handle_mission_set_current
<1>5. CASE save_mission
  <2>1. NavigatorStays /\ UNCHANGED <<store, taken, crossed, free, boots, mission_mode, updated>>
    BY <1>5 DEF save_mission, NavigatorStays, topicVars, navigatorVars, worldVars, IoError, bounds
  <2>2. /\ topic' = topic /\ manager'.mission = manager.mission /\ manager.phase = "save"
        /\ \/ manager'.phase = "publish" /\ saved' = manager'.new
           \/ manager'.phase = "idle" /\ saved' = saved
    BY <1>1, <1>5 DEF save_mission, topicVars
  <2>3. Behind'
    BY <2>1, <2>2 DEF Steady, Behind, NavigatorStays
  <2>4. QED
    BY <2>1, <2>3, StaysSteady
<1>6. CASE publish_mission
  <2>1. NavigatorStays /\ UNCHANGED <<store, taken, crossed, free, boots, mission_mode>> /\ updated'
    BY <1>6 DEF publish_mission, NavigatorStays, navigatorVars, worldVars, cardVars, bounds
  <2>2. Behind'
    BY <1>6, <2>1 DEF publish_mission, Steady, Behind, NavigatorStays, cardVars
  <2>3. QED
    BY <2>1, <2>2, StaysSteady
<1>7. QED
  BY <1>3, <1>4, <1>5, <1>6 DEF Station, Manager

(* Modes and landings. *)
LEMMA WorldSteady ==
    ASSUME Steady, set_nav_state \/ land_or_take_off
    PROVE  Steady'
<1>1. /\ NavigatorStays /\ UNCHANGED <<store, taken, crossed, free, boots, topic, updated, saved, manager>>
      /\ mission_mode' = mission_mode \/ m.inited
  BY DEF set_nav_state, land_or_take_off, NavigatorStays, cardVars, topicVars, bounds
<1>2. Behind'
  BY <1>1 DEF Steady, Behind, NavigatorStays
<1>3. QED
  BY <1>1, <1>2, StaysSteady

(* A count that was not followed by its jump is one for the losses of power. *)
LEMMA PowerSteady ==
    ASSUME TypeOK, Steady, power_loss
    PROVE  Steady'
<1>1. /\ m' = NewMission /\ at' = Idle /\ ~mission_mode' /\ topic' = Unreadable /\ free'
      /\ boots' = boots + 1 /\ UNCHANGED <<saved, store, taken, crossed>>
      /\ manager' = [mission |-> IF saved = Unreadable THEN Mission(0, 0, 0) ELSE saved,
                     new |-> Unreadable, phase |-> "idle"]
  BY DEF power_loss, cardVars, Booted
<1>2. Fresh' /\ Behind' /\ Flies' /\ Held' /\ Counting'
  BY <1>1 DEF Fresh, Behind, Flies, Held, Counting, NewMission, Idle
<1>3. JumpsCounted'
  <2> SUFFICES ASSUME NEW i \in Ids, NEW q \in Seqs, store[i][q].kind = "jump", <<i, q>> \notin crossed
               PROVE  LET done == store[i][q].done IN
                      /\ done <= store[i][q].repeat
                      /\ taken[i][q] <= done /\ done <= taken[i][q] + boots + 1
      BY <1>1 DEF JumpsCounted, Idle, TypeOK, CountTypes
  <2>1. store[i][q].done \in Nat /\ taken[i][q] \in Nat /\ boots \in Nat
    BY JumpItems DEF TypeOK, CardTypes, CountTypes
  <2>2. QED
    BY <2>1 DEF Steady, JumpsCounted
<1>4. QED
  BY <1>2, <1>3 DEF Steady

(* NavigatorMode::run keeps the index of what is flown. *)
LEMMA RunSteady ==
    ASSUME TypeOK, Placed, Steady, run
    PROVE  Steady' /\ m'.flown = m.flown
<1>1. /\ at.pc = "idle" /\ at \in Places /\ m \in Members
      /\ UNCHANGED <<manager, saved, store, topic, updated, mission_mode, taken, crossed, free, boots>>
  BY DEF run, on_inactive, on_activation, on_active, load_mission, Step, TypeOK, NavigatorTypes,
     cardVars, topicVars, worldVars, IoError, bounds
<1>2. CASE on_inactive
  <2>1. at' = IF m.inited /\ updated THEN [at EXCEPT !.pc = "update", !.next = "publish"] ELSE Done
    BY <1>2 DEF on_inactive
  <2>2. at'.pc \in {"update", "publish"} /\ (at'.pc = "update" => m.inited)
    BY <1>1, <2>1 DEF Done, Places
  <2>3. PICK need : IF m.inited THEN HomeKnown(Inactive(need)) ELSE load_mission(Inactive(need))
    BY <1>2 DEF on_inactive
  <2>4. CASE m.inited
    <3>1. /\ m'.inited /\ m'.first_run /\ m'.flown = m.flown /\ m'.id = m.id /\ m'.count = m.count
          /\ m'.index = m.index
      BY <1>1, <2>3, <2>4 DEF HomeKnown, Inactive, Members
    <3>2. Fresh' /\ Behind'
      BY <1>1, <2>4, <3>1, SameMission DEF Elsewhere
    <3>3. Flies' /\ Held' /\ Counting'
      BY <1>1, <2>2, <3>1 DEF Steady, Flies, Held, Counting, Current, FirstTry, Goals
    <3>4. QED
      BY <1>1, <2>2, <3>1, <3>2, <3>3, SameCounts DEF Steady
  <2>5. CASE ~m.inited
    <3>1. /\ m'.inited /\ m'.first_run /\ m'.flown = m.flown
          /\ \/ saved # Unreadable /\ m'.id = saved.dataman_id
             \/ m'.count = m.count
      BY <1>1, <2>3, <2>5 DEF load_mission, HomeKnown, Inactive, Members
    <3>2. m.flown = NoSeq /\ m.count = 0
      BY <2>5 DEF Steady, Fresh
    <3>3. Fresh' /\ Behind'
      BY <1>1, <2>5, <3>1, <3>2 DEF Steady, Fresh, Behind
    <3>4. Flies' /\ Held' /\ Counting'
      BY <1>1, <2>2, <3>1, <3>2 DEF Flies, Held, Counting
    <3>5. QED
      BY <1>1, <2>2, <3>1, <3>3, <3>4, SameCounts DEF Steady
  <2>6. QED
    BY <2>4, <2>5
<1>3. CASE on_activation \/ on_active
  <2>1. /\ m.inited /\ m'.inited /\ m'.flown = m.flown /\ m'.id = m.id /\ m'.count = m.count
        /\ m'.index = m.index /\ m'.stop = m.stop /\ m'.type = m.type
        /\ m'.first_run => m.first_run
    BY <1>1, <1>3 DEF on_activation, on_active, HomeKnown, Steady, Fresh, Members
  <2>2. \/ at' = SetItems("publish")
        \/ at'.pc \in {"update", "reach"} /\ ~m.first_run
    BY <1>1, <1>3 DEF on_activation, on_active, Places
  <2>3. \/ at'.pc = "read" /\ at'.cur /\ at'.tries = MaxTries
        \/ at'.pc \in {"update", "reach"} /\ ~m.first_run
    BY <1>1, <2>2 DEF SetItems, Places
  <2>4. Fresh' /\ Behind'
    BY <1>1, <2>1, SameMission DEF Elsewhere
  <2>5. Flies' /\ Held' /\ Counting'
    BY <1>1, <2>1, <2>3 DEF Steady, Flies, Held, Counting, Current, FirstTry, Goals, Moving
  <2>6. QED
    BY <1>1, <2>1, <2>3, <2>4, <2>5, SameCounts DEF Steady
<1>4. QED
  BY <1>2, <1>3 DEF run

(* The new mission is that of the mission manager. *)
LEMMA UpdateSteady ==
    ASSUME TypeOK, Placed, Steady, update_offboard_mission
    PROVE  Steady' /\ m'.flown = m.flown
<1>1. /\ at.pc = "update" /\ at \in Places /\ m \in Members /\ m.inited /\ topic # Unreadable
      /\ UNCHANGED <<manager, saved, store, topic, mission_mode, taken, crossed, boots>>
      /\ ~updated' /\ free'
  BY DEF update_offboard_mission, Local, Step, TypeOK, NavigatorTypes, Placed, Known, Steady, Fresh,
     cardVars, worldVars, bounds
<1>2. /\ m'.inited /\ m'.id = topic.dataman_id /\ m'.first_run = m.first_run /\ m'.flown = m.flown
  BY <1>1 DEF update_offboard_mission, Members
<1>3. \/ at.next = "read" /\ at' = SaveThen(SetItems("reach"))
      \/ m.first_run /\ at' = SaveThen(Done)
  BY <1>1 DEF update_offboard_mission, Placed, Returning, OnTheWay
<1>4. at'.pc = "save" /\ ((at'.next = "read" /\ at'.cur) \/ m.first_run)
  <2>1. at'.pc = "save"
    BY <1>1, <1>3 DEF SaveThen, SetItems, Done, Places
  <2>2. CASE at' = SaveThen(SetItems("reach"))
    <3> DEFINE a == SetItems("reach")
    <3>1. a.pc = "read" /\ a.cur /\ a \in Places
      BY <1>1, GoalTypes DEF SetItems, Places
    <3> HIDE DEF a
    <3>2. at' = SaveThen(a)
      BY <2>2 DEF a
    <3>3. QED
      BY <2>1, <3>1, <3>2 DEF SaveThen, Places
  <2>3. QED
    BY <1>3, <2>1, <2>2
<1>5. Fresh' /\ Behind'
  BY <1>1, <1>2 DEF Steady, Fresh, Behind
<1>6. Flies' /\ Held' /\ Counting'
  BY <1>1, <1>2, <1>4 DEF Flies, Held, Counting, Moving
<1>7. QED
  BY <1>1, <1>2, <1>4, <1>5, <1>6, SameCounts DEF Steady

(* Saving, and coming back from it, changes nothing that is flown. *)
LEMMA SaveSteady ==
    ASSUME TypeOK, Placed, Steady, read_mission_state \/ write_mission_state
    PROVE  Steady' /\ m'.flown = m.flown
<1>1. /\ at.pc \in {"save", "write"} /\ at \in Places /\ m.inited
      /\ at.next \in {"read", "reach", "publish"}
      /\ UNCHANGED <<m, manager, store, topic, updated, mission_mode, taken, crossed, free, boots>>
  BY DEF read_mission_state, write_mission_state, Step, Placed, Returning, TypeOK, NavigatorTypes, Places,
     Steady, Fresh, cardVars, topicVars, worldVars, IoError, bounds
<1>2. /\ at'.cur = at.cur /\ at'.next = at.next /\ at'.tries = at.tries /\ at'.pc \in {"write", at.next}
  BY <1>1 DEF read_mission_state, write_mission_state, Places
<1>3. Fresh' /\ Behind'
  BY <1>1, SameMission DEF Elsewhere
<1>4. Flies' /\ Held' /\ Counting'
  BY <1>1, <1>2 DEF Steady, Flies, Held, Counting, Current, FirstTry, Goals, Moving
<1>5. QED
  BY <1>1, <1>2, <1>3, <1>4, SameCounts DEF Steady

(* Nothing is flown: only when what was flown had been reached, or the card failed. *)
LEMMA FailSteady ==
    ASSUME TypeOK, Placed, Steady, read_fails
    PROVE  Steady' /\ (m'.flown = m.flown \/ m.flown = NoSeq \/ free \/ errors' > errors)
<1>1. /\ at.pc = "read" /\ at \in Places /\ m \in Members /\ m.inited /\ at.after \in {"reach", "publish"}
      /\ UNCHANGED <<saved, store, topic, updated, manager, mission_mode, taken, crossed, free, boots>>
  BY DEF read_fails, NoItem, Step, cardVars, topicVars, worldVars, IoError, bounds, TypeOK, NavigatorTypes,
     Places, Placed, Returning, Searches, Steady, Fresh
<1>2. CASE at.cur
  <2>1. m' = [m EXCEPT !.type = "NONE", !.stop = "none", !.flown = NoSeq] /\ at' = [at EXCEPT !.pc = at.after]
    BY <1>2 DEF read_fails, NoItem
  <2>2. /\ m'.type = "NONE" /\ m'.flown = NoSeq /\ m'.inited /\ m'.id = m.id /\ m'.count = m.count
        /\ at'.pc = at.after
    BY <1>1, <2>1 DEF Members, Places
  <2>3. Fresh' /\ Behind'
    BY <1>1, <2>2, SameMission DEF Elsewhere
  <2>4. Flies' /\ Held' /\ Counting'
    BY <1>1, <2>2 DEF Flies, Held, Counting
  <2>5. ~free /\ m.flown # NoSeq => errors' > errors
    <3> SUFFICES ASSUME ~free, m.flown # NoSeq PROVE errors' > errors
        OBVIOUS
    <3>1. Current /\ at.tries = MaxTries
      BY <1>1, <1>2 DEF Steady, Held, FirstTry
    <3>2. IoError
      BY <1>2, <3>1, Numbers DEF read_fails, InMission, Index, Current
    <3>3. QED
      BY <3>2 DEF IoError, TypeOK, CountTypes
  <2>6. QED
    BY <1>1, <2>2, <2>3, <2>4, <2>5, SameCounts DEF Steady
<1>3. CASE ~at.cur
  <2>1. at' = [at EXCEPT !.pc = at.after] /\ m' = m
    BY <1>3 DEF read_fails
  <2>2. at'.pc = at.after /\ at'.cur = at.cur
    BY <1>1, <2>1 DEF Places
  <2>3. Fresh' /\ Behind'
    BY <1>1, <2>1, SameMission DEF Elsewhere
  <2>4. Flies' /\ Held' /\ Counting'
    BY <1>1, <1>3, <2>1, <2>2 DEF Steady, Flies, Held, Counting, Current, FirstTry, Goals, Moving
  <2>5. QED
    BY <1>1, <2>1, <2>2, <2>3, <2>4, SameCounts DEF Steady
<1>4. QED
  BY <1>1, <1>2, <1>3 DEF Places

(* The search goes on at another item: none that was still to be reached is left. *)
LEMMA MoveSteady ==
    ASSUME TypeOK, Placed, Steady, NEW s, MoveTo(s), at.pc \in {"read", "jump"},
           at.pc = "jump" => at.cur, at.cur => free \/ m.flown = NoSeq,
           UNCHANGED <<saved, store, free>>, Elsewhere, JumpsCounted'
    PROVE  Steady' /\ m'.flown = m.flown
<1>1. at \in Places /\ m \in Members /\ m.inited
  BY DEF TypeOK, NavigatorTypes, Steady, Fresh
<1>2. CASE at.cur
  <2>1. /\ m' = [m EXCEPT !.index = s] /\ at'.pc = "read" /\ at'.cur
    BY <1>1, <1>2 DEF MoveTo, Places
  <2>2. m'.inited /\ m'.id = m.id /\ m'.count = m.count /\ m'.flown = m.flown
    BY <1>1, <2>1 DEF Members
  <2>3. Fresh' /\ Behind'
    BY <1>1, <2>2, SameMission
  <2>4. Flies' /\ Held' /\ Counting'
    BY <1>2, <2>1, <2>2 DEF Flies, Held, Counting, Moving
  <2>5. QED
    BY <2>2, <2>3, <2>4 DEF Steady
<1>3. CASE ~at.cur
  <2>1. m' = m /\ at'.pc = "read" /\ ~at'.cur
    BY <1>1, <1>3 DEF MoveTo, Places
  <2>2. Fresh' /\ Behind'
    BY <1>1, <2>1, SameMission
  <2>3. Flies' /\ Held' /\ Counting'
    BY <1>3, <2>1 DEF Steady, Flies, Held, Counting, Moving, Current, FirstTry, Elsewhere
  <2>4. QED
    BY <2>1, <2>2, <2>3 DEF Steady
<1>4. QED
  BY <1>2, <1>3

(* read_mission_item looks at a DO_JUMP. *)
LEMMA JumpSteady ==
    ASSUME TypeOK, Placed, Steady, read_jump \/ pass_jump
    PROVE  Steady' /\ m'.flown = m.flown
<1> DEFINE item == store[m.id][Index]
<1>1. /\ at.pc = "read" /\ InMission /\ item.kind = "jump" /\ m.inited /\ at \in Places
      /\ UNCHANGED <<saved, store, taken, crossed, free, boots>> /\ Elsewhere
  BY DEF read_jump, pass_jump, ItemRead, Local, Step, Elsewhere, cardVars, topicVars, worldVars, bounds,
     Steady, Fresh, TypeOK, NavigatorTypes
<1>2. at.cur => free \/ m.flown = NoSeq
  BY <1>1 DEF Steady, Held, Index, Stops
<1>3. ASSUME NEW s, MoveTo(s) PROVE Steady' /\ m'.flown = m.flown
  <2>1. at'.pc = "read"
    BY <1>1, <1>3 DEF MoveTo, Places
  <2>2. JumpsCounted'
    BY <1>1, <2>1, SameCounts DEF Steady
  <2>3. QED
    BY <1>1, <1>2, <1>3, <2>2, MoveSteady
<1>4. CASE /\ at.cur /\ at' = [at EXCEPT !.pc = "count", !.item = [item EXCEPT !.done = @ + 1]]
           /\ m' = m /\ item.done < item.repeat
  <2> DEFINE counted == [item EXCEPT !.done = @ + 1]
  <2> HIDE DEF counted
  <2>1. at'.pc = "count" /\ at'.cur /\ at'.item = counted
    BY <1>1, <1>4 DEF Places, counted
  <2>2. Fresh' /\ Behind'
    BY <1>1, <1>4, SameMission
  <2>3. Flies' /\ Held'
    BY <1>1, <1>2, <1>4, <2>1 DEF Flies, Held, Moving
  <2>4. Counting'
    BY <1>1, <1>4, <2>1 DEF Counting, Index, counted
  <2>5. JumpsCounted'
    BY <1>1, <2>1, SameCounts DEF Steady
  <2>6. QED
    BY <1>4, <2>2, <2>3, <2>4, <2>5 DEF Steady
<1>5. \/ \E s : MoveTo(s)
      \/ /\ at.cur /\ at' = [at EXCEPT !.pc = "count", !.item = [item EXCEPT !.done = @ + 1]]
         /\ m' = m /\ item.done < item.repeat
  BY DEF read_jump, pass_jump
<1>6. QED
  BY <1>3, <1>4, <1>5

(* It is counted on the card. *)
LEMMA CountSteady ==
    ASSUME TypeOK, Placed, Steady, count_jump
    PROVE  Steady' /\ (m'.flown = m.flown \/ errors' > errors)
<1>1. /\ at.pc = "count" /\ at \in Places /\ m \in Members /\ m.inited /\ at.cur
      /\ at.after \in {"reach", "publish"} /\ Current /\ m.id \in Ids /\ m.index \in Seqs
      /\ store \in [Ids -> [Seqs -> Items]] /\ taken \in [Ids -> [Seqs -> Nat]] /\ boots \in Nat
      /\ UNCHANGED <<saved, taken, crossed>> /\ Elsewhere
  <2>1. /\ at.pc = "count" /\ at \in Places /\ m \in Members /\ m.inited /\ at.cur
        /\ at.after \in {"reach", "publish"} /\ Current
        /\ store \in [Ids -> [Seqs -> Items]] /\ taken \in [Ids -> [Seqs -> Nat]] /\ boots \in Nat
        /\ UNCHANGED <<saved, taken, crossed>> /\ Elsewhere
    BY DEF count_jump, Step, Elsewhere, topicVars, worldVars, TypeOK, NavigatorTypes, CardTypes, CountTypes,
       Places, Placed, Jumping, Returning, Searches, Steady, Fresh
  <2>2. m.id \in Ids /\ m.index \in Seqs
    BY <2>1, Numbers DEF Members, Current
  <2>3. QED
    BY <2>1, <2>2
<1>2. free \/ m.flown = NoSeq
  BY <1>1 DEF Steady, Held
<1> DEFINE item == store[m.id][m.index]
           Replaced == <<m.id, m.index>> \in crossed
<1>3. ~Replaced => /\ item.kind = "jump" /\ item.done < item.repeat /\ item \in Items
                   /\ at.item = [item EXCEPT !.done = @ + 1]
  BY <1>1 DEF Steady, Counting
<1>4. ~Replaced => /\ at.item.kind = "jump" /\ at.item.done = item.done + 1
                   /\ at.item.repeat = item.repeat
                   /\ item.done \in Nat /\ item.repeat \in Nat
  BY <1>3, JumpItems
<1>5. ~Replaced => /\ taken[m.id][m.index] <= item.done /\ item.done <= taken[m.id][m.index] + boots
                   /\ taken[m.id][m.index] \in Nat
  BY <1>1, <1>3, <1>4 DEF Steady, JumpsCounted
<1>6. CASE /\ store' = [store EXCEPT ![m.id][m.index] = at.item]
           /\ at' = [at EXCEPT !.pc = "jump"] /\ UNCHANGED <<m, resultVars, free, bounds>>
  <2> HIDE DEF item
  <2>1. at'.pc = "jump" /\ at'.cur /\ at'.item = at.item /\ boots' = boots
    BY <1>1, <1>6 DEF Places, bounds
  <2>2. Fresh' /\ Behind'
    BY <1>1, <1>6, SameMission
  <2>3. Flies' /\ Held'
    BY <1>2, <1>6, <2>1 DEF Flies, Held, Moving
  <2>4. \A i \in Ids, q \in Seqs :
            store'[i][q] = IF i = m.id /\ q = m.index THEN at.item ELSE store[i][q]
    BY <1>1, <1>6
  <2>5. Counting'
    BY <1>1, <1>4, <1>5, <1>6, <2>1, <2>4 DEF Counting
  <2>6. JumpsCounted'
    <3> SUFFICES ASSUME NEW i \in Ids, NEW q \in Seqs, store'[i][q].kind = "jump", <<i, q>> \notin crossed
                 PROVE  LET pending == IF i = m.id /\ q = m.index THEN 1 ELSE 0
                            done == store'[i][q].done IN
                        /\ done <= store'[i][q].repeat
                        /\ taken[i][q] <= done /\ done <= taken[i][q] + pending + boots
        BY <1>1, <1>6, <2>1 DEF JumpsCounted
    <3>1. CASE i = m.id /\ q = m.index
      <4>1. store'[i][q] = at.item /\ taken[i][q] = taken[m.id][m.index]
        BY <1>1, <2>4, <3>1
      <4>2. QED
        BY <1>1, <1>3, <1>4, <1>5, <3>1, <4>1
    <3>2. CASE ~(i = m.id /\ q = m.index)
      BY <1>1, <2>4, <3>2 DEF Steady, JumpsCounted
    <3>3. QED
      BY <3>1, <3>2
  <2>7. QED
    BY <1>6, <2>2, <2>3, <2>5, <2>6 DEF Steady
<1>7. CASE IoError /\ NoItem /\ UNCHANGED store
  <2>1. m' = [m EXCEPT !.type = "NONE", !.stop = "none", !.flown = NoSeq] /\ at' = [at EXCEPT !.pc = at.after]
        /\ free' = free /\ errors' = errors + 1 /\ boots' = boots
    BY <1>7 DEF NoItem, IoError
  <2>2. /\ m'.type = "NONE" /\ m'.flown = NoSeq /\ m'.inited /\ m'.id = m.id /\ m'.count = m.count
        /\ at'.pc = at.after
    BY <1>1, <2>1 DEF Members, Places
  <2>3. Fresh' /\ Behind'
    BY <1>1, <2>2, SameMission
  <2>4. Flies' /\ Held' /\ Counting'
    BY <1>1, <2>2 DEF Flies, Held, Counting
  <2>5. JumpsCounted'
    BY <1>1, <1>7, <2>1, <2>2, SameCounts DEF Steady
  <2>6. errors' > errors
    BY <2>1 DEF TypeOK, CountTypes
  <2>7. QED
    BY <2>3, <2>4, <2>5, <2>6 DEF Steady
<1>8. \/ /\ store' = [store EXCEPT ![m.id][m.index] = at.item]
         /\ at' = [at EXCEPT !.pc = "jump"] /\ UNCHANGED <<m, resultVars, free, bounds>>
      \/ IoError /\ NoItem /\ UNCHANGED store
  BY DEF count_jump
<1> HIDE DEF item
<1>9. QED
  BY <1>6, <1>7, <1>8

(* It is made: the count on the card now stands for it. *)
LEMMA FollowSteady ==
    ASSUME TypeOK, Placed, Steady, follow_jump
    PROVE  Steady' /\ m'.flown = m.flown
<1>1. /\ at.pc = "jump" /\ MoveTo(at.item.to) /\ at \in Places /\ m \in Members /\ at.cur /\ Current
      /\ at.item.kind = "jump"
      /\ taken \in [Ids -> [Seqs -> Nat]] /\ boots \in Nat /\ taken' = [taken EXCEPT ![m.id][m.index] = @ + 1]
      /\ UNCHANGED <<saved, store, crossed, free, boots>> /\ Elsewhere
  BY DEF follow_jump, Local, Step, Elsewhere, cardVars, topicVars, worldVars, bounds, TypeOK,
     NavigatorTypes, CountTypes, Placed, Jumping
<1>2. m.id \in Ids /\ m.index \in Seqs
  BY <1>1, Numbers DEF Members, Current
<1>3. <<m.id, m.index>> \notin crossed =>
          store[m.id][m.index] = at.item /\ taken[m.id][m.index] < at.item.done
  BY <1>1 DEF Steady, Counting
<1>4. free \/ m.flown = NoSeq
  BY <1>1 DEF Steady, Held
<1>5. at'.pc = "read"
  BY <1>1 DEF MoveTo, Places
<1>6. at.item.done \in Nat /\ taken[m.id][m.index] \in Nat
  BY <1>1, <1>2, JumpItems DEF Places
<1>7. JumpsCounted'
  <2> SUFFICES ASSUME NEW i \in Ids, NEW q \in Seqs, store[i][q].kind = "jump", <<i, q>> \notin crossed
               PROVE  LET done == store[i][q].done IN
                      /\ done <= store[i][q].repeat
                      /\ taken'[i][q] <= done /\ done <= taken'[i][q] + boots
      BY <1>1, <1>5 DEF JumpsCounted, TypeOK, CardTypes
  <2>1. /\ store[i][q].done <= store[i][q].repeat /\ taken[i][q] <= store[i][q].done
        /\ store[i][q].done <=
               taken[i][q] + (IF m.id = i /\ m.index = q THEN 1 ELSE 0) + boots
    BY <1>1 DEF Steady, JumpsCounted
  <2>2. CASE i = m.id /\ q = m.index
    <3>1. taken'[i][q] = taken[m.id][m.index] + 1 /\ store[i][q].done = at.item.done
      BY <1>1, <1>2, <1>3, <2>2
    <3>2. QED
      BY <1>1, <1>3, <1>6, <2>1, <2>2, <3>1
  <2>3. CASE ~(i = m.id /\ q = m.index)
    <3>1. taken'[i][q] = taken[i][q]
      BY <1>1, <1>2, <2>3
    <3>2. (IF m.id = i /\ m.index = q THEN 1 ELSE 0) = 0 /\ taken[i][q] \in Nat
      BY <1>1, <2>3
    <3>3. QED
      BY <1>1, <2>1, <3>1, <3>2
  <2>4. QED
    BY <2>2, <2>3
<1>8. QED
  BY <1>1, <1>4, <1>7, MoveSteady

(* The set point is made from the item at the index, where the one before it was *)
(* reached or is the same.                                                       *)
LEMMA StopSteady ==
    ASSUME TypeOK, Placed, Steady, read_stop
    PROVE  Steady' /\ (m'.flown = m.flown \/ m.flown = NoSeq \/ free)
<1>1. m.inited /\ boots' = boots
  BY StopRead DEF Steady, Fresh, bounds
<1>2. Fresh' /\ Behind'
  BY <1>1, StopRead, SameMission
<1>3. Flies' /\ Held' /\ Counting'
  BY StopRead DEF Flies, Held, Counting, Current, FirstTry, Goals
<1>4. JumpsCounted'
  BY <1>1, StopRead, SameCounts DEF Steady
<1>5. m'.flown = m.flown \/ m.flown = NoSeq \/ free
  BY StopRead DEF Steady, Held
<1>6. QED
  BY <1>2, <1>3, <1>4, <1>5 DEF Steady

(* The item after it is read, and the end of the loop. *)
LEMMA RestSteady ==
    ASSUME TypeOK, Placed, Steady, next_item_read \/ not_reached \/ publish_mission_result
    PROVE  Steady' /\ m'.flown = m.flown
<1>1. /\ at \in Places
      /\ (at.pc = "read" /\ ~at.cur) \/ at.pc \in {"reach", "publish"}
      /\ at.pc = "read" => at.after \in {"reach", "publish"}
      /\ m.inited
      /\ UNCHANGED <<m, saved, store, taken, crossed, free, boots>> /\ Elsewhere
  BY DEF next_item_read, not_reached, publish_mission_result, ItemRead, Local, Step, Elsewhere, cardVars,
     topicVars, worldVars, bounds, TypeOK, NavigatorTypes, Places, Placed, Returning, Searches, Steady, Fresh
<1>2. at'.pc \in {"idle", "reach", "publish"}
  <2>1. \/ at' \in {[at EXCEPT !.pc = at.after], Done} /\ (at.pc = "read" \/ at' = Done)
        \/ at' = Idle
    BY <1>1 DEF next_item_read, not_reached, publish_mission_result, ItemRead, Local, Step
  <2>2. QED
    BY <1>1, <2>1 DEF Done, Idle, Places
<1>3. Fresh' /\ Behind'
  BY <1>1, <1>2, SameMission
<1>4. Flies' /\ Held' /\ Counting'
  BY <1>1, <1>2 DEF Steady, Flies, Held, Counting, Moving, Current, FirstTry, Goals, Elsewhere
<1>5. JumpsCounted'
  BY <1>1, <1>2, SameCounts DEF Steady
<1>6. QED
  BY <1>1, <1>3, <1>4, <1>5 DEF Steady

(* An item that is reached may be left; after a takeoff the index is still its own. *)
LEMMA ReachSteady ==
    ASSUME TypeOK, Placed, Steady, mission_item_reached
    PROVE  Steady' /\ m'.flown = m.flown
<1>1. /\ at.pc = "reach" /\ at \in Places /\ m \in Members /\ m.type = "OFFBOARD" /\ ~m.first_run
      /\ UNCHANGED <<saved, store, taken, crossed, boots>> /\ Elsewhere /\ free' = (free \/ ~m.takeoff)
  BY DEF mission_item_reached, Local, Step, Elsewhere, cardVars, topicVars, bounds, TypeOK,
     NavigatorTypes, Placed, Active, OnActive
<1>2. m.inited /\ m.flown = m.index /\ Current /\ (updated \/ store[m.id][m.index].kind = m.stop)
  BY <1>1 DEF Placed, Flown, Steady, Fresh, Flies, Moving
<1>3. \/ at' = Done /\ m' = m /\ ~m.takeoff
      \/ at' = SetItems("publish") /\ m' = [m EXCEPT !.takeoff = FALSE]
      \/ at' = SetItems("publish") /\ ~m.takeoff /\ m' = [m EXCEPT !.index = @ + 1]
  BY DEF mission_item_reached, advance_mission
<1>4. /\ m'.inited = m.inited /\ m'.id = m.id /\ m'.count = m.count /\ m'.flown = m.flown
      /\ m'.stop = m.stop
      /\ \/ at'.pc = "publish" /\ m' = m /\ ~m.takeoff
         \/ at'.pc = "read" /\ at'.cur /\ at'.tries = MaxTries /\ (m'.index = m.index \/ ~m.takeoff)
  BY <1>1, <1>3 DEF Done, SetItems, Members, Places
<1>5. Fresh' /\ Behind'
  BY <1>2, <1>4, <1>1, SameMission
<1>6. Flies' /\ Held' /\ Counting'
  BY <1>1, <1>2, <1>4 DEF Steady, Flies, Held, Counting, Moving, Current, FirstTry, Elsewhere
<1>7. JumpsCounted'
  BY <1>1, <1>4, SameCounts DEF Steady
<1>8. QED
  BY <1>4, <1>5, <1>6, <1>7 DEF Steady

\* An item is left: it was reached or replaced, the card failed or power was lost
Left == m'.flown # m.flown /\ m.flown # NoSeq => free \/ errors' > errors \/ boots' > boots

(* Every step of the system. *)
LEMMA SteadyStep == TypeOK /\ Placed /\ Steady /\ [Next]_vars => Steady' /\ [Left]_vars
<1> SUFFICES ASSUME TypeOK, Placed, Steady, [Next]_vars PROVE Steady' /\ [Left]_vars
    OBVIOUS
<1>1. CASE UNCHANGED vars
  <2>1. /\ NavigatorStays /\ UNCHANGED <<store, taken, crossed, free, boots, mission_mode>>
        /\ UNCHANGED <<topic, updated, manager, saved>>
    BY <1>1 DEF vars, NavigatorStays, cardVars, topicVars, worldVars, bounds
  <2>2. Behind'
    BY <2>1 DEF Steady, Behind, NavigatorStays
  <2>3. QED
    BY <1>1, <2>1, <2>2, StaysSteady
<1>2. CASE Station \/ Manager
  <2>1. m' = m
    BY <1>2 DEF Station, Manager, upload, handle_mission_set_current, handle_mission_clear_all, Install,
       save_mission, publish_mission, navigatorVars
  <2>2. QED
    BY <1>2, <2>1, StationSteady DEF Left
<1>3. CASE set_nav_state \/ land_or_take_off
  BY <1>3, WorldSteady DEF Left, set_nav_state, land_or_take_off
<1>4. CASE power_loss
  <2>1. boots' > boots
    BY <1>4 DEF power_loss, TypeOK, CountTypes
  <2>2. QED
    BY <1>4, <2>1, PowerSteady DEF Left
<1>5. CASE Navigator
  BY <1>5, RunSteady, UpdateSteady, SaveSteady, FailSteady, JumpSteady, CountSteady, FollowSteady,
     StopSteady, RestSteady, ReachSteady DEF Navigator, Left
<1>6. QED
  BY <1>1, <1>2, <1>3, <1>4, <1>5 DEF Next

(* The invariant of the system. *)
LEMMA AlwaysSteady == Spec => [](TypeOK /\ Placed /\ Steady)
BY InitPlaced, PlacedStep, InitSteady, SteadyStep, PTL DEF Spec

(* For any missions, and however publications, changes of mode, failing calls *)
(* and losses of power fall between the steps of the navigator: the set point *)
(* of an active mission was made from the item at its index, which is in the  *)
(* mission and no DO_JUMP (set_mission_items, read_mission_item).             *)
THEOREM FlownIsCurrent == Spec => []FlownItem
<1>1. Placed /\ Steady => FlownItem
  BY DEF Placed, Flown, Current, Steady, Flies, Moving, FlownItem
<1>2. QED
  BY <1>1, AlwaysSteady, PTL

(* No DO_JUMP is made oftener than the mission asks, and only losses of power *)
(* leave counts on the card that no jump stands for, whatever the jumps lead  *)
(* to and whatever fails or is uploaded, but for an item that was uploaded    *)
(* over between its reading and its counting (read_mission_item).             *)
THEOREM JumpsAreCounted == Spec => []JumpsCounted
<1>1. Steady => JumpsCounted
  BY DEF Steady
<1>2. QED
  BY <1>1, AlwaysSteady, PTL

(* No step of the navigator leaves an item that was not reached, unless for a *)
(* new mission, one uploaded over the one flown, a failing card or a loss of  *)
(* power; a takeoff leaves nothing (on_active, advance_mission).              *)
THEOREM NothingIsSkipped == Spec => NoItemSkipped
<1>1. TypeOK /\ Placed /\ Steady /\ [Next]_vars => [Left]_vars
  BY SteadyStep
<1>2. [Left]_vars =>
      [m'.flown # m.flown /\ m.flown # NoSeq => free \/ errors' > errors \/ boots' > boots]_vars
  BY DEF Left
<1>3. QED
  BY <1>1, <1>2, AlwaysSteady, PTL DEF Spec, NoItemSkipped

=============================================================================
