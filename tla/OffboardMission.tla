--------------------------- MODULE OffboardMission ---------------------------
(***************************************************************************)
(* How the navigator flies an offboard mission                             *)
(* (src/modules/navigator/mission.cpp, run by NavigatorMode::run).  The    *)
(* MAVLink mission manager writes items and record through the data        *)
(* manager and then publishes offboard_mission; the navigator, a task of   *)
(* its own, reads items when it needs them, counts the DO_JUMPs it takes   *)
(* on the card, and saves its progress in the record.  Each call to the    *)
(* data manager is a step, because the other task may run while it waits.  *)
(***************************************************************************)
EXTENDS Integers, Sequences

CONSTANTS MaxItems,         \* bound: items of a mission
          Plans,            \* bound: the missions a station uploads
          Cards,            \* bound: the missions the card holds at first, <<>> for none
          Starts,           \* bound: the sequence numbers they are published with
          MaxTries,         \* items read_mission_item looks at (10)
          RotaryWing,       \* is_rotary_wing
          MaxEvents         \* bound: changes of the mission, calls to the data
                            \* manager that fail and losses of power, together

Ids == {0, 1}
Seqs == 0 .. MaxItems - 1
NoSeq == -1

\* A mission item: where the vehicle goes, or a DO_JUMP
Stops == {"waypoint", "land",   \* left when reached (autocontinue)
          "hold"}               \* no autocontinue
Stop(k) == [kind |-> k, to |-> 0, repeat |-> 0, done |-> 0]
Jump(s, n) == [kind |-> "jump", to |-> s, repeat |-> n, done |-> 0]
Mission(id, n, s) == [dataman_id |-> id, count |-> n, current_seq |-> s]
Unreadable == Mission(-1, 0, 0)

\* Before the first and after the last item: a DO_JUMP may lead there too
Indices == NoSeq .. MaxItems
Items == [kind : {"jump"}, to : Indices, repeat : Nat, done : Nat] \cup {Stop(k) : k \in Stops}

ASSUME OffboardAssumption ==
    /\ MaxItems \in Nat \ {0} /\ MaxTries \in Nat \ {0}
    /\ MaxEvents \in Nat
    /\ RotaryWing \in BOOLEAN
    /\ Starts \subseteq Seqs \cup {NoSeq}
    /\ <<>> \notin Plans
    /\ \A p \in Plans \cup Cards : p \in Seq(Items) /\ Len(p) \in 0 .. MaxItems
                                   /\ \A i \in 1 .. Len(p) : p[i].done = 0

VARIABLES
    saved,          \* DM_KEY_MISSION_STATE
    store,          \* the two storages of items
    topic,          \* offboard_mission, as last published
    updated,        \* the navigator has not copied it yet
    manager,        \* mavlink: mission in memory, and the one it is installing
    mission_mode,   \* nav_state is AUTO_MISSION
    landed,         \* condition_landed
    m,              \* members of Mission
    at,             \* where the navigator task is
    result, mission_result_updated,     \* mission_result, to be published
    published,                          \* mission_result, as last published
    taken,          \* per item, jumps made since it was uploaded (for the properties)
    crossed,        \* items uploaded over while a jump was counted there (for the properties)
    free,           \* the item flown was reached or replaced (for the properties)
    publications, errors, boots         \* events so far

cardVars == <<saved, store>>
topicVars == <<topic, updated>>
worldVars == <<mission_mode, landed>>
resultVars == <<result, mission_result_updated, published>>
bounds == <<publications, errors, boots>>
jumpVars == <<taken, crossed>>
vars == <<cardVars, topicVars, manager, worldVars, m, at, resultVars, jumpVars, free, bounds>>

\* Mission as its constructor leaves it
NewMission ==
    [inited |-> FALSE, home |-> FALSE, id |-> 0, count |-> 0, index |-> NoSeq,
     type |-> "NONE", takeoff |-> FALSE, need |-> TRUE, first_run |-> TRUE,
     stop |-> "none", flown |-> NoSeq]
Idle == [pc |-> "idle", next |-> "none", after |-> "none", cur |-> FALSE, ptr |-> 0,
         tries |-> 0, rec |-> Unreadable, item |-> Stop("waypoint")]
NoResult == [reached |-> FALSE, seq_reached |-> 0, finished |-> FALSE, seq_current |-> 0]

\* init_offboard_mission of the mission manager
Booted ==
    [mission |-> IF saved = Unreadable THEN Mission(0, 0, 0) ELSE saved,
     new |-> Unreadable, phase |-> "idle"]

Init ==
    /\ \E p \in Cards :
         /\ saved = IF p = <<>> THEN Unreadable ELSE Mission(0, Len(p), 0)
         /\ store = [i \in Ids |-> [s \in Seqs |->
                        IF i = 0 /\ s < Len(p) THEN p[s + 1] ELSE Stop("waypoint")]]
    /\ topic = Unreadable /\ updated = FALSE
    /\ manager = Booted
    /\ mission_mode = FALSE /\ landed = TRUE
    /\ m = NewMission /\ at = Idle
    /\ result = NoResult /\ mission_result_updated = FALSE /\ published = NoResult
    /\ taken = [i \in Ids |-> [s \in Seqs |-> 0]] /\ crossed = {} /\ free = TRUE
    /\ publications = 0 /\ errors = 0 /\ boots = 0
-----------------------------------------------------------------------------
(* The mission manager of MAVLink, see MissionManager *)

navigatorVars == <<worldVars, m, at, resultVars>>
MayHappen == publications + errors + boots < MaxEvents

\* A call to the data manager returns an error and has changed nothing
IoError == MayHappen /\ errors' = errors + 1 /\ UNCHANGED <<publications, boots>>

Install(new) ==
    /\ manager.phase = "idle" /\ MayHappen
    /\ manager' = [manager EXCEPT !.new = new, !.phase = "save"]
    /\ publications' = publications + 1
    /\ UNCHANGED <<saved, topicVars, navigatorVars, errors, boots>>

Other == 1 - manager.mission.dataman_id

\* handle_mission_item: the items go to the storage that is not active, which may
\* be the one the navigator still flies from
upload(p, s) ==
    LET new == {Other} \X {i \in Seqs : i < Len(p)} IN
    /\ s < Len(p) /\ Install(Mission(Other, Len(p), s))
    /\ store' = [store EXCEPT ![Other] =
                    [i \in Seqs |-> IF i < Len(p) THEN p[i + 1] ELSE @[i]]]
    /\ taken' = [taken EXCEPT ![Other] = [i \in Seqs |-> IF i < Len(p) THEN 0 ELSE @[i]]]
    /\ crossed' = (crossed \ new)
           \cup {x \in new : at.pc \in {"count", "jump"} /\ x = <<m.id, m.index>>}
    /\ free' = (free \/ Other = m.id)

handle_mission_set_current(s) ==
    /\ s >= 0 /\ s < manager.mission.count
    /\ Install([manager.mission EXCEPT !.current_seq = s])
    /\ UNCHANGED <<store, jumpVars, free>>

handle_mission_clear_all == Install(Mission(Other, 0, 0)) /\ UNCHANGED <<store, jumpVars, free>>

\* update_active_mission: the record, then the topic
save_mission ==
    /\ manager.phase = "save"
    /\ \/ /\ saved' = manager.new /\ manager' = [manager EXCEPT !.phase = "publish"]
          /\ UNCHANGED bounds
       \/ /\ IoError /\ UNCHANGED saved
          /\ manager' = [manager EXCEPT !.phase = "idle", !.new = Unreadable]
    /\ UNCHANGED <<store, topicVars, navigatorVars, jumpVars, free>>

publish_mission ==
    /\ manager.phase = "publish"
    /\ manager' = [mission |-> manager.new, new |-> Unreadable, phase |-> "idle"]
    /\ topic' = manager.new /\ updated' = TRUE
    /\ UNCHANGED <<cardVars, navigatorVars, jumpVars, free, bounds>>
-----------------------------------------------------------------------------
(* Where the navigator goes on *)

Done == [at EXCEPT !.pc = "publish"]

\* set_mission_items begins with the item at the index
SetItems(after) ==
    [at EXCEPT !.pc = "read", !.cur = TRUE, !.tries = MaxTries, !.after = after]

\* save_offboard_mission_state, then what it was called before
SaveThen(a) == [a EXCEPT !.next = a.pc, !.pc = "save"]

\* The item after the current one is read for the next set point
ReadNext(mm) ==
    [at EXCEPT !.pc = "read", !.cur = FALSE, !.tries = MaxTries,
               !.ptr = IF mm.index < mm.count - 1 THEN mm.index + 1 ELSE mm.index]

Publish(r) == result' = r /\ mission_result_updated' = TRUE /\ UNCHANGED published

\* set_current_offboard_mission_item
CurrentItem(mm) ==
    [result EXCEPT !.reached = FALSE, !.finished = FALSE, !.seq_current = mm.index]

Step(pc) == at.pc = pc /\ UNCHANGED manager
Local(pc) == Step(pc) /\ UNCHANGED bounds
-----------------------------------------------------------------------------
(* NavigatorMode::run *)

\* check_mission_valid: once, when the home position is known, the result is
\* published again; what it says of feasibility is not kept in the model
HomeKnown(mm) ==
    \E known \in BOOLEAN :
        /\ m' = [mm EXCEPT !.home = m.home \/ known]
        /\ mission_result_updated' = (mission_result_updated \/ (known /\ ~m.home))

\* The first time the mission is loaded from the card, as the record says
load_mission(mm) ==
    \/ /\ saved # Unreadable /\ UNCHANGED bounds
       /\ HomeKnown([mm EXCEPT !.inited = TRUE, !.id = saved.dataman_id,
                               !.count = saved.count, !.index = saved.current_seq])
    \/ /\ (saved = Unreadable /\ UNCHANGED bounds) \/ IoError
       /\ HomeKnown([mm EXCEPT !.inited = TRUE])

\* A takeoff is needed again after landing, or when the vehicle may not loiter
\* where it is
Inactive(need) == [m EXCEPT !.first_run = TRUE, !.need = need]

\* Mutant of on_inactive: a new mission is only looked for in flight
on_inactive_deaf ==
    /\ ~mission_mode /\ at' = Done /\ UNCHANGED result
    /\ \E need \in {m.need \/ landed, TRUE} :
         IF m.inited THEN HomeKnown(Inactive(need)) /\ UNCHANGED bounds
         ELSE load_mission(Inactive(need))

on_inactive ==
    /\ ~mission_mode /\ UNCHANGED result
    /\ at' = IF m.inited /\ updated THEN [at EXCEPT !.pc = "update", !.next = "publish"] ELSE Done
    /\ \E need \in {m.need \/ landed, TRUE} :
         IF m.inited THEN HomeKnown(Inactive(need)) /\ UNCHANGED bounds
         ELSE load_mission(Inactive(need))

on_activation ==
    /\ mission_mode /\ m.first_run
    /\ m' = [m EXCEPT !.first_run = FALSE]
    /\ at' = SetItems("publish") /\ mission_result_updated' = TRUE /\ UNCHANGED <<result, bounds>>

on_active ==
    /\ mission_mode /\ ~m.first_run /\ HomeKnown(m)
    /\ at' = IF updated THEN [at EXCEPT !.pc = "update", !.next = "read"]
             ELSE [at EXCEPT !.pc = "reach"]
    /\ UNCHANGED <<result, bounds>>

run ==
    /\ Step("idle") /\ (on_inactive \/ on_activation \/ on_active)
    /\ UNCHANGED <<cardVars, topicVars, worldVars, published, jumpVars, free>>

\* update_offboard_mission: the index of the publication, else the old one as
\* far as it is in range; an infeasible mission is taken for an empty one
update_offboard_mission ==
    /\ Local("update") /\ updated' = FALSE
    /\ \E feasible \in BOOLEAN :
         LET index == IF topic.current_seq \in 0 .. topic.count - 1 THEN topic.current_seq
                      ELSE IF m.index \in 0 .. topic.count - 1 THEN m.index ELSE 0
             mm == [m EXCEPT !.id = topic.dataman_id,
                             !.count = IF feasible THEN topic.count ELSE 0,
                             !.index = IF feasible THEN index ELSE 0] IN
         /\ m' = mm /\ Publish(CurrentItem(mm))
    /\ at' = SaveThen(IF at.next = "read" THEN SetItems("reach") ELSE Done)
    /\ free' = TRUE
    /\ UNCHANGED <<cardVars, topic, worldVars, jumpVars>>
-----------------------------------------------------------------------------
(* save_offboard_mission_state *)

\* The record is read; what will be written is the record as it was read
read_mission_state ==
    /\ Step("save")
    /\ \/ /\ saved # Unreadable /\ UNCHANGED bounds
          /\ at' = IF /\ saved.dataman_id = m.id /\ saved.count = m.count
                      /\ saved.current_seq # m.index
                   THEN [at EXCEPT !.pc = "write", !.rec = saved]
                   ELSE [at EXCEPT !.pc = at.next]
       \/ /\ (saved = Unreadable /\ UNCHANGED bounds) \/ IoError
          /\ at' = [at EXCEPT !.pc = "write", !.rec = Mission(m.id, m.count, m.index)]
    /\ UNCHANGED <<cardVars, topicVars, worldVars, m, resultVars, jumpVars, free>>

write_mission_state ==
    /\ Step("write")
    /\ (saved' = at.rec /\ UNCHANGED bounds) \/ (IoError /\ UNCHANGED saved)
    /\ at' = [at EXCEPT !.pc = at.next, !.rec = Unreadable]
    /\ UNCHANGED <<store, topicVars, worldVars, m, resultVars, jumpVars, free>>
-----------------------------------------------------------------------------
(* read_mission_item and the rest of set_mission_items *)

Index == IF at.cur THEN m.index ELSE at.ptr
InMission == Index \in 0 .. m.count - 1

\* Nothing to fly: loiter, and tell that the mission is finished
NoItem ==
    /\ m' = [m EXCEPT !.type = "NONE", !.stop = "none", !.flown = NoSeq]
    /\ Publish([result EXCEPT !.finished = TRUE])
    /\ at' = [at EXCEPT !.pc = at.after]
    /\ UNCHANGED free

read_fails ==
    /\ Step("read") /\ (((~InMission \/ at.tries = 0) /\ UNCHANGED bounds) \/ IoError)
    /\ IF at.cur THEN NoItem
       ELSE at' = [at EXCEPT !.pc = at.after] /\ UNCHANGED <<m, resultVars, free>>
    /\ UNCHANGED <<cardVars, topicVars, worldVars, jumpVars>>

\* Mutant of ItemRead: it never gives up
ItemRead_forever(kinds) ==
    /\ Local("read") /\ InMission
    /\ store[m.id][Index].kind \in kinds

\* An item in the mission is read, within the number of tries
ItemRead(kinds) ==
    /\ Local("read") /\ InMission /\ at.tries > 0
    /\ store[m.id][Index].kind \in kinds

\* Mutant of MoveTo: the look-ahead moves the index of the mission
MoveTo_index(s) ==
    m' = [m EXCEPT !.index = s] /\ at' = [at EXCEPT !.ptr = s, !.pc = "read", !.tries = @ - 1]

\* The search goes on at another item, with the index or with a copy of it
MoveTo(s) ==
    IF at.cur THEN m' = [m EXCEPT !.index = s] /\ at' = [at EXCEPT !.pc = "read", !.tries = @ - 1]
    ELSE at' = [at EXCEPT !.ptr = s, !.tries = @ - 1] /\ UNCHANGED m

\* Mutant of read_jump: one repetition more
read_jump_again ==
    /\ ItemRead({"jump"})
    /\ LET item == store[m.id][Index] IN
       /\ item.done <= item.repeat
       /\ IF at.cur THEN at' = [at EXCEPT !.pc = "count", !.item = [item EXCEPT !.done = @ + 1]]
                         /\ UNCHANGED m
          ELSE MoveTo(item.to)
    /\ UNCHANGED <<cardVars, topicVars, worldVars, resultVars, jumpVars, free>>

\* A DO_JUMP that is to be repeated: counted on the card first, unless it is
\* only looked at for the next item
read_jump ==
    /\ ItemRead({"jump"})
    /\ LET item == store[m.id][Index] IN
       /\ item.done < item.repeat
       /\ IF at.cur THEN at' = [at EXCEPT !.pc = "count", !.item = [item EXCEPT !.done = @ + 1]]
                         /\ UNCHANGED m
          ELSE MoveTo(item.to)
    /\ UNCHANGED <<cardVars, topicVars, worldVars, resultVars, jumpVars, free>>

pass_jump ==
    /\ ItemRead({"jump"})
    /\ store[m.id][Index].done >= store[m.id][Index].repeat
    /\ MoveTo(Index + 1)
    /\ UNCHANGED <<cardVars, topicVars, worldVars, resultVars, jumpVars, free>>

count_jump ==
    /\ Step("count")
    /\ \/ /\ store' = [store EXCEPT ![m.id][m.index] = at.item]
          /\ at' = [at EXCEPT !.pc = "jump"] /\ UNCHANGED <<m, resultVars, free, bounds>>
       \/ IoError /\ NoItem /\ UNCHANGED store
    /\ UNCHANGED <<saved, topicVars, worldVars, jumpVars>>

follow_jump ==
    /\ Local("jump") /\ MoveTo(at.item.to)
    /\ taken' = [taken EXCEPT ![m.id][m.index] = @ + 1] /\ UNCHANGED crossed
    /\ Publish(result)
    /\ UNCHANGED <<cardVars, topicVars, worldVars, free>>

\* A rotary wing takes off first, if it needs to and is too low
Takeoff(need, low) == RotaryWing /\ (m.takeoff \/ need) /\ low

read_stop ==
    /\ ItemRead(Stops) /\ at.cur
    /\ \E low \in {TRUE, landed} :
         LET kind == store[m.id][m.index].kind
             lands == kind = "land"
             need == m.need \/ (RotaryWing /\ ~m.takeoff /\ landed)
             used == need /\ RotaryWing /\ ~lands
             takeoff == Takeoff(used, low)
             mm == [m EXCEPT !.type = "OFFBOARD", !.stop = kind, !.flown = m.index,
                             !.takeoff = takeoff,
                             !.need = (need /\ ~used) \/ (lands /\ ~takeoff)] IN
         /\ m' = mm
         /\ IF takeoff
            THEN at' = [at EXCEPT !.pc = at.after] /\ UNCHANGED resultVars
            ELSE /\ Publish(CurrentItem(mm))
                 /\ at' = SaveThen(IF kind = "hold" THEN [at EXCEPT !.pc = at.after]
                                   ELSE ReadNext(mm))
    /\ free' = FALSE
    /\ UNCHANGED <<cardVars, topicVars, worldVars, jumpVars>>

next_item_read ==
    /\ ItemRead(Stops) /\ ~at.cur
    /\ at' = [at EXCEPT !.pc = at.after]
    /\ UNCHANGED <<cardVars, topicVars, worldVars, m, resultVars, jumpVars, free>>
-----------------------------------------------------------------------------
(* The item is reached *)

\* Mutant of advance_mission: the takeoff counts as the item
advance_past_takeoff == [m EXCEPT !.takeoff = FALSE, !.index = @ + 1]

\* Mutant of advance_mission: the takeoff is not over
advance_in_takeoff == IF m.takeoff THEN m ELSE [m EXCEPT !.index = @ + 1]

\* advance_mission: what was a takeoff becomes the item itself
advance_mission ==
    IF m.takeoff THEN [m EXCEPT !.takeoff = FALSE] ELSE [m EXCEPT !.index = @ + 1]

mission_item_reached ==
    /\ Local("reach") /\ m.type = "OFFBOARD"
    /\ landed' = (m.stop = "land" /\ ~m.takeoff)
    /\ Publish([result EXCEPT !.reached = TRUE, !.seq_reached = m.index])
    /\ free' = (free \/ ~m.takeoff)
    /\ IF m.stop = "hold" /\ ~m.takeoff
       THEN at' = Done /\ UNCHANGED m
       ELSE /\ m' = advance_mission
            /\ at' = SetItems("publish")
    /\ UNCHANGED <<cardVars, topicVars, mission_mode, jumpVars>>

not_reached ==
    /\ Local("reach") /\ at' = Done
    /\ UNCHANGED <<cardVars, topicVars, worldVars, m, resultVars, jumpVars, free>>

\* End of the loop: publish_mission_result, which resets some of the fields
publish_mission_result ==
    /\ Local("publish") /\ at' = Idle
    /\ IF mission_result_updated
       THEN /\ published' = result /\ mission_result_updated' = FALSE
            /\ result' = [result EXCEPT !.seq_reached = 0, !.seq_current = 0]
       ELSE UNCHANGED resultVars
    /\ UNCHANGED <<cardVars, topicVars, worldVars, m, jumpVars, free>>
-----------------------------------------------------------------------------
(* Around the navigator *)

\* The commander switches the mission mode on and off.  It grants no such mode
\* without a position, and the first position runs the navigator once.
set_nav_state ==
    /\ m.inited /\ mission_mode' = ~mission_mode
    /\ UNCHANGED <<cardVars, topicVars, manager, landed, m, at, resultVars, jumpVars, free, bounds>>

\* Outside of the mission mode the vehicle may land and take off
land_or_take_off ==
    /\ ~mission_mode /\ landed' = ~landed
    /\ UNCHANGED <<cardVars, topicVars, manager, mission_mode, m, at, resultVars, jumpVars, free, bounds>>

\* Everything but the card is lost
power_loss ==
    /\ MayHappen /\ boots' = boots + 1
    /\ topic' = Unreadable /\ updated' = FALSE
    /\ manager' = Booted
    /\ mission_mode' = FALSE /\ landed' = TRUE /\ m' = NewMission /\ at' = Idle
    /\ result' = NoResult /\ mission_result_updated' = FALSE /\ published' = NoResult
    /\ free' = TRUE
    /\ UNCHANGED <<cardVars, jumpVars, publications, errors>>

Station ==
    \/ \E p \in Plans, s \in Starts : upload(p, s)
    \/ \E s \in Starts : handle_mission_set_current(s)
    \/ handle_mission_clear_all

Manager == save_mission \/ publish_mission

Navigator ==
    \/ run \/ update_offboard_mission \/ read_mission_state \/ write_mission_state
    \/ read_fails \/ read_jump \/ pass_jump \/ count_jump \/ follow_jump
    \/ read_stop \/ next_item_read \/ mission_item_reached \/ not_reached
    \/ publish_mission_result

Next == Station \/ Manager \/ Navigator \/ set_nav_state \/ land_or_take_off \/ power_loss

Spec == Init /\ [][Next]_vars

\* The navigator task is scheduled, and the vehicle gets where it flies
FairSpec == Spec /\ WF_vars(Navigator) /\ SF_vars(mission_item_reached)
-----------------------------------------------------------------------------
(* Properties *)

Missions == [dataman_id : Ids, count : 0 .. MaxItems, current_seq : Seqs \cup {NoSeq}]
Records == Missions \cup {Unreadable}
Results == [reached : BOOLEAN, seq_reached : Indices, finished : BOOLEAN, seq_current : Indices]
Members == [inited : BOOLEAN, home : BOOLEAN, id : Ids, count : 0 .. MaxItems,
            index : Indices, type : {"NONE", "OFFBOARD"}, takeoff : BOOLEAN,
            need : BOOLEAN, first_run : BOOLEAN, stop : Stops \cup {"none"},
            flown : Seqs \cup {NoSeq}]
Places == [pc : {"idle", "update", "save", "write", "read", "count", "jump", "reach", "publish"},
           next : {"none", "read", "reach", "publish"}, after : {"none", "reach", "publish"},
           cur : BOOLEAN, ptr : Indices, tries : 0 .. MaxTries, rec : Records, item : Items]

CardTypes == saved \in Records /\ store \in [Ids -> [Seqs -> Items]]
ManagerTypes ==
    /\ topic \in Records /\ updated \in BOOLEAN
    /\ manager \in [mission : Missions, new : Records, phase : {"idle", "save", "publish"}]
NavigatorTypes ==
    /\ mission_mode \in BOOLEAN /\ landed \in BOOLEAN /\ m \in Members /\ at \in Places
    /\ result \in Results /\ published \in Results /\ mission_result_updated \in BOOLEAN
CountTypes ==
    /\ taken \in [Ids -> [Seqs -> Nat]] /\ crossed \subseteq Ids \X Seqs /\ free \in BOOLEAN
    /\ publications \in Nat /\ errors \in Nat /\ boots \in Nat

\* Every variable keeps its type; the index of the navigator may be one past
\* the last item and is -1 until a mission is known.
TypeOK == CardTypes /\ ManagerTypes /\ NavigatorTypes /\ CountTypes

\* In the mission mode, whenever the navigator has caught up with what was
\* published: if a mission is flown, its index is that of the item the set
\* point was made from, and that item is in the mission and is no DO_JUMP
\* (set_mission_items, read_mission_item).
FlownItem ==
    (m.type = "OFFBOARD" /\ ~m.first_run /\ ~updated /\ at.pc \in {"idle", "reach"}) =>
        /\ m.flown = m.index /\ m.index \in 0 .. m.count - 1
        /\ store[m.id][m.index].kind = m.stop

\* A DO_JUMP is made at most as often as the mission asks, over losses of power,
\* changes of mode and uploads, and a count on the card that no jump stands for is
\* one that a loss of power cut off.  Not so where an upload replaced the item
\* between its reading and its writing, which no lock forbids: the count of the
\* old mission then lands in the new one (read_mission_item).
JumpsCounted ==
    \A id \in Ids, s \in Seqs : store[id][s].kind = "jump" /\ <<id, s>> \notin crossed =>
        LET pending == IF at.pc = "jump" /\ m.id = id /\ m.index = s THEN 1 ELSE 0
            done == store[id][s].done IN
        /\ done <= store[id][s].repeat
        /\ taken[id][s] <= done /\ done <= taken[id][s] + pending + boots

\* An item is left only after the vehicle has reached it, the takeoff before it
\* not counting, or for a new mission, or because another was uploaded over it, or
\* when the card fails or power is lost (on_active, advance_mission).
NoItemSkipped ==
    [][m'.flown # m.flown /\ m.flown # NoSeq => free \/ errors' > errors \/ boots' > boots]_vars

\* A mission that was published is taken over, as it is or as an empty one,
\* or else the one that followed it, unless power is lost (on_inactive, on_active).
PickedUp ==
    updated ~> \/ topic = Unreadable
               \/ ~updated /\ m.id = topic.dataman_id /\ m.count \in {0, topic.count}

\* As long as the vehicle stays in the mission mode every mission ends, however
\* its DO_JUMPs are laid out, or waits at an item without autocontinue
\* (read_mission_item, advance_mission).
MissionEnds ==
    (<>[]mission_mode) => <>[](m.type = "NONE" \/ (m.stop = "hold" /\ ~m.takeoff))
=============================================================================
