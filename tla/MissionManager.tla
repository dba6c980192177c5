--------------------------- MODULE MissionManager ---------------------------
(***************************************************************************)
(* The mission protocol of the MAVLink links                               *)
(* (src/modules/mavlink/mavlink_mission.cpp).  Each link has its own       *)
(* protocol state; the active mission and the flag that keeps two uploads  *)
(* apart are static members, shared by all links.  Items go to one of two  *)
(* storages of the data manager, and the record that says which of them is *)
(* active is kept over a loss of power.                                    *)
(*                                                                         *)
(* A link's receiver thread runs one handler at a time and sleeps in every *)
(* dm_write; the main thread of the link runs send() meanwhile.  The data  *)
(* manager serves calls in order, so a write takes effect at the call, and *)
(* what the handler does with the answer is a step of its own.             *)
(***************************************************************************)
EXTENDS Integers, Sequences

CONSTANTS Links, Stations, NoStation,
          MaxItems,     \* _max_count, and the items of a storage
          Kinds,        \* bound: what each link receives
          Marks,        \* bound: whether items are marked as current
          Outcomes,     \* of a dm_write: "ok", "fail" or "torn" (record destroyed)
          Preemptive,   \* receivers preempt each other (POSIX) or only while
                        \* one sleeps, in the order they are woken (NuttX)
          MaxTransfers, \* bound: uploads begun
          MaxBoots      \* bound: losses of power

MessageKinds == {"ACK", "SET_CURRENT", "REQUEST_LIST", "REQUEST", "COUNT", "ITEM",
                 "CLEAR_ALL", "RESULT", "TIMEOUT", "RETRY"}

ASSUME MissionAssumption ==
    /\ NoStation \notin Stations
    /\ MaxItems \in Nat \ {0} /\ MaxTransfers \in Nat /\ MaxBoots \in Nat
    /\ Kinds \in [Links -> SUBSET MessageKinds] /\ Marks \subseteq BOOLEAN
    /\ Outcomes \subseteq {"ok", "fail", "torn"}
    /\ Preemptive \in BOOLEAN

VARIABLES
    dataman_id, count, current_seq,     \* the active mission, in memory
    in_progress,                        \* _transfer_in_progress
    saved,                              \* DM_KEY_MISSION_STATE
    store,                              \* the two storages: per item the upload it is of
    link,                               \* members of each link's manager and, for the
                                        \* properties, its upload's number and whether
                                        \* a later MISSION_COUNT told another count
    call,                               \* per link: what the receiver sleeps in
    returns,                            \* receivers sleeping in dm_write, in order
    due,                                \* per link: what its main thread has found due
                                        \* and is about to do
    sent,                               \* messages and topics the last step sent
    transfers, boots

activeVars == <<dataman_id, count, current_seq>>
cardVars == <<saved, store>>
callVars == <<call, returns>>
vars == <<activeVars, in_progress, cardVars, link, callVars, due, sent, transfers, boots>>

Ids == {0, 1}
Seqs == 0 .. MaxItems - 1
NoSeq == -1
Unwritten == 0          \* an item no upload has written since it was last unreadable
Uploads == 1 .. MaxTransfers
Mission(id, n, s) == [dataman_id |-> id, count |-> n, current_seq |-> s]
Missions == [dataman_id : Ids, count : 0 .. MaxItems, current_seq : {NoSeq} \cup Seqs]
Unreadable == Mission(-1, 0, 0)     \* a record dm_read returns no mission from
NoCall == [kind |-> "none"]

\* init_offboard_mission: what a boot makes of the record
Booted == IF saved = Unreadable THEN Mission(0, 0, 0) ELSE saved

\* A manager as its constructor leaves it
NewLink(id) ==
    [state |-> "IDLE", my_id |-> id, t_id |-> 0, t_count |-> 0, t_seq |-> 0,
     t_cur |-> 0, partner |-> NoStation, upload |-> Unwritten]

Init ==
    /\ dataman_id = 0 /\ count = 0 /\ current_seq = 0 /\ in_progress = FALSE
    /\ saved = Unreadable /\ store = [i \in Ids |-> [s \in Seqs |-> Unwritten]]
    /\ link = [l \in Links |-> NewLink(0)]
    /\ call = [l \in Links |-> NoCall] /\ returns = <<>>
    /\ due = [l \in Links |-> "none"]
    /\ sent = {} /\ transfers = 0 /\ boots = 0
-----------------------------------------------------------------------------
(* What is sent *)

Ack(s, type) == [msg |-> "ACK", to |-> s, type |-> type]
Count(s, n) == [msg |-> "COUNT", to |-> s, count |-> n]
Topic(m) == [msg |-> "offboard_mission", mission |-> m]

\* send_mission_request
Request(s, seq) == IF seq < MaxItems THEN {[msg |-> "REQUEST", to |-> s, seq |-> seq]} ELSE {}

\* send_mission_item: the item is read from the active storage
Item(s, seq) ==
    IF seq \in Seqs /\ store[dataman_id][seq] # Unwritten
    THEN {[msg |-> "ITEM", to |-> s, seq |-> seq, of |-> store[dataman_id][seq]]}
    ELSE {Ack(s, "ERROR")}
-----------------------------------------------------------------------------
(* update_active_mission *)

\* Mutant of Inactive: the active storage
SameStorage == dataman_id

Inactive == IF dataman_id = 0 THEN 1 ELSE 0

\* What a dm_write makes of the place that held old
Written(old, new, lost, res) ==
    CASE res = "ok" -> new [] res = "fail" -> old [] res = "torn" -> lost

\* First half: the record is written, the receiver sleeps
save_mission(l, m, why) ==
    \E res \in Outcomes :
        /\ saved' = Written(saved, m, Unreadable, res)
        /\ call' = [call EXCEPT ![l] = [kind |-> "update", mission |-> m,
                                        ok |-> (res = "ok"), why |-> why]]

\* A sleeping receiver runs again
Woken(l) == call[l].kind \in {"item", "update"} /\ (Preemptive \/ Head(returns) = l)
Others(l) ==
    LET i == CHOOSE i \in 1 .. Len(returns) : returns[i] = l
    IN  [j \in 1 .. Len(returns) - 1 |-> returns[IF j < i THEN j ELSE j + 1]]
Resumed(l) == Woken(l) /\ returns' = Others(l)

\* What the caller of update_active_mission answers
UpdateAck(l) ==
    LET answer == IF call[l].ok \/ call[l].why = "zero" THEN "ACCEPTED" ELSE "ERROR" IN
    IF call[l].why = "current" THEN {} ELSE {Ack(link[l].partner, answer)}

\* Mutant of update_active_mission: memory follows whether or not it was saved
update_despite_failure(l) ==
    /\ call[l].kind = "update" /\ Resumed(l)
    /\ LET m == call[l].mission IN
       /\ dataman_id' = m.dataman_id /\ count' = m.count /\ current_seq' = m.current_seq
       /\ link' = [link EXCEPT ![l].my_id = m.dataman_id]
       /\ sent' = {Topic(m)} \cup UpdateAck(l)
    /\ in_progress' = IF call[l].why \in {"zero", "last"} THEN FALSE ELSE in_progress
    /\ call' = [call EXCEPT ![l] = NoCall]
    /\ UNCHANGED <<cardVars, due, transfers, boots>>

\* Second half: memory and navigator learn of the mission if it was saved
update_active_mission(l) ==
    /\ call[l].kind = "update" /\ Resumed(l)
    /\ LET m == call[l].mission IN
       IF call[l].ok
       THEN /\ dataman_id' = m.dataman_id /\ count' = m.count /\ current_seq' = m.current_seq
            /\ link' = [link EXCEPT ![l].my_id = m.dataman_id]
            /\ sent' = {Topic(m)} \cup UpdateAck(l)
       ELSE /\ sent' = UpdateAck(l)
            /\ UNCHANGED <<activeVars, link>>
    /\ in_progress' = IF call[l].why \in {"zero", "last"} THEN FALSE ELSE in_progress
    /\ call' = [call EXCEPT ![l] = NoCall]
    /\ UNCHANGED <<cardVars, due, transfers, boots>>
-----------------------------------------------------------------------------
(* The handlers of the receiver thread *)

Receives(l, kind) == kind \in Kinds[l] /\ call[l] = NoCall

\* A step that changes only the link's own members and sends msgs
LinkStep(l, m, msgs) ==
    /\ link' = [link EXCEPT ![l] = m]
    /\ sent' = msgs
    /\ UNCHANGED <<activeVars, in_progress, cardVars, callVars, due, transfers, boots>>

handle_mission_ack(l, s) ==
    /\ Receives(l, "ACK")
    /\ link[l].partner = s /\ link[l].state = "SENDLIST"
    /\ LinkStep(l, [link[l] EXCEPT !.state = "IDLE"], {})

handle_mission_set_current(l, seq) ==
    /\ Receives(l, "SET_CURRENT")
    /\ link[l].state = "IDLE" /\ seq < count
    /\ save_mission(l, Mission(dataman_id, count, seq), "current")
    /\ returns' = Append(returns, l)
    /\ sent' = {}
    /\ UNCHANGED <<activeVars, in_progress, store, link, due, transfers, boots>>

handle_mission_request_list(l, s) ==
    /\ Receives(l, "REQUEST_LIST")
    /\ link[l].state \in {"IDLE", "SENDLIST"}
    /\ LinkStep(l, [link[l] EXCEPT !.state = "SENDLIST", !.t_seq = 0, !.t_count = count,
                                   !.partner = s], {Count(s, count)})

handle_mission_request(l, s, seq) ==
    /\ Receives(l, "REQUEST")
    /\ link[l].partner = s /\ link[l].state = "SENDLIST"
    /\ LET m == link[l]
           next == seq = m.t_seq /\ m.t_seq < m.t_count
           again == seq = m.t_seq - 1
           asked == IF next THEN [m EXCEPT !.t_seq = @ + 1] ELSE m
       IN  IF (next \/ again) /\ seq < count
           THEN LinkStep(l, asked, Item(s, seq))
           ELSE LinkStep(l, [asked EXCEPT !.state = "IDLE"], {Ack(s, "ERROR")})

\* MISSION_COUNT while an upload is under way, on any link
handle_mission_count_refused(l) ==
    /\ Receives(l, "COUNT")
    /\ link[l].state = "IDLE" /\ in_progress
    /\ LinkStep(l, link[l], {Ack(link[l].partner, "ERROR")})

\* The test of the flag, where another receiver may run before the assignment
handle_mission_count_tested(l, s, n) ==
    /\ Preemptive
    /\ Receives(l, "COUNT")
    /\ link[l].state = "IDLE" /\ ~in_progress
    /\ call' = [call EXCEPT ![l] = [kind |-> "count", from |-> s, count |-> n]]
    /\ sent' = {}
    /\ UNCHANGED <<activeVars, in_progress, cardVars, link, returns, due, transfers, boots>>

\* The rest of handle_mission_count in state IDLE
TakeCount(l, s, n) ==
    \/ /\ n > MaxItems
       /\ sent' = {Ack(link[l].partner, "NO_SPACE")}
       /\ in_progress' = FALSE
       /\ call' = [call EXCEPT ![l] = NoCall]
       /\ UNCHANGED <<saved, returns, link, transfers>>
    \/ /\ n = 0
       /\ save_mission(l, Mission(Inactive, 0, 0), "zero")
       /\ returns' = Append(returns, l)
       /\ in_progress' = TRUE
       /\ sent' = {}
       /\ UNCHANGED <<link, transfers>>
    \/ /\ n \in 1 .. MaxItems /\ transfers < MaxTransfers
       /\ transfers' = transfers + 1
       /\ link' = [link EXCEPT ![l] = [@ EXCEPT
                        !.state = "GETLIST", !.t_seq = 0, !.partner = s, !.t_count = n,
                        !.t_id = Inactive, !.t_cur = NoSeq, !.upload = transfers + 1]]
       /\ sent' = Request(s, 0)
       /\ in_progress' = TRUE
       /\ call' = [call EXCEPT ![l] = NoCall]
       /\ UNCHANGED <<saved, returns>>

\* Mutant of handle_mission_count: the flag is not tested
handle_mission_count_unlocked(l, s, n) ==
    /\ Receives(l, "COUNT") /\ link[l].state = "IDLE"
    /\ TakeCount(l, s, n)
    /\ UNCHANGED <<activeVars, store, due, boots>>

handle_mission_count(l, s, n) ==
    /\ \/ Receives(l, "COUNT") /\ link[l].state = "IDLE" /\ ~in_progress /\ ~Preemptive
       \/ call[l] = [kind |-> "count", from |-> s, count |-> n]
    /\ TakeCount(l, s, n)
    /\ UNCHANGED <<activeVars, store, due, boots>>

\* "looks like our MISSION_REQUEST was lost, try again", whatever it counts
handle_mission_count_again(l) ==
    /\ Receives(l, "COUNT")
    /\ link[l].state = "GETLIST" /\ link[l].t_seq = 0
    /\ LinkStep(l, link[l], Request(link[l].partner, 0))

\* parse_mavlink_mission_item refuses the frame of the expected item
handle_mission_item_invalid(l) ==
    /\ Receives(l, "ITEM")
    /\ link[l].state = "GETLIST"
    /\ link' = [link EXCEPT ![l].state = "IDLE"]
    /\ sent' = {Ack(link[l].partner, "UNSUPPORTED_FRAME")}
    /\ in_progress' = FALSE
    /\ UNCHANGED <<activeVars, cardVars, callVars, due, transfers, boots>>

\* The expected item is written to the transfer's storage
handle_mission_item(l, seq, current) ==
    /\ Receives(l, "ITEM")
    /\ link[l].state = "GETLIST" /\ seq = link[l].t_seq
    /\ \E res \in Outcomes :
          /\ store' = [store EXCEPT ![link[l].t_id][seq] =
                                        Written(@, link[l].upload, Unwritten, res)]
          /\ call' = [call EXCEPT ![l] = [kind |-> "item", seq |-> seq, current |-> current,
                                          ok |-> (res = "ok")]]
    /\ returns' = Append(returns, l)
    /\ sent' = {}
    /\ UNCHANGED <<activeVars, in_progress, saved, link, due, transfers, boots>>

handle_mission_item_unwritten(l) ==
    /\ call[l].kind = "item" /\ ~call[l].ok /\ Resumed(l)
    /\ link' = [link EXCEPT ![l].state = "IDLE"]
    /\ in_progress' = FALSE
    /\ sent' = {Ack(link[l].partner, "ERROR")}
    /\ call' = [call EXCEPT ![l] = NoCall]
    /\ UNCHANGED <<activeVars, cardVars, due, transfers, boots>>

\* The manager once the item is on the card
Received(l) == [link[l] EXCEPT !.t_seq = call[l].seq + 1,
                               !.t_cur = IF call[l].current THEN call[l].seq ELSE @]

\* Mutant of handle_mission_item_next: asks for one item more
handle_mission_item_beyond(l) ==
    /\ call[l].kind = "item" /\ call[l].ok /\ Resumed(l)
    /\ link' = [link EXCEPT ![l] = Received(l)]
    /\ sent' = Request(link[l].partner, call[l].seq + 1)
    /\ call' = [call EXCEPT ![l] = NoCall]
    /\ UNCHANGED <<activeVars, in_progress, cardVars, due, transfers, boots>>

\* More are to come: ask for the next one
handle_mission_item_next(l) ==
    /\ call[l].kind = "item" /\ call[l].ok /\ Resumed(l)
    /\ LET m == Received(l) IN
          /\ m.t_seq # m.t_count
          /\ link' = [link EXCEPT ![l] = m]
          /\ sent' = Request(m.partner, m.t_seq)
    /\ call' = [call EXCEPT ![l] = NoCall]
    /\ UNCHANGED <<activeVars, in_progress, cardVars, due, transfers, boots>>

\* Mutant of handle_mission_item_last: one item too early
handle_mission_item_early(l) ==
    /\ call[l].kind = "item" /\ call[l].ok /\ Woken(l)
    /\ LET m == Received(l) IN
          /\ m.t_seq >= m.t_count - 1
          /\ link' = [link EXCEPT ![l] = [m EXCEPT !.state = "IDLE"]]
          /\ save_mission(l, Mission(m.t_id, m.t_count, m.t_cur), "last")
    /\ returns' = Append(Others(l), l)
    /\ sent' = {}
    /\ UNCHANGED <<activeVars, in_progress, store, due, transfers, boots>>

\* "got all new mission items successfully": the record is written next
handle_mission_item_last(l) ==
    /\ call[l].kind = "item" /\ call[l].ok /\ Woken(l)
    /\ LET m == Received(l) IN
          /\ m.t_seq = m.t_count
          /\ link' = [link EXCEPT ![l] = [m EXCEPT !.state = "IDLE"]]
          /\ save_mission(l, Mission(m.t_id, m.t_count, m.t_cur), "last")
    /\ returns' = Append(Others(l), l)
    /\ sent' = {}
    /\ UNCHANGED <<activeVars, in_progress, store, due, transfers, boots>>

handle_mission_clear_all(l) ==
    /\ Receives(l, "CLEAR_ALL")
    /\ link[l].state = "IDLE"
    /\ save_mission(l, Mission(Inactive, 0, 0), "clear")
    /\ returns' = Append(returns, l)
    /\ sent' = {}
    /\ UNCHANGED <<activeVars, in_progress, store, link, due, transfers, boots>>
-----------------------------------------------------------------------------
(* The main thread: send() and check_active_mission() *)

\* _transfer_seq etc. are read after the tests of _state and of the time, and
\* the receiver may have run in between
Find(l, from, to) ==
    /\ due[l] = from
    /\ due' = [due EXCEPT ![l] = to]
    /\ sent' = {}
    /\ UNCHANGED <<activeVars, in_progress, cardVars, link, callVars, transfers, boots>>

Done(l, msgs) ==
    /\ due' = [due EXCEPT ![l] = "none"]
    /\ sent' = msgs
    /\ UNCHANGED <<activeVars, in_progress, cardVars, callVars, transfers, boots>>

\* Navigator's progress, and the DO_JUMP item it changed if any
mission_result(l, seq, changed) ==
    /\ "RESULT" \in Kinds[l] /\ due[l] = "none"
    /\ current_seq' = seq
    /\ sent' = (IF seq < count THEN {[msg |-> "CURRENT", seq |-> seq]} ELSE {})
               \cup UNION {Item(link[l].partner, i) : i \in changed}
    /\ UNCHANGED <<dataman_id, count, in_progress, cardVars, link, callVars, due,
                   transfers, boots>>

\* _action_timeout has passed since the last message ...
timeout_found(l) ==
    "TIMEOUT" \in Kinds[l] /\ link[l].state # "IDLE" /\ Find(l, "none", "timeout")

\* ... and the state is reset, whatever the receiver did in between
action_timeout(l) ==
    due[l] = "timeout" /\ link' = [link EXCEPT ![l].state = "IDLE"] /\ Done(l, {})

\* _retry_timeout has passed since the last request, count or item ...
retry_found(l) ==
    /\ "RETRY" \in Kinds[l]
    /\ \/ link[l].state = "GETLIST" /\ Find(l, "none", "request")
       \/ link[l].state = "SENDLIST" /\ Find(l, "none", "resend")

resend_found(l) == Find(l, "resend", IF link[l].t_seq = 0 THEN "count" ELSE "item")

\* ... and what is asked or sent again is what the receiver has got to by now
retry(l) ==
    /\ \/ due[l] = "request" /\ Done(l, Request(link[l].partner, link[l].t_seq))
       \/ due[l] = "count" /\ Done(l, {Count(link[l].partner, count)})
       \/ due[l] = "item" /\ Done(l, Item(link[l].partner, link[l].t_seq - 1))
    /\ UNCHANGED link

\* check_active_mission: another link has changed the mission
check_active_mission(l) ==
    /\ due[l] = "none"
    /\ link[l].my_id # dataman_id
    /\ LinkStep(l, [link[l] EXCEPT !.my_id = dataman_id], {Count(link[l].partner, count)})
-----------------------------------------------------------------------------
\* A loss of power: all managers are constructed anew from the record
power_loss ==
    /\ boots < MaxBoots /\ boots' = boots + 1
    /\ dataman_id' = Booted.dataman_id /\ count' = Booted.count
    /\ current_seq' = Booted.current_seq /\ in_progress' = FALSE
    /\ link' = [l \in Links |-> NewLink(Booted.dataman_id)]
    /\ call' = [l \in Links |-> NoCall] /\ returns' = <<>>
    /\ due' = [l \in Links |-> "none"]
    /\ sent' = {}
    /\ UNCHANGED <<cardVars, transfers>>

\* One link and one message of a station, MISSION_SET_CURRENT apart
ReceiveOther(l) ==
    \/ \E s \in Stations :
          \/ handle_mission_ack(l, s)
          \/ handle_mission_request_list(l, s)
          \/ \E q \in Seqs : handle_mission_request(l, s, q)
          \/ \E n \in 0 .. MaxItems + 1 :
                handle_mission_count_tested(l, s, n) \/ handle_mission_count(l, s, n)
    \/ handle_mission_count_refused(l)
    \/ handle_mission_count_again(l)
    \/ \E q \in Seqs, current \in Marks : handle_mission_item(l, q, current)
    \/ handle_mission_item_invalid(l)
    \/ handle_mission_clear_all(l)

Receive(l) == ReceiveOther(l) \/ \E q \in Seqs : handle_mission_set_current(l, q)

Resume(l) ==
    \/ handle_mission_item_unwritten(l)
    \/ handle_mission_item_next(l)
    \/ handle_mission_item_last(l)
    \/ update_active_mission(l)

Send(l) ==
    \/ \E q \in Seqs, changed \in {{}} \cup {{i} : i \in Seqs} : mission_result(l, q, changed)
    \/ timeout_found(l)
    \/ action_timeout(l)
    \/ retry_found(l)
    \/ resend_found(l)
    \/ retry(l)
    \/ check_active_mission(l)

Next == power_loss \/ \E l \in Links : Receive(l) \/ Resume(l) \/ Send(l)

Spec == Init /\ [][Next]_vars

\* Stations in turn: a link is told to set the current item only when memory has
\* taken every mission that any link has saved
Settled ==
    \A l \in Links : call[l].kind = "update" /\ call[l].ok =>
        call[l].mission.dataman_id = dataman_id /\ call[l].mission.count = count
set_current_in_turn(l, q) == Settled /\ handle_mission_set_current(l, q)

NextOrderly ==
    \/ power_loss
    \/ \E l \in Links : \/ ReceiveOther(l)
                        \/ \E q \in Seqs : set_current_in_turn(l, q)
                        \/ Resume(l) \/ Send(l)
SpecOrderly == Init /\ [][NextOrderly]_vars
-----------------------------------------------------------------------------
LinkMembers ==
    [state : {"IDLE", "SENDLIST", "GETLIST"}, my_id : Ids, t_id : Ids,
     t_count : 0 .. MaxItems, t_seq : 0 .. MaxItems, t_cur : {NoSeq} \cup Seqs,
     partner : Stations \cup {NoStation}, upload : {Unwritten} \cup Uploads]
CountCalls == [kind : {"count"}, from : Stations, count : 0 .. MaxItems + 1]
ItemCalls == [kind : {"item"}, seq : Seqs, current : BOOLEAN, ok : BOOLEAN]
UpdateCalls == [kind : {"update"}, mission : Missions, ok : BOOLEAN,
                why : {"current", "zero", "clear", "last"}]

ActiveTypes == dataman_id \in Ids /\ count \in 0 .. MaxItems /\ current_seq \in {NoSeq} \cup Seqs
CardTypes ==
    /\ saved \in Missions \cup {Unreadable}
    /\ store \in [Ids -> [Seqs -> {Unwritten} \cup Uploads]]
LinkTypes ==
    /\ link \in [Links -> LinkMembers]
    /\ call \in [Links -> {NoCall} \cup CountCalls \cup ItemCalls \cup UpdateCalls]
    /\ returns \in Seq(Links)
FlagTypes ==
    /\ in_progress \in BOOLEAN
    /\ due \in [Links -> {"none", "timeout", "request", "resend", "count", "item"}]
    /\ transfers \in 0 .. MaxTransfers /\ boots \in 0 .. MaxBoots

\* Every variable keeps its type: what is in memory, on the card, in a link's
\* members and in a handler that sleeps.
TypeOK == ActiveTypes /\ CardTypes /\ LinkTypes /\ FlagTypes

Uploading(l) == link[l].state = "GETLIST"
Updating(l, why) == call[l].kind = "update" /\ call[l].why \in why

\* Two uploads never run at the same time, over one link or two: an upload
\* holds _transfer_in_progress until its mission is saved or it has failed.
OneTransfer ==
    /\ \A l \in Links : Uploading(l) \/ Updating(l, {"last", "zero"}) => in_progress
    /\ \A l, k \in Links : Uploading(l) /\ Uploading(k) => l = k

\* Every item of the mission the card names as active can be read and they are
\* all of one upload, whatever failed, timed out or was interrupted.
Whole(m) == \A s, q \in 0 .. m.count - 1 :
                store[m.dataman_id][s] = store[m.dataman_id][q] /\ store[m.dataman_id][s] # Unwritten
ActiveComplete == saved # Unreadable => Whole(saved)

\* Items are received into the storage the active mission does not use; when a
\* clear has made it the active one meanwhile the active mission is empty.
InactiveStorage ==
    \A l \in Links : Uploading(l) => link[l].t_id # dataman_id \/ count = 0

\* No call sleeping: what is flown is what the next boot will find, unless the
\* record was destroyed by a failed write.
PersistedMatchesActive ==
    (\A l \in Links : call[l] = NoCall) /\ saved # Unreadable =>
        saved.dataman_id = dataman_id /\ saved.count = count

\* An item is requested only in its turn - it is the one the transfer of a link
\* with that station has got to - and it is one of those announced.  A retry that
\* the receiver has overtaken may ask for the one after the last, never further.
InTurn ==
    \A m \in sent' : m.msg = "REQUEST" =>
        \E l \in Links :
            /\ link'[l].partner = m.to /\ link'[l].t_seq = m.seq
            /\ \/ m.seq < link'[l].t_count
               \/ m.seq = link'[l].t_count /\ due[l] = "request" /\ due'[l] = "none"
RequestsInRange == [][InTurn]_vars
-----------------------------------------------------------------------------
(* What the protocol implements *)

\* An upload under way, or one whose last item is being written after a timeout
Filling(l) == Uploading(l) \/ call[l].kind = "item"

\* The mission a boot would find
OnCard == IF saved = Unreadable THEN <<>>
          ELSE [i \in 1 .. saved.count |-> store[saved.dataman_id][i - 1]]

Store == INSTANCE MissionStore WITH
    mission <- OnCard,
    begun <- transfers,
    open <- \E l \in Links : Filling(l)

\* The protocol implements the store of whole missions: the card holds no mission
\* or one whole upload, each upload becomes the mission at most once, while it is
\* under way, and nothing but a clear takes it away.
ImplementsMissionStore == Store!Spec
=============================================================================
