------------------------ MODULE MissionManagerProofs ------------------------
(***************************************************************************)
(* The mission protocol, for any number of stations, items, uploads,       *)
(* timeouts and power losses, whatever the writes return: types, what is   *)
(* requested, and one upload at a time on NuttX for any number of links;   *)
(* and what one link leaves on the card, on NuttX and on POSIX.            *)
(***************************************************************************)
EXTENDS MissionManager, TLAPS

\* What a call sleeps in is told by its kind
LEMMA CallKinds ==
    ASSUME TypeOK, NEW l \in Links
    PROVE  /\ call[l].kind = "item" => call[l] \in ItemCalls
           /\ call[l].kind = "update" => call[l] \in UpdateCalls
<1>1. call[l] \in {NoCall} \cup CountCalls \cup ItemCalls \cup UpdateCalls
  BY DEF TypeOK, LinkTypes
<1>2. CASE call[l] = NoCall
  BY <1>2 DEF NoCall
<1>3. CASE call[l] \in CountCalls
  BY <1>3 DEF CountCalls
<1>4. CASE call[l] \in ItemCalls
  BY <1>4 DEF ItemCalls
<1>5. CASE call[l] \in UpdateCalls
  BY <1>5 DEF UpdateCalls
<1>6. QED
  BY <1>1, <1>2, <1>3, <1>4, <1>5

\* A receiver that leaves the sleepers leaves a sequence of links
LEMMA OthersType == ASSUME returns \in Seq(Links), NEW l PROVE Others(l) \in Seq(Links)
<1> DEFINE i == CHOOSE i \in 1 .. Len(returns) : returns[i] = l
           R == [j \in 1 .. Len(returns) - 1 |-> returns[IF j < i THEN j ELSE j + 1]]
<1>1. Len(returns) \in Nat /\ \A j \in 1 .. Len(returns) : returns[j] \in Links
  OBVIOUS
<1>2. \A j \in 1 .. Len(returns) - 1 : R[j] \in Links
  <2> SUFFICES ASSUME NEW j \in 1 .. Len(returns) - 1 PROVE R[j] \in Links
      OBVIOUS
  <2>1. j \in 1 .. Len(returns) /\ j + 1 \in 1 .. Len(returns)
    BY <1>1
  <2>2. QED
    BY <2>1, <1>1
<1>3. R \in Seq(Links)
  <2>1. CASE Len(returns) = 0
    <3>1. 1 .. Len(returns) - 1 = 1 .. 0
      BY <2>1
    <3>2. R \in [1 .. 0 -> Links]
      BY <1>2, <3>1
    <3>3. QED
      BY <3>2
  <2>2. CASE Len(returns) # 0
    <3>1. Len(returns) - 1 \in Nat
      BY <1>1, <2>2
    <3>2. R \in [1 .. Len(returns) - 1 -> Links]
      BY <1>2
    <3>3. QED
      BY <3>1, <3>2
  <2>3. QED
    BY <2>1, <2>2
<1>4. QED
  BY <1>3 DEF Others

\* Missions the handlers save are missions
LEMMA MissionsSaved ==
    ASSUME NEW id \in Ids, NEW n \in 0 .. MaxItems, NEW s \in {NoSeq} \cup Seqs
    PROVE  Mission(id, n, s) \in Missions
BY DEF Mission, Missions

\* update_active_mission saves a mission: the record, and the call that sleeps
LEMMA SaveTypes ==
    ASSUME TypeOK, NEW l \in Links, NEW m \in Missions,
           NEW why \in {"current", "zero", "clear", "last"}, save_mission(l, m, why)
    PROVE  /\ saved' \in Missions \cup {Unreadable}
           /\ call' \in [Links -> {NoCall} \cup CountCalls \cup ItemCalls \cup UpdateCalls]
<1>1. PICK res \in Outcomes :
        /\ saved' = Written(saved, m, Unreadable, res)
        /\ call' = [call EXCEPT ![l] = [kind |-> "update", mission |-> m,
                                        ok |-> (res = "ok"), why |-> why]]
  BY DEF save_mission
<1>2. saved' \in Missions \cup {Unreadable}
  BY <1>1, MissionAssumption DEF Written, TypeOK, CardTypes
<1>3. [kind |-> "update", mission |-> m, ok |-> (res = "ok"), why |-> why] \in UpdateCalls
  <2>1. (res = "ok") \in BOOLEAN
    OBVIOUS
  <2>2. QED
    BY <2>1 DEF UpdateCalls
<1>4. QED
  BY <1>1, <1>2, <1>3 DEF TypeOK, LinkTypes

\* What a boot makes of the record is a mission
LEMMA BootedType == TypeOK => Booted \in Missions
BY MissionAssumption DEF TypeOK, CardTypes, Booted, Mission, Missions, Ids, Seqs, NoSeq

\* A handler that changes only its link's members keeps the types
LEMMA LinkStepTypes ==
    ASSUME TypeOK, NEW l \in Links, NEW m \in LinkMembers, NEW msgs, LinkStep(l, m, msgs)
    PROVE  TypeOK'
BY DEF TypeOK, ActiveTypes, CardTypes, LinkTypes, FlagTypes, LinkStep, activeVars, cardVars, callVars

\* The handlers of downloads and of messages that are refused or repeated
LEMMA DownloadTypes ==
    ASSUME TypeOK, NEW l \in Links,
           \/ \E s \in Stations : handle_mission_ack(l, s) \/ handle_mission_request_list(l, s)
           \/ \E s \in Stations, q \in Seqs : handle_mission_request(l, s, q)
           \/ handle_mission_count_refused(l)
           \/ handle_mission_count_again(l)
    PROVE  TypeOK'
<1>1. link[l] \in LinkMembers
  BY DEF TypeOK, LinkTypes
<1>2. ASSUME NEW s \in Stations, handle_mission_ack(l, s) PROVE TypeOK'
  <2>1. [link[l] EXCEPT !.state = "IDLE"] \in LinkMembers
    BY <1>1 DEF LinkMembers
  <2>2. QED
    BY <1>2, <2>1, LinkStepTypes DEF handle_mission_ack
<1>3. ASSUME NEW s \in Stations, handle_mission_request_list(l, s) PROVE TypeOK'
  <2>1. 0 \in 0 .. MaxItems /\ count \in 0 .. MaxItems
    BY MissionAssumption DEF TypeOK, ActiveTypes
  <2>2. [link[l] EXCEPT !.state = "SENDLIST", !.t_seq = 0, !.t_count = count, !.partner = s]
            \in LinkMembers
    BY <1>1, <2>1 DEF LinkMembers
  <2>3. QED
    BY <1>3, <2>2, LinkStepTypes DEF handle_mission_request_list
<1>4. ASSUME NEW s \in Stations, NEW q \in Seqs, handle_mission_request(l, s, q) PROVE TypeOK'
  <2> DEFINE next == q = link[l].t_seq /\ link[l].t_seq < link[l].t_count
             again == q = link[l].t_seq - 1
             asked == IF next THEN [link[l] EXCEPT !.t_seq = @ + 1] ELSE link[l]
  <2>1. asked \in LinkMembers
    <3>1. CASE next
      <4>1. link[l].t_seq + 1 \in 0 .. MaxItems
        BY <1>1, <3>1, MissionAssumption DEF LinkMembers
      <4>2. QED
        BY <1>1, <3>1, <4>1 DEF LinkMembers
    <3>2. CASE ~next
      BY <1>1, <3>2
    <3>3. QED
      BY <3>1, <3>2
  <2>2. [asked EXCEPT !.state = "IDLE"] \in LinkMembers
    BY <2>1 DEF LinkMembers
  <2>3. \/ LinkStep(l, asked, Item(s, q))
        \/ LinkStep(l, [asked EXCEPT !.state = "IDLE"], {Ack(s, "ERROR")})
    BY <1>4 DEF handle_mission_request
  <2> HIDE DEF asked
  <2>4. QED
    BY <2>1, <2>2, <2>3, LinkStepTypes
<1>5. CASE handle_mission_count_refused(l)
  BY <1>1, <1>5, LinkStepTypes DEF handle_mission_count_refused
<1>6. CASE handle_mission_count_again(l)
  BY <1>1, <1>6, LinkStepTypes DEF handle_mission_count_again
<1>7. QED
  BY <1>2, <1>3, <1>4, <1>5, <1>6

\* A handler that saves the record and leaves the rest
LEMMA SavedTypes ==
    ASSUME TypeOK, NEW l \in Links, NEW m \in Missions,
           NEW why \in {"current", "zero", "clear", "last"}, save_mission(l, m, why),
           returns' \in Seq(Links), link' \in [Links -> LinkMembers], in_progress' \in BOOLEAN,
           UNCHANGED <<activeVars, store, due, transfers, boots>>
    PROVE  TypeOK'
<1>1. /\ saved' \in Missions \cup {Unreadable}
      /\ call' \in [Links -> {NoCall} \cup CountCalls \cup ItemCalls \cup UpdateCalls]
  BY SaveTypes
<1>2. QED
  BY <1>1 DEF TypeOK, ActiveTypes, CardTypes, LinkTypes, FlagTypes, activeVars

\* MISSION_COUNT in state IDLE
LEMMA CountTypes ==
    ASSUME TypeOK, NEW l \in Links, NEW s \in Stations, NEW n \in 0 .. MaxItems + 1,
           handle_mission_count_tested(l, s, n) \/ handle_mission_count(l, s, n)
    PROVE  TypeOK'
<1>1. link[l] \in LinkMembers /\ Inactive \in Ids /\ returns \in Seq(Links)
  BY DEF TypeOK, LinkTypes, ActiveTypes, Inactive, Ids
<1>2. CASE handle_mission_count_tested(l, s, n)
  <2>1. [kind |-> "count", from |-> s, count |-> n] \in CountCalls
    BY DEF CountCalls
  <2>2. QED
    BY <1>2, <2>1 DEF handle_mission_count_tested, TypeOK, ActiveTypes, CardTypes, LinkTypes,
                      FlagTypes, activeVars, cardVars
<1>3. CASE handle_mission_count(l, s, n)
  <2>0. TakeCount(l, s, n) /\ UNCHANGED <<activeVars, store, due, boots>>
    BY <1>3 DEF handle_mission_count
  <2>1. CASE n > MaxItems
    <3>1. call' = [call EXCEPT ![l] = NoCall] /\ UNCHANGED <<saved, returns, link, transfers>>
      BY <2>0, <2>1, MissionAssumption DEF TakeCount
    <3>2. in_progress' \in BOOLEAN
      BY <2>0, Zenon DEF TakeCount
    <3>3. QED
      BY <2>0, <3>1, <3>2 DEF TypeOK, ActiveTypes, CardTypes, LinkTypes, FlagTypes, activeVars
  <2>2. CASE n = 0
    <3>1. /\ save_mission(l, Mission(Inactive, 0, 0), "zero")
          /\ returns' = Append(returns, l) /\ UNCHANGED <<link, transfers>>
      BY <2>0, <2>2, MissionAssumption DEF TakeCount
    <3>2. in_progress' \in BOOLEAN
      BY <2>0, <2>2, Zenon DEF TakeCount
    <3>3. Mission(Inactive, 0, 0) \in Missions
      BY <1>1, MissionsSaved, MissionAssumption DEF Seqs
    <3>4. returns' \in Seq(Links)
      BY <1>1, <3>1
    <3>5. link' \in [Links -> LinkMembers]
      BY <3>1 DEF TypeOK, LinkTypes
    <3>6. UNCHANGED <<activeVars, store, due, transfers, boots>>
      BY <2>0, <3>1
    <3>7. QED
      BY <3>1, <3>2, <3>3, <3>4, <3>5, <3>6, SavedTypes
  <2>3. CASE n \in 1 .. MaxItems
    <3> DEFINE up == [link[l] EXCEPT !.state = "GETLIST", !.t_seq = 0, !.partner = s,
                          !.t_count = n, !.t_id = Inactive, !.t_cur = NoSeq,
                          !.upload = transfers + 1]
    <3>1. /\ transfers < MaxTransfers /\ transfers' = transfers + 1
          /\ link' = [link EXCEPT ![l] = up] /\ call' = [call EXCEPT ![l] = NoCall]
          /\ UNCHANGED <<saved, returns>>
      BY <2>0, <2>3, MissionAssumption DEF TakeCount
    <3>2. in_progress' \in BOOLEAN
      BY <2>0, <2>3, Zenon DEF TakeCount
    <3>3. transfers + 1 \in Uploads /\ transfers' \in 0 .. MaxTransfers
      BY <3>1, MissionAssumption DEF Uploads, TypeOK, FlagTypes
    <3>5. 0 \in 0 .. MaxItems /\ n \in 0 .. MaxItems
      BY <2>3, MissionAssumption
    <3>4. up \in LinkMembers
      BY <1>1, <3>3, <3>5 DEF LinkMembers
    <3> HIDE DEF up
    <3>6. QED
      BY <2>0, <3>1, <3>2, <3>3, <3>4 DEF TypeOK, ActiveTypes, CardTypes, LinkTypes, FlagTypes, activeVars
  <2>4. QED
    BY <2>1, <2>2, <2>3, MissionAssumption
<1>4. QED
  BY <1>2, <1>3

\* An item arrives: it is written, and what follows when it was
LEMMA ItemTypes ==
    ASSUME TypeOK, NEW l \in Links,
           \/ \E q \in Seqs, current \in Marks : handle_mission_item(l, q, current)
           \/ handle_mission_item_invalid(l)
           \/ handle_mission_item_unwritten(l) \/ handle_mission_item_next(l)
           \/ handle_mission_item_last(l)
    PROVE  TypeOK'
<1>1. link[l] \in LinkMembers /\ returns \in Seq(Links)
  BY DEF TypeOK, LinkTypes
<1>2. [link[l] EXCEPT !.state = "IDLE"] \in LinkMembers
  BY <1>1 DEF LinkMembers
<1>3. Others(l) \in Seq(Links)
  BY <1>1, OthersType
<1>4. ASSUME NEW q \in Seqs, NEW current \in Marks, handle_mission_item(l, q, current)
      PROVE  TypeOK'
  <2>1. PICK res \in Outcomes :
          /\ store' = [store EXCEPT ![link[l].t_id][q] = Written(@, link[l].upload, Unwritten, res)]
          /\ call' = [call EXCEPT ![l] = [kind |-> "item", seq |-> q, current |-> current,
                                          ok |-> (res = "ok")]]
    BY <1>4 DEF handle_mission_item
  <2>2. link[l].t_id \in Ids /\ link[l].upload \in {Unwritten} \cup Uploads
    BY <1>1 DEF LinkMembers
  <2>3. store' \in [Ids -> [Seqs -> {Unwritten} \cup Uploads]]
    <3>1. store[link[l].t_id][q] \in {Unwritten} \cup Uploads
      BY <2>2 DEF TypeOK, CardTypes
    <3>2. Written(store[link[l].t_id][q], link[l].upload, Unwritten, res) \in {Unwritten} \cup Uploads
      BY <2>2, <3>1, MissionAssumption DEF Written
    <3>3. QED
      BY <2>1, <2>2, <3>2 DEF TypeOK, CardTypes
  <2>4. [kind |-> "item", seq |-> q, current |-> current, ok |-> (res = "ok")] \in ItemCalls
    <3>1. (res = "ok") \in BOOLEAN /\ current \in BOOLEAN
      BY MissionAssumption
    <3>2. QED
      BY <3>1 DEF ItemCalls
  <2>5. QED
    BY <1>1, <1>4, <2>1, <2>3, <2>4 DEF handle_mission_item, TypeOK, ActiveTypes, CardTypes,
                                        LinkTypes, FlagTypes, activeVars
<1>5. CASE handle_mission_item_invalid(l)
  <2>1. in_progress' \in BOOLEAN
    BY <1>5, Zenon DEF handle_mission_item_invalid
  <2>2. QED
    BY <1>2, <1>5, <2>1 DEF handle_mission_item_invalid, TypeOK, ActiveTypes, CardTypes,
                            LinkTypes, FlagTypes, activeVars, cardVars, callVars
<1>6. CASE handle_mission_item_unwritten(l)
  <2>1. in_progress' \in BOOLEAN
    BY <1>6, Zenon DEF handle_mission_item_unwritten
  <2>2. returns' \in Seq(Links)
    BY <1>3, <1>6 DEF handle_mission_item_unwritten, Resumed
  <2>3. QED
    BY <1>2, <1>6, <2>1, <2>2 DEF handle_mission_item_unwritten, TypeOK, ActiveTypes, CardTypes,
                                  LinkTypes, FlagTypes, activeVars, cardVars
<1>7. ASSUME call[l].kind = "item"
      PROVE  /\ Received(l) \in LinkMembers
             /\ [Received(l) EXCEPT !.state = "IDLE"] \in LinkMembers
  <2>1. call[l] \in ItemCalls
    BY <1>7, CallKinds
  <2>2. call[l].seq \in Seqs
    BY <2>1 DEF ItemCalls
  <2>3. call[l].seq + 1 \in 0 .. MaxItems
    BY <2>2, MissionAssumption DEF Seqs
  <2>4. (IF call[l].current THEN call[l].seq ELSE link[l].t_cur) \in {NoSeq} \cup Seqs
    BY <1>1, <2>2 DEF LinkMembers
  <2>5. Received(l) \in LinkMembers
    BY <1>1, <2>3, <2>4 DEF LinkMembers, Received
  <2>6. QED
    BY <2>5 DEF LinkMembers
<1>8. CASE handle_mission_item_next(l)
  <2>1. Received(l) \in LinkMembers /\ link' = [link EXCEPT ![l] = Received(l)]
    BY <1>7, <1>8 DEF handle_mission_item_next
  <2>2. returns' \in Seq(Links)
    BY <1>3, <1>8 DEF handle_mission_item_next, Resumed
  <2>3. QED
    BY <1>8, <2>1, <2>2 DEF handle_mission_item_next, TypeOK, ActiveTypes, CardTypes,
                            LinkTypes, FlagTypes, activeVars, cardVars
<1>9. CASE handle_mission_item_last(l)
  <2> DEFINE r == Received(l)
  <2>1. call[l].kind = "item"
    BY <1>9 DEF handle_mission_item_last
  <2>2. /\ r \in LinkMembers /\ [r EXCEPT !.state = "IDLE"] \in LinkMembers
    BY <1>7, <2>1
  <2>3. /\ link' = [link EXCEPT ![l] = [r EXCEPT !.state = "IDLE"]]
        /\ save_mission(l, Mission(r.t_id, r.t_count, r.t_cur), "last")
        /\ returns' = Append(Others(l), l)
        /\ UNCHANGED <<activeVars, in_progress, store, due, transfers, boots>>
    BY <1>9 DEF handle_mission_item_last
  <2> HIDE DEF r
  <2>4. Mission(r.t_id, r.t_count, r.t_cur) \in Missions
    <3>1. r.t_id \in Ids /\ r.t_count \in 0 .. MaxItems /\ r.t_cur \in {NoSeq} \cup Seqs
      BY <2>2 DEF LinkMembers
    <3>2. QED
      BY <3>1, MissionsSaved
  <2>5. link' \in [Links -> LinkMembers]
    BY <2>2, <2>3 DEF TypeOK, LinkTypes
  <2>6. returns' \in Seq(Links)
    BY <1>3, <2>3
  <2>7. in_progress' \in BOOLEAN /\ UNCHANGED <<activeVars, store, due, transfers, boots>>
    BY <2>3 DEF TypeOK, FlagTypes
  <2>8. QED
    BY <2>3, <2>4, <2>5, <2>6, <2>7, SavedTypes
<1>10. QED
  BY <1>4, <1>5, <1>6, <1>8, <1>9

\* The mission is changed: SET_CURRENT, CLEAR_ALL, and the answer of the card
LEMMA UpdateTypes ==
    ASSUME TypeOK, NEW l \in Links,
           \/ \E q \in Seqs : handle_mission_set_current(l, q)
           \/ handle_mission_clear_all(l) \/ update_active_mission(l)
    PROVE  TypeOK'
<1>1. /\ link \in [Links -> LinkMembers] /\ returns \in Seq(Links) /\ in_progress \in BOOLEAN
      /\ dataman_id \in Ids /\ count \in 0 .. MaxItems
  BY DEF TypeOK, ActiveTypes, LinkTypes, FlagTypes
<1>2. ASSUME NEW q \in Seqs, handle_mission_set_current(l, q) PROVE TypeOK'
  <2>1. Mission(dataman_id, count, q) \in Missions
    BY <1>1, MissionsSaved
  <2>2. returns' \in Seq(Links) /\ link' \in [Links -> LinkMembers] /\ in_progress' \in BOOLEAN
    BY <1>1, <1>2 DEF handle_mission_set_current
  <2>3. /\ save_mission(l, Mission(dataman_id, count, q), "current")
        /\ UNCHANGED <<activeVars, store, due, transfers, boots>>
    BY <1>2 DEF handle_mission_set_current
  <2>4. QED
    BY <2>1, <2>2, <2>3, SavedTypes
<1>3. CASE handle_mission_clear_all(l)
  <2>1. Mission(Inactive, 0, 0) \in Missions
    <3>1. Inactive \in Ids /\ 0 \in 0 .. MaxItems /\ 0 \in {NoSeq} \cup Seqs
      BY MissionAssumption DEF Inactive, Ids, Seqs
    <3>2. QED
      BY <3>1, MissionsSaved
  <2>2. returns' \in Seq(Links) /\ link' \in [Links -> LinkMembers] /\ in_progress' \in BOOLEAN
    BY <1>1, <1>3 DEF handle_mission_clear_all
  <2>3. /\ save_mission(l, Mission(Inactive, 0, 0), "clear")
        /\ UNCHANGED <<activeVars, store, due, transfers, boots>>
    BY <1>3 DEF handle_mission_clear_all
  <2>4. QED
    BY <2>1, <2>2, <2>3, SavedTypes
<1>4. CASE update_active_mission(l)
  <2> DEFINE m == call[l].mission
  <2>1. call[l] \in UpdateCalls
    BY <1>4, CallKinds DEF update_active_mission
  <2>2. m \in Missions
    BY <2>1 DEF UpdateCalls
  <2>3. m.dataman_id \in Ids /\ m.count \in 0 .. MaxItems /\ m.current_seq \in {NoSeq} \cup Seqs
    BY <2>2 DEF Missions
  <2>4. [link[l] EXCEPT !.my_id = m.dataman_id] \in LinkMembers
    BY <1>1, <2>3 DEF LinkMembers
  <2>5. /\ \/ /\ dataman_id' = m.dataman_id /\ count' = m.count /\ current_seq' = m.current_seq
              /\ link' = [link EXCEPT ![l] = [link[l] EXCEPT !.my_id = m.dataman_id]]
           \/ UNCHANGED <<activeVars, link>>
        /\ call' = [call EXCEPT ![l] = NoCall] /\ returns' = Others(l)
        /\ UNCHANGED <<cardVars, due, transfers, boots>>
    BY <1>1, <1>4 DEF update_active_mission, Resumed
  <2>6. in_progress' \in BOOLEAN
    <3>1. in_progress' = IF call[l].why \in {"zero", "last"} THEN FALSE ELSE in_progress
      BY <1>4 DEF update_active_mission
    <3>2. QED
      BY <1>1, <3>1, Zenon
  <2>7. returns' \in Seq(Links)
    BY <1>1, <2>5, OthersType
  <2> HIDE DEF m
  <2>8. ActiveTypes' /\ link' \in [Links -> LinkMembers]
    BY <1>1, <2>3, <2>4, <2>5 DEF ActiveTypes, activeVars, TypeOK
  <2>9. QED
    BY <2>5, <2>6, <2>7, <2>8 DEF TypeOK, CardTypes, LinkTypes, FlagTypes, cardVars
<1>5. QED
  BY <1>2, <1>3, <1>4

\* What the main thread finds due, asks and sends again: the links keep their members
LEMMA MainSteps ==
    ASSUME NEW l, timeout_found(l) \/ retry_found(l) \/ resend_found(l) \/ retry(l)
    PROVE  UNCHANGED <<link, activeVars, in_progress, cardVars, callVars, transfers, boots>>
BY DEF timeout_found, retry_found, resend_found, retry, Find, Done

\* The main thread
LEMMA SendTypes == ASSUME TypeOK, NEW l \in Links, Send(l) PROVE TypeOK'
<1>1. link[l] \in LinkMembers /\ [link[l] EXCEPT !.state = "IDLE"] \in LinkMembers
  BY DEF TypeOK, LinkTypes, LinkMembers
<1>2. ASSUME NEW q \in Seqs, NEW changed, mission_result(l, q, changed) PROVE TypeOK'
  BY <1>2 DEF mission_result, TypeOK, ActiveTypes, CardTypes, LinkTypes, FlagTypes, cardVars, callVars
<1>3. ASSUME due' \in [Links -> {"none", "timeout", "request", "resend", "count", "item"}],
             link' \in [Links -> LinkMembers],
             UNCHANGED <<activeVars, in_progress, cardVars, callVars, transfers, boots>>
      PROVE  TypeOK'
  BY <1>3 DEF TypeOK, ActiveTypes, CardTypes, LinkTypes, FlagTypes, activeVars, cardVars, callVars
<1>4. CASE timeout_found(l) \/ retry_found(l) \/ resend_found(l) \/ retry(l)
  <2>1. link' = link /\ UNCHANGED <<activeVars, in_progress, cardVars, callVars, transfers, boots>>
    BY <1>4, MainSteps
  <2>2. due' \in [Links -> {"none", "timeout", "request", "resend", "count", "item"}]
    BY <1>4 DEF timeout_found, retry_found, resend_found, retry, Find, Done, TypeOK, FlagTypes
  <2>3. QED
    BY <1>3, <2>1, <2>2 DEF TypeOK, LinkTypes
<1>5. CASE action_timeout(l)
  BY <1>1, <1>3, <1>5 DEF action_timeout, Done, TypeOK, LinkTypes, FlagTypes
<1>6. CASE check_active_mission(l)
  <2>1. [link[l] EXCEPT !.my_id = dataman_id] \in LinkMembers
    BY <1>1 DEF LinkMembers, TypeOK, ActiveTypes
  <2>2. QED
    BY <1>6, <2>1, LinkStepTypes DEF check_active_mission
<1>7. QED
  BY <1>2, <1>4, <1>5, <1>6 DEF Send

\* Power is lost
LEMMA PowerTypes == ASSUME TypeOK, power_loss PROVE TypeOK'
<1>1. Booted.dataman_id \in Ids /\ Booted.count \in 0 .. MaxItems
      /\ Booted.current_seq \in {NoSeq} \cup Seqs
  BY BootedType DEF Missions
<1>2. NewLink(Booted.dataman_id) \in LinkMembers
  BY <1>1, MissionAssumption DEF NewLink, LinkMembers, Ids, Seqs
<1>3. /\ in_progress' \in BOOLEAN
      /\ due' \in [Links -> {"none", "timeout", "request", "resend", "count", "item"}]
  BY Zenon DEF power_loss
<1>4. returns' \in Seq(Links) /\ boots' \in 0 .. MaxBoots
  BY MissionAssumption DEF power_loss, TypeOK, FlagTypes
<1>5. QED
  BY <1>1, <1>2, <1>3, <1>4 DEF power_loss, TypeOK, ActiveTypes, CardTypes, LinkTypes,
                                FlagTypes, cardVars

\* The initial state is well typed
LEMMA TypeInit == Init => TypeOK
<1> SUFFICES ASSUME Init PROVE TypeOK
    OBVIOUS
<1>1. NewLink(0) \in LinkMembers
  BY MissionAssumption DEF NewLink, LinkMembers, Ids, Seqs
<1>2. /\ in_progress \in BOOLEAN
      /\ due \in [Links -> {"none", "timeout", "request", "resend", "count", "item"}]
  BY Zenon DEF Init
<1>3. ActiveTypes
  BY MissionAssumption DEF Init, ActiveTypes, Ids, Seqs
<1>4. QED
  BY <1>1, <1>2, <1>3, MissionAssumption DEF Init, TypeOK, CardTypes, LinkTypes, FlagTypes

\* Every step keeps the types
LEMMA TypeStep == TypeOK /\ [Next]_vars => TypeOK'
<1> SUFFICES ASSUME TypeOK, [Next]_vars PROVE TypeOK'
    OBVIOUS
<1>1. CASE power_loss
  BY <1>1, PowerTypes
<1>2. ASSUME NEW l \in Links, Receive(l) PROVE TypeOK'
  <2>1. ASSUME NEW s \in Stations, NEW n \in 0 .. MaxItems + 1,
               handle_mission_count_tested(l, s, n) \/ handle_mission_count(l, s, n)
        PROVE  TypeOK'
    BY <2>1, CountTypes
  <2>2. QED
    BY <1>2, <2>1, DownloadTypes, ItemTypes, UpdateTypes DEF Receive, ReceiveOther
<1>3. ASSUME NEW l \in Links, Resume(l) PROVE TypeOK'
  BY <1>3, ItemTypes, UpdateTypes DEF Resume
<1>4. CASE UNCHANGED vars
  BY <1>4 DEF vars, activeVars, cardVars, callVars, TypeOK, ActiveTypes, CardTypes, LinkTypes, FlagTypes
<1>5. QED
  BY <1>1, <1>2, <1>3, <1>4, SendTypes DEF Next

\* Type correctness of the mission protocol: what is in memory, on the card and in
\* the handlers that sleep are missions and items, in every behaviour.
THEOREM TypeCorrect == Spec => []TypeOK
<1>1. Init => TypeOK
  BY TypeInit
<1>2. TypeOK /\ [Next]_vars => TypeOK'
  BY TypeStep
<1>3. QED
  BY <1>1, <1>2, PTL DEF Spec
-----------------------------------------------------------------------------
(* One upload at a time, where the receivers run one after the other *)

\* A link that has begun an upload, or the clearing MISSION_COUNT of 0, and has
\* not finished it, whether or not it has timed out meanwhile
Busy(l) == Uploading(l) \/ call[l].kind = "item" \/ Updating(l, {"last", "zero"})

\* No receiver stops between the test of the flag and its assignment; a busy
\* link holds the flag; there is one; a link that saves a record receives nothing
OnNuttX == \A l \in Links : call[l].kind # "count"
BusyHolds == \A l \in Links : Busy(l) => in_progress
OneBusy == \A l, k \in Links : Busy(l) /\ Busy(k) => l = k
SavingIsIdle == \A l \in Links : call[l].kind = "update" => ~Uploading(l)

IInv == OnNuttX /\ BusyHolds /\ OneBusy /\ SavingIsIdle

\* One link changes, becomes no busier, and the flag is not cleared
LEMMA KeptBusy ==
    ASSUME TypeOK, IInv, NEW l \in Links,
           \A k \in Links \ {l} : link'[k].state = link[k].state /\ call'[k] = call[k],
           Uploading(l)' \/ call'[l].kind = "item" \/ Updating(l, {"last", "zero"})' => Busy(l),
           call'[l].kind # "count", call'[l].kind = "update" => ~Uploading(l)',
           in_progress' = in_progress \/ (in_progress' = FALSE /\ ~Busy(l)')
    PROVE  (in_progress' = in_progress \/ Busy(l) \/ \A k \in Links : ~Busy(k)) => IInv'
<1>1. \A k \in Links : Busy(k)' => Busy(k)
  BY DEF Busy, Uploading, Updating
<1>2. OnNuttX' /\ SavingIsIdle'
  BY DEF IInv, OnNuttX, SavingIsIdle, Uploading
<1>3. OneBusy'
  BY <1>1 DEF IInv, OneBusy
<1>4. ASSUME in_progress' = in_progress \/ Busy(l) \/ \A k \in Links : ~Busy(k)
      PROVE  BusyHolds'
  BY <1>1, <1>4 DEF IInv, BusyHolds, OneBusy
<1>5. QED
  BY <1>2, <1>3, <1>4 DEF IInv

\* Downloads, refusals, repetitions
LEMMA DownloadBusy ==
    ASSUME TypeOK, IInv, NEW l \in Links,
           \/ \E s \in Stations : handle_mission_ack(l, s) \/ handle_mission_request_list(l, s)
           \/ \E s \in Stations, q \in Seqs : handle_mission_request(l, s, q)
           \/ handle_mission_count_refused(l)
           \/ handle_mission_count_again(l)
           \/ check_active_mission(l)
    PROVE  IInv'
<1>1. \A k \in Links \ {l} : link'[k] = link[k]
  BY DEF handle_mission_ack, handle_mission_request_list, handle_mission_request,
         handle_mission_count_refused, handle_mission_count_again,
         check_active_mission, LinkStep, TypeOK, LinkTypes
<1>2. call' = call /\ in_progress' = in_progress
  BY DEF handle_mission_ack, handle_mission_request_list, handle_mission_request,
         handle_mission_count_refused, handle_mission_count_again,
         check_active_mission, LinkStep, callVars
<1>3. Uploading(l)' => Uploading(l)
  BY ZenonT(60) DEF handle_mission_ack, handle_mission_request_list, handle_mission_request,
         handle_mission_count_refused, handle_mission_count_again,
         check_active_mission, LinkStep, TypeOK, LinkTypes, LinkMembers, Uploading
<1>4. QED
  BY <1>1, <1>2, <1>3, KeptBusy DEF IInv, OnNuttX, SavingIsIdle, Busy, Updating

\* MISSION_COUNT begins an upload when the flag is not set, so that no link is busy
LEMMA CountBusy ==
    ASSUME TypeOK, IInv, ~Preemptive, NEW l \in Links, NEW s \in Stations,
           NEW n \in 0 .. MaxItems + 1,
           handle_mission_count_tested(l, s, n) \/ handle_mission_count(l, s, n)
    PROVE  IInv'
<1>1. call[l] # [kind |-> "count", from |-> s, count |-> n]
  BY DEF IInv, OnNuttX
<1>2. ~in_progress /\ call[l] = NoCall /\ link[l].state = "IDLE" /\ TakeCount(l, s, n)
  BY <1>1 DEF handle_mission_count_tested, handle_mission_count, Receives
<1>3. \A k \in Links : ~Busy(k)
  BY <1>2 DEF IInv, BusyHolds
<1>4. \A k \in Links \ {l} : link'[k] = link[k] /\ call'[k] = call[k]
  BY <1>2 DEF TakeCount, save_mission, TypeOK, LinkTypes
<1>5. \A k \in Links \ {l} : ~Busy(k)'
  BY <1>3, <1>4 DEF Busy, Uploading, Updating
<1>6. CASE call' = [call EXCEPT ![l] = NoCall] /\ link' = link
  <2>1. call'[l] = NoCall /\ ~Uploading(l)'
    BY <1>2, <1>6 DEF TypeOK, LinkTypes, Uploading
  <2>2. ~Busy(l)'
    BY <2>1 DEF Busy, Updating, NoCall
  <2>3. QED
    BY <1>4, <1>5, <2>1, <2>2 DEF IInv, OnNuttX, BusyHolds, OneBusy, SavingIsIdle, NoCall, Uploading
<1>7. CASE save_mission(l, Mission(Inactive, 0, 0), "zero") /\ in_progress' /\ link' = link
  <2>1. call'[l].kind = "update" /\ ~Uploading(l)'
    BY <1>2, <1>7 DEF save_mission, TypeOK, LinkTypes, Uploading
  <2>2. QED
    BY <1>4, <1>5, <1>7, <2>1 DEF IInv, OnNuttX, BusyHolds, OneBusy, SavingIsIdle, Uploading
<1>8. CASE call' = [call EXCEPT ![l] = NoCall] /\ in_progress'
  <2>1. call'[l] = NoCall
    BY <1>8 DEF TypeOK, LinkTypes
  <2>2. QED
    BY <1>4, <1>5, <1>8, <2>1 DEF IInv, OnNuttX, BusyHolds, OneBusy, SavingIsIdle, NoCall, Uploading
<1>9. \/ call' = [call EXCEPT ![l] = NoCall] /\ link' = link
      \/ save_mission(l, Mission(Inactive, 0, 0), "zero") /\ in_progress' /\ link' = link
      \/ call' = [call EXCEPT ![l] = NoCall] /\ in_progress'
  BY <1>2, Zenon DEF TakeCount
<1>10. QED
  BY <1>6, <1>7, <1>8, <1>9

\* An item is written, refused or followed by the next or by the record: the link
\* was busy, and clears the flag only when it no longer is
LEMMA ItemBusy ==
    ASSUME TypeOK, IInv, NEW l \in Links,
           \/ \E q \in Seqs, current \in Marks : handle_mission_item(l, q, current)
           \/ handle_mission_item_invalid(l)
           \/ handle_mission_item_unwritten(l) \/ handle_mission_item_next(l)
           \/ handle_mission_item_last(l)
    PROVE  IInv'
<1>1. ASSUME NEW q \in Seqs, NEW current \in Marks, handle_mission_item(l, q, current)
      PROVE  IInv'
  <2>1. Busy(l) /\ link' = link /\ in_progress' = in_progress
    BY <1>1 DEF handle_mission_item, Busy, Uploading
  <2>2. call'[l].kind = "item" /\ \A k \in Links \ {l} : call'[k] = call[k]
    BY <1>1 DEF handle_mission_item, TypeOK, LinkTypes
  <2>3. QED
    BY <2>1, <2>2, KeptBusy
<1>2. CASE handle_mission_item_invalid(l)
  <2>1. Busy(l) /\ call' = call /\ call[l] = NoCall
    BY <1>2 DEF handle_mission_item_invalid, Receives, callVars, Busy, Uploading
  <2>2. link'[l].state = "IDLE" /\ \A k \in Links \ {l} : link'[k] = link[k]
    BY <1>2 DEF handle_mission_item_invalid, TypeOK, LinkTypes, LinkMembers
  <2>3. ~Busy(l)'
    BY <2>1, <2>2 DEF Busy, Uploading, Updating, NoCall
  <2>4. in_progress' = FALSE
    BY <1>2 DEF handle_mission_item_invalid
  <2>5. call'[l].kind # "count" /\ call'[l].kind # "update"
    BY <2>1 DEF NoCall
  <2>6. QED
    BY <2>1, <2>2, <2>3, <2>4, <2>5, KeptBusy
<1>3. CASE handle_mission_item_unwritten(l)
  <2>1. Busy(l)
    BY <1>3 DEF handle_mission_item_unwritten, Busy
  <2>2. /\ link'[l].state = "IDLE" /\ call'[l] = NoCall
        /\ \A k \in Links \ {l} : link'[k] = link[k] /\ call'[k] = call[k]
    BY <1>3 DEF handle_mission_item_unwritten, TypeOK, LinkTypes, LinkMembers
  <2>3. ~Busy(l)'
    BY <2>2 DEF Busy, Uploading, Updating, NoCall
  <2>4. in_progress' = FALSE
    BY <1>3 DEF handle_mission_item_unwritten
  <2>5. call'[l].kind # "count" /\ call'[l].kind # "update"
    BY <2>2 DEF NoCall
  <2>6. QED
    BY <2>1, <2>2, <2>3, <2>4, <2>5, KeptBusy
<1>4. CASE handle_mission_item_next(l)
  <2>1. Busy(l) /\ in_progress' = in_progress
    BY <1>4 DEF handle_mission_item_next, Busy
  <2>2. /\ call'[l] = NoCall
        /\ \A k \in Links \ {l} : link'[k] = link[k] /\ call'[k] = call[k]
    BY <1>4 DEF handle_mission_item_next, TypeOK, LinkTypes
  <2>3. QED
    BY <2>1, <2>2, KeptBusy DEF NoCall
<1>5. CASE handle_mission_item_last(l)
  <2>1. Busy(l) /\ in_progress' = in_progress
    BY <1>5 DEF handle_mission_item_last, Busy
  <2>2. link[l] \in LinkMembers /\ [Received(l) EXCEPT !.state = "IDLE"].state = "IDLE"
    BY DEF Received, TypeOK, LinkTypes, LinkMembers
  <2>3. /\ link'[l].state = "IDLE"
        /\ \A k \in Links \ {l} : link'[k] = link[k] /\ call'[k] = call[k]
        /\ call'[l].kind = "update"
    BY <1>5, <2>2 DEF handle_mission_item_last, save_mission, TypeOK, LinkTypes
  <2>4. QED
    BY <2>1, <2>3, KeptBusy DEF Uploading
<1>6. QED
  BY <1>1, <1>2, <1>3, <1>4, <1>5

\* SET_CURRENT and CLEAR_ALL save a record without being uploads; the answer of
\* the card ends an upload, and then its flag is cleared
LEMMA UpdateBusy ==
    ASSUME TypeOK, IInv, NEW l \in Links,
           \/ \E q \in Seqs : handle_mission_set_current(l, q)
           \/ handle_mission_clear_all(l) \/ update_active_mission(l)
    PROVE  IInv'
<1>1. CASE handle_mission_clear_all(l) \/ \E q \in Seqs : handle_mission_set_current(l, q)
  <2>1. link' = link /\ in_progress' = in_progress /\ link[l].state = "IDLE"
    BY <1>1 DEF handle_mission_set_current, handle_mission_clear_all
  <2>2. /\ call'[l].kind = "update" /\ call'[l].why \in {"current", "clear"}
        /\ \A k \in Links \ {l} : call'[k] = call[k]
    BY <1>1 DEF handle_mission_set_current, handle_mission_clear_all, save_mission, TypeOK, LinkTypes
  <2>3. QED
    BY <2>1, <2>2, KeptBusy DEF Uploading, Updating
<1>2. CASE update_active_mission(l)
  <2>1. call[l].kind = "update" /\ call[l] \in UpdateCalls /\ ~Uploading(l)
    BY <1>2, CallKinds DEF update_active_mission, IInv, SavingIsIdle
  <2>2. /\ link'[l].state = link[l].state /\ call'[l] = NoCall
        /\ \A k \in Links \ {l} : link'[k] = link[k] /\ call'[k] = call[k]
    BY <1>2 DEF update_active_mission, TypeOK, LinkTypes, LinkMembers
  <2>3. ~Busy(l)'
    BY <2>1, <2>2 DEF Busy, Uploading, Updating, NoCall
  <2>4. CASE call[l].why \in {"zero", "last"}
    <3>1. Busy(l) /\ in_progress' = FALSE
      BY <1>2, <2>1, <2>4 DEF update_active_mission, Busy, Updating
    <3>2. call'[l].kind # "count" /\ call'[l].kind # "update"
      BY <2>2 DEF NoCall
    <3>3. QED
      BY <2>2, <2>3, <3>1, <3>2, KeptBusy
  <2>5. CASE call[l].why \notin {"zero", "last"}
    <3>1. in_progress' = in_progress
      BY <1>2, <2>5 DEF update_active_mission
    <3>2. QED
      BY <2>2, <2>3, <3>1, KeptBusy DEF NoCall, Busy
  <2>6. QED
    BY <2>4, <2>5
<1>3. QED
  BY <1>1, <1>2

\* The main thread resets a state and never the flag
LEMMA SendBusy == ASSUME TypeOK, IInv, NEW l \in Links, Send(l) PROVE IInv'
<1>1. CASE \/ timeout_found(l) \/ retry_found(l) \/ resend_found(l) \/ retry(l)
           \/ \E q \in Seqs, changed \in {{}} \cup {{i} : i \in Seqs} : mission_result(l, q, changed)
  <2>1. link' = link /\ call' = call /\ in_progress' = in_progress
    BY <1>1, MainSteps DEF mission_result, callVars
  <2>2. QED
    BY <2>1 DEF IInv, OnNuttX, BusyHolds, OneBusy, SavingIsIdle, Busy, Uploading, Updating
<1>2. CASE action_timeout(l)
  <2>1. call' = call /\ in_progress' = in_progress
    BY <1>2 DEF action_timeout, Done, callVars
  <2>2. link'[l].state = "IDLE" /\ \A k \in Links \ {l} : link'[k] = link[k]
    BY <1>2 DEF action_timeout, TypeOK, LinkTypes, LinkMembers
  <2>3. QED
    BY <2>1, <2>2, KeptBusy DEF IInv, OnNuttX, Busy, Uploading, Updating
<1>3. QED
  BY <1>1, <1>2, DownloadBusy DEF Send

\* Every step keeps the invariant where a receiver is not preempted
LEMMA IInvStep == ASSUME ~Preemptive PROVE TypeOK /\ IInv /\ [Next]_vars => IInv'
<1> SUFFICES ASSUME TypeOK, IInv, [Next]_vars PROVE IInv'
    OBVIOUS
<1>1. CASE power_loss
  <2>1. \A l \in Links : call'[l] = NoCall /\ link'[l].state = "IDLE"
    BY <1>1 DEF power_loss, NewLink
  <2>2. QED
    BY <2>1 DEF IInv, OnNuttX, BusyHolds, OneBusy, SavingIsIdle, Busy, Uploading, Updating, NoCall
<1>2. ASSUME NEW l \in Links, Receive(l) PROVE IInv'
  <2>1. ASSUME NEW s \in Stations, NEW n \in 0 .. MaxItems + 1,
               handle_mission_count_tested(l, s, n) \/ handle_mission_count(l, s, n)
        PROVE  IInv'
    BY <2>1, CountBusy
  <2>2. QED
    BY <1>2, <2>1, DownloadBusy, ItemBusy, UpdateBusy DEF Receive, ReceiveOther
<1>3. ASSUME NEW l \in Links, Resume(l) PROVE IInv'
  BY <1>3, ItemBusy, UpdateBusy DEF Resume
<1>4. CASE UNCHANGED vars
  BY <1>4 DEF vars, callVars, IInv, OnNuttX, BusyHolds, OneBusy, SavingIsIdle, Busy, Uploading, Updating
<1>5. QED
  BY <1>1, <1>2, <1>3, <1>4, SendBusy DEF Next

\* On NuttX, where a receiver runs until it sleeps, at most one link uploads a
\* mission and it holds _transfer_in_progress until the mission is saved or has
\* failed, whatever other links send, whatever times out and whatever fails.
THEOREM OneUploadAtATime == ASSUME ~Preemptive PROVE Spec => []OneTransfer
<1>1. Init => IInv
  BY DEF Init, NewLink, NoCall, IInv, OnNuttX, BusyHolds, OneBusy, SavingIsIdle, Busy, Uploading, Updating
<1>2. TypeOK /\ IInv /\ [Next]_vars => IInv'
  BY IInvStep
<1>3. IInv => OneTransfer
  BY DEF IInv, BusyHolds, OneBusy, Busy, OneTransfer
<1>4. QED
  BY <1>1, <1>2, <1>3, TypeCorrect, PTL DEF Spec
-----------------------------------------------------------------------------
(* The mission on the card *)

\* An upload waits for an item it has announced, and the item being written is
\* that one
Waits ==
    \A l \in Links :
        /\ Filling(l) => link[l].t_seq < link[l].t_count /\ link[l].upload # Unwritten
        /\ call[l].kind = "item" => call[l].seq = link[l].t_seq

\* A link counts up to the number announced
NotBeyond == \A l \in Links : link[l].t_seq <= link[l].t_count

\* The items received so far are on the card, of this upload, where the active
\* mission is not; so is the item just written if it was written
Filled ==
    \A l \in Links :
        /\ Filling(l) =>
               /\ link[l].t_id # dataman_id /\ link[l].upload = transfers
               /\ \A s \in 0 .. link[l].t_seq - 1 : store[link[l].t_id][s] = link[l].upload
        /\ call[l].kind = "item" /\ call[l].ok =>
               store[link[l].t_id][link[l].t_seq] = link[l].upload

\* The record is destroyed or it is of the mission in memory
Follows == saved = Unreadable \/ (saved.dataman_id = dataman_id /\ saved.count = count)

\* A mission is saved only when it is whole, by a link that uploads no other; the
\* record is that mission if the write succeeded. No mission being saved, the
\* record follows memory.
Saving ==
    \A l \in Links :
        /\ call[l].kind \in {"count", "update"} => ~Uploading(l)
        /\ call[l].kind = "update" => Whole(call[l].mission)
        /\ IF call[l].kind = "update" /\ call[l].ok THEN saved = call[l].mission ELSE Follows

\* No record but the first is unreadable when no write destroys one
Intact == "torn" \notin Outcomes /\ saved = Unreadable => count = 0

\* The mission in memory is whole too
MemoryWhole == Whole(Mission(dataman_id, count, current_seq))

CardInv == Waits /\ Filled /\ Saving /\ Intact /\ MemoryWhole /\ ActiveComplete
-----------------------------------------------------------------------------
(* What is requested, for any number of links *)

\* One link changes: its upload goes on as it was, or is no more
LEMMA KeptWaits ==
    ASSUME Waits, NEW l \in Links,
           \A k \in Links \ {l} : link'[k].state = link[k].state /\ link'[k].t_seq = link[k].t_seq
                                  /\ link'[k].t_count = link[k].t_count
                                  /\ link'[k].upload = link[k].upload /\ call'[k] = call[k],
           Filling(l)' => link'[l].t_seq < link'[l].t_count /\ link'[l].upload # Unwritten,
           call'[l].kind = "item" => call'[l].seq = link'[l].t_seq
    PROVE  Waits'
BY DEF Waits, Filling, Uploading

\* A message that is no request needs no upload
LEMMA OtherMessages ==
    /\ \A s, t : Ack(s, t).msg # "REQUEST"
    /\ \A s, n : Count(s, n).msg # "REQUEST"
    /\ \A m : Topic(m).msg # "REQUEST"
    /\ \A s, q : \A m \in Item(s, q) : m.msg # "REQUEST"
BY DEF Ack, Count, Topic, Item

\* Requests of an upload that waits for the item
LEMMA GoodRequest ==
    ASSUME NEW l \in Links, NEW s, NEW q,
           sent' = Request(s, q), link'[l].partner = s, link'[l].t_seq = q, q < link'[l].t_count
    PROVE  InTurn
BY DEF InTurn, Request

\* Downloads, refusals, repetitions
LEMMA DownloadWaits ==
    ASSUME TypeOK, Waits, NEW l \in Links,
           \/ \E s \in Stations : handle_mission_ack(l, s) \/ handle_mission_request_list(l, s)
           \/ \E s \in Stations, q \in Seqs : handle_mission_request(l, s, q)
           \/ handle_mission_count_refused(l)
           \/ handle_mission_count_again(l)
           \/ check_active_mission(l)
    PROVE  Waits' /\ InTurn
<1>1. link \in [Links -> LinkMembers]
  BY DEF TypeOK, LinkTypes
<1>2. CASE \/ \E s \in Stations : handle_mission_ack(l, s) \/ handle_mission_request_list(l, s)
           \/ \E s \in Stations, q \in Seqs : handle_mission_request(l, s, q)
  <2>1. call[l] = NoCall /\ call' = call /\ link'[l].state # "GETLIST"
        /\ \A k \in Links \ {l} : link'[k] = link[k]
    <3>1. CASE \E s \in Stations : handle_mission_ack(l, s) \/ handle_mission_request_list(l, s)
      BY <1>1, <3>1, ZenonT(60) DEF handle_mission_ack, handle_mission_request_list, Receives,
                        LinkStep, callVars, LinkMembers
    <3>2. ASSUME NEW s \in Stations, NEW q \in Seqs, handle_mission_request(l, s, q)
          PROVE  call[l] = NoCall /\ call' = call /\ link'[l].state # "GETLIST"
                 /\ \A k \in Links \ {l} : link'[k] = link[k]
      BY <1>1, <3>2 DEF handle_mission_request, Receives, LinkStep, callVars, LinkMembers
    <3>3. QED
      BY <1>2, <3>1, <3>2
  <2>2. Waits'
    BY <2>1, KeptWaits DEF Filling, Uploading, NoCall
  <2>3. \A m \in sent' : m.msg # "REQUEST"
    <3>1. \/ sent' = {} \/ \E s \in Stations : sent' = {Count(s, count)} \/ sent' = {Ack(s, "ERROR")}
          \/ \E s \in Stations, q \in Seqs : sent' = Item(s, q)
      BY <1>2, Zenon DEF handle_mission_ack, handle_mission_request_list,
                         handle_mission_request, LinkStep
    <3>2. QED
      BY <3>1, OtherMessages
  <2>4. QED
    BY <2>2, <2>3 DEF InTurn
<1>3. CASE handle_mission_count_refused(l) \/ check_active_mission(l)
  <2>1. /\ call' = call /\ link'[l].state = link[l].state /\ link'[l].t_seq = link[l].t_seq
        /\ link'[l].t_count = link[l].t_count /\ link'[l].upload = link[l].upload
        /\ \A k \in Links \ {l} : link'[k] = link[k]
    BY <1>1, <1>3 DEF handle_mission_count_refused, check_active_mission, LinkStep, callVars, LinkMembers
  <2>2. Waits'
    BY <2>1 DEF Waits, Filling, Uploading
  <2>3. \A m \in sent' : m.msg # "REQUEST"
    BY <1>3, OtherMessages DEF handle_mission_count_refused, check_active_mission, LinkStep
  <2>4. QED
    BY <2>2, <2>3 DEF InTurn
<1>4. CASE handle_mission_count_again(l)
  <2>1. call' = call /\ link' = link
    BY <1>1, <1>4 DEF handle_mission_count_again, LinkStep, callVars
  <2>2. Waits'
    BY <2>1 DEF Waits, Filling, Uploading
  <2>3. Uploading(l) /\ sent' = Request(link[l].partner, link[l].t_seq)
    BY <1>4 DEF handle_mission_count_again, LinkStep, Uploading
  <2>4. Uploading(l) => link[l].t_seq < link[l].t_count
    BY DEF Waits, Filling
  <2>5. QED
    BY <2>1, <2>2, <2>3, <2>4, GoodRequest DEF InTurn
<1>5. QED
  BY <1>2, <1>3, <1>4

\* MISSION_COUNT: the first item of an upload is requested
LEMMA CountWaits ==
    ASSUME TypeOK, Waits, NEW l \in Links, NEW s \in Stations, NEW n \in 0 .. MaxItems + 1,
           handle_mission_count_tested(l, s, n) \/ handle_mission_count(l, s, n)
    PROVE  Waits' /\ InTurn
<1>1. link \in [Links -> LinkMembers] /\ DOMAIN call = Links /\ transfers \in Nat
  BY MissionAssumption DEF TypeOK, LinkTypes, FlagTypes
<1>2. CASE handle_mission_count_tested(l, s, n)
  <2>1. /\ link' = link /\ call'[l].kind = "count" /\ sent' = {}
        /\ \A k \in Links \ {l} : call'[k] = call[k]
    BY <1>1, <1>2 DEF handle_mission_count_tested
  <2>2. QED
    BY <2>1, KeptWaits DEF InTurn, Waits, Filling, Uploading
<1>3. CASE handle_mission_count(l, s, n)
  <2>1. TakeCount(l, s, n) /\ call[l].kind # "item"
    BY <1>3 DEF handle_mission_count, Receives, NoCall
  <2>2. CASE n > MaxItems \/ n = 0
    <3>1. link' = link /\ call'[l].kind # "item" /\ \A k \in Links \ {l} : call'[k] = call[k]
      BY <1>1, <2>1, <2>2, MissionAssumption DEF TakeCount, NoCall, save_mission
    <3>2. \A m \in sent' : m.msg # "REQUEST"
      BY <2>1, <2>2, OtherMessages, MissionAssumption DEF TakeCount
    <3>3. QED
      BY <2>1, <3>1, <3>2, KeptWaits DEF InTurn, Waits, Filling, Uploading
  <2>3. CASE n \in 1 .. MaxItems
    <3> DEFINE up == [link[l] EXCEPT !.state = "GETLIST", !.t_seq = 0, !.partner = s,
                          !.t_count = n, !.t_id = Inactive, !.t_cur = NoSeq,
                          !.upload = transfers + 1]
    <3>1. /\ link' = [link EXCEPT ![l] = up] /\ call' = [call EXCEPT ![l] = NoCall]
          /\ sent' = Request(s, 0)
      BY <2>1, <2>3, MissionAssumption DEF TakeCount
    <3>2. up.t_seq = 0 /\ up.partner = s /\ up.t_count = n /\ up.upload = transfers + 1
      BY <1>1 DEF LinkMembers
    <3> HIDE DEF up
    <3>3. /\ link'[l].t_seq = 0 /\ link'[l].partner = s /\ link'[l].t_count = n
          /\ link'[l].upload = transfers + 1 /\ call'[l] = NoCall /\ sent' = Request(s, 0)
          /\ \A k \in Links \ {l} : link'[k] = link[k] /\ call'[k] = call[k]
      BY <1>1, <3>2, <3>1
    <3>4. 0 < n /\ transfers + 1 # Unwritten
      BY <1>1, <2>3, MissionAssumption DEF Unwritten
    <3>5. QED
      BY <3>3, <3>4, GoodRequest, KeptWaits DEF NoCall
  <2>4. QED
    BY <2>2, <2>3, MissionAssumption
<1>4. QED
  BY <1>2, <1>3

\* An item arrives, is written, and the next is requested while there is one
LEMMA ItemWaits ==
    ASSUME TypeOK, Waits, NEW l \in Links,
           \/ \E q \in Seqs, current \in Marks : handle_mission_item(l, q, current)
           \/ handle_mission_item_invalid(l)
           \/ handle_mission_item_unwritten(l) \/ handle_mission_item_next(l)
           \/ handle_mission_item_last(l)
    PROVE  Waits' /\ InTurn
<1>1. link \in [Links -> LinkMembers] /\ DOMAIN call = Links
  BY DEF TypeOK, LinkTypes
<1>2. ASSUME NEW q \in Seqs, NEW current \in Marks, handle_mission_item(l, q, current)
      PROVE  Waits' /\ InTurn
  <2>1. /\ Uploading(l) /\ q = link[l].t_seq /\ link' = link /\ sent' = {}
        /\ call'[l].kind = "item" /\ call'[l].seq = q /\ \A k \in Links \ {l} : call'[k] = call[k]
    BY <1>1, <1>2 DEF handle_mission_item, Uploading
  <2>2. Filling(l)
    BY <2>1 DEF Filling
  <2>3. QED
    BY <2>1, <2>2, KeptWaits DEF Waits, InTurn
<1>3. CASE handle_mission_item_invalid(l) \/ handle_mission_item_unwritten(l)
  <2>1. /\ link'[l].state = "IDLE" /\ call'[l] = NoCall
        /\ \A k \in Links \ {l} : link'[k] = link[k] /\ call'[k] = call[k]
    BY <1>1, <1>3 DEF handle_mission_item_invalid, handle_mission_item_unwritten, Receives,
                      callVars, LinkMembers
  <2>2. \A m \in sent' : m.msg # "REQUEST"
    BY <1>3, OtherMessages DEF handle_mission_item_invalid, handle_mission_item_unwritten
  <2>3. QED
    BY <2>1, <2>2, KeptWaits DEF InTurn, Filling, Uploading, NoCall
<1>4. CASE handle_mission_item_next(l)
  <2>1. call[l] \in ItemCalls /\ call[l].seq = link[l].t_seq /\ link[l].t_seq < link[l].t_count
        /\ link[l].upload # Unwritten
    BY <1>4, CallKinds DEF handle_mission_item_next, Waits, Filling
  <2>2. /\ Received(l).t_seq = call[l].seq + 1 /\ Received(l).t_count = link[l].t_count
        /\ Received(l).partner = link[l].partner /\ Received(l).upload = link[l].upload
    BY <1>1 DEF Received, LinkMembers
  <2>3. /\ Received(l).t_seq # Received(l).t_count /\ link'[l] = Received(l)
        /\ sent' = Request(Received(l).partner, Received(l).t_seq) /\ call'[l] = NoCall
        /\ \A k \in Links \ {l} : link'[k] = link[k] /\ call'[k] = call[k]
    BY <1>1, <1>4 DEF handle_mission_item_next
  <2>4. link[l].t_seq \in Nat /\ link[l].t_count \in Nat
    BY <1>1, MissionAssumption DEF LinkMembers
  <2>5. Received(l).t_seq < Received(l).t_count
    BY <2>1, <2>2, <2>3, <2>4
  <2>6. QED
    BY <2>1, <2>2, <2>3, <2>5, GoodRequest, KeptWaits DEF NoCall
<1>5. CASE handle_mission_item_last(l)
  <2>1. [Received(l) EXCEPT !.state = "IDLE"].state = "IDLE"
    BY <1>1 DEF Received, LinkMembers
  <2>2. /\ link'[l].state = "IDLE" /\ call'[l].kind = "update" /\ sent' = {}
        /\ \A k \in Links \ {l} : link'[k] = link[k] /\ call'[k] = call[k]
    BY <1>1, <1>5, <2>1 DEF handle_mission_item_last, save_mission
  <2>3. QED
    BY <2>2, KeptWaits DEF InTurn, Filling, Uploading
<1>6. QED
  BY <1>2, <1>3, <1>4, <1>5

\* The mission is changed, or the main thread runs: uploads go on or are no more
LEMMA OtherWaits ==
    ASSUME TypeOK, Waits, NEW l \in Links,
           \/ \E q \in Seqs : handle_mission_set_current(l, q)
           \/ handle_mission_clear_all(l) \/ update_active_mission(l)
           \/ \E q \in Seqs, changed \in {{}} \cup {{i} : i \in Seqs} : mission_result(l, q, changed)
           \/ timeout_found(l) \/ retry_found(l) \/ resend_found(l) \/ action_timeout(l)
    PROVE  Waits' /\ InTurn
<1>1. link \in [Links -> LinkMembers] /\ DOMAIN call = Links
  BY DEF TypeOK, LinkTypes
<1>2. CASE handle_mission_clear_all(l) \/ \E q \in Seqs : handle_mission_set_current(l, q)
  <2>1. /\ link' = link /\ sent' = {} /\ ~Uploading(l) /\ call'[l].kind = "update"
        /\ \A k \in Links \ {l} : call'[k] = call[k]
    BY <1>1, <1>2 DEF handle_mission_set_current, handle_mission_clear_all, save_mission, Uploading
  <2>2. QED
    BY <2>1, KeptWaits DEF InTurn, Filling, Uploading
<1>3. CASE update_active_mission(l)
  <2>1. /\ link'[l].state = link[l].state /\ link'[l].t_seq = link[l].t_seq
        /\ link'[l].t_count = link[l].t_count /\ link'[l].upload = link[l].upload
        /\ call'[l] = NoCall /\ \A k \in Links \ {l} : link'[k] = link[k] /\ call'[k] = call[k]
    BY <1>1, <1>3 DEF update_active_mission, LinkMembers
  <2>2. \A m \in sent' : m.msg # "REQUEST"
    BY <1>3, OtherMessages DEF update_active_mission, UpdateAck
  <2>3. QED
    BY <2>1, <2>2, KeptWaits DEF InTurn, Waits, Filling, Uploading, NoCall
<1>4. CASE \/ \E q \in Seqs, changed \in {{}} \cup {{i} : i \in Seqs} : mission_result(l, q, changed)
           \/ timeout_found(l) \/ retry_found(l) \/ resend_found(l)
  <2>1. link' = link /\ call' = call
    BY <1>4, MainSteps DEF mission_result, callVars
  <2>2. \A m \in sent' : m.msg # "REQUEST"
    BY <1>4, OtherMessages DEF mission_result, timeout_found, retry_found, resend_found, Find
  <2>3. QED
    BY <2>1, <2>2 DEF InTurn, Waits, Filling, Uploading
<1>5. CASE action_timeout(l)
  <2>1. /\ link'[l].state = "IDLE" /\ link'[l].t_seq = link[l].t_seq
        /\ link'[l].t_count = link[l].t_count /\ link'[l].upload = link[l].upload
        /\ call' = call /\ sent' = {} /\ \A k \in Links \ {l} : link'[k] = link[k]
    BY <1>1, <1>5 DEF action_timeout, Done, callVars, LinkMembers
  <2>2. QED
    BY <2>1, KeptWaits DEF InTurn, Waits, Filling, Uploading
<1>6. QED
  BY <1>2, <1>3, <1>4, <1>5

\* A retry asks for the item the receiver has got to
LEMMA RetryWaits ==
    ASSUME TypeOK, Waits, NEW l \in Links, retry(l)
    PROVE  Waits' /\ (NotBeyond => InTurn)
<1>1. link' = link /\ call' = call
  BY MainSteps DEF callVars
<1>2. Waits'
  BY <1>1 DEF Waits, Filling, Uploading
<1>3. \/ /\ due[l] = "request" /\ due' = [due EXCEPT ![l] = "none"]
         /\ sent' = Request(link[l].partner, link[l].t_seq)
      \/ \A m \in sent' : m.msg # "REQUEST"
  BY OtherMessages DEF retry, Done
<1>4. DOMAIN due = Links /\ link[l].t_seq \in Nat /\ link[l].t_count \in Nat
  BY MissionAssumption DEF TypeOK, LinkTypes, FlagTypes, LinkMembers
<1>5. NotBeyond => link[l].t_seq < link[l].t_count \/ link[l].t_seq = link[l].t_count
  BY <1>4 DEF NotBeyond
<1>6. QED
  BY <1>1, <1>2, <1>3, <1>4, <1>5 DEF InTurn, Request

\* Every step keeps what uploads wait for and requests no other item
LEMMA WaitsStep == TypeOK /\ Waits /\ Next => Waits' /\ (NotBeyond => InTurn)
<1> SUFFICES ASSUME TypeOK, Waits, Next PROVE Waits' /\ (NotBeyond => InTurn)
    OBVIOUS
<1>1. CASE power_loss
  <2>1. \A l \in Links : call'[l] = NoCall /\ link'[l].state = "IDLE"
    BY <1>1 DEF power_loss, NewLink
  <2>2. QED
    BY <1>1, <2>1 DEF power_loss, Waits, InTurn, Filling, Uploading, NoCall
<1>2. ASSUME NEW l \in Links, Receive(l) PROVE Waits' /\ InTurn
  <2>1. ASSUME NEW s \in Stations, NEW n \in 0 .. MaxItems + 1,
               handle_mission_count_tested(l, s, n) \/ handle_mission_count(l, s, n)
        PROVE  Waits' /\ InTurn
    BY <2>1, CountWaits
  <2>2. QED
    BY <1>2, <2>1, DownloadWaits, ItemWaits, OtherWaits DEF Receive, ReceiveOther
<1>3. ASSUME NEW l \in Links, Resume(l) PROVE Waits' /\ InTurn
  BY <1>3, ItemWaits, OtherWaits DEF Resume
<1>4. ASSUME NEW l \in Links, Send(l) PROVE Waits' /\ (NotBeyond => InTurn)
  BY <1>4, DownloadWaits, OtherWaits, RetryWaits DEF Send
<1>5. QED
  BY <1>1, <1>2, <1>3, <1>4 DEF Next

\* So does a stutter
LEMMA WaitsKept == TypeOK /\ Waits /\ [Next]_vars => Waits'
<1>1. Waits /\ UNCHANGED vars => Waits'
  BY DEF vars, callVars, Waits, Filling, Uploading
<1>2. QED
  BY <1>1, WaitsStep

\* No handler counts beyond the number announced
LEMMA NotBeyondStep == TypeOK /\ Waits /\ NotBeyond /\ [Next]_vars => NotBeyond'
<1> SUFFICES ASSUME TypeOK, Waits, NotBeyond, [Next]_vars PROVE NotBeyond'
    OBVIOUS
<1>1. link \in [Links -> LinkMembers] /\ \A l \in Links : link[l].t_seq \in Nat /\ link[l].t_count \in Nat
  BY MissionAssumption DEF TypeOK, LinkTypes, LinkMembers
<1>2. ASSUME \A l \in Links : link'[l].t_seq = link[l].t_seq /\ link'[l].t_count = link[l].t_count
      PROVE  NotBeyond'
  BY <1>2 DEF NotBeyond
<1>3. ASSUME NEW l \in Links, link'[l].t_seq <= link'[l].t_count, \A k \in Links \ {l} : link'[k] = link[k]
      PROVE  NotBeyond'
  BY <1>3 DEF NotBeyond
<1>4. CASE power_loss
  BY <1>4 DEF power_loss, NewLink, NotBeyond
<1>5. ASSUME NEW l \in Links, Receive(l) PROVE NotBeyond'
  <2>1. CASE \/ handle_mission_count_refused(l) \/ handle_mission_count_again(l)
             \/ handle_mission_item_invalid(l) \/ handle_mission_clear_all(l)
             \/ \E q \in Seqs : handle_mission_set_current(l, q)
             \/ \E q \in Seqs, current \in Marks : handle_mission_item(l, q, current)
    <3>1. \/ link' = link \/ link' = [link EXCEPT ![l] = link[l]]
          \/ link' = [link EXCEPT ![l] = [link[l] EXCEPT !.state = "IDLE"]]
      BY <1>1, <2>1, Zenon DEF handle_mission_count_refused, handle_mission_count_again, LinkStep,
           handle_mission_item_invalid, handle_mission_clear_all, handle_mission_set_current,
           handle_mission_item
    <3>2. QED
      BY <1>1, <1>2, <3>1 DEF LinkMembers
  <2>2. ASSUME NEW s \in Stations, handle_mission_ack(l, s) PROVE NotBeyond'
    BY <1>1, <1>2, <2>2 DEF handle_mission_ack, LinkStep, LinkMembers
  <2>3. ASSUME NEW s \in Stations, handle_mission_request_list(l, s) PROVE NotBeyond'
    <3>1. link'[l].t_seq = 0 /\ link'[l].t_count = count /\ \A k \in Links \ {l} : link'[k] = link[k]
      BY <1>1, <2>3 DEF handle_mission_request_list, LinkStep, LinkMembers
    <3>2. QED
      BY <1>3, <3>1, MissionAssumption DEF TypeOK, ActiveTypes
  <2>4. ASSUME NEW s \in Stations, NEW q \in Seqs, handle_mission_request(l, s, q) PROVE NotBeyond'
    <3>1. /\ link'[l].t_count = link[l].t_count /\ \A k \in Links \ {l} : link'[k] = link[k]
          /\ \/ link'[l].t_seq = link[l].t_seq
             \/ link[l].t_seq < link[l].t_count /\ link'[l].t_seq = link[l].t_seq + 1
      BY <1>1, <2>4 DEF handle_mission_request, LinkStep, LinkMembers
    <3>2. link[l].t_seq <= link[l].t_count
      BY DEF NotBeyond
    <3>3. QED
      BY <1>1, <1>3, <3>1, <3>2
  <2>5. ASSUME NEW s \in Stations, NEW n \in 0 .. MaxItems + 1,
               handle_mission_count_tested(l, s, n) \/ handle_mission_count(l, s, n)
        PROVE  NotBeyond'
    <3>1. link' = link \/ (n \in 1 .. MaxItems /\ TakeCount(l, s, n))
      BY <2>5 DEF handle_mission_count_tested, handle_mission_count, TakeCount
    <3>2. CASE n \in 1 .. MaxItems /\ TakeCount(l, s, n)
      <4>1. link' = [link EXCEPT ![l] = [link[l] EXCEPT !.state = "GETLIST", !.t_seq = 0,
                        !.partner = s, !.t_count = n, !.t_id = Inactive, !.t_cur = NoSeq,
                        !.upload = transfers + 1]]
        BY <3>2, MissionAssumption DEF TakeCount
      <4>2. link'[l].t_seq = 0 /\ link'[l].t_count = n /\ \A k \in Links \ {l} : link'[k] = link[k]
        BY <1>1, <4>1 DEF LinkMembers
      <4>3. QED
        BY <1>3, <3>2, <4>2
    <3>3. QED
      BY <1>2, <3>1, <3>2
  <2>6. QED
    BY <1>5, <2>1, <2>2, <2>3, <2>4, <2>5 DEF Receive, ReceiveOther
<1>6. ASSUME NEW l \in Links, Resume(l) PROVE NotBeyond'
  <2>1. CASE handle_mission_item_unwritten(l) \/ update_active_mission(l)
    <3>1. \/ link' = [link EXCEPT ![l] = [link[l] EXCEPT !.state = "IDLE"]]
          \/ link' = link \/ link' = [link EXCEPT ![l] = [link[l] EXCEPT !.my_id = call[l].mission.dataman_id]]
      BY <1>1, <2>1 DEF handle_mission_item_unwritten, update_active_mission
    <3>2. QED
      BY <1>1, <1>2, <3>1 DEF LinkMembers
  <2>2. CASE handle_mission_item_next(l) \/ handle_mission_item_last(l)
    <3>1. call[l].seq = link[l].t_seq /\ link[l].t_seq < link[l].t_count
      BY <2>2 DEF handle_mission_item_next, handle_mission_item_last, Waits, Filling
    <3>2. Received(l).t_seq = call[l].seq + 1 /\ Received(l).t_count = link[l].t_count
      BY <1>1 DEF Received, LinkMembers
    <3>3. \/ link' = [link EXCEPT ![l] = Received(l)]
          \/ link' = [link EXCEPT ![l] = [Received(l) EXCEPT !.state = "IDLE"]]
      BY <2>2, Zenon DEF handle_mission_item_next, handle_mission_item_last
    <3>4. /\ [Received(l) EXCEPT !.state = "IDLE"].t_seq = Received(l).t_seq
          /\ [Received(l) EXCEPT !.state = "IDLE"].t_count = Received(l).t_count
      BY <1>1 DEF Received, LinkMembers
    <3>5. /\ link'[l].t_seq = Received(l).t_seq /\ link'[l].t_count = Received(l).t_count
          /\ \A k \in Links \ {l} : link'[k] = link[k]
      BY <1>1, <3>3, <3>4
    <3>6. QED
      BY <1>1, <1>3, <3>1, <3>2, <3>5
  <2>3. QED
    BY <1>6, <2>1, <2>2 DEF Resume
<1>7. ASSUME NEW l \in Links, Send(l) PROVE NotBeyond'
  <2>1. CASE timeout_found(l) \/ retry_found(l) \/ resend_found(l) \/ retry(l)
    BY <1>2, <2>1, MainSteps
  <2>2. CASE action_timeout(l) \/ check_active_mission(l)
    BY <1>1, <1>2, <2>2 DEF action_timeout, check_active_mission, LinkStep, LinkMembers
  <2>3. QED
    BY <1>2, <1>7, <2>1, <2>2 DEF Send, mission_result
<1>8. CASE UNCHANGED vars
  BY <1>2, <1>8 DEF vars
<1>9. QED
  BY <1>4, <1>5, <1>6, <1>7, <1>8 DEF Next

\* An item is requested only in its turn and it is one of those announced, or the
\* one after the last when the receiver has overtaken a retry, whatever timed out,
\* was sent by another link or failed.
THEOREM RequestsAnnounced == Spec => RequestsInRange
<1>1. Init => Waits /\ NotBeyond
  BY DEF Init, NewLink, NoCall, Waits, NotBeyond, Filling, Uploading
<1>2. TypeOK /\ Waits /\ NotBeyond /\ [Next]_vars => Waits' /\ NotBeyond' /\ [InTurn]_vars
  BY WaitsStep, WaitsKept, NotBeyondStep
<1>3. QED
  BY <1>1, <1>2, TypeCorrect, PTL DEF Spec, RequestsInRange
-----------------------------------------------------------------------------
(* What is on the card, where there is one link *)

\* A mission whose storage is not written stays whole
LEMMA KeptWhole ==
    ASSUME NEW m, Whole(m), store'[m.dataman_id] = store[m.dataman_id]
    PROVE  \A s, q \in 0 .. m.count - 1 :
               store'[m.dataman_id][s] = store'[m.dataman_id][q] /\ store'[m.dataman_id][s] # Unwritten
BY DEF Whole

\* An empty mission is whole
LEMMA EmptyWhole == \A id, c : Whole(Mission(id, 0, c))
BY DEF Whole, Mission

\* Members of a mission
LEMMA Fields ==
    \A id, n, c : Mission(id, n, c).dataman_id = id /\ Mission(id, n, c).count = n
BY DEF Mission

\* Only the link's own members change: its upload goes on as it was or is no more
LEMMA KeptCard ==
    ASSUME CardInv, Waits', NEW l, Links = {l},
           UNCHANGED <<dataman_id, count, saved, store, transfers>>,
           \/ call'[l] = call[l]
           \/ call[l].kind # "update" /\ call'[l].kind \notin {"item", "update"},
           call'[l].kind \in {"count", "update"} => ~Uploading(l)',
           Filling(l)' => /\ Filling(l) /\ link'[l].t_seq = link[l].t_seq
                          /\ link'[l].t_id = link[l].t_id /\ link'[l].upload = link[l].upload
    PROVE  CardInv'
<1>1. Filled'
  <2>1. call'[l].kind = "item" => call'[l] = call[l]
    OBVIOUS
  <2>2. Filling(l)' => /\ link'[l].t_id # dataman_id' /\ link'[l].upload = transfers'
                       /\ \A s \in 0 .. link'[l].t_seq - 1 :
                              store'[link'[l].t_id][s] = link'[l].upload
    BY DEF CardInv, Filled
  <2>3. call'[l].kind = "item" /\ call'[l].ok => store'[link'[l].t_id][link'[l].t_seq] = link'[l].upload
    <3>1. call'[l].kind = "item" => Filling(l)'
      BY DEF Filling
    <3>2. QED
      BY <2>1, <3>1 DEF CardInv, Filled
  <2>4. QED
    BY <2>2, <2>3 DEF Filled
<1>2. Saving'
  BY DEF CardInv, Saving, Follows, Whole
<1>3. MemoryWhole' /\ ActiveComplete' /\ Intact'
  BY Fields DEF CardInv, MemoryWhole, ActiveComplete, Intact, Whole
<1>4. QED
  BY <1>1, <1>2, <1>3 DEF CardInv

\* A whole mission is saved, as far as the write succeeds
LEMMA SavedCard ==
    ASSUME TypeOK, CardInv, Waits', NEW l, Links = {l}, NEW m \in Missions, Whole(m), NEW why,
           save_mission(l, m, why), call[l].kind # "update", ~Uploading(l)',
           UNCHANGED <<dataman_id, count, store>>
    PROVE  CardInv'
<1>1. PICK res \in Outcomes :
        /\ saved' = Written(saved, m, Unreadable, res)
        /\ call' = [call EXCEPT ![l] = [kind |-> "update", mission |-> m,
                                        ok |-> (res = "ok"), why |-> why]]
  BY DEF save_mission
<1>2. call'[l] = [kind |-> "update", mission |-> m, ok |-> (res = "ok"), why |-> why]
  BY <1>1 DEF TypeOK, LinkTypes
<1>3. Filled'
  BY <1>2 DEF Filled, Filling
<1>4. (saved' = m /\ res = "ok") \/ (res # "ok" /\ (saved' = saved \/ saved' = Unreadable))
  BY <1>1, MissionAssumption DEF Written
<1>5. Follows
  BY DEF CardInv, Saving
<1>6. res # "ok" => Follows'
  BY <1>4, <1>5 DEF Follows
<1>7. Saving'
  <2>1. Whole(m)'
    BY DEF Whole
  <2>2. CASE res = "ok"
    <3>1. (res = "ok") = TRUE
      BY <2>2
    <3>2. call'[l] = [kind |-> "update", mission |-> m, ok |-> TRUE, why |-> why]
      BY <1>2, <3>1
    <3>3. QED
      BY <1>4, <2>1, <2>2, <3>2 DEF Saving
  <2>3. CASE res # "ok"
    <3>1. (res = "ok") = FALSE
      BY <2>3
    <3>2. call'[l] = [kind |-> "update", mission |-> m, ok |-> FALSE, why |-> why]
      BY <1>2, <3>1
    <3>3. QED
      BY <1>6, <2>1, <2>3, <3>2 DEF Saving
  <2>4. QED
    BY <2>2, <2>3
<1>8. MemoryWhole'
  BY Fields DEF CardInv, MemoryWhole, Whole
<1>9. ActiveComplete'
  BY <1>4 DEF CardInv, ActiveComplete, Whole
<1>10. Intact'
  <2>1. m # Unreadable
    BY DEF Missions, Unreadable, Mission, Ids
  <2>2. "torn" \notin Outcomes => res # "torn"
    OBVIOUS
  <2>3. res # "torn" => saved' = m \/ saved' = saved
    BY <1>1, MissionAssumption DEF Written
  <2>4. QED
    BY <2>1, <2>2, <2>3 DEF CardInv, Intact
<1>11. QED
  BY <1>3, <1>7, <1>8, <1>9, <1>10 DEF CardInv

\* Downloads, refusals, repetitions, and the main thread
LEMMA DownloadCard ==
    ASSUME TypeOK, CardInv, Waits', NEW l, Links = {l},
           \/ \E s \in Stations : handle_mission_ack(l, s) \/ handle_mission_request_list(l, s)
           \/ \E s \in Stations, q \in Seqs : handle_mission_request(l, s, q)
           \/ handle_mission_count_refused(l)
           \/ handle_mission_count_again(l)
           \/ Send(l)
    PROVE  CardInv'
<1>1. link \in [Links -> LinkMembers] /\ l \in Links
  BY DEF TypeOK, LinkTypes
<1>2. UNCHANGED <<dataman_id, count, saved, store, transfers>> /\ call' = call
  BY DEF handle_mission_ack, handle_mission_request_list, handle_mission_request,
         handle_mission_count_refused, handle_mission_count_again, LinkStep, Send, mission_result,
         timeout_found, action_timeout, retry_found, resend_found, retry, Find, Done,
         check_active_mission, callVars, cardVars, activeVars
<1>3. CASE \/ \E s \in Stations : handle_mission_ack(l, s) \/ handle_mission_request_list(l, s)
           \/ \E s \in Stations, q \in Seqs : handle_mission_request(l, s, q)
  <2>1. call[l] = NoCall /\ link'[l].state # "GETLIST"
    <3>1. CASE \E s \in Stations : handle_mission_ack(l, s) \/ handle_mission_request_list(l, s)
      BY <1>1, <3>1, ZenonT(60) DEF handle_mission_ack, handle_mission_request_list, Receives,
                        LinkStep, LinkMembers
    <3>2. ASSUME NEW s \in Stations, NEW q \in Seqs, handle_mission_request(l, s, q)
          PROVE  call[l] = NoCall /\ link'[l].state # "GETLIST"
      BY <1>1, <3>2 DEF handle_mission_request, Receives, LinkStep, LinkMembers
    <3>3. QED
      BY <1>3, <3>1, <3>2
  <2>2. QED
    BY <1>2, <2>1, KeptCard DEF Filling, Uploading, NoCall
<1>4. CASE \/ handle_mission_count_refused(l) \/ handle_mission_count_again(l) \/ Send(l)
  <2>1. /\ link'[l].state \in {link[l].state, "IDLE"} /\ link'[l].t_seq = link[l].t_seq
        /\ link'[l].t_id = link[l].t_id /\ link'[l].upload = link[l].upload
    <3>1. CASE handle_mission_count_refused(l) \/ handle_mission_count_again(l)
      BY <1>1, <3>1 DEF handle_mission_count_refused, handle_mission_count_again, LinkStep,
                        LinkMembers
    <3>2. CASE \/ \E q \in Seqs, changed \in {{}} \cup {{i} : i \in Seqs} : mission_result(l, q, changed)
               \/ timeout_found(l) \/ retry_found(l) \/ resend_found(l) \/ retry(l)
      BY <3>2, MainSteps DEF mission_result
    <3>3. CASE action_timeout(l) \/ check_active_mission(l)
      BY <1>1, <3>3 DEF action_timeout, Done, check_active_mission, LinkStep, LinkMembers
    <3>4. QED
      BY <1>4, <3>1, <3>2, <3>3 DEF Send
  <2>2. Uploading(l)' => Uploading(l)
    BY <2>1 DEF Uploading
  <2>3. call[l].kind \in {"count", "update"} => ~Uploading(l)
    BY <1>1 DEF CardInv, Saving
  <2>4. QED
    BY <1>2, <2>1, <2>2, <2>3, KeptCard DEF Filling
<1>5. QED
  BY <1>3, <1>4

\* MISSION_COUNT clears the mission, or begins an upload to the other storage
LEMMA CountCard ==
    ASSUME TypeOK, CardInv, Waits', NEW l, Links = {l}, NEW s \in Stations,
           NEW n \in 0 .. MaxItems + 1,
           handle_mission_count_tested(l, s, n) \/ handle_mission_count(l, s, n)
    PROVE  CardInv'
<1>1. link \in [Links -> LinkMembers] /\ DOMAIN call = Links /\ dataman_id \in Ids /\ l \in Links
  BY DEF TypeOK, LinkTypes, ActiveTypes
<1>2. CASE handle_mission_count_tested(l, s, n)
  <2>1. /\ UNCHANGED <<dataman_id, count, saved, store, link, transfers>> /\ call[l] = NoCall
        /\ call'[l].kind = "count" /\ ~Uploading(l)
    BY <1>1, <1>2 DEF handle_mission_count_tested, Receives, Uploading, activeVars, cardVars
  <2>2. QED
    BY <2>1, KeptCard DEF Filling, Uploading, NoCall
<1>3. CASE handle_mission_count(l, s, n)
  <2>1. TakeCount(l, s, n) /\ UNCHANGED <<dataman_id, count, store>>
    BY <1>3 DEF handle_mission_count, activeVars
  <2>2. call[l].kind \notin {"item", "update"} /\ ~Uploading(l)
    BY <1>1, <1>3 DEF handle_mission_count, Receives, NoCall, Uploading, CardInv, Saving
  <2>3. CASE n > MaxItems
    <3>1. call'[l] = NoCall /\ UNCHANGED <<saved, link, transfers>>
      BY <1>1, <2>1, <2>3, MissionAssumption DEF TakeCount
    <3>2. QED
      BY <2>1, <2>2, <3>1, KeptCard DEF Filling, Uploading, NoCall
  <2>4. CASE n = 0
    <3>1. save_mission(l, Mission(Inactive, 0, 0), "zero") /\ link' = link
      BY <2>1, <2>4, MissionAssumption DEF TakeCount
    <3>2. Inactive \in Ids /\ 0 \in 0 .. MaxItems /\ 0 \in {NoSeq} \cup Seqs
      BY MissionAssumption DEF Inactive, Ids, Seqs
    <3>3. Mission(Inactive, 0, 0) \in Missions
      BY <3>2, MissionsSaved
    <3>4. QED
      BY <2>1, <2>2, <3>1, <3>3, EmptyWhole, SavedCard DEF Uploading
  <2>5. CASE n \in 1 .. MaxItems
    <3> DEFINE up == [link[l] EXCEPT !.state = "GETLIST", !.t_seq = 0, !.partner = s,
                          !.t_count = n, !.t_id = Inactive, !.t_cur = NoSeq,
                          !.upload = transfers + 1]
    <3>1. /\ link' = [link EXCEPT ![l] = up] /\ call' = [call EXCEPT ![l] = NoCall]
          /\ saved' = saved /\ transfers' = transfers + 1
      BY <2>1, <2>5, MissionAssumption DEF TakeCount
    <3>2. up.t_seq = 0 /\ up.t_id = Inactive /\ up.upload = transfers + 1
      BY <1>1 DEF LinkMembers
    <3> HIDE DEF up
    <3>3. /\ link'[l].t_seq = 0 /\ link'[l].t_id # dataman_id /\ call'[l] = NoCall
          /\ link'[l].upload = transfers'
      BY <1>1, <3>1, <3>2 DEF Inactive, Ids
    <3>4. Filled'
      BY <2>1, <3>3 DEF Filled, NoCall
    <3>5. Follows'
      BY <2>1, <2>2, <3>1 DEF CardInv, Saving, Follows
    <3>6. Saving'
      BY <3>3, <3>5 DEF Saving, NoCall
    <3>7. MemoryWhole' /\ ActiveComplete' /\ Intact'
      BY <2>1, <3>1, Fields DEF CardInv, MemoryWhole, ActiveComplete, Intact, Whole
    <3>8. QED
      BY <3>4, <3>6, <3>7 DEF CardInv
  <2>6. QED
    BY <2>3, <2>4, <2>5, MissionAssumption
<1>4. QED
  BY <1>2, <1>3

\* An item is written where the active mission is not, and the record last of all
LEMMA ItemCard ==
    ASSUME TypeOK, CardInv, Waits', NEW l, Links = {l},
           \/ \E q \in Seqs, current \in Marks : handle_mission_item(l, q, current)
           \/ handle_mission_item_invalid(l)
           \/ handle_mission_item_unwritten(l) \/ handle_mission_item_next(l)
           \/ handle_mission_item_last(l)
    PROVE  CardInv'
<1>1. /\ link \in [Links -> LinkMembers] /\ DOMAIN call = Links /\ l \in Links
      /\ store \in [Ids -> [Seqs -> {Unwritten} \cup Uploads]]
  BY DEF TypeOK, LinkTypes, CardTypes
<1>2. link[l] \in LinkMembers
  BY <1>1
<1>3. ASSUME NEW q \in Seqs, NEW current \in Marks, handle_mission_item(l, q, current)
      PROVE  CardInv'
  <2> DEFINE t == link[l].t_id
             u == link[l].upload
  <2>1. PICK res \in Outcomes :
          /\ store' = [store EXCEPT ![t][q] = Written(@, u, Unwritten, res)]
          /\ call' = [call EXCEPT ![l] = [kind |-> "item", seq |-> q, current |-> current,
                                          ok |-> (res = "ok")]]
    BY <1>3 DEF handle_mission_item
  <2>2. /\ q = link[l].t_seq /\ Uploading(l) /\ call[l] = NoCall
        /\ UNCHANGED <<dataman_id, count, saved, link, transfers>>
    BY <1>3 DEF handle_mission_item, Receives, Uploading, activeVars
  <2>3. t \in Ids /\ link[l].t_seq \in Nat
    BY <1>2, MissionAssumption DEF LinkMembers
  <2>4. /\ t # dataman_id /\ u = transfers /\ \A s \in 0 .. link[l].t_seq - 1 : store[t][s] = u
    BY <1>1, <2>2 DEF CardInv, Filled, Filling
  <2>5. call'[l] = [kind |-> "item", seq |-> q, current |-> current, ok |-> (res = "ok")]
    BY <1>1, <2>1
  <2>6. \A s : s # q => store'[t][s] = store[t][s]
    BY <1>1, <2>1, <2>3
  <2>7. \A i : i # t => store'[i] = store[i]
    BY <1>1, <2>1, <2>3
  <2>8. res = "ok" => store'[t][q] = u
    BY <1>1, <2>1, <2>3 DEF Written
  <2>9. Filled'
    <3>1. \A s \in 0 .. link[l].t_seq - 1 : s # q
      BY <2>2, <2>3
    <3>2. \A s \in 0 .. link[l].t_seq - 1 : store'[t][s] = u
      BY <2>4, <2>6, <3>1
    <3>3. call'[l].ok => store'[t][q] = u
      <4>1. CASE res = "ok"
        BY <2>8, <4>1
      <4>2. CASE res # "ok"
        <5>1. (res = "ok") = FALSE
          BY <4>2
        <5>2. call'[l] = [kind |-> "item", seq |-> q, current |-> current, ok |-> FALSE]
          BY <2>5, <5>1
        <5>3. QED
          BY <5>2
      <4>3. QED
        BY <4>1, <4>2
    <3>4. QED
      BY <2>2, <2>4, <3>2, <3>3 DEF Filled
  <2>10. Follows /\ Follows'
    BY <1>1, <2>2 DEF CardInv, Saving, Follows, NoCall
  <2>11. Saving'
    BY <2>5, <2>10 DEF Saving
  <2>12. MemoryWhole'
    BY <2>2, <2>4, <2>7, Fields DEF CardInv, MemoryWhole, Whole
  <2>13. ActiveComplete'
    <3>1. saved # Unreadable => saved.dataman_id # t
      BY <2>4, <2>10 DEF Follows
    <3>2. QED
      BY <2>2, <2>7, <3>1 DEF CardInv, ActiveComplete, Whole
  <2>14. Intact'
    BY <2>2 DEF CardInv, Intact
  <2>15. QED
    BY <2>9, <2>11, <2>12, <2>13, <2>14 DEF CardInv
<1>4. CASE handle_mission_item_invalid(l) \/ handle_mission_item_unwritten(l)
  <2>1. /\ link'[l].state = "IDLE" /\ call'[l] = NoCall /\ call[l].kind # "update"
        /\ UNCHANGED <<dataman_id, count, saved, store, transfers>>
    BY <1>1, <1>4 DEF handle_mission_item_invalid, handle_mission_item_unwritten, Receives,
                      callVars, LinkMembers, activeVars, cardVars, NoCall
  <2>2. QED
    BY <2>1, KeptCard DEF Filling, Uploading, NoCall
<1>5. ASSUME call[l].kind = "item", call[l].ok
      PROVE  /\ Received(l).t_seq = link[l].t_seq + 1 /\ Received(l).t_id = link[l].t_id
             /\ Received(l).t_count = link[l].t_count /\ Received(l).upload = link[l].upload
             /\ Received(l).t_id # dataman_id /\ Received(l).upload # Unwritten
             /\ Received(l).upload = transfers
             /\ \A s \in 0 .. Received(l).t_seq - 1 : store[Received(l).t_id][s] = Received(l).upload
             /\ Follows
  <2>1. /\ call[l].seq = link[l].t_seq /\ link[l].t_id # dataman_id /\ link[l].upload # Unwritten
        /\ link[l].upload = transfers
        /\ \A s \in 0 .. link[l].t_seq - 1 : store[link[l].t_id][s] = link[l].upload
        /\ store[link[l].t_id][link[l].t_seq] = link[l].upload /\ Follows
    BY <1>1, <1>5 DEF CardInv, Waits, Filled, Filling, Saving
  <2>2. /\ Received(l).t_seq = link[l].t_seq + 1 /\ Received(l).t_id = link[l].t_id
        /\ Received(l).t_count = link[l].t_count /\ Received(l).upload = link[l].upload
    BY <1>2, <2>1 DEF Received, LinkMembers
  <2>3. Received(l).t_seq - 1 = link[l].t_seq
    BY <1>2, <2>2, MissionAssumption DEF LinkMembers
  <2>4. \A s \in 0 .. link[l].t_seq : s \in 0 .. link[l].t_seq - 1 \/ s = link[l].t_seq
    BY <1>2, MissionAssumption DEF LinkMembers
  <2>5. \A s \in 0 .. link[l].t_seq : store[link[l].t_id][s] = link[l].upload
    BY <2>1, <2>4
  <2>6. QED
    BY <2>1, <2>2, <2>3, <2>5
<1>6. CASE handle_mission_item_next(l)
  <2>1. /\ link'[l] = Received(l) /\ call'[l] = NoCall /\ call[l].kind = "item" /\ call[l].ok
        /\ UNCHANGED <<dataman_id, count, saved, store, transfers>>
    BY <1>1, <1>6 DEF handle_mission_item_next, activeVars, cardVars
  <2>2. Filled' /\ Saving'
    BY <1>5, <2>1 DEF Filled, Saving, Follows, NoCall
  <2>3. MemoryWhole' /\ ActiveComplete' /\ Intact'
    BY <2>1, Fields DEF CardInv, MemoryWhole, ActiveComplete, Intact, Whole
  <2>4. QED
    BY <2>2, <2>3 DEF CardInv
<1>7. CASE handle_mission_item_last(l)
  <2> DEFINE r == Received(l)
             m == Mission(r.t_id, r.t_count, r.t_cur)
  <2>1. /\ call[l].kind = "item" /\ call[l].ok /\ r.t_seq = r.t_count
        /\ link'[l] = [r EXCEPT !.state = "IDLE"] /\ save_mission(l, m, "last")
        /\ UNCHANGED <<dataman_id, count, store>>
    BY <1>1, <1>7 DEF handle_mission_item_last, activeVars
  <2>2. call[l] \in ItemCalls
    BY <1>1, <2>1, CallKinds
  <2>3. r \in LinkMembers
    <3>1. call[l].seq + 1 \in 0 .. MaxItems /\ call[l].seq \in Seqs
      BY <2>2, MissionAssumption DEF ItemCalls, Seqs
    <3>2. (IF call[l].current THEN call[l].seq ELSE link[l].t_cur) \in {NoSeq} \cup Seqs
      BY <1>2, <3>1 DEF LinkMembers
    <3>3. QED
      BY <1>2, <3>1, <3>2 DEF LinkMembers, Received
  <2>4. m \in Missions
    BY <2>3, MissionsSaved DEF LinkMembers
  <2>5. Whole(m)
    <3>1. m.dataman_id = r.t_id /\ m.count = r.t_count
      BY Fields
    <3>2. \A s \in 0 .. m.count - 1 : store[m.dataman_id][s] = r.upload /\ r.upload # Unwritten
      BY <1>5, <2>1, <3>1
    <3>3. QED
      BY <3>2 DEF Whole
  <2>6. ~Uploading(l)'
    BY <2>1, <2>3 DEF Uploading, LinkMembers
  <2> HIDE DEF m, r
  <2>7. QED
    BY <2>1, <2>4, <2>5, <2>6, SavedCard
<1>8. QED
  BY <1>3, <1>4, <1>6, <1>7

\* SET_CURRENT and CLEAR_ALL save a mission; memory follows what was saved
LEMMA UpdateCard ==
    ASSUME TypeOK, CardInv, Waits', NEW l, Links = {l},
           \/ \E q \in Seqs : handle_mission_set_current(l, q)
           \/ handle_mission_clear_all(l) \/ update_active_mission(l)
    PROVE  CardInv'
<1>1. /\ link \in [Links -> LinkMembers] /\ DOMAIN call = Links /\ l \in Links
      /\ dataman_id \in Ids /\ count \in 0 .. MaxItems
  BY DEF TypeOK, LinkTypes, ActiveTypes
<1>2. ASSUME NEW q \in Seqs, handle_mission_set_current(l, q) PROVE CardInv'
  <2>1. /\ save_mission(l, Mission(dataman_id, count, q), "current") /\ link' = link
        /\ UNCHANGED <<dataman_id, count, store>> /\ call[l] = NoCall /\ ~Uploading(l)
    BY <1>2 DEF handle_mission_set_current, Receives, Uploading, activeVars
  <2>2. Mission(dataman_id, count, q) \in Missions
    BY <1>1, MissionsSaved
  <2>3. Whole(Mission(dataman_id, count, q))
    BY Fields DEF CardInv, MemoryWhole, Whole
  <2>4. QED
    BY <2>1, <2>2, <2>3, SavedCard DEF NoCall, Uploading
<1>3. CASE handle_mission_clear_all(l)
  <2>1. /\ save_mission(l, Mission(Inactive, 0, 0), "clear") /\ link' = link
        /\ UNCHANGED <<dataman_id, count, store>> /\ call[l] = NoCall /\ ~Uploading(l)
    BY <1>3 DEF handle_mission_clear_all, Receives, Uploading, activeVars
  <2>2. Inactive \in Ids /\ 0 \in 0 .. MaxItems /\ 0 \in {NoSeq} \cup Seqs
    BY MissionAssumption DEF Inactive, Ids, Seqs
  <2>3. Mission(Inactive, 0, 0) \in Missions
    BY <2>2, MissionsSaved
  <2>4. QED
    BY <2>1, <2>3, EmptyWhole, SavedCard DEF NoCall, Uploading
<1>4. CASE update_active_mission(l)
  <2> DEFINE m == call[l].mission
  <2>1. /\ call[l].kind = "update" /\ call'[l] = NoCall /\ UNCHANGED <<saved, store, transfers>>
        /\ link'[l].state = link[l].state
        /\ IF call[l].ok THEN dataman_id' = m.dataman_id /\ count' = m.count
           ELSE dataman_id' = dataman_id /\ count' = count
    BY <1>1, <1>4 DEF update_active_mission, activeVars, cardVars, LinkMembers
  <2>2. ~Uploading(l) /\ Whole(m) /\ IF call[l].ok THEN saved = m ELSE Follows
    BY <1>1, <2>1 DEF CardInv, Saving
  <2>3. Follows'
    BY <2>1, <2>2 DEF Follows
  <2>4. Filled' /\ Saving'
    BY <2>1, <2>2, <2>3 DEF Filled, Saving, Filling, Uploading, NoCall
  <2>5. MemoryWhole'
    BY <2>1, <2>2, Fields DEF CardInv, MemoryWhole, Whole
  <2>6. ActiveComplete'
    BY <2>1 DEF CardInv, ActiveComplete, Whole
  <2>7. Intact'
    <3>1. m \in Missions
      BY <1>1, <2>1, CallKinds DEF UpdateCalls
    <3>2. m # Unreadable
      BY <3>1 DEF Missions, Unreadable, Mission, Ids
    <3>3. QED
      BY <2>1, <2>2, <3>2 DEF CardInv, Intact
  <2>8. QED
    BY <2>4, <2>5, <2>6, <2>7 DEF CardInv
<1>5. QED
  BY <1>2, <1>3, <1>4

\* A boot takes the mission from the record
LEMMA PowerCard == ASSUME TypeOK, CardInv, Waits', NEW l, Links = {l}, power_loss PROVE CardInv'
<1>1. /\ UNCHANGED <<saved, store, transfers>> /\ call'[l] = NoCall /\ link'[l].state = "IDLE"
      /\ dataman_id' = Booted.dataman_id /\ count' = Booted.count
  BY DEF power_loss, cardVars, NewLink
<1>2. Filled' /\ ActiveComplete'
  BY <1>1 DEF Filled, Filling, Uploading, NoCall, CardInv, ActiveComplete, Whole
<1>3. Follows' /\ Intact'
  BY <1>1, Fields DEF Follows, Intact, Booted
<1>4. Saving'
  BY <1>1, <1>3 DEF Saving, NoCall
<1>5. MemoryWhole'
  <2>1. Whole(Booted)
    BY EmptyWhole DEF Booted, CardInv, ActiveComplete
  <2>2. QED
    BY <1>1, <2>1, Fields DEF MemoryWhole, Whole
<1>6. QED
  BY <1>2, <1>3, <1>4, <1>5 DEF CardInv

\* There is one link
OneLink == Links # {} /\ \A l, k \in Links : l = k

\* Every step over one link keeps the card and memory whole
LEMMA CardStep == ASSUME OneLink PROVE TypeOK /\ CardInv /\ Waits' /\ [Next]_vars => CardInv'
<1> SUFFICES ASSUME TypeOK, CardInv, Waits', [Next]_vars PROVE CardInv'
    OBVIOUS
<1>1. PICK l : Links = {l}
  BY DEF OneLink
<1>2. CASE power_loss
  BY <1>1, <1>2, PowerCard
<1>3. CASE Receive(l)
  <2>1. ASSUME NEW s \in Stations, NEW n \in 0 .. MaxItems + 1,
               handle_mission_count_tested(l, s, n) \/ handle_mission_count(l, s, n)
        PROVE  CardInv'
    BY <1>1, <2>1, CountCard
  <2>2. QED
    BY <1>1, <1>3, <2>1, DownloadCard, ItemCard, UpdateCard DEF Receive, ReceiveOther
<1>4. CASE Resume(l)
  BY <1>1, <1>4, ItemCard, UpdateCard DEF Resume
<1>5. CASE Send(l)
  BY <1>1, <1>5, DownloadCard
<1>6. CASE UNCHANGED vars
  <2>1. UNCHANGED <<dataman_id, count, saved, store, link, call, transfers>>
    BY <1>6 DEF vars, activeVars, cardVars, callVars
  <2>2. QED
    BY <2>1, Fields DEF CardInv, Filled, Saving, Follows, Intact, MemoryWhole, ActiveComplete,
                        Whole, Filling, Uploading
<1>7. QED
  BY <1>1, <1>2, <1>3, <1>4, <1>5, <1>6 DEF Next

\* The initial record is of no mission
LEMMA CardInit == Init => CardInv
<1> SUFFICES ASSUME Init PROVE CardInv
    OBVIOUS
<1>1. Waits /\ Filled /\ Saving
  BY DEF Init, NewLink, NoCall, Waits, Filled, Saving, Follows, Filling, Uploading
<1>2. MemoryWhole /\ ActiveComplete /\ Intact
  BY EmptyWhole DEF Init, MemoryWhole, ActiveComplete, Intact
<1>3. QED
  BY <1>1, <1>2 DEF CardInv

\* The invariant of the card, over one link
LEMMA CardAlways == ASSUME OneLink PROVE Spec => []CardInv
<1>1. TypeOK /\ CardInv /\ [Next]_vars => CardInv'
  <2>1. TypeOK /\ CardInv /\ [Next]_vars => Waits'
    BY WaitsKept DEF CardInv
  <2>2. QED
    BY <2>1, CardStep
<1>2. QED
  BY <1>1, CardInit, TypeCorrect, PTL DEF Spec

\* Whatever the writes return, whatever times out and whenever power is lost,
\* every item of the mission the card names can be read and is of one upload.
THEOREM CardComplete == ASSUME OneLink PROVE Spec => []ActiveComplete
<1>1. CardInv => ActiveComplete
  BY DEF CardInv
<1>2. QED
  BY <1>1, CardAlways, PTL

\* What is flown is what the next boot will find, once no handler sleeps.
THEOREM CardMatchesMemory == ASSUME OneLink PROVE Spec => []PersistedMatchesActive
<1>1. CardInv => PersistedMatchesActive
  <2>1. PICK l : l \in Links
    BY DEF OneLink
  <2>2. CardInv /\ call[l] = NoCall => Follows
    BY <2>1 DEF CardInv, Saving, NoCall
  <2>3. QED
    BY <2>1, <2>2 DEF PersistedMatchesActive, Follows
<1>2. QED
  BY <1>1, CardAlways, PTL

\* Items are never received over the mission that is flown.
THEOREM UploadsElsewhere == ASSUME OneLink PROVE Spec => []InactiveStorage
<1>1. CardInv => InactiveStorage
  BY DEF CardInv, Filled, Filling, InactiveStorage
<1>2. QED
  BY <1>1, CardAlways, PTL
-----------------------------------------------------------------------------
(* The store of whole missions that the protocol implements *)

\* Where no write destroys the record: what a step needs to know of the card
Facts ==
    /\ \A l, k \in Links : Filling(l) /\ Filling(k) => l = k
    /\ \A l \in Links : Filling(l) =>
           /\ saved = Unreadable \/ saved.count = 0 \/ saved.dataman_id # link[l].t_id
           /\ link[l].upload = transfers
           /\ \A s \in 0 .. link[l].t_seq - 1 : store[link[l].t_id][s] = transfers
    /\ \A l \in Links :
           /\ call[l].kind = "item" /\ call[l].ok => store[link[l].t_id][link[l].t_seq] = transfers
           /\ call[l].kind \in {"count", "update"} => ~Uploading(l)
    /\ Settled => Follows /\ (saved = Unreadable => count = 0)

\* Neither the mission nor the uploads change: at most the last one is abandoned
LEMMA StoreKept ==
    ASSUME OnCard' = OnCard, transfers' = transfers,
           (\E k \in Links : Filling(k))' => \E k \in Links : Filling(k)
    PROVE  [Store!Next]_Store!vars
<1> DEFINE open == \E k \in Links : Filling(k)
<1>1. open' = open \/ open' = FALSE
  OBVIOUS
<1>2. CASE open' = open
  BY <1>2 DEF Store!vars
<1>3. CASE open' = FALSE
  BY <1>3 DEF Store!Next, Store!Abandon
<1>4. QED
  BY <1>1, <1>2, <1>3

\* The mission on the card is the same when the record and its storage are
LEMMA CardKept ==
    ASSUME saved' = saved,
           saved = Unreadable \/ saved.count = 0 \/ store'[saved.dataman_id] = store[saved.dataman_id]
    PROVE  OnCard' = OnCard
<1>1. CASE saved = Unreadable
  BY <1>1 DEF OnCard
<1>2. CASE saved # Unreadable /\ saved.count = 0
  <2>1. 1 .. saved.count = {}
    BY <1>2
  <2>2. QED
    BY <1>2, <2>1 DEF OnCard
<1>3. CASE store'[saved.dataman_id] = store[saved.dataman_id]
  BY <1>3 DEF OnCard
<1>4. QED
  BY <1>1, <1>2, <1>3

\* A record of no items is an empty store
LEMMA EmptyCard == ASSUME saved'.count = 0 PROVE OnCard' = <<>>
<1>1. CASE saved' = Unreadable
  BY <1>1 DEF OnCard
<1>2. CASE saved' # Unreadable
  <2>1. 1 .. saved'.count = 1 .. 0
    OBVIOUS
  <2>2. OnCard' = [i \in 1 .. 0 |-> store'[saved'.dataman_id][i - 1]]
    BY <1>2, <2>1 DEF OnCard
  <2>3. QED
    BY <2>2
<1>3. QED
  BY <1>1, <1>2

\* A record that is cleared, or is not
LEMMA ClearStep ==
    ASSUME "torn" \notin Outcomes, NEW l \in Links, NEW id, NEW why,
           save_mission(l, Mission(id, 0, 0), why), DOMAIN call = Links,
           link' = link, store' = store, transfers' = transfers, call[l].kind # "item"
    PROVE  [Store!Next]_Store!vars
<1>1. saved' = saved \/ saved' = Mission(id, 0, 0)
  BY MissionAssumption DEF save_mission, Written
<1>2. \A k \in Links : Filling(k)' <=> Filling(k)
  BY DEF Filling, Uploading, save_mission
<1>3. CASE saved' = saved
  <2>1. OnCard' = OnCard
    BY <1>3, CardKept
  <2>2. QED
    BY <1>2, <2>1, StoreKept
<1>4. CASE saved' = Mission(id, 0, 0)
  <2>1. saved'.count = 0
    BY <1>4, Fields
  <2>2. OnCard' = <<>>
    BY <2>1, EmptyCard
  <2>3. (\E k \in Links : Filling(k))' = (\E k \in Links : Filling(k))
    BY <1>2
  <2>4. QED
    BY <2>2, <2>3 DEF Store!Next, Store!Clear
<1>5. QED
  BY <1>1, <1>3, <1>4

\* Downloads, refusals, repetitions, the main thread, and what memory learns of
LEMMA QuietStep ==
    ASSUME TypeOK, Facts, NEW l \in Links,
           \/ \E s \in Stations : handle_mission_ack(l, s) \/ handle_mission_request_list(l, s)
           \/ \E s \in Stations, q \in Seqs : handle_mission_request(l, s, q)
           \/ handle_mission_count_refused(l) \/ handle_mission_count_again(l)
           \/ \E s \in Stations, n \in 0 .. MaxItems + 1 : handle_mission_count_tested(l, s, n)
           \/ handle_mission_item_invalid(l) \/ handle_mission_item_unwritten(l)
           \/ handle_mission_item_next(l)
           \/ update_active_mission(l) \/ Send(l)
    PROVE  [Store!Next]_Store!vars
<1>1. link \in [Links -> LinkMembers] /\ DOMAIN call = Links
  BY DEF TypeOK, LinkTypes
<1>2. UNCHANGED <<saved, store, transfers>>
  BY DEF handle_mission_ack, handle_mission_request_list, handle_mission_request,
         handle_mission_count_refused, handle_mission_count_again, handle_mission_count_tested,
         handle_mission_item_invalid, handle_mission_item_unwritten, handle_mission_item_next,
         update_active_mission, LinkStep, Send, mission_result, timeout_found, action_timeout,
         retry_found, resend_found, retry, Find, Done, check_active_mission, cardVars
<1>3. /\ \A k \in Links \ {l} : link'[k] = link[k] /\ call'[k] = call[k]
      /\ call'[l] \in {call[l], NoCall} \/ call'[l].kind = "count"
  <2>1. CASE \/ \E s \in Stations : handle_mission_ack(l, s) \/ handle_mission_request_list(l, s)
             \/ \E s \in Stations, q \in Seqs : handle_mission_request(l, s, q)
             \/ handle_mission_count_refused(l) \/ handle_mission_count_again(l)
    BY <1>1, <2>1 DEF handle_mission_ack, handle_mission_request_list, handle_mission_request,
         handle_mission_count_refused, handle_mission_count_again, LinkStep, callVars
  <2>2. CASE \/ handle_mission_item_invalid(l) \/ handle_mission_item_unwritten(l)
             \/ handle_mission_item_next(l) \/ update_active_mission(l)
    <3>1. /\ call' = call \/ call' = [call EXCEPT ![l] = NoCall]
          /\ \A k \in Links \ {l} : link'[k] = link[k]
      BY <1>1, <2>2 DEF handle_mission_item_invalid, callVars, handle_mission_item_unwritten,
           handle_mission_item_next, update_active_mission
    <3>2. QED
      BY <1>1, <3>1
  <2>3. ASSUME NEW s \in Stations, NEW n \in 0 .. MaxItems + 1, handle_mission_count_tested(l, s, n)
        PROVE  call'[l].kind = "count" /\ \A k \in Links \ {l} : link'[k] = link[k] /\ call'[k] = call[k]
    BY <1>1, <2>3 DEF handle_mission_count_tested
  <2>4. CASE Send(l)
    BY <1>1, <2>4 DEF LinkStep, Send, mission_result, timeout_found, action_timeout,
         retry_found, resend_found, retry, Find, Done, check_active_mission, callVars
  <2>5. QED
    BY <2>1, <2>2, <2>3, <2>4
<1>4. Uploading(l)' => Filling(l)
  <2>1. CASE \/ \E s \in Stations : handle_mission_ack(l, s) \/ handle_mission_request_list(l, s)
             \/ handle_mission_count_refused(l) \/ handle_mission_count_again(l)
    BY <1>1, <2>1, ZenonT(60) DEF handle_mission_ack, handle_mission_request_list, LinkStep,
         LinkMembers, handle_mission_count_refused, handle_mission_count_again, Uploading, Filling
  <2>2. ASSUME NEW s \in Stations, NEW q \in Seqs, handle_mission_request(l, s, q)
        PROVE  ~Uploading(l)'
    BY <1>1, <2>2 DEF handle_mission_request, LinkStep, LinkMembers, Uploading
  <2>3. CASE \/ \E s \in Stations, n \in 0 .. MaxItems + 1 : handle_mission_count_tested(l, s, n)
             \/ update_active_mission(l)
    BY <1>1, <2>3 DEF handle_mission_count_tested, update_active_mission, LinkMembers, Uploading,
         Filling
  <2>4. CASE \/ handle_mission_item_invalid(l) \/ handle_mission_item_unwritten(l)
             \/ handle_mission_item_next(l)
    BY <1>1, <2>4 DEF handle_mission_item_invalid, handle_mission_item_unwritten,
         handle_mission_item_next, LinkMembers, Uploading, Filling
  <2>5. CASE Send(l)
    BY <1>1, <2>5 DEF LinkStep, Send, mission_result, timeout_found, action_timeout,
         retry_found, resend_found, retry, Find, Done, check_active_mission, LinkMembers, Uploading, Filling
  <2>6. QED
    BY <2>1, <2>2, <2>3, <2>4, <2>5
<1>5. Filling(l)' => Filling(l)
  BY <1>3, <1>4 DEF Filling, NoCall
<1>6. (\E k \in Links : Filling(k))' => \E k \in Links : Filling(k)
  BY <1>3, <1>5 DEF Filling, Uploading
<1>7. QED
  BY <1>2, <1>6, CardKept, StoreKept

\* MISSION_COUNT clears the store or begins an upload
LEMMA BeginStep ==
    ASSUME TypeOK, Facts, "torn" \notin Outcomes, NEW l \in Links, NEW s \in Stations,
           NEW n \in 0 .. MaxItems + 1, handle_mission_count(l, s, n)
    PROVE  [Store!Next]_Store!vars
<1>1. link \in [Links -> LinkMembers] /\ DOMAIN call = Links
  BY DEF TypeOK, LinkTypes
<1>2. TakeCount(l, s, n) /\ store' = store /\ call[l].kind # "item"
  BY DEF handle_mission_count, Receives, NoCall
<1>3. CASE n > MaxItems
  <2>1. UNCHANGED <<saved, link, transfers>> /\ call' = [call EXCEPT ![l] = NoCall]
    BY <1>2, <1>3, MissionAssumption DEF TakeCount
  <2>2. (\E k \in Links : Filling(k))' => \E k \in Links : Filling(k)
    BY <1>1, <2>1 DEF Filling, Uploading, NoCall
  <2>3. QED
    BY <1>2, <2>1, <2>2, CardKept, StoreKept
<1>4. CASE n = 0
  <2>1. save_mission(l, Mission(Inactive, 0, 0), "zero") /\ UNCHANGED <<link, transfers>>
    BY <1>2, <1>4, MissionAssumption DEF TakeCount
  <2>2. QED
    BY <1>1, <1>2, <2>1, ClearStep
<1>5. CASE n \in 1 .. MaxItems
  <2> DEFINE up == [link[l] EXCEPT !.state = "GETLIST", !.t_seq = 0, !.partner = s,
                        !.t_count = n, !.t_id = Inactive, !.t_cur = NoSeq,
                        !.upload = transfers + 1]
  <2>1. saved' = saved /\ transfers' = transfers + 1 /\ link' = [link EXCEPT ![l] = up]
    BY <1>2, <1>5, MissionAssumption DEF TakeCount
  <2>2. up.state = "GETLIST"
    BY <1>1 DEF LinkMembers
  <2> HIDE DEF up
  <2>3. (\E k \in Links : Filling(k))' = TRUE
    BY <1>1, <2>1, <2>2 DEF Filling, Uploading
  <2>4. OnCard' = OnCard
    BY <1>2, <2>1, CardKept
  <2>5. QED
    BY <2>1, <2>3, <2>4 DEF Store!Next, Store!Begin
<1>6. QED
  BY <1>3, <1>4, <1>5, MissionAssumption

\* SET_CURRENT in turn and CLEAR_ALL
LEMMA ChangeStep ==
    ASSUME TypeOK, Facts, "torn" \notin Outcomes, NEW l \in Links,
           handle_mission_clear_all(l) \/ \E q \in Seqs : set_current_in_turn(l, q)
    PROVE  [Store!Next]_Store!vars
<1>1. DOMAIN call = Links /\ call[l].kind # "item"
  BY DEF TypeOK, LinkTypes, handle_mission_clear_all, set_current_in_turn,
         handle_mission_set_current, Receives, NoCall
<1>2. CASE handle_mission_clear_all(l)
  BY <1>1, <1>2, ClearStep DEF handle_mission_clear_all
<1>3. ASSUME NEW q \in Seqs, set_current_in_turn(l, q) PROVE [Store!Next]_Store!vars
  <2>1. /\ save_mission(l, Mission(dataman_id, count, q), "current")
        /\ UNCHANGED <<store, link, transfers>>
    BY <1>3 DEF set_current_in_turn, handle_mission_set_current
  <2>2. saved' = saved \/ saved' = Mission(dataman_id, count, q)
    BY <2>1, MissionAssumption DEF save_mission, Written
  <2>3. Follows /\ (saved = Unreadable => count = 0)
    BY <1>3 DEF Facts, set_current_in_turn
  <2>4. OnCard' = OnCard
    <3>1. CASE saved' = saved
      BY <2>1, <3>1, CardKept
    <3>2. CASE saved' = Mission(dataman_id, count, q) /\ saved = Unreadable
      <4>1. OnCard' = <<>>
        BY <2>3, <3>2, EmptyCard, Fields
      <4>2. QED
        BY <3>2, <4>1 DEF OnCard
    <3>3. CASE saved' = Mission(dataman_id, count, q) /\ saved # Unreadable
      <4>1. saved'.dataman_id = saved.dataman_id /\ saved'.count = saved.count
        BY <2>3, <3>3, Fields DEF Follows
      <4>2. saved' # Unreadable
        <5>1. dataman_id \in Ids
          BY DEF TypeOK, ActiveTypes
        <5>2. QED
          BY <3>3, <5>1 DEF Unreadable, Mission, Ids
      <4>3. QED
        BY <2>1, <3>3, <4>1, <4>2 DEF OnCard
    <3>4. QED
      BY <2>2, <3>1, <3>2, <3>3
  <2>5. (\E k \in Links : Filling(k))' => \E k \in Links : Filling(k)
    BY <1>1, <2>1 DEF save_mission, Filling, Uploading
  <2>6. QED
    BY <2>1, <2>4, <2>5, StoreKept
<1>4. QED
  BY <1>2, <1>3

\* An item is written where the mission on the card is not
LEMMA FillStep ==
    ASSUME TypeOK, Facts, NEW l \in Links, NEW q \in Seqs, NEW current \in Marks,
           handle_mission_item(l, q, current)
    PROVE  [Store!Next]_Store!vars
<1>1. /\ Filling(l) /\ saved' = saved /\ transfers' = transfers /\ link' = link
      /\ \A i : i # link[l].t_id => store'[i] = store[i]
  BY DEF handle_mission_item, Filling, Uploading, TypeOK, CardTypes
<1>2. OnCard' = OnCard
  BY <1>1, CardKept DEF Facts
<1>3. QED
  BY <1>1, <1>2, StoreKept

\* After its last item the upload becomes the mission on the card, or is abandoned
LEMMA InstallStep ==
    ASSUME TypeOK, Waits, Facts, "torn" \notin Outcomes, NEW l \in Links,
           handle_mission_item_last(l)
    PROVE  [Store!Next]_Store!vars
<1> DEFINE r == Received(l)
           m == Mission(r.t_id, r.t_count, r.t_cur)
<1>1. link \in [Links -> LinkMembers] /\ DOMAIN call = Links /\ link[l] \in LinkMembers
  BY DEF TypeOK, LinkTypes
<1>2. /\ call[l].kind = "item" /\ call[l].ok /\ r.t_seq = r.t_count
      /\ link' = [link EXCEPT ![l] = [r EXCEPT !.state = "IDLE"]] /\ save_mission(l, m, "last")
      /\ UNCHANGED <<store, transfers>>
  BY DEF handle_mission_item_last
<1>3. /\ r.t_seq = link[l].t_seq + 1 /\ r.t_id = link[l].t_id /\ r.t_count = link[l].t_count
      /\ r.t_id \in Ids /\ [r EXCEPT !.state = "IDLE"].state = "IDLE"
  BY <1>1, <1>2 DEF Received, LinkMembers, Waits
<1>4. link[l].t_seq \in Nat /\ link[l].t_seq < MaxItems
  <2>1. link[l].t_seq < link[l].t_count
    BY <1>2 DEF Waits, Filling
  <2>2. QED
    BY <1>1, <2>1, MissionAssumption DEF LinkMembers
<1>5. \A i \in 1 .. m.count : store[m.dataman_id][i - 1] = transfers
  <2>1. m.count = link[l].t_seq + 1 /\ m.dataman_id = link[l].t_id
    BY <1>2, <1>3, Fields
  <2>2. \A s \in 0 .. link[l].t_seq - 1 : store[link[l].t_id][s] = transfers
    BY <1>2 DEF Facts, Filling
  <2>3. store[link[l].t_id][link[l].t_seq] = transfers
    BY <1>2 DEF Facts
  <2>4. \A i \in 1 .. link[l].t_seq + 1 : i - 1 \in 0 .. link[l].t_seq - 1 \/ i - 1 = link[l].t_seq
    BY <1>4
  <2>5. QED
    BY <2>1, <2>2, <2>3, <2>4
<1>6. m.count \in 1 .. MaxItems
  BY <1>2, <1>3, <1>4, MissionAssumption, Fields
<1>7. m # Unreadable
  BY <1>3 DEF Mission, Unreadable, Ids
<1>8. Filling(l)
  BY <1>2 DEF Filling
<1> HIDE DEF r, m
<1>9. \A k \in Links : ~Filling(k)'
  <2>1. link'[l].state = "IDLE" /\ call'[l].kind = "update"
    BY <1>1, <1>2, <1>3 DEF save_mission
  <2>2. \A k \in Links \ {l} : link'[k] = link[k] /\ call'[k] = call[k] /\ ~Filling(k)
    BY <1>1, <1>2, <1>8 DEF save_mission, Facts
  <2>3. QED
    BY <2>1, <2>2 DEF Filling, Uploading
<1>10. saved' = m \/ saved' = saved
  BY <1>2, MissionAssumption DEF save_mission, Written
<1>11. CASE saved' = saved
  <2>1. OnCard' = OnCard
    BY <1>2, <1>11, CardKept
  <2>2. QED
    BY <1>2, <1>9, <2>1, StoreKept
<1>12. CASE saved' = m
  <2>1. OnCard' = [i \in 1 .. m.count |-> store[m.dataman_id][i - 1]]
    BY <1>2, <1>7, <1>12 DEF OnCard
  <2>2. OnCard' = [i \in 1 .. m.count |-> transfers]
    BY <1>5, <2>1
  <2>3. (\E k \in Links : Filling(k)) /\ (\E k \in Links : Filling(k))' = FALSE
    BY <1>8, <1>9
  <2>4. Store!Install
    BY <1>2, <1>6, <2>2, <2>3 DEF Store!Install
  <2>5. QED
    BY <2>4 DEF Store!Next
<1>13. QED
  BY <1>10, <1>11, <1>12

\* Every step is one of the store's, or none
LEMMA StoreStep ==
    ASSUME "torn" \notin Outcomes, TypeOK, Waits, Facts, [NextOrderly]_vars
    PROVE  [Store!Next]_Store!vars
<1>1. CASE power_loss
  <2>1. UNCHANGED <<saved, store, transfers>> /\ \A k \in Links : ~Filling(k)'
    BY <1>1 DEF power_loss, cardVars, NewLink, NoCall, Filling, Uploading
  <2>2. QED
    BY <2>1, CardKept, StoreKept
<1>2. ASSUME NEW l \in Links, ReceiveOther(l) \/ \E q \in Seqs : set_current_in_turn(l, q)
      PROVE  [Store!Next]_Store!vars
  BY <1>2, QuietStep, BeginStep, ChangeStep, FillStep DEF ReceiveOther
<1>3. ASSUME NEW l \in Links, Resume(l) PROVE [Store!Next]_Store!vars
  BY <1>3, QuietStep, InstallStep DEF Resume
<1>4. ASSUME NEW l \in Links, Send(l) PROVE [Store!Next]_Store!vars
  BY <1>4, QuietStep
<1>5. CASE UNCHANGED vars
  <2>1. UNCHANGED <<saved, store, transfers, link, call>>
    BY <1>5 DEF vars, cardVars, callVars
  <2>2. OnCard' = OnCard /\ (\E k \in Links : Filling(k))' = (\E k \in Links : Filling(k))
    BY <2>1, CardKept DEF Filling, Uploading
  <2>3. QED
    BY <2>1, <2>2 DEF Store!vars
<1>6. QED
  BY <1>1, <1>2, <1>3, <1>4, <1>5 DEF NextOrderly

\* The first state of the store
LEMMA StoreInit == Init => Store!Init
<1> SUFFICES ASSUME Init PROVE Store!Init
    OBVIOUS
<1>1. OnCard = <<>> /\ transfers = 0
  BY DEF Init, OnCard
<1>2. \A k \in Links : ~Filling(k)
  BY DEF Init, NewLink, NoCall, Filling, Uploading
<1>3. QED
  BY <1>1, <1>2 DEF Store!Init

\* Over one link, whatever it receives and whenever power is lost, the protocol
\* implements the store of whole missions where a write that fails destroys nothing.
THEOREM OneLinkStores ==
    ASSUME OneLink, "torn" \notin Outcomes PROVE Spec => ImplementsMissionStore
<1>1. TypeOK /\ CardInv => Facts
  <2> SUFFICES ASSUME TypeOK, CardInv PROVE Facts
      OBVIOUS
  <2>1. \A l \in Links : Filling(l) =>
            /\ saved = Unreadable \/ saved.count = 0 \/ saved.dataman_id # link[l].t_id
            /\ link[l].upload = transfers
            /\ \A s \in 0 .. link[l].t_seq - 1 : store[link[l].t_id][s] = transfers
    BY DEF CardInv, Filled, Saving, Follows, Filling
  <2>2. \A l \in Links : call[l].kind = "item" => Filling(l)
    BY DEF Filling
  <2>3. QED
    BY <2>1, <2>2 DEF OneLink, CardInv, Filled, Saving, Intact, Facts, Settled, Follows
<1>2. TypeOK /\ CardInv /\ [Next]_vars => [Store!Next]_Store!vars
  <2>1. Next => NextOrderly
    BY DEF OneLink, Next, Receive, NextOrderly, set_current_in_turn, Settled,
           handle_mission_set_current, Receives, NoCall
  <2>2. QED
    BY <1>1, <2>1, StoreStep DEF CardInv
<1>3. QED
  BY <1>2, StoreInit, CardAlways, TypeCorrect, PTL DEF Spec, ImplementsMissionStore, Store!Spec
=============================================================================
