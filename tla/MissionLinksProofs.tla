------------------------- MODULE MissionLinksProofs -------------------------
(***************************************************************************)
(* What any number of links leaves on the card on NuttX, where a receiver  *)
(* runs until it sleeps in a write and those that sleep are woken in the   *)
(* order they went to sleep.                                               *)
(***************************************************************************)
EXTENDS MissionManagerProofs

\* Every link that sleeps in a write stands in the order once, and no other does
Sleeps(l) == call[l].kind \in {"item", "update"}
InOrder ==
    /\ \A i \in 1 .. Len(returns) : Sleeps(returns[i])
    /\ \A i, j \in 1 .. Len(returns) : returns[i] = returns[j] => i = j
    /\ \A l \in Links : Sleeps(l) => \E i \in 1 .. Len(returns) : returns[i] = l

\* A mission is on the card and its link has not been woken
Pending(l) == call[l].kind = "update" /\ call[l].ok

\* The record is of the mission of the link that will be woken last of those whose
\* mission was written, or of the mission in memory when there is none
Newest(l) ==
    /\ Pending(l) /\ saved = call[l].mission
    /\ \A i, j \in 1 .. Len(returns) : returns[i] = l /\ Pending(returns[j]) => j <= i
NewestWins ==
    saved = Unreadable \/ (Follows /\ \A l \in Links : ~Pending(l)) \/ \E l \in Links : Newest(l)

\* A link that saves the current item anew sleeps behind no link whose mission
\* memory has yet to take
CurrentLast ==
    \A i, j \in 1 .. Len(returns) :
        i <= j /\ Pending(returns[i]) /\ Pending(returns[j]) /\ call[returns[j]].why = "current" =>
            /\ call[returns[i]].mission.dataman_id = dataman_id
            /\ call[returns[i]].mission.count = count

\* The order without link l, which does not sleep or is the first
Rest(l, R) ==
    \/ R = returns /\ \A i \in 1 .. Len(returns) : returns[i] # l
    \/ /\ R \in Seq(Links) /\ Len(R) = Len(returns) - 1
       /\ 1 \in 1 .. Len(returns) /\ returns[1] = l
       /\ \A i \in 1 .. Len(R) : R[i] = returns[i + 1]
-----------------------------------------------------------------------------
(* Who is woken when *)

\* The order of a link that does not sleep
LEMMA Awake == ASSUME InOrder, NEW l, ~Sleeps(l) PROVE Rest(l, returns)
BY DEF InOrder, Rest

\* The order of the others when one is woken
LEMMA WokenIsFirst ==
    ASSUME TypeOK, InOrder, ~Preemptive, NEW l \in Links, Woken(l)
    PROVE  Rest(l, Others(l))
<1> DEFINE n == Len(returns)
<1>1. returns \in Seq(Links) /\ n \in Nat /\ Others(l) \in Seq(Links)
  BY OthersType DEF TypeOK, LinkTypes
<1>2. PICK i \in 1 .. n : returns[i] = l
  BY DEF Woken, InOrder, Sleeps
<1>3. 1 \in 1 .. n
  BY <1>1, <1>2
<1>4. returns[1] = l
  BY <1>1, <1>3 DEF Woken
<1>5. (CHOOSE k \in 1 .. n : returns[k] = l) = 1
  BY <1>3, <1>4 DEF InOrder
<1>6. Others(l) = [j \in 1 .. n - 1 |-> returns[IF j < 1 THEN j ELSE j + 1]]
  BY <1>5 DEF Others
<1>7. Len(Others(l)) = n - 1
  <2>1. n - 1 \in Nat
    BY <1>1, <1>3
  <2>2. DOMAIN Others(l) = 1 .. n - 1
    BY <1>6
  <2>3. QED
    BY <1>1, <2>1, <2>2
<1>8. \A j \in 1 .. n - 1 : Others(l)[j] = returns[j + 1]
  BY <1>1, <1>6
<1>9. QED
  BY <1>1, <1>3, <1>4, <1>7, <1>8 DEF Rest

\* The others are those that sleep, once each
LEMMA RestOthers ==
    ASSUME TypeOK, InOrder, NEW l \in Links, NEW R, Rest(l, R)
    PROVE  /\ R \in Seq(Links)
           /\ \A i \in 1 .. Len(R) : R[i] # l /\ Sleeps(R[i])
           /\ \A i, j \in 1 .. Len(R) : R[i] = R[j] => i = j
           /\ \A k \in Links \ {l} : Sleeps(k) => \E i \in 1 .. Len(R) : R[i] = k
<1>1. returns \in Seq(Links) /\ Len(returns) \in Nat
  BY DEF TypeOK, LinkTypes
<1>2. CASE R = returns /\ \A i \in 1 .. Len(returns) : returns[i] # l
  BY <1>1, <1>2 DEF InOrder
<1>3. CASE /\ R \in Seq(Links) /\ Len(R) = Len(returns) - 1
           /\ 1 \in 1 .. Len(returns) /\ returns[1] = l
           /\ \A i \in 1 .. Len(R) : R[i] = returns[i + 1]
  <2>1. \A i \in 1 .. Len(R) : i + 1 \in 1 .. Len(returns) /\ i + 1 # 1
    BY <1>1, <1>3
  <2>2. \A i \in 1 .. Len(R) : R[i] # l /\ Sleeps(R[i])
    BY <1>3, <2>1 DEF InOrder
  <2>3. \A i, j \in 1 .. Len(R) : R[i] = R[j] => i = j
    <3> SUFFICES ASSUME NEW i \in 1 .. Len(R), NEW j \in 1 .. Len(R), R[i] = R[j] PROVE i = j
        OBVIOUS
    <3>1. i + 1 = j + 1
      BY <1>3, <2>1 DEF InOrder
    <3>2. QED
      BY <1>1, <1>3, <3>1
  <2>4. ASSUME NEW k \in Links \ {l}, Sleeps(k) PROVE \E i \in 1 .. Len(R) : R[i] = k
    <3>1. PICK i \in 1 .. Len(returns) : returns[i] = k
      BY <2>4 DEF InOrder
    <3>2. i # 1
      BY <1>3, <2>4, <3>1
    <3>3. i - 1 \in 1 .. Len(R) /\ (i - 1) + 1 = i
      BY <1>1, <1>3, <3>1, <3>2
    <3>4. R[i - 1] = k
      BY <1>3, <3>1, <3>3
    <3>5. QED
      BY <3>3, <3>4
  <2>5. QED
    BY <1>3, <2>2, <2>3, <2>4
<1>4. QED
  BY <1>2, <1>3 DEF Rest

\* A link leaves the order or is put at its end
LEMMA OrderKept ==
    ASSUME TypeOK, InOrder, NEW l \in Links, NEW R, Rest(l, R),
           \A k \in Links \ {l} : call'[k] = call[k],
           \/ returns' = R /\ ~Sleeps(l)'
           \/ returns' = Append(R, l) /\ Sleeps(l)'
    PROVE  InOrder'
<1>1. /\ R \in Seq(Links) /\ Len(R) \in Nat
      /\ \A i \in 1 .. Len(R) : R[i] \in Links /\ R[i] # l /\ Sleeps(R[i])
      /\ \A i, j \in 1 .. Len(R) : R[i] = R[j] => i = j
      /\ \A k \in Links \ {l} : Sleeps(k) => \E i \in 1 .. Len(R) : R[i] = k
  BY RestOthers
<1>2. /\ \A i \in 1 .. Len(R) : call'[R[i]].kind \in {"item", "update"}
      /\ \A k \in Links \ {l} : call'[k].kind \in {"item", "update"} =>
             \E i \in 1 .. Len(R) : R[i] = k
  BY <1>1 DEF Sleeps
<1>3. CASE returns' = R /\ ~Sleeps(l)'
  BY <1>1, <1>2, <1>3 DEF InOrder, Sleeps
<1>4. CASE returns' = Append(R, l) /\ Sleeps(l)'
  <2>1. /\ Len(returns') = Len(R) + 1 /\ returns'[Len(R) + 1] = l
        /\ \A i \in 1 .. Len(R) : returns'[i] = R[i]
    BY <1>1, <1>4
  <2>2. \A i \in 1 .. Len(R) + 1 : i \in 1 .. Len(R) \/ i = Len(R) + 1
    BY <1>1
  <2>3. 1 .. Len(returns') = 1 .. Len(R) + 1 /\ Len(R) + 1 \in 1 .. Len(R) + 1
        /\ \A i \in 1 .. Len(R) : i \in 1 .. Len(R) + 1
    BY <1>1, <2>1
  <2>4. \A i \in 1 .. Len(returns') : call'[returns'[i]].kind \in {"item", "update"}
    BY <1>2, <1>4, <2>1, <2>2, <2>3 DEF Sleeps
  <2>5. \A i, j \in 1 .. Len(returns') : returns'[i] = returns'[j] => i = j
    BY <1>1, <2>1, <2>2, <2>3
  <2>6. \A k \in Links : call'[k].kind \in {"item", "update"} =>
            \E i \in 1 .. Len(returns') : returns'[i] = k
    BY <1>2, <2>1, <2>3
  <2>7. QED
    BY <2>4, <2>5, <2>6 DEF InOrder, Sleeps
<1>5. QED
  BY <1>3, <1>4

\* The newest mission stays the newest when another link that brings none is
\* woken or goes to sleep
LEMMA NewestKept ==
    ASSUME TypeOK, InOrder, NEW l \in Links, NEW R, Rest(l, R),
           \A k \in Links \ {l} : call'[k] = call[k],
           returns' = R \/ returns' = Append(R, l), ~Pending(l)', saved' = saved,
           NEW a \in Links, a # l, Newest(a)
    PROVE  Newest(a)'
<1>1. /\ R \in Seq(Links) /\ Len(R) \in Nat /\ returns \in Seq(Links) /\ Len(returns) \in Nat
      /\ \A i \in 1 .. Len(R) : R[i] \in Links /\ R[i] # l
  BY RestOthers DEF TypeOK, LinkTypes
<1>2. Pending(a)' /\ saved' = call'[a].mission
  BY DEF Newest, Pending
<1>3. \A i, j \in 1 .. Len(R) : R[i] = a /\ Pending(R[j]) => j <= i
  <2>1. CASE R = returns
    BY <2>1 DEF Newest
  <2>2. CASE Len(R) = Len(returns) - 1 /\ \A i \in 1 .. Len(R) : R[i] = returns[i + 1]
    <3> SUFFICES ASSUME NEW i \in 1 .. Len(R), NEW j \in 1 .. Len(R), R[i] = a, Pending(R[j])
                 PROVE  j <= i
        OBVIOUS
    <3>1. i + 1 \in 1 .. Len(returns) /\ j + 1 \in 1 .. Len(returns)
      BY <1>1, <2>2
    <3>2. j + 1 <= i + 1
      BY <2>2, <3>1 DEF Newest
    <3>3. QED
      BY <1>1, <3>2
  <2>3. QED
    BY <2>1, <2>2 DEF Rest
<1>4. \A j \in 1 .. Len(R) : call'[R[j]] = call[R[j]]
  BY <1>1
<1>5. CASE returns' = R
  BY <1>2, <1>3, <1>4, <1>5 DEF Newest, Pending
<1>6. CASE returns' = Append(R, l)
  <2>1. /\ Len(returns') = Len(R) + 1 /\ returns'[Len(R) + 1] = l
        /\ \A i \in 1 .. Len(R) : returns'[i] = R[i]
    BY <1>1, <1>6
  <2>2. \A i \in 1 .. Len(returns') : i \in 1 .. Len(R) \/ i = Len(R) + 1
    BY <1>1, <2>1
  <2>3. \A i, j \in 1 .. Len(returns') :
            returns'[i] = a /\ call'[returns'[j]].kind = "update" /\ call'[returns'[j]].ok => j <= i
    <3> SUFFICES ASSUME NEW i \in 1 .. Len(returns'), NEW j \in 1 .. Len(returns'),
                        returns'[i] = a, call'[returns'[j]].kind = "update", call'[returns'[j]].ok
                 PROVE  j <= i
        OBVIOUS
    <3>1. i \in 1 .. Len(R) /\ j \in 1 .. Len(R)
      BY <2>1, <2>2 DEF Pending
    <3>2. R[i] = a /\ Pending(R[j])
      BY <1>4, <2>1, <3>1 DEF Pending
    <3>3. QED
      BY <1>3, <3>1, <3>2
  <2>4. QED
    BY <1>2, <2>3 DEF Newest, Pending
<1>7. QED
  BY <1>5, <1>6

\* The order changes by one link, which brings nothing or goes to sleep last: if it
\* saves the current item, memory has taken all that the others have saved
LEMMA CurrentKept ==
    ASSUME TypeOK, InOrder, CurrentLast, NEW l \in Links, NEW R, Rest(l, R),
           \A k \in Links \ {l} : call'[k] = call[k], UNCHANGED <<dataman_id, count>>,
           \/ returns' = R
           \/ /\ returns' = Append(R, l)
              /\ Pending(l)' /\ call'[l].why = "current" =>
                     /\ Settled
                     /\ call'[l].mission.dataman_id = dataman_id
                     /\ call'[l].mission.count = count
    PROVE  CurrentLast'
<1>1. /\ R \in Seq(Links) /\ Len(R) \in Nat /\ returns \in Seq(Links) /\ Len(returns) \in Nat
      /\ \A i \in 1 .. Len(R) : R[i] \in Links /\ R[i] # l
  BY RestOthers DEF TypeOK, LinkTypes
<1>2. \A i \in 1 .. Len(R) : call'[R[i]] = call[R[i]]
  BY <1>1
<1>3. \A i, j \in 1 .. Len(R) :
        i <= j /\ Pending(R[i]) /\ Pending(R[j]) /\ call[R[j]].why = "current" =>
            /\ call[R[i]].mission.dataman_id = dataman_id /\ call[R[i]].mission.count = count
  <2>1. CASE R = returns
    BY <2>1 DEF CurrentLast
  <2>2. CASE Len(R) = Len(returns) - 1 /\ \A i \in 1 .. Len(R) : R[i] = returns[i + 1]
    <3> SUFFICES ASSUME NEW i \in 1 .. Len(R), NEW j \in 1 .. Len(R), i <= j, Pending(R[i]),
                        Pending(R[j]), call[R[j]].why = "current"
                 PROVE  /\ call[R[i]].mission.dataman_id = dataman_id
                        /\ call[R[i]].mission.count = count
        OBVIOUS
    <3>1. i + 1 \in 1 .. Len(returns) /\ j + 1 \in 1 .. Len(returns) /\ i + 1 <= j + 1
      BY <1>1, <2>2
    <3>2. QED
      BY <2>2, <3>1 DEF CurrentLast
  <2>3. QED
    BY <2>1, <2>2 DEF Rest
<1>4. CASE returns' = R
  BY <1>2, <1>3, <1>4 DEF CurrentLast, Pending
<1>5. CASE returns' = Append(R, l) /\ returns' # R
  <2>1. /\ Len(returns') = Len(R) + 1 /\ returns'[Len(R) + 1] = l
        /\ \A i \in 1 .. Len(R) : returns'[i] = R[i]
    BY <1>1, <1>5
  <2>2. \A i \in 1 .. Len(returns') : i \in 1 .. Len(R) \/ i = Len(R) + 1
    BY <1>1, <2>1
  <2> SUFFICES ASSUME NEW i \in 1 .. Len(returns'), NEW j \in 1 .. Len(returns'), i <= j,
                      Pending(returns[i])', Pending(returns[j])', call'[returns'[j]].why = "current"
               PROVE  /\ call'[returns'[i]].mission.dataman_id = dataman_id
                      /\ call'[returns'[i]].mission.count = count
      BY DEF CurrentLast
  <2>3. CASE j \in 1 .. Len(R)
    <3>1. i \in 1 .. Len(R)
      BY <1>1, <2>2, <2>3
    <3>2. Pending(R[i]) /\ Pending(R[j]) /\ call[R[j]].why = "current"
      BY <1>2, <2>1, <2>3, <3>1 DEF Pending
    <3>3. QED
      BY <1>2, <1>3, <2>1, <2>3, <3>1, <3>2
  <2>4. CASE j = Len(R) + 1
    <3>1. /\ Settled /\ call'[l].mission.dataman_id = dataman_id
          /\ call'[l].mission.count = count
      BY <1>5, <2>1, <2>4 DEF Pending
    <3>2. CASE i \in 1 .. Len(R)
      <4>1. R[i] \in Links /\ Pending(R[i]) /\ call'[returns'[i]] = call[R[i]]
        BY <1>1, <1>2, <2>1, <3>2 DEF Pending
      <4>2. QED
        BY <3>1, <4>1 DEF Settled, Pending
    <3>3. CASE i = Len(R) + 1
      BY <2>1, <3>1, <3>3
    <3>4. QED
      BY <2>2, <3>2, <3>3
  <2>5. QED
    BY <2>2, <2>3, <2>4
<1>6. QED
  BY <1>4, <1>5
-----------------------------------------------------------------------------
(* The newest mission is the one that is found *)

\* A step that wakes no link and puts none to sleep
LEMMA OrderQuiet ==
    ASSUME TypeOK, InOrder, NewestWins, NEW l \in Links,
           \A k \in Links \ {l} : call'[k] = call[k],
           call'[l] = call[l] \/ (~Sleeps(l) /\ ~Sleeps(l)'),
           UNCHANGED <<returns, saved, dataman_id, count>>
    PROVE  InOrder' /\ NewestWins' /\ (CurrentLast => CurrentLast')
<1>1. \A k \in Links : /\ call'[k].kind \in {"item", "update"} <=> Sleeps(k)
                       /\ call'[k] = call[k] \/ (~Pending(k) /\ ~Pending(k)')
  BY DEF Sleeps, Pending
<1>2. \A i \in 1 .. Len(returns) : returns[i] \in Links
  BY DEF TypeOK, LinkTypes
<1>3. InOrder'
  BY <1>1, <1>2 DEF InOrder, Sleeps
<1>4. \A k \in Links : Newest(k) => Newest(k)'
  BY <1>1, <1>2 DEF Newest, Pending
<1>5. NewestWins'
  BY <1>1, <1>4 DEF NewestWins, Follows, Pending
<1>6. CurrentLast => CurrentLast'
  BY <1>1, <1>2 DEF CurrentLast, Pending
<1>7. QED
  BY <1>3, <1>5, <1>6

\* A link that is woken or goes to sleep, bringing no mission to the card or memory
LEMMA OrderBrings ==
    ASSUME TypeOK, InOrder, NewestWins, NEW l \in Links, NEW R, Rest(l, R),
           \A k \in Links \ {l} : call'[k] = call[k],
           \/ returns' = R /\ ~Sleeps(l)'
           \/ returns' = Append(R, l) /\ Sleeps(l)',
           ~Pending(l), ~Pending(l)', UNCHANGED <<saved, dataman_id, count>>
    PROVE  InOrder' /\ NewestWins' /\ (CurrentLast => CurrentLast')
<1>1. InOrder'
  BY OrderKept
<1>2. \A a \in Links : Newest(a) => a # l
  BY DEF Newest
<1>3. \A a \in Links : Newest(a) => Newest(a)'
  BY <1>2, NewestKept
<1>4. NewestWins'
  BY <1>3 DEF NewestWins, Follows, Pending
<1>5. CurrentLast => CurrentLast'
  BY CurrentKept
<1>6. QED
  BY <1>1, <1>4, <1>5

\* A link that saves a mission goes to sleep after all the others
LEMMA OrderSaves ==
    ASSUME TypeOK, InOrder, NewestWins, NEW l \in Links, NEW R, Rest(l, R), NEW m, NEW why,
           save_mission(l, m, why), ~Pending(l), returns' = Append(R, l),
           UNCHANGED <<dataman_id, count>>
    PROVE  /\ InOrder' /\ NewestWins'
           /\ CurrentLast /\ (why = "current" => Settled /\ m.dataman_id = dataman_id
                                                        /\ m.count = count) => CurrentLast'
<1>1. PICK res \in Outcomes :
        /\ saved' = Written(saved, m, Unreadable, res)
        /\ call' = [call EXCEPT ![l] = [kind |-> "update", mission |-> m,
                                        ok |-> (res = "ok"), why |-> why]]
  BY DEF save_mission
<1>2. /\ call'[l] = [kind |-> "update", mission |-> m, ok |-> (res = "ok"), why |-> why]
      /\ \A k \in Links \ {l} : call'[k] = call[k]
  BY <1>1 DEF TypeOK, LinkTypes
<1>3. call'[l].kind = "update" /\ call'[l].mission = m /\ Sleeps(l)'
  BY <1>2 DEF Sleeps
<1>4. InOrder'
  BY <1>2, <1>3, OrderKept
<1>5. ASSUME CurrentLast,
             why = "current" => Settled /\ m.dataman_id = dataman_id /\ m.count = count
      PROVE  CurrentLast'
  <2>1. call'[l].why = why
    BY <1>2
  <2>2. QED
    BY <1>2, <1>3, <1>5, <2>1, CurrentKept
<1>6. CASE res = "ok"
  <2>1. (res = "ok") = TRUE
    BY <1>6
  <2>2. call'[l] = [kind |-> "update", mission |-> m, ok |-> TRUE, why |-> why]
    BY <1>2, <2>1
  <2>3. Pending(l)' /\ saved' = call'[l].mission
    BY <1>1, <1>6, <2>2 DEF Pending, Written
  <2>4. /\ R \in Seq(Links) /\ Len(R) \in Nat /\ \A i \in 1 .. Len(R) : R[i] # l
    BY RestOthers
  <2>5. /\ Len(returns') = Len(R) + 1 /\ \A i \in 1 .. Len(R) : returns'[i] # l
    BY <2>4
  <2>6. \A i, j \in 1 .. Len(returns') : returns'[i] = l => j <= i
    BY <2>4, <2>5
  <2>7. Newest(l)'
    BY <2>3, <2>6 DEF Newest
  <2>8. QED
    BY <1>4, <1>5, <2>7 DEF NewestWins
<1>7. CASE res # "ok"
  <2>1. (res = "ok") = FALSE
    BY <1>7
  <2>2. call'[l] = [kind |-> "update", mission |-> m, ok |-> FALSE, why |-> why]
    BY <1>2, <2>1
  <2>3. ~Pending(l)'
    BY <2>2 DEF Pending
  <2>4. saved' = saved \/ saved' = Unreadable
    BY <1>1, <1>7, MissionAssumption DEF Written
  <2>5. CASE saved' = saved
    BY <1>2, <1>3, <1>5, <2>3, <2>5, OrderBrings
  <2>6. CASE saved' = Unreadable
    BY <1>4, <1>5, <2>6 DEF NewestWins
  <2>7. QED
    BY <2>4, <2>5, <2>6
<1>8. QED
  BY <1>6, <1>7

\* Memory follows the mission of the link that is woken
LEMMA OrderUpdates ==
    ASSUME TypeOK, InOrder, NewestWins, ~Preemptive, NEW l \in Links, update_active_mission(l)
    PROVE  InOrder' /\ NewestWins' /\ (CurrentLast => CurrentLast')
<1>1. /\ Rest(l, Others(l)) /\ returns' = Others(l) /\ call[l].kind = "update"
      /\ saved' = saved /\ call'[l] = NoCall /\ \A k \in Links \ {l} : call'[k] = call[k]
  BY WokenIsFirst DEF update_active_mission, Resumed, cardVars, TypeOK, LinkTypes
<1>2. ~Sleeps(l)' /\ ~Pending(l)'
  BY <1>1 DEF Sleeps, Pending, NoCall
<1>3. CASE ~Pending(l)
  <2>1. UNCHANGED <<dataman_id, count>>
    BY <1>1, <1>3 DEF update_active_mission, Pending, activeVars
  <2>2. QED
    BY <1>1, <1>2, <1>3, <2>1, OrderBrings
<1>4. CASE Pending(l)
  <2>1. InOrder'
    BY <1>1, <1>2, OrderKept
  <2>2. dataman_id' = call[l].mission.dataman_id /\ count' = call[l].mission.count
    BY <1>4 DEF update_active_mission, Pending
  <2>3. ASSUME Newest(l) PROVE NewestWins'
    <3>1. Follows'
      BY <1>1, <2>2, <2>3 DEF Newest, Follows
    <3>2. \A i \in 1 .. Len(returns) : Pending(returns[i]) => returns[i] = l
      <4>1. Len(returns) \in Nat
        BY DEF TypeOK, LinkTypes
      <4>2. PICK j \in 1 .. Len(returns) : returns[j] = l
        BY <1>1 DEF InOrder, Sleeps
      <4>3. 1 \in 1 .. Len(returns) /\ returns[1] = l
        BY <1>1, <4>1, <4>2 DEF Rest
      <4>4. \A i \in 1 .. Len(returns) : Pending(returns[i]) => i <= 1
        BY <2>3, <4>3 DEF Newest
      <4>5. \A i \in 1 .. Len(returns) : i <= 1 => i = 1
        BY <4>1
      <4>6. QED
        BY <4>3, <4>4, <4>5
    <3>3. \A k \in Links : Pending(k) => k = l
      BY <3>2 DEF InOrder, Sleeps, Pending
    <3>4. \A k \in Links : ~Pending(k)'
      BY <1>1, <1>2, <3>3 DEF Pending
    <3>5. QED
      BY <3>1, <3>4 DEF NewestWins
  <2>4. ASSUME NEW a \in Links, a # l, Newest(a) PROVE NewestWins'
    BY <1>1, <1>2, <2>4, NewestKept DEF NewestWins
  <2>5. ASSUME saved = Unreadable PROVE NewestWins'
    BY <1>1, <2>5 DEF NewestWins
  <2>6. CurrentLast => CurrentLast'
    <3> DEFINE R == Others(l)
    <3>1. CASE \E j \in 1 .. Len(R) : Pending(R[j]) /\ call[R[j]].why = "current"
      <4>1. PICK j \in 1 .. Len(R) : Pending(R[j]) /\ call[R[j]].why = "current"
        BY <3>1
      <4>2. R # returns => /\ 1 \in 1 .. Len(returns) /\ returns[1] = l
                           /\ Len(R) = Len(returns) - 1 /\ R[j] = returns[j + 1]
        BY <1>1 DEF Rest
      <4>3. R = returns => ~Sleeps(l)
        BY <1>1, RestOthers DEF InOrder
      <4>4. Len(returns) \in Nat /\ Sleeps(l)
        BY <1>1 DEF TypeOK, LinkTypes, Sleeps
      <4>5. j + 1 \in 1 .. Len(returns) /\ 1 <= j + 1
        BY <4>2, <4>3, <4>4
      <4>6. CurrentLast => UNCHANGED <<dataman_id, count>>
        BY <1>4, <2>2, <4>1, <4>2, <4>3, <4>4, <4>5 DEF CurrentLast
      <4>7. QED
        BY <1>1, <4>6, CurrentKept
    <3>2. CASE \A j \in 1 .. Len(R) : ~(Pending(R[j]) /\ call[R[j]].why = "current")
      <4>1. \A j \in 1 .. Len(R) : R[j] \in Links /\ R[j] # l
        BY <1>1, RestOthers
      <4>2. \A j \in 1 .. Len(returns') : call'[returns'[j]] = call[R[j]]
        BY <1>1, <4>1
      <4>3. QED
        BY <1>1, <3>2, <4>2 DEF CurrentLast, Pending
    <3>3. QED
      BY <3>1, <3>2
  <2>7. QED
    BY <1>4, <2>1, <2>3, <2>4, <2>5, <2>6 DEF NewestWins
<1>5. QED
  BY <1>3, <1>4

\* Steps that neither wake a link nor put one to sleep
LEMMA QuietOrder ==
    ASSUME TypeOK, InOrder, NewestWins, NEW l \in Links,
           \/ \E s \in Stations : handle_mission_ack(l, s) \/ handle_mission_request_list(l, s)
           \/ \E s \in Stations, q \in Seqs : handle_mission_request(l, s, q)
           \/ handle_mission_count_refused(l) \/ handle_mission_count_again(l)
           \/ \E s \in Stations, n \in 0 .. MaxItems + 1 : handle_mission_count_tested(l, s, n)
           \/ handle_mission_item_invalid(l) \/ Send(l)
    PROVE  InOrder' /\ NewestWins' /\ (CurrentLast => CurrentLast')
<1>1. UNCHANGED <<returns, saved, dataman_id, count>>
  BY DEF handle_mission_ack, handle_mission_request_list, handle_mission_request,
         handle_mission_count_refused, handle_mission_count_again, handle_mission_count_tested,
         handle_mission_item_invalid, LinkStep, Send, mission_result, timeout_found,
         action_timeout,
         retry_found, resend_found, retry, Find, Done, check_active_mission, activeVars, cardVars, callVars
<1>2. CASE call' = call
  BY <1>1, <1>2, OrderQuiet
<1>3. ASSUME NEW s \in Stations, NEW n \in 0 .. MaxItems + 1, handle_mission_count_tested(l, s, n)
      PROVE  InOrder' /\ NewestWins' /\ (CurrentLast => CurrentLast')
  <2>1. /\ call[l] = NoCall /\ call'[l].kind = "count" /\ \A k \in Links \ {l} : call'[k] = call[k]
    BY <1>3 DEF handle_mission_count_tested, Receives, TypeOK, LinkTypes
  <2>2. ~Sleeps(l) /\ ~Sleeps(l)'
    BY <2>1 DEF Sleeps, NoCall
  <2>3. QED
    BY <1>1, <2>1, <2>2, OrderQuiet
<1>4. CASE \/ \E s \in Stations : handle_mission_ack(l, s) \/ handle_mission_request_list(l, s)
           \/ \E s \in Stations, q \in Seqs : handle_mission_request(l, s, q)
           \/ handle_mission_count_refused(l) \/ handle_mission_count_again(l)
           \/ handle_mission_item_invalid(l) \/ Send(l)
  <2>1. call' = call
    BY <1>4 DEF handle_mission_ack, handle_mission_request_list, handle_mission_request,
         handle_mission_count_refused, handle_mission_count_again, handle_mission_item_invalid,
         LinkStep, Send, mission_result, timeout_found, action_timeout,
         retry_found, resend_found, retry, Find, Done, check_active_mission, callVars
  <2>2. QED
    BY <1>2, <2>1
<1>5. QED
  BY <1>3, <1>4

\* MISSION_COUNT
LEMMA CountOrder ==
    ASSUME TypeOK, InOrder, NewestWins, NEW l \in Links, NEW s \in Stations,
           NEW n \in 0 .. MaxItems + 1, handle_mission_count(l, s, n)
    PROVE  InOrder' /\ NewestWins' /\ (CurrentLast => CurrentLast')
<1>1. /\ TakeCount(l, s, n) /\ UNCHANGED <<dataman_id, count>> /\ DOMAIN call = Links
      /\ ~Sleeps(l) /\ ~Pending(l)
  BY DEF handle_mission_count, Receives, activeVars, Sleeps, Pending, NoCall, TypeOK, LinkTypes
<1>2. CASE n # 0
  <2>1. UNCHANGED <<returns, saved>> /\ call' = [call EXCEPT ![l] = NoCall]
    BY <1>1, <1>2, MissionAssumption, Zenon DEF TakeCount
  <2>2. ~Sleeps(l)' /\ \A k \in Links \ {l} : call'[k] = call[k]
    BY <1>1, <2>1 DEF Sleeps, NoCall
  <2>3. QED
    BY <1>1, <2>1, <2>2, OrderQuiet
<1>3. CASE n = 0
  <2>1. save_mission(l, Mission(Inactive, 0, 0), "zero") /\ returns' = Append(returns, l)
    BY <1>1, <1>3, MissionAssumption DEF TakeCount
  <2>2. QED
    BY <1>1, <2>1, Awake, OrderSaves
<1>4. QED
  BY <1>2, <1>3

\* SET_CURRENT, in turn and not
LEMMA CurrentOrder ==
    ASSUME TypeOK, InOrder, NewestWins, ~Preemptive, NEW l \in Links, NEW q \in Seqs,
           handle_mission_set_current(l, q)
    PROVE  InOrder' /\ NewestWins' /\ (CurrentLast /\ Settled => CurrentLast')
<1>1. /\ save_mission(l, Mission(dataman_id, count, q), "current")
      /\ UNCHANGED <<dataman_id, count>> /\ returns' = Append(returns, l)
      /\ ~Sleeps(l) /\ ~Pending(l)
  BY DEF handle_mission_set_current, activeVars, Receives, NoCall, Sleeps, Pending
<1>2. QED
  BY <1>1, Awake, OrderSaves, Fields

\* The other handlers, before and after they sleep
LEMMA SleepOrder ==
    ASSUME TypeOK, InOrder, NewestWins, ~Preemptive, NEW l \in Links,
           \/ handle_mission_clear_all(l)
           \/ \E q \in Seqs, current \in Marks : handle_mission_item(l, q, current)
           \/ handle_mission_item_unwritten(l) \/ handle_mission_item_next(l)
           \/ handle_mission_item_last(l)
    PROVE  InOrder' /\ NewestWins' /\ (CurrentLast => CurrentLast')
<1>1. DOMAIN call = Links
  BY DEF TypeOK, LinkTypes
<1>3. CASE handle_mission_clear_all(l)
  <2>1. /\ save_mission(l, Mission(Inactive, 0, 0), "clear")
        /\ UNCHANGED <<dataman_id, count>> /\ returns' = Append(returns, l)
        /\ ~Sleeps(l) /\ ~Pending(l)
    BY <1>3 DEF handle_mission_clear_all, activeVars, Receives, NoCall, Sleeps, Pending
  <2>2. QED
    BY <2>1, Awake, OrderSaves
<1>4. ASSUME NEW q \in Seqs, NEW current \in Marks, handle_mission_item(l, q, current)
      PROVE  InOrder' /\ NewestWins' /\ (CurrentLast => CurrentLast')
  <2>1. /\ UNCHANGED <<saved, dataman_id, count>> /\ returns' = Append(returns, l)
        /\ call[l] = NoCall /\ call'[l].kind = "item" /\ \A k \in Links \ {l} : call'[k] = call[k]
    BY <1>1, <1>4 DEF handle_mission_item, activeVars, Receives
  <2>2. ~Sleeps(l) /\ ~Pending(l) /\ ~Pending(l)' /\ Sleeps(l)'
    BY <2>1 DEF Sleeps, Pending, NoCall
  <2>3. QED
    BY <2>1, <2>2, Awake, OrderBrings
<1>5. CASE handle_mission_item_unwritten(l) \/ handle_mission_item_next(l)
  <2>1. /\ Rest(l, Others(l)) /\ returns' = Others(l) /\ call[l].kind = "item"
        /\ UNCHANGED <<saved, dataman_id, count>>
    BY <1>5, WokenIsFirst DEF handle_mission_item_unwritten, handle_mission_item_next, Resumed,
                              cardVars, activeVars
  <2>2. call' = [call EXCEPT ![l] = NoCall]
    BY <1>5 DEF handle_mission_item_unwritten, handle_mission_item_next
  <2>3. call'[l] = NoCall /\ \A k \in Links \ {l} : call'[k] = call[k]
    BY <1>1, <2>2
  <2>4. ~Pending(l) /\ ~Pending(l)' /\ ~Sleeps(l)'
    BY <2>1, <2>3 DEF Pending, Sleeps, NoCall
  <2>5. QED
    BY <2>1, <2>3, <2>4, OrderBrings
<1>6. CASE handle_mission_item_last(l)
  <2>1. PICK m : save_mission(l, m, "last")
    BY <1>6 DEF handle_mission_item_last
  <2>2. /\ Rest(l, Others(l)) /\ returns' = Append(Others(l), l) /\ ~Pending(l)
        /\ UNCHANGED <<dataman_id, count>>
    BY <1>6, WokenIsFirst DEF handle_mission_item_last, activeVars, Pending
  <2>3. QED
    BY <2>1, <2>2, OrderSaves
<1>7. QED
  BY <1>3, <1>4, <1>5, <1>6

\* Every step keeps the order and the newest mission
LEMMA OrderStep ==
    ASSUME ~Preemptive
    PROVE  TypeOK /\ InOrder /\ NewestWins =>
               /\ [Next]_vars => InOrder' /\ NewestWins'
               /\ CurrentLast /\ [NextOrderly]_vars => CurrentLast'
<1> DEFINE Kept == InOrder' /\ NewestWins' /\ (CurrentLast => CurrentLast')
<1> SUFFICES ASSUME TypeOK, InOrder, NewestWins
             PROVE  /\ [Next]_vars => InOrder' /\ NewestWins'
                    /\ CurrentLast /\ [NextOrderly]_vars => CurrentLast'
    OBVIOUS
<1>1. ASSUME power_loss PROVE Kept
  <2>1. /\ returns' = <<>> /\ \A k \in Links : call'[k] = NoCall
        /\ saved' = saved /\ dataman_id' = Booted.dataman_id /\ count' = Booted.count
    BY <1>1 DEF power_loss, cardVars
  <2>2. InOrder' /\ CurrentLast' /\ \A k \in Links : ~Pending(k)'
    BY <2>1 DEF InOrder, CurrentLast, Sleeps, Pending, NoCall
  <2>3. Follows'
    BY <2>1 DEF Follows, Booted
  <2>4. QED
    BY <2>2, <2>3 DEF NewestWins
<1>2. ASSUME NEW l \in Links, ReceiveOther(l) PROVE Kept
  BY <1>2, QuietOrder, CountOrder, SleepOrder DEF ReceiveOther
<1>3. ASSUME NEW l \in Links, Resume(l) PROVE Kept
  BY <1>3, SleepOrder, OrderUpdates DEF Resume
<1>4. ASSUME NEW l \in Links, Send(l) PROVE Kept
  BY <1>4, QuietOrder
<1>5. ASSUME UNCHANGED vars PROVE Kept
  BY <1>5 DEF vars, activeVars, cardVars, callVars, InOrder, NewestWins, Newest, Follows, Sleeps,
              Pending, CurrentLast
<1>6. [Next]_vars => InOrder' /\ NewestWins'
  BY <1>1, <1>2, <1>3, <1>4, <1>5, CurrentOrder DEF Next, Receive
<1>7. CurrentLast /\ [NextOrderly]_vars => CurrentLast'
  BY <1>1, <1>2, <1>3, <1>4, <1>5, CurrentOrder DEF NextOrderly, set_current_in_turn
<1>8. QED
  BY <1>6, <1>7

\* At first no link sleeps
LEMMA OrderInit == Init => InOrder /\ NewestWins /\ CurrentLast
BY DEF Init, NoCall, InOrder, Sleeps, NewestWins, Follows, Pending, CurrentLast

\* On NuttX, once no handler sleeps, what is flown is what the next boot will find,
\* whatever any number of links receive, in whatever order missions were saved and
\* whichever writes failed: the last mission written is the last that memory takes.
THEOREM NewestIsFlown == ASSUME ~Preemptive PROVE Spec => []PersistedMatchesActive
<1>1. TypeOK /\ InOrder /\ NewestWins /\ [Next]_vars => InOrder' /\ NewestWins'
  BY OrderStep
<1>2. NewestWins => PersistedMatchesActive
  BY DEF NewestWins, Newest, Pending, Follows, PersistedMatchesActive, NoCall
<1>3. QED
  BY <1>1, <1>2, OrderInit, TypeCorrect, PTL DEF Spec
-----------------------------------------------------------------------------
(* What is on the card when stations set the current item in turn *)

\* A mission that is saved and not empty was received item by item or is flown
Origins ==
    \A l \in Links : call[l].kind = "update" /\ call[l].why \notin {"last", "current"} =>
        call[l].mission.count = 0

\* The missions that memory is about to take are whole
Brought == \A l \in Links : Pending(l) => Whole(call[l].mission)

\* The items of the upload under way are where neither the record nor memory
\* names any
Apart(l) ==
    /\ saved = Unreadable \/ saved.count = 0 \/ saved.dataman_id # link[l].t_id
    /\ count = 0 \/ dataman_id # link[l].t_id
    /\ link[l].upload = transfers
    /\ \A s \in 0 .. link[l].t_seq - 1 : store[link[l].t_id][s] = transfers
    /\ call[l].kind = "item" /\ call[l].ok => store[link[l].t_id][link[l].t_seq] = transfers

LinkInv ==
    /\ Origins /\ \A l \in Links : Filling(l) => Apart(l)
    /\ ActiveComplete /\ MemoryWhole /\ Brought

\* What a link that saves the current item has saved is in memory
LEMMA CurrentInMemory ==
    ASSUME TypeOK, InOrder, CurrentLast, NEW l \in Links, Pending(l), call[l].why = "current"
    PROVE  call[l].mission.dataman_id = dataman_id /\ call[l].mission.count = count
<1>1. PICK i \in 1 .. Len(returns) : returns[i] = l
  BY DEF InOrder, Sleeps, Pending
<1>2. i <= i
  BY DEF TypeOK, LinkTypes
<1>3. QED
  BY <1>1, <1>2 DEF CurrentLast

\* Missions are whole when their storage has not changed
LEMMA WholeKept ==
    ASSUME NEW m, Whole(m), m.count = 0 \/ store'[m.dataman_id] = store[m.dataman_id]
    PROVE  \A s, q \in 0 .. m.count - 1 :
               store'[m.dataman_id][s] = store'[m.dataman_id][q]
               /\ store'[m.dataman_id][s] # Unwritten
<1>1. CASE m.count = 0
  BY <1>1 DEF Whole
<1>2. CASE store'[m.dataman_id] = store[m.dataman_id]
  BY <1>2 DEF Whole
<1>3. QED
  BY <1>1, <1>2

\* The mission in memory is the only one there
LEMMA MemoryIs ==
    /\ MemoryWhole <=> \A s, q \in 0 .. count - 1 :
           store[dataman_id][s] = store[dataman_id][q] /\ store[dataman_id][s] # Unwritten
    /\ MemoryWhole' <=> \A s, q \in 0 .. count' - 1 :
           store'[dataman_id'][s] = store'[dataman_id'][q] /\ store'[dataman_id'][s] # Unwritten
BY Fields DEF MemoryWhole, Whole

\* Without an upload under way memory is where the record is, or one is empty
LEMMA WhereNext ==
    ASSUME TypeOK, InOrder, CurrentLast, NewestWins, IInv, LinkInv, ~in_progress
    PROVE  saved = Unreadable \/ saved.count = 0 \/ saved.dataman_id = dataman_id
<1>1. ASSUME NEW l \in Links, Newest(l) PROVE saved.count = 0 \/ saved.dataman_id = dataman_id
  <2>1. Pending(l) /\ saved = call[l].mission /\ call[l].why # "last"
    BY <1>1 DEF Newest, Pending, IInv, BusyHolds, Busy, Updating
  <2>2. CASE call[l].why = "current"
    BY <2>1, <2>2, CurrentInMemory
  <2>3. CASE call[l].why # "current"
    BY <2>1, <2>3 DEF LinkInv, Origins, Pending
  <2>4. QED
    BY <2>2, <2>3
<1>2. QED
  BY <1>1 DEF NewestWins, Follows

\* At most one upload is under way, and no link that saves a mission has another
LEMMA OneFilling ==
    ASSUME IInv
    PROVE  /\ \A l, k \in Links : Filling(l) /\ Filling(k) => l = k
           /\ \A l \in Links : call[l].kind = "update" => ~Filling(l)
           /\ \A l, k \in Links : Filling(l) /\ Updating(k, {"last", "zero"}) => FALSE
<1>1. \A l \in Links : Filling(l) => Busy(l)
  BY DEF Filling, Busy
<1>2. \A l \in Links : call[l].kind = "update" => ~Filling(l)
  BY DEF IInv, SavingIsIdle, Filling
<1>3. \A l, k \in Links : Filling(l) /\ Updating(k, {"last", "zero"}) => l = k
  BY <1>1 DEF IInv, OneBusy, Busy
<1>4. QED
  BY <1>1, <1>2, <1>3 DEF IInv, OneBusy, Updating

\* Only one link's members change: its upload goes on as it was or is no more
LEMMA LinkKept ==
    ASSUME LinkInv, NEW l \in Links,
           \A k \in Links \ {l} : /\ link'[k] = link[k] /\ call'[k] = call[k],
           UNCHANGED <<dataman_id, count, saved, store, transfers>>,
           call'[l] = call[l] \/ call'[l].kind \notin {"item", "update"},
           Filling(l)' => /\ Filling(l) /\ link'[l].t_seq = link[l].t_seq
                          /\ link'[l].t_id = link[l].t_id /\ link'[l].upload = link[l].upload
    PROVE  LinkInv'
<1>1. Origins' /\ ActiveComplete' /\ MemoryWhole' /\ Brought'
  BY MemoryIs DEF LinkInv, Origins, ActiveComplete, Brought, Pending, Whole
<1>2. Filling(l)' => Apart(l)'
  BY DEF LinkInv, Apart
<1>3. \A k \in Links \ {l} : Filling(k)' => Apart(k)'
  BY DEF LinkInv, Apart, Filling, Uploading
<1>4. QED
  BY <1>1, <1>2, <1>3 DEF LinkInv

\* An empty mission is saved, as far as the write succeeds
LEMMA LinkClears ==
    ASSUME TypeOK, LinkInv, NEW l \in Links, NEW id \in Ids, NEW why \in {"zero", "clear"},
           save_mission(l, Mission(id, 0, 0), why), call[l].kind # "item",
           UNCHANGED <<dataman_id, count, store, transfers, link>>
    PROVE  LinkInv'
<1> DEFINE m == Mission(id, 0, 0)
<1>1. PICK res \in Outcomes :
        /\ saved' = Written(saved, m, Unreadable, res)
        /\ call' = [call EXCEPT ![l] = [kind |-> "update", mission |-> m,
                                        ok |-> (res = "ok"), why |-> why]]
  BY DEF save_mission
<1>2. /\ call'[l] = [kind |-> "update", mission |-> m, ok |-> (res = "ok"), why |-> why]
      /\ \A k \in Links \ {l} : call'[k] = call[k]
  BY <1>1 DEF TypeOK, LinkTypes
<1>3. call'[l].kind = "update" /\ call'[l].why = why /\ call'[l].mission = m
  BY <1>2
<1>4. m.count = 0
  BY Fields
<1>5. saved' = saved \/ saved' = Unreadable \/ saved' = m
  BY <1>1, MissionAssumption DEF Written
<1> HIDE DEF m
<1>6. Origins'
  BY <1>2, <1>3, <1>4 DEF LinkInv, Origins
<1>7. \A k \in Links : Filling(k)' => Filling(k)
  BY <1>2, <1>3 DEF Filling, Uploading
<1>8. ASSUME NEW k \in Links, Filling(k)' PROVE Apart(k)'
  <2>1. Apart(k)
    BY <1>7, <1>8 DEF LinkInv
  <2>2. call'[k].kind = "item" => call'[k] = call[k]
    BY <1>2, <1>3
  <2>3. QED
    BY <1>4, <1>5, <2>1, <2>2 DEF Apart
<1>9. ActiveComplete'
  BY <1>4, <1>5 DEF LinkInv, ActiveComplete, Whole
<1>10. MemoryWhole' /\ Brought'
  <2>1. Whole(m)' /\ \A k \in Links \ {l} : Pending(k)' => Pending(k) /\ call'[k] = call[k]
    BY <1>2, <1>4 DEF Whole, Pending
  <2>2. Brought'
    BY <1>3, <2>1 DEF LinkInv, Brought, Whole
  <2>3. QED
    BY <2>2, MemoryIs DEF LinkInv
<1>11. QED
  BY <1>6, <1>8, <1>9, <1>10 DEF LinkInv

\* Downloads, refusals, repetitions and the main thread
LEMMA QuietLinks ==
    ASSUME TypeOK, LinkInv, NEW l \in Links,
           \/ \E s \in Stations : handle_mission_ack(l, s) \/ handle_mission_request_list(l, s)
           \/ \E s \in Stations, q \in Seqs : handle_mission_request(l, s, q)
           \/ handle_mission_count_refused(l) \/ handle_mission_count_again(l)
           \/ handle_mission_item_invalid(l) \/ Send(l)
    PROVE  LinkInv'
<1>1. link \in [Links -> LinkMembers]
  BY DEF TypeOK, LinkTypes
<1>2. UNCHANGED <<dataman_id, count, saved, store, transfers, call>>
  BY DEF handle_mission_ack, handle_mission_request_list, handle_mission_request,
         handle_mission_count_refused, handle_mission_count_again, handle_mission_item_invalid,
         LinkStep, Send, mission_result, timeout_found, action_timeout,
         retry_found, resend_found, retry, Find, Done, check_active_mission, callVars, cardVars, activeVars
<1>3. CASE \/ \E s \in Stations : handle_mission_ack(l, s) \/ handle_mission_request_list(l, s)
           \/ \E s \in Stations, q \in Seqs : handle_mission_request(l, s, q)
           \/ handle_mission_item_invalid(l)
  <2>1. /\ call[l] = NoCall /\ link'[l].state # "GETLIST"
        /\ \A k \in Links \ {l} : link'[k] = link[k]
    <3>1. CASE \/ \E s \in Stations : handle_mission_ack(l, s) \/ handle_mission_request_list(l, s)
               \/ handle_mission_item_invalid(l)
      BY <1>1, <3>1 DEF handle_mission_ack, handle_mission_request_list, handle_mission_item_invalid,
                        Receives, LinkStep, LinkMembers
    <3>2. ASSUME NEW s \in Stations, NEW q \in Seqs, handle_mission_request(l, s, q)
          PROVE  call[l] = NoCall /\ link'[l].state # "GETLIST"
                 /\ \A k \in Links \ {l} : link'[k] = link[k]
      BY <1>1, <3>2 DEF handle_mission_request, Receives, LinkStep, LinkMembers
    <3>3. QED
      BY <1>3, <3>1, <3>2
  <2>2. ~Filling(l)'
    BY <1>2, <2>1 DEF Filling, Uploading, NoCall
  <2>3. QED
    BY <1>2, <2>1, <2>2, LinkKept
<1>4. CASE handle_mission_count_refused(l) \/ handle_mission_count_again(l) \/ Send(l)
  <2>1. /\ link'[l].state \in {link[l].state, "IDLE"} /\ link'[l].t_seq = link[l].t_seq
        /\ link'[l].t_id = link[l].t_id /\ link'[l].upload = link[l].upload
        /\ \A k \in Links \ {l} : link'[k] = link[k]
    <3>1. CASE handle_mission_count_refused(l) \/ handle_mission_count_again(l)
      BY <1>1, <3>1 DEF handle_mission_count_refused, handle_mission_count_again, LinkStep,
                        LinkMembers
    <3>2. CASE \/ \E q \in Seqs, changed \in {{}} \cup {{i} : i \in Seqs} : mission_result(l, q, changed)
               \/ timeout_found(l) \/ retry_found(l) \/ resend_found(l) \/ retry(l)
      BY <3>2, MainSteps DEF mission_result
    <3>3. CASE action_timeout(l) \/ check_active_mission(l)
      BY <1>1, <3>3 DEF action_timeout, Done, check_active_mission, LinkStep, LinkMembers
    <3>4. QED
      BY <1>4, <3>1, <3>2, <3>3 DEF Send
  <2>2. Filling(l)' => Filling(l)
    BY <1>2, <2>1 DEF Filling, Uploading
  <2>3. QED
    BY <1>2, <2>1, <2>2, LinkKept
<1>5. QED
  BY <1>3, <1>4

\* MISSION_COUNT clears the mission, or begins an upload where neither the record
\* nor memory names any item
LEMMA CountLinks ==
    ASSUME TypeOK, InOrder, CurrentLast, NewestWins, IInv, LinkInv, ~Preemptive,
           NEW l \in Links, NEW s \in Stations,
           NEW n \in 0 .. MaxItems + 1,
           handle_mission_count_tested(l, s, n) \/ handle_mission_count(l, s, n)
    PROVE  LinkInv'
<1>1. link \in [Links -> LinkMembers] /\ DOMAIN call = Links /\ dataman_id \in Ids
  BY DEF TypeOK, LinkTypes, ActiveTypes
<1>2. call[l] # [kind |-> "count", from |-> s, count |-> n]
  BY DEF IInv, OnNuttX
<1>3. /\ ~in_progress /\ call[l] = NoCall /\ link[l].state = "IDLE" /\ TakeCount(l, s, n)
      /\ UNCHANGED <<dataman_id, count, store>>
  BY <1>2 DEF handle_mission_count_tested, handle_mission_count, Receives, activeVars
<1>4. CASE n > MaxItems
  <2>1. UNCHANGED <<saved, link, transfers>> /\ call' = [call EXCEPT ![l] = NoCall]
    BY <1>3, <1>4, MissionAssumption DEF TakeCount
  <2>2. call'[l] = NoCall /\ ~Filling(l)' /\ \A k \in Links \ {l} : call'[k] = call[k]
    BY <1>1, <1>3, <2>1 DEF Filling, Uploading, NoCall
  <2>3. QED
    BY <1>3, <2>1, <2>2, LinkKept
<1>5. CASE n = 0
  <2>1. save_mission(l, Mission(Inactive, 0, 0), "zero") /\ UNCHANGED <<link, transfers>>
    BY <1>3, <1>5, MissionAssumption DEF TakeCount
  <2>2. Inactive \in Ids
    BY DEF Inactive, Ids
  <2>3. QED
    BY <1>3, <2>1, <2>2, LinkClears DEF NoCall
<1>6. CASE n \in 1 .. MaxItems
  <2> DEFINE up == [link[l] EXCEPT !.state = "GETLIST", !.t_seq = 0, !.partner = s,
                        !.t_count = n, !.t_id = Inactive, !.t_cur = NoSeq,
                        !.upload = transfers + 1]
  <2>1. /\ link' = [link EXCEPT ![l] = up] /\ call' = [call EXCEPT ![l] = NoCall]
        /\ saved' = saved /\ transfers' = transfers + 1
    BY <1>3, <1>6, MissionAssumption DEF TakeCount
  <2>2. up.t_seq = 0 /\ up.t_id = Inactive /\ up.upload = transfers + 1
    BY <1>1 DEF LinkMembers
  <2> HIDE DEF up
  <2>3. /\ link'[l].t_seq = 0 /\ link'[l].t_id # dataman_id /\ link'[l].upload = transfers'
        /\ call'[l] = NoCall /\ \A k \in Links \ {l} : link'[k] = link[k] /\ call'[k] = call[k]
    BY <1>1, <2>1, <2>2 DEF Inactive, Ids
  <2>4. Apart(l)'
    BY <1>3, <2>1, <2>3, WhereNext DEF Apart, NoCall
  <2>5. \A k \in Links \ {l} : ~Filling(k)'
    BY <1>3, <2>3 DEF IInv, BusyHolds, Busy, Filling, Uploading
  <2>6. Origins' /\ ActiveComplete' /\ MemoryWhole' /\ Brought'
    BY <1>3, <2>1, <2>3, MemoryIs DEF LinkInv, Origins, ActiveComplete, Brought, Pending, Whole,
                                      NoCall
  <2>7. QED
    BY <2>4, <2>5, <2>6 DEF LinkInv
<1>7. QED
  BY <1>4, <1>5, <1>6, MissionAssumption

\* An item is written, and what follows when it was not, or when more are to come
LEMMA ItemLinks ==
    ASSUME TypeOK, Waits, InOrder, CurrentLast, IInv, LinkInv, NEW l \in Links,
           \/ \E q \in Seqs, current \in Marks : handle_mission_item(l, q, current)
           \/ handle_mission_item_unwritten(l) \/ handle_mission_item_next(l)
    PROVE  LinkInv'
<1>1. /\ link \in [Links -> LinkMembers] /\ DOMAIN call = Links /\ link[l] \in LinkMembers
      /\ store \in [Ids -> [Seqs -> {Unwritten} \cup Uploads]]
  BY DEF TypeOK, LinkTypes, CardTypes
<1>2. ASSUME NEW q \in Seqs, NEW current \in Marks, handle_mission_item(l, q, current)
      PROVE  LinkInv'
  <2> DEFINE t == link[l].t_id
  <2>1. PICK res \in Outcomes :
          /\ store' = [store EXCEPT ![t][q] = Written(@, link[l].upload, Unwritten, res)]
          /\ call' = [call EXCEPT ![l] = [kind |-> "item", seq |-> q, current |-> current,
                                          ok |-> (res = "ok")]]
    BY <1>2 DEF handle_mission_item
  <2>2. /\ q = link[l].t_seq /\ Filling(l) /\ UNCHANGED <<dataman_id, count, saved, link, transfers>>
    BY <1>2 DEF handle_mission_item, Filling, Uploading, activeVars
  <2>3. t \in Ids /\ link[l].t_seq \in Nat
    BY <1>1, MissionAssumption DEF LinkMembers
  <2>4. Apart(l)
    BY <2>2 DEF LinkInv
  <2>5. /\ call'[l] = [kind |-> "item", seq |-> q, current |-> current, ok |-> (res = "ok")]
        /\ \A k \in Links \ {l} : call'[k] = call[k]
    BY <1>1, <2>1
  <2>6. \A s : s # q => store'[t][s] = store[t][s]
    BY <1>1, <2>1, <2>3
  <2>7. \A i : i # t => store'[i] = store[i]
    BY <1>1, <2>1, <2>3
  <2>8. res = "ok" => store'[t][q] = link[l].upload
    BY <1>1, <2>1, <2>3 DEF Written
  <2>9. Apart(l)'
    <3>1. \A s \in 0 .. link[l].t_seq - 1 : s # q
      BY <2>2, <2>3
    <3>2. \A s \in 0 .. link[l].t_seq - 1 : store'[t][s] = transfers
      BY <2>4, <2>6, <3>1 DEF Apart
    <3>3. call'[l].ok => store'[t][q] = transfers
      <4>1. CASE res = "ok"
        BY <2>4, <2>8, <4>1 DEF Apart
      <4>2. CASE res # "ok"
        <5>1. (res = "ok") = FALSE
          BY <4>2
        <5>2. call'[l] = [kind |-> "item", seq |-> q, current |-> current, ok |-> FALSE]
          BY <2>5, <5>1
        <5>3. QED
          BY <5>2
      <4>3. QED
        BY <4>1, <4>2
    <3>4. QED
      BY <2>2, <2>4, <3>2, <3>3 DEF Apart
  <2>10. \A k \in Links \ {l} : ~Filling(k)'
    BY <2>2, <2>5, OneFilling DEF Filling, Uploading
  <2>11. Origins'
    BY <2>5 DEF LinkInv, Origins
  <2>12. ActiveComplete'
    <3>1. saved = Unreadable \/ saved.count = 0 \/ saved.dataman_id # t
      BY <2>4 DEF Apart
    <3>2. CASE saved.count = 0
      BY <2>2, <3>2 DEF ActiveComplete, Whole
    <3>3. CASE saved = Unreadable \/ saved.dataman_id # t
      BY <2>2, <2>7, <3>3 DEF LinkInv, ActiveComplete, Whole
    <3>4. QED
      BY <3>1, <3>2, <3>3
  <2>13. count = 0 \/ store'[dataman_id] = store[dataman_id]
    BY <2>4, <2>7 DEF Apart
  <2>14. MemoryWhole'
    BY <2>2, <2>13, MemoryIs DEF LinkInv
  <2>15. Brought'
    <3> SUFFICES ASSUME NEW k \in Links, Pending(k)' PROVE Whole(call[k].mission)'
        BY DEF Brought
    <3>1. call'[k] = call[k] /\ Pending(k)
      BY <2>5 DEF Pending
    <3>2. ~Updating(k, {"last", "zero"})
      BY <2>2, OneFilling
    <3>3. Whole(call[k].mission)
      BY <3>1 DEF LinkInv, Brought
    <3>4. CASE call[k].why = "current"
      <4>1. \/ call[k].mission.count = 0
            \/ store'[call[k].mission.dataman_id] = store[call[k].mission.dataman_id]
        BY <2>13, <3>1, <3>4, CurrentInMemory
      <4>2. QED
        BY <3>1, <3>3, <4>1, WholeKept DEF Whole
    <3>5. CASE call[k].why # "current"
      <4>1. call[k].mission.count = 0
        BY <3>1, <3>2, <3>5 DEF LinkInv, Origins, Pending, Updating
      <4>2. QED
        BY <3>1, <3>3, <4>1, WholeKept DEF Whole
    <3>6. QED
      BY <3>4, <3>5
  <2>16. QED
    BY <2>9, <2>10, <2>11, <2>12, <2>14, <2>15 DEF LinkInv
<1>3. CASE handle_mission_item_unwritten(l)
  <2>1. /\ link' = [link EXCEPT ![l].state = "IDLE"] /\ call' = [call EXCEPT ![l] = NoCall]
        /\ UNCHANGED <<dataman_id, count, saved, store, transfers>>
    BY <1>3 DEF handle_mission_item_unwritten, activeVars, cardVars
  <2>2. /\ link'[l].state = "IDLE" /\ call'[l] = NoCall
        /\ \A k \in Links \ {l} : link'[k] = link[k] /\ call'[k] = call[k]
    BY <1>1, <2>1 DEF LinkMembers
  <2>3. ~Filling(l)'
    BY <2>2 DEF Filling, Uploading, NoCall
  <2>4. QED
    BY <2>1, <2>2, <2>3, LinkKept DEF NoCall
<1>4. CASE handle_mission_item_next(l)
  <2>1. /\ link'[l] = Received(l) /\ call'[l] = NoCall /\ call[l].kind = "item" /\ call[l].ok
        /\ UNCHANGED <<dataman_id, count, saved, store, transfers>>
        /\ \A k \in Links \ {l} : link'[k] = link[k] /\ call'[k] = call[k]
    BY <1>1, <1>4 DEF handle_mission_item_next, activeVars, cardVars
  <2>2. /\ Received(l).t_seq = link[l].t_seq + 1 /\ Received(l).t_id = link[l].t_id
        /\ Received(l).upload = link[l].upload
    BY <1>1, <2>1 DEF Received, LinkMembers, Waits
  <2>3. Filling(l) /\ Apart(l)
    BY <2>1 DEF LinkInv, Filling
  <2>4. \A s \in 0 .. Received(l).t_seq - 1 : store[link[l].t_id][s] = transfers
    <3>1. link[l].t_seq \in Nat
      BY <1>1, MissionAssumption DEF LinkMembers
    <3>2. Received(l).t_seq - 1 = link[l].t_seq
      BY <2>2, <3>1
    <3>3. \A s \in 0 .. link[l].t_seq : s \in 0 .. link[l].t_seq - 1 \/ s = link[l].t_seq
      BY <3>1
    <3>4. QED
      BY <2>1, <2>3, <3>2, <3>3 DEF Apart
  <2>5. Apart(l)'
    BY <2>1, <2>2, <2>3, <2>4 DEF Apart, NoCall
  <2>6. \A k \in Links \ {l} : ~Filling(k)'
    BY <2>1, <2>3, OneFilling DEF Filling, Uploading
  <2>7. Origins' /\ ActiveComplete' /\ MemoryWhole' /\ Brought'
    BY <2>1, MemoryIs DEF LinkInv, Origins, ActiveComplete, Brought, Pending, Whole, NoCall
  <2>8. QED
    BY <2>5, <2>6, <2>7 DEF LinkInv
<1>5. QED
  BY <1>2, <1>3, <1>4

\* The record of a mission all of whose items are on the card
LEMMA LastLinks ==
    ASSUME TypeOK, Waits, IInv, LinkInv, NEW l \in Links, handle_mission_item_last(l)
    PROVE  LinkInv'
<1> DEFINE r == Received(l)
           m == Mission(r.t_id, r.t_count, r.t_cur)
<1>1. link \in [Links -> LinkMembers] /\ DOMAIN call = Links /\ link[l] \in LinkMembers
  BY DEF TypeOK, LinkTypes
<1>2. /\ call[l].kind = "item" /\ call[l].ok /\ r.t_seq = r.t_count
      /\ link' = [link EXCEPT ![l] = [r EXCEPT !.state = "IDLE"]] /\ save_mission(l, m, "last")
      /\ UNCHANGED <<dataman_id, count, store, transfers>>
  BY DEF handle_mission_item_last, activeVars
<1>3. /\ r.t_seq = link[l].t_seq + 1 /\ r.t_id = link[l].t_id
      /\ [r EXCEPT !.state = "IDLE"].state = "IDLE"
  BY <1>1, <1>2 DEF Received, LinkMembers, Waits
<1>4. Filling(l) /\ Apart(l) /\ transfers # Unwritten
  BY <1>2 DEF LinkInv, Filling, Apart, Waits
<1>5. Whole(m)
  <2>1. m.dataman_id = link[l].t_id /\ m.count = link[l].t_seq + 1
    BY <1>2, <1>3, Fields
  <2>2. \A s \in 0 .. m.count - 1 : s \in 0 .. link[l].t_seq - 1 \/ s = link[l].t_seq
    BY <1>1, <2>1, MissionAssumption DEF LinkMembers
  <2>3. \A s \in 0 .. m.count - 1 : store[m.dataman_id][s] = transfers
    BY <1>2, <1>4, <2>1, <2>2 DEF Apart
  <2>4. QED
    BY <1>4, <2>3 DEF Whole
<1> HIDE DEF m
<1>6. /\ link'[l].state = "IDLE" /\ call'[l].mission = m /\ \A k \in Links \ {l} : link'[k] = link[k] /\ call'[k] = call[k]
      /\ call'[l].kind = "update" /\ call'[l].why = "last"
      /\ saved' = saved \/ saved' = Unreadable \/ saved' = m
  BY <1>1, <1>2, <1>3, MissionAssumption DEF save_mission, Written
<1>7. \A k \in Links : ~Filling(k)'
  BY <1>4, <1>6, OneFilling DEF Filling, Uploading
<1>8. Origins'
  BY <1>6 DEF LinkInv, Origins
<1>9. ActiveComplete'
  BY <1>2, <1>5, <1>6 DEF LinkInv, ActiveComplete, Whole
<1>10. MemoryWhole' /\ Brought'
  BY <1>2, <1>5, <1>6, MemoryIs DEF LinkInv, Brought, Pending, Whole
<1>11. QED
  BY <1>7, <1>8, <1>9, <1>10 DEF LinkInv

\* The mission is cleared; memory takes what was saved
LEMMA UpdateLinks ==
    ASSUME TypeOK, InOrder, CurrentLast, IInv, LinkInv, NEW l \in Links,
           handle_mission_clear_all(l) \/ update_active_mission(l)
    PROVE  LinkInv'
<1>1. link \in [Links -> LinkMembers] /\ DOMAIN call = Links
  BY DEF TypeOK, LinkTypes
<1>2. CASE handle_mission_clear_all(l)
  <2>1. /\ save_mission(l, Mission(Inactive, 0, 0), "clear") /\ call[l].kind # "item"
        /\ UNCHANGED <<dataman_id, count, store, transfers, link>> /\ Inactive \in Ids
    BY <1>2 DEF handle_mission_clear_all, Receives, NoCall, activeVars, Inactive, Ids
  <2>2. QED
    BY <2>1, LinkClears
<1>3. CASE update_active_mission(l)
  <2> DEFINE m == call[l].mission
  <2>1. /\ call[l].kind = "update" /\ UNCHANGED <<saved, store, transfers>>
        /\ call'[l] = NoCall /\ \A k \in Links \ {l} : link'[k] = link[k] /\ call'[k] = call[k]
        /\ link'[l].state = link[l].state
        /\ \/ call[l].ok /\ dataman_id' = m.dataman_id /\ count' = m.count
           \/ UNCHANGED <<dataman_id, count>>
    BY <1>1, <1>3 DEF update_active_mission, activeVars, cardVars, LinkMembers
  <2>2. ~Filling(l)'
    BY <2>1, OneFilling DEF Filling, Uploading, NoCall
  <2>3. Origins' /\ ActiveComplete' /\ Brought'
    BY <2>1 DEF LinkInv, Origins, ActiveComplete, Brought, Pending, Whole, NoCall
  <2>4. MemoryWhole'
    <3>1. CASE call[l].ok /\ dataman_id' = m.dataman_id /\ count' = m.count
      <4>1. Whole(m)
        BY <2>1, <3>1 DEF LinkInv, Brought, Pending
      <4>2. QED
        BY <2>1, <3>1, <4>1, MemoryIs DEF Whole
    <3>2. CASE UNCHANGED <<dataman_id, count>>
      BY <2>1, <3>2, MemoryIs DEF LinkInv
    <3>3. QED
      BY <2>1, <3>1, <3>2
  <2>5. ASSUME NEW k \in Links \ {l}, Filling(k)' PROVE Apart(k)'
    <3>1. Filling(k) /\ Apart(k)
      BY <2>1, <2>5 DEF LinkInv, Filling, Uploading
    <3>2. call[l].why \notin {"zero", "last"}
      BY <2>1, <3>1, OneFilling DEF Updating
    <3>3. CASE call[l].why = "current"
      <4>1. UNCHANGED <<dataman_id, count>>
        BY <2>1, <3>3, CurrentInMemory DEF Pending
      <4>2. QED
        BY <2>1, <3>1, <4>1 DEF Apart
    <3>4. CASE call[l].why # "current"
      <4>1. m.count = 0
        BY <2>1, <3>2, <3>4 DEF LinkInv, Origins
      <4>2. QED
        BY <2>1, <3>1, <4>1 DEF Apart
    <3>5. QED
      BY <3>3, <3>4
  <2>6. QED
    BY <2>2, <2>3, <2>4, <2>5 DEF LinkInv
<1>4. QED
  BY <1>2, <1>3

\* The current item is set: the mission in memory is saved once more
LEMMA CurrentLinks ==
    ASSUME TypeOK, LinkInv, NEW l \in Links, NEW seq \in Seqs, handle_mission_set_current(l, seq)
    PROVE  LinkInv'
<1> DEFINE m == Mission(dataman_id, count, seq)
<1>1. /\ save_mission(l, m, "current") /\ call[l] = NoCall /\ DOMAIN call = Links
      /\ UNCHANGED <<dataman_id, count, store, transfers, link>>
  BY DEF handle_mission_set_current, Receives, activeVars, TypeOK, LinkTypes
<1>2. m.dataman_id = dataman_id /\ m.count = count /\ Whole(m)
  BY Fields, MemoryIs DEF LinkInv, Whole
<1> HIDE DEF m
<1>3. /\ call'[l].kind = "update" /\ call'[l].why = "current" /\ call'[l].mission = m
      /\ \A k \in Links \ {l} : call'[k] = call[k]
      /\ saved' = saved \/ saved' = Unreadable \/ saved' = m
  BY <1>1, MissionAssumption DEF save_mission, Written
<1>4. Origins'
  BY <1>3 DEF LinkInv, Origins
<1>5. ASSUME NEW k \in Links, Filling(k)' PROVE Apart(k)'
  <2>1. Filling(k)
    BY <1>1, <1>3, <1>5 DEF Filling, Uploading
  <2>2. Apart(k) /\ (call'[k].kind = "item" => call'[k] = call[k])
    BY <1>3, <2>1 DEF LinkInv
  <2>3. QED
    BY <1>1, <1>2, <1>3, <2>2 DEF Apart
<1>6. ActiveComplete' /\ MemoryWhole' /\ Brought'
  BY <1>1, <1>2, <1>3, MemoryIs DEF LinkInv, ActiveComplete, Brought, Pending, Whole
<1>7. QED
  BY <1>4, <1>5, <1>6 DEF LinkInv

\* Every step keeps the card whole
LEMMA LinkInvStep ==
    ASSUME ~Preemptive
    PROVE  TypeOK /\ Waits /\ IInv /\ InOrder /\ CurrentLast /\ NewestWins /\ LinkInv /\ [Next]_vars
               => LinkInv'
<1> SUFFICES ASSUME TypeOK, Waits, IInv, InOrder, CurrentLast, NewestWins, LinkInv, [Next]_vars
             PROVE  LinkInv'
    OBVIOUS
<1>1. CASE power_loss
  <2>1. /\ \A k \in Links : call'[k] = NoCall /\ ~Filling(k)'
        /\ UNCHANGED <<saved, store>> /\ dataman_id' = Booted.dataman_id /\ count' = Booted.count
    BY <1>1 DEF power_loss, cardVars, NewLink, NoCall, Filling, Uploading
  <2>2. Origins' /\ ActiveComplete' /\ Brought'
    BY <2>1 DEF LinkInv, Origins, ActiveComplete, Brought, Pending, Whole, NoCall
  <2>3. Whole(Booted)
    BY EmptyWhole DEF LinkInv, ActiveComplete, Booted
  <2>4. MemoryWhole'
    BY <2>1, <2>3, MemoryIs DEF Whole
  <2>5. QED
    BY <2>1, <2>2, <2>4 DEF LinkInv
<1>2. ASSUME NEW l \in Links, Receive(l) PROVE LinkInv'
  <2>1. ASSUME NEW s \in Stations, NEW n \in 0 .. MaxItems + 1,
               handle_mission_count_tested(l, s, n) \/ handle_mission_count(l, s, n)
        PROVE  LinkInv'
    BY <2>1, CountLinks
  <2>2. QED
    BY <1>2, <2>1, QuietLinks, ItemLinks, UpdateLinks, CurrentLinks DEF Receive, ReceiveOther
<1>3. ASSUME NEW l \in Links, Resume(l) PROVE LinkInv'
  BY <1>3, ItemLinks, LastLinks, UpdateLinks DEF Resume
<1>4. ASSUME NEW l \in Links, Send(l) PROVE LinkInv'
  BY <1>4, QuietLinks
<1>5. CASE UNCHANGED vars
  <2>1. UNCHANGED <<dataman_id, count, saved, store, link, call, transfers>>
    BY <1>5 DEF vars, activeVars, cardVars, callVars
  <2>2. QED
    BY <2>1, MemoryIs DEF LinkInv, Origins, Apart, ActiveComplete, Brought, Pending, Whole, Filling,
                          Uploading
<1>6. QED
  BY <1>1, <1>2, <1>3, <1>4, <1>5 DEF Next

\* A step in which stations take turns is a step of the protocol
LEMMA OrderlyIsNext == [NextOrderly]_vars => [Next]_vars
BY DEF NextOrderly, Next, Receive, set_current_in_turn

\* The behaviours in which they do are behaviours of the protocol
LEMMA OrderlyIsSpec == SpecOrderly => Spec
<1>1. [NextOrderly]_vars => [Next]_vars
  BY OrderlyIsNext
<1>2. QED
  BY <1>1, PTL DEF SpecOrderly, Spec

\* The invariants of several links, in every behaviour
LEMMA LinksAlways ==
    ASSUME ~Preemptive
    PROVE  SpecOrderly => [](TypeOK /\ Waits /\ IInv /\ InOrder /\ CurrentLast /\ NewestWins /\ LinkInv)
<1>1. Init => Waits /\ IInv /\ LinkInv
  <2> SUFFICES ASSUME Init PROVE Waits /\ IInv /\ LinkInv
      OBVIOUS
  <2>1. Waits /\ IInv /\ Origins /\ Brought /\ ActiveComplete /\ \A l \in Links : ~Filling(l)
    BY DEF Init, NewLink, NoCall, Waits, IInv, OnNuttX, BusyHolds, OneBusy, SavingIsIdle, Busy,
           Uploading, Updating, Filling, Origins, Brought, Pending, ActiveComplete
  <2>2. MemoryWhole
    BY EmptyWhole DEF Init, MemoryWhole
  <2>3. QED
    BY <2>1, <2>2 DEF LinkInv
<1>2. TypeOK /\ Waits /\ IInv /\ InOrder /\ CurrentLast /\ NewestWins /\ LinkInv /\ [NextOrderly]_vars
         => Waits' /\ IInv' /\ InOrder' /\ CurrentLast' /\ NewestWins' /\ LinkInv'
  BY OrderlyIsNext, WaitsKept, IInvStep, OrderStep, LinkInvStep
<1>3. QED
  BY <1>1, <1>2, OrderInit, OrderlyIsSpec, TypeCorrect, PTL DEF SpecOrderly

\* On NuttX, whatever any number of links receive, whatever times out, fails or
\* destroys what it writes, and whenever power is lost, every item of the mission the
\* card names can be read and is of one upload, as long as no link is told to set the
\* current item of a mission that another link has already replaced on the card.
THEOREM LinksComplete == ASSUME ~Preemptive PROVE SpecOrderly => []ActiveComplete
<1>1. LinkInv => ActiveComplete
  BY DEF LinkInv
<1>2. QED
  BY <1>1, LinksAlways, PTL

\* There an upload is never received over a mission that is flown, although a clear
\* on another link changes which storage is active while it is received.
THEOREM LinksElsewhere == ASSUME ~Preemptive PROVE SpecOrderly => []InactiveStorage
<1>1. LinkInv => InactiveStorage
  BY DEF LinkInv, Apart, Filling, InactiveStorage
<1>2. QED
  BY <1>1, LinksAlways, PTL

\* No record but the first is unreadable when no write destroys one
Readable ==
    "torn" \notin Outcomes /\ saved = Unreadable => count = 0 /\ \A l \in Links : ~Pending(l)

\* A record that is saved can be read, or the old one stays
LEMMA SavedReadable ==
    ASSUME TypeOK, Readable, NEW l \in Links, NEW m, m.dataman_id \in Ids, NEW why,
           save_mission(l, m, why), count' = count
    PROVE  Readable'
<1> SUFFICES ASSUME "torn" \notin Outcomes, saved' = Unreadable
             PROVE  count = 0 /\ \A k \in Links : ~Pending(k)'
    BY DEF Readable
<1>1. PICK res \in Outcomes :
        /\ saved' = Written(saved, m, Unreadable, res)
        /\ call' = [call EXCEPT ![l] = [kind |-> "update", mission |-> m,
                                        ok |-> (res = "ok"), why |-> why]]
  BY DEF save_mission
<1>2. m # Unreadable
  BY DEF Unreadable, Mission, Ids
<1>3. res = "fail"
  BY <1>1, <1>2, MissionAssumption DEF Written
<1>4. saved = Unreadable /\ (res = "ok") = FALSE
  BY <1>1, <1>3 DEF Written
<1>5. call' = [call EXCEPT ![l] = [kind |-> "update", mission |-> m, ok |-> FALSE, why |-> why]]
  BY <1>1, <1>4
<1>6. \A k \in Links : ~Pending(k)'
  BY <1>4, <1>5 DEF Readable, Pending, TypeOK, LinkTypes
<1>7. QED
  BY <1>4, <1>6 DEF Readable

\* Nothing is saved and memory learns of nothing
LEMMA QuietReadable ==
    ASSUME TypeOK, Readable, NEW l \in Links, UNCHANGED <<saved, count>>,
           \A k \in Links : call'[k] = call[k] \/ call'[k].kind # "update"
    PROVE  Readable'
BY DEF Readable, Pending

\* Every step keeps the record readable
LEMMA ReadableStep == TypeOK /\ Readable /\ [Next]_vars => Readable'
<1> SUFFICES ASSUME TypeOK, Readable, [Next]_vars PROVE Readable'
    OBVIOUS
<1>1. /\ link \in [Links -> LinkMembers] /\ DOMAIN call = Links /\ dataman_id \in Ids
      /\ Inactive \in Ids
  BY DEF TypeOK, LinkTypes, ActiveTypes, Inactive, Ids
<1>2. CASE power_loss
  <2>1. /\ saved' = saved /\ \A k \in Links : call'[k] = NoCall
        /\ saved = Unreadable => count' = 0
    BY <1>2, Fields DEF power_loss, cardVars, Booted
  <2>2. QED
    BY <2>1 DEF Readable, Pending, NoCall
<1>3. ASSUME NEW l \in Links,
             \/ \E s \in Stations : handle_mission_ack(l, s) \/ handle_mission_request_list(l, s)
             \/ \E s \in Stations, q \in Seqs : handle_mission_request(l, s, q)
             \/ handle_mission_count_refused(l) \/ handle_mission_count_again(l)
             \/ handle_mission_item_invalid(l) \/ Send(l)
      PROVE  Readable'
  <2>1. UNCHANGED <<saved, count, call>>
    BY <1>3 DEF handle_mission_ack, handle_mission_request_list, handle_mission_request,
         handle_mission_count_refused, handle_mission_count_again, handle_mission_item_invalid,
         LinkStep, Send, mission_result, timeout_found, action_timeout, retry_found, resend_found,
         retry, Find, Done, check_active_mission, callVars, cardVars, activeVars
  <2>2. QED
    BY <2>1, QuietReadable, <1>3
<1>4. ASSUME NEW l \in Links, NEW s \in Stations, NEW n \in 0 .. MaxItems + 1,
             handle_mission_count_tested(l, s, n)
      PROVE  Readable'
  <2>1. UNCHANGED <<saved, count>> /\ call'[l].kind = "count" /\ \A k \in Links \ {l} : call'[k] = call[k]
    BY <1>1, <1>4 DEF handle_mission_count_tested, activeVars, cardVars
  <2>2. QED
    BY <2>1, QuietReadable
<1>5. ASSUME NEW l \in Links, NEW s \in Stations, NEW n \in 0 .. MaxItems + 1,
             handle_mission_count(l, s, n)
      PROVE  Readable'
  <2>1. TakeCount(l, s, n) /\ count' = count
    BY <1>5 DEF handle_mission_count, activeVars
  <2>2. CASE n = 0
    <3>1. save_mission(l, Mission(Inactive, 0, 0), "zero")
      BY <2>1, <2>2, MissionAssumption DEF TakeCount
    <3>2. QED
      BY <1>1, <2>1, <3>1, Fields, SavedReadable
  <2>3. CASE n # 0
    <3>1. saved' = saved /\ call' = [call EXCEPT ![l] = NoCall]
      BY <2>1, <2>3, MissionAssumption, Zenon DEF TakeCount
    <3>2. QED
      BY <1>1, <2>1, <3>1, QuietReadable DEF NoCall
  <2>4. QED
    BY <2>2, <2>3
<1>6. ASSUME NEW l \in Links,
             \/ \E q \in Seqs, current \in Marks : handle_mission_item(l, q, current)
             \/ handle_mission_item_unwritten(l) \/ handle_mission_item_next(l)
      PROVE  Readable'
  <2>1. UNCHANGED <<saved, count>>
    BY <1>6 DEF handle_mission_item, handle_mission_item_unwritten, handle_mission_item_next,
                activeVars, cardVars
  <2>2. \A k \in Links : call'[k] = call[k] \/ call'[k].kind # "update"
    <3>1. CASE handle_mission_item_unwritten(l) \/ handle_mission_item_next(l)
      <4>1. call' = [call EXCEPT ![l] = NoCall]
        BY <3>1 DEF handle_mission_item_unwritten, handle_mission_item_next
      <4>2. QED
        BY <1>1, <4>1 DEF NoCall
    <3>2. ASSUME NEW q \in Seqs, NEW current \in Marks, handle_mission_item(l, q, current)
          PROVE  call'[l].kind = "item" /\ \A k \in Links \ {l} : call'[k] = call[k]
      BY <1>1, <3>2 DEF handle_mission_item
    <3>3. QED
      BY <1>6, <3>1, <3>2
  <2>3. QED
    BY <1>6, <2>1, <2>2, QuietReadable
<1>7. ASSUME NEW l \in Links, handle_mission_item_last(l) PROVE Readable'
  <2>1. Received(l).t_id = link[l].t_id /\ link[l].t_id \in Ids
    BY <1>1 DEF Received, LinkMembers
  <2>2. /\ save_mission(l, Mission(Received(l).t_id, Received(l).t_count, Received(l).t_cur), "last")
        /\ count' = count
    BY <1>7 DEF handle_mission_item_last, activeVars
  <2>3. QED
    BY <2>1, <2>2, Fields, SavedReadable
<1>8. ASSUME NEW l \in Links, NEW q \in Seqs, handle_mission_set_current(l, q) PROVE Readable'
  BY <1>1, <1>8, Fields, SavedReadable DEF handle_mission_set_current, activeVars
<1>9. ASSUME NEW l \in Links, handle_mission_clear_all(l) PROVE Readable'
  BY <1>1, <1>9, Fields, SavedReadable DEF handle_mission_clear_all, activeVars
<1>10. ASSUME NEW l \in Links, update_active_mission(l) PROVE Readable'
  <2>1. /\ saved' = saved /\ (count' = count \/ Pending(l))
        /\ call'[l] = NoCall /\ \A k \in Links \ {l} : call'[k] = call[k]
    BY <1>1, <1>10 DEF update_active_mission, cardVars, activeVars, Pending
  <2>2. QED
    BY <2>1 DEF Readable, Pending, NoCall
<1>11. CASE UNCHANGED vars
  BY <1>11 DEF vars, activeVars, cardVars, callVars, Readable, Pending
<1>12. ASSUME NEW l \in Links, Receive(l) PROVE Readable'
  BY <1>3, <1>4, <1>5, <1>6, <1>8, <1>9, <1>12 DEF Receive, ReceiveOther
<1>13. ASSUME NEW l \in Links, Resume(l) PROVE Readable'
  BY <1>6, <1>7, <1>10, <1>13 DEF Resume
<1>14. QED
  BY <1>2, <1>3, <1>11, <1>12, <1>13 DEF Next

\* And there, where a write that fails destroys nothing, the protocol implements
\* the store of whole missions for any number of links.
THEOREM LinksStore ==
    ASSUME ~Preemptive, "torn" \notin Outcomes
    PROVE  SpecOrderly => ImplementsMissionStore
<1>1. TypeOK /\ IInv /\ NewestWins /\ LinkInv /\ Readable => Facts
  <2> SUFFICES ASSUME TypeOK, IInv, NewestWins, LinkInv, Readable PROVE Facts
      OBVIOUS
  <2>1. \A l \in Links : call[l].kind = "item" => Filling(l)
    BY DEF Filling
  <2>2. \A l \in Links : call[l].kind \in {"count", "update"} => ~Uploading(l)
    BY DEF IInv, OnNuttX, SavingIsIdle
  <2>3. Settled => Follows
    BY DEF NewestWins, Newest, Pending, Follows, Settled
  <2>4. QED
    BY <2>1, <2>2, <2>3, OneFilling DEF Facts, LinkInv, Apart, Readable
<1>2. TypeOK /\ Waits /\ IInv /\ NewestWins /\ LinkInv /\ Readable /\ [NextOrderly]_vars
         => [Store!Next]_Store!vars /\ Readable'
  BY <1>1, OrderlyIsNext, StoreStep, ReadableStep
<1>3. Init => Readable
  BY DEF Init, Readable, Pending, NoCall
<1>4. QED
  BY <1>2, <1>3, StoreInit, LinksAlways, PTL DEF SpecOrderly, ImplementsMissionStore, Store!Spec
=============================================================================
