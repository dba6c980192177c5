----------------------------- MODULE TopicProofs -----------------------------
(***************************************************************************)
(* What is proved of the uORB device nodes for any number of threads,      *)
(* instances, descriptors, waiters and messages: the types, that an        *)
(* advertiser that is alone loses no update for anybody, and that px4_poll *)
(* leaves no pointer behind.                                               *)
(***************************************************************************)
EXTENDS TopicNode, TLAPS

\* Where an advertiser has a node, and where it has published to it
HasNode == {"reclose", "reopen", "close", "alloc", "copy", "load", "store", "notify",
            "flag", "ready"}
Written == {"copy", "load", "store", "notify", "flag", "ready"}
Polling == Waiting \cup {"setup", "teardown"}

\* The places that say which node or descriptor is meant
Placed ==
    /\ \A a \in Advertisers : adv[a].at \in HasNode => adv[a].node \in Nodes
    /\ \A s \in Subscribers :
         /\ sub[s].at = "reopen" => sub[s].node \in Nodes
         /\ sub[s].at \in {"advertise", "reopen"} => sub[s].k \in DOMAIN Wants[s]
         /\ sub[s].at \in {"setup", "teardown"} => sub[s].k >= 1

\* Advertisers hold nodes that exist, and have published when they return
Claimed ==
    /\ \A a \in Advertisers :
         /\ adv[a].at \in HasNode => node[adv[a].node].exists
         /\ adv[a].at = "ready" => node[adv[a].node].published
    /\ \A n \in Nodes : node[n].published => node[n].exists

\* A node without data has never been counted
Unwritten ==
    \A n \in Nodes :
        /\ node[n].data >= Null
        /\ node[n].data = Null =>
             /\ node[n].generation = 0
             /\ \A a \in Advertisers : adv[a].node = n => adv[a].at \notin Written
             /\ \A f \in Fds : sd[f].node = n => sd[f].generation = 0

\* The generation of a node with one advertiser counts its messages
Counts(n) ==
    /\ Quiet(n) /\ node[n].data >= 0 => node[n].generation = node[n].data
    /\ ~Quiet(n) => node[n].generation = node[n].data - 1
    /\ \A a \in Advertisers :
         adv[a].at = "store" /\ adv[a].node = n => adv[a].generation = node[n].generation
    /\ \A f \in Fds :
         sd[f].node = n => /\ sd[f].generation <= node[n].generation
                            /\ sd[f].seen >= sd[f].generation
Counted == \A n \in Nodes : Alone(n) => Counts(n)

\* The descriptors a call of px4_poll has set up and not yet torn down
Listed(f) == \E n \in Nodes : f \in node[n].waiters
Lists(s) ==
    \A k \in DOMAIN Wants[s] :
        /\ \A n \in Nodes : <<s, k>> \in node[n].waiters => sd[<<s, k>>].node = n
        /\ Listed(<<s, k>>) => sub[s].at \in Polling
        /\ sub[s].at = "setup" /\ Listed(<<s, k>>) => k < sub[s].k
        /\ sub[s].at = "setup" /\ k < sub[s].k /\ IsOpen(<<s, k>>) => Listed(<<s, k>>)
        /\ sub[s].at = "teardown" /\ Listed(<<s, k>>) => k >= sub[s].k
        /\ sub[s].at \in Waiting \cup {"teardown"} /\ Listed(<<s, k>>) =>
             \A j \in DOMAIN Wants[s] :
               (j < k /\ IsOpen(<<s, j>>) /\ (sub[s].at = "teardown" => j >= sub[s].k))
                 => Listed(<<s, j>>)
Listing == \A s \in Subscribers : Lists(s)

\* SleepersAreTold, from the set up on
HeardBy(f) ==
    (/\ sub[f[1]].at \in Waiting \cup {"setup"} /\ Listed(f)
     /\ Newer(f) /\ ~Notifying(sd[f].node) /\ hrt # sd[f].node)
        => sub[f[1]].sem > 0 \/ (sd[f].interval /\ ~sd[f].reported /\ sd[f].timer)
Heard == \A f \in Fds : HeardBy(f)

IInv == TypeOK /\ Placed /\ Claimed /\ Unwritten /\ Counted /\ Listing /\ Heard

-----------------------------------------------------------------------------
\* Types

\* The k-th topic a subscriber wants is a node, and <<s, k>> its descriptor.
LEMMA DescriptorType ==
    ASSUME NEW s \in Subscribers
    PROVE  /\ DOMAIN Wants[s] \subseteq Nat \ {0}
           /\ \A k \in DOMAIN Wants[s] : <<s, k>> \in Fds /\ Wants[s][k] \in Nodes
<1>1. Wants[s] \in Seq(Nodes)
  BY TopicAssumption
<1>2. QED
  BY <1>1 DEF Fds

\* Nodes are numbers, and "no node" is none of them.
LEMMA NodesAreNumbers == Nodes \subseteq Nat /\ 0 \in Nodes /\ NoNode \notin Nodes
BY TopicAssumption DEF Nodes, NoNode

\* Marking a descriptor as reported changes nothing else of it.
LEMMA ReportedType ==
    ASSUME TypeOK, NEW f \in Fds
    PROVE  /\ Reported(f) \in SdRecords
           /\ Reported(f).node = sd[f].node /\ Reported(f).generation = sd[f].generation
           /\ Reported(f).seen = sd[f].seen /\ Reported(f).interval = sd[f].interval
           /\ sd[f].interval => Reported(f).reported
BY DEF Reported, TypeOK, SdRecords

\* A copy takes the generation and the message of the node, if there is one.
LEMMA CopiedType ==
    ASSUME TypeOK, Unwritten, NEW f \in Fds, IsOpen(f)
    PROVE  /\ Copied(f) \in SdRecords /\ Copied(f).node = sd[f].node
           /\ node[sd[f].node].data = Null => Copied(f) = sd[f]
           /\ node[sd[f].node].data # Null =>
                /\ Copied(f).generation = node[sd[f].node].generation
                /\ Copied(f).seen = node[sd[f].node].data
<1>1. sd[f] \in SdRecords /\ sd[f].node \in Nodes /\ node[sd[f].node] \in NodeRecords
  BY DEF TypeOK, IsOpen, SdRecords
<1>2. node[sd[f].node].data \in Int /\ node[sd[f].node].data >= -1
  BY <1>1 DEF Unwritten, Null, NodeRecords
<1>3. node[sd[f].node].data # Null => node[sd[f].node].data \in Nat
  BY <1>2 DEF Null
<1>4. QED
  BY <1>1, <1>3 DEF Copied, SdRecords, NodeRecords

\* A fresh descriptor starts at the generation of its node.
LEMMA OpenedType ==
    ASSUME TypeOK, NEW n \in Nodes
    PROVE  /\ Opened(n) \in SdRecords /\ Opened(n).node = n
           /\ Opened(n).generation = node[n].generation /\ Opened(n).seen = node[n].generation
BY DEF Opened, NoSd, TypeOK, SdRecords, NodeRecords

\* poll_notify posts and marks the waiters of the node and leaves the rest of them.
LEMMA NotifyType ==
    ASSUME TypeOK, NEW n \in Nodes, poll_notify(n)
    PROVE  /\ sd' \in [Fds -> SdRecords] /\ sub' \in [Subscribers -> SubRecords]
           /\ \A f \in Fds :
                sd'[f] = IF f \in Told(n) THEN Reported(f) ELSE sd[f]
           /\ \A s \in Subscribers :
                /\ sub'[s].at = sub[s].at /\ sub'[s].k = sub[s].k /\ sub'[s].node = sub[s].node
                /\ sub'[s].todo = sub[s].todo /\ sub'[s].sem >= sub[s].sem
                /\ \A k \in DOMAIN Wants[s] : <<s, k>> \in Told(n) => sub'[s].sem > 0
<1>1. \A f \in Fds : sd'[f] \in SdRecords
  BY ReportedType DEF poll_notify, TypeOK
<1>2. sd' \in [Fds -> SdRecords]
  BY <1>1 DEF poll_notify
<1>3. ASSUME NEW s \in Subscribers
      PROVE  /\ sub'[s] \in SubRecords
             /\ sub'[s].at = sub[s].at /\ sub'[s].k = sub[s].k /\ sub'[s].node = sub[s].node
             /\ sub'[s].todo = sub[s].todo /\ sub'[s].sem >= sub[s].sem
             /\ \A k \in DOMAIN Wants[s] : <<s, k>> \in Told(n) => sub'[s].sem > 0
  <2> DEFINE ks == {k \in DOMAIN Wants[s] : <<s, k>> \in Told(n)}
  <2>1. sub[s] \in SubRecords /\ ks \subseteq Nat \ {0}
    BY DescriptorType DEF TypeOK
  <2>2. sub'[s] = IF ks = {} THEN sub[s]
                  ELSE [sub[s] EXCEPT !.revents = @ \cup ks,
                                      !.sem = IF @ <= 0 THEN @ + 1 ELSE @]
    BY DEF poll_notify
  <2> HIDE DEF ks
  <2>3. /\ sub'[s] \in SubRecords
        /\ sub'[s].at = sub[s].at /\ sub'[s].k = sub[s].k /\ sub'[s].node = sub[s].node
        /\ sub'[s].todo = sub[s].todo /\ sub'[s].sem >= sub[s].sem
        /\ ks # {} => sub'[s].sem > 0
    <3> DEFINE r == sub[s].revents \cup ks
               x == IF sub[s].sem <= 0 THEN sub[s].sem + 1 ELSE sub[s].sem
    <3>1. CASE ks = {}
      BY <2>1, <2>2, <3>1 DEF SubRecords
    <3>2. CASE ks # {}
      <4>1. sub[s].revents \in SUBSET (Nat \ {0}) /\ sub[s].sem \in Nat
        BY <2>1 DEF SubRecords
      <4>2. r \in SUBSET (Nat \ {0})
        BY <2>1, <4>1
      <4>3. x \in Nat /\ x > 0 /\ x >= sub[s].sem
        BY <4>1
      <4>4. sub'[s] = [sub[s] EXCEPT !.revents = r, !.sem = x]
        BY <2>2, <3>2
      <4> HIDE DEF r, x
      <4>5. QED
        BY <2>1, <4>1, <4>2, <4>3, <4>4 DEF SubRecords
    <3>3. QED
      BY <3>1, <3>2
  <2>4. QED
    BY <2>3 DEF ks
<1>4. sub' \in [Subscribers -> SubRecords]
  BY <1>3 DEF poll_notify
<1>5. QED
  BY <1>2, <1>3, <1>4 DEF poll_notify

\* Every field the code writes keeps a node a node.
LEMMA NodeType ==
    ASSUME TypeOK, NEW n \in Nodes
    PROVE  /\ [node EXCEPT ![n].exists = TRUE] \in [Nodes -> NodeRecords]
           /\ \A W \in SUBSET Fds : [node EXCEPT ![n].waiters = W] \in [Nodes -> NodeRecords]
           /\ \A g \in Nat : [node EXCEPT ![n].generation = g] \in [Nodes -> NodeRecords]
           /\ [node EXCEPT ![n].published = TRUE] \in [Nodes -> NodeRecords]
           /\ [node EXCEPT ![n].publisher = {}] \in [Nodes -> NodeRecords]
<1>1. [node[n] EXCEPT !.exists = TRUE] \in NodeRecords
  BY DEF TypeOK, NodeRecords
<1>2. ASSUME NEW W \in SUBSET Fds  PROVE [node[n] EXCEPT !.waiters = W] \in NodeRecords
  BY DEF TypeOK, NodeRecords
<1>3. ASSUME NEW g \in Nat  PROVE [node[n] EXCEPT !.generation = g] \in NodeRecords
  BY DEF TypeOK, NodeRecords
<1>4. /\ [node[n] EXCEPT !.published = TRUE] \in NodeRecords
      /\ [node[n] EXCEPT !.publisher = {}] \in NodeRecords
  BY DEF TypeOK, NodeRecords
<1>5. QED
  BY <1>1, <1>2, <1>3, <1>4 DEF TypeOK

\* The steps of an advertiser keep the types.
LEMMA AdvertiserTypes ==
    ASSUME TypeOK, Placed, NEW a \in Advertisers, Advertise(a) \/ Begin(a) \/ Write(a)
    PROVE  TypeOK' /\ Placed'
<1> USE NodesAreNumbers
<1>a. /\ adv[a] \in AdvRecords /\ adv[a].generation \in Nat
      /\ adv[a].at \in HasNode => /\ adv[a].node \in Nodes
                                /\ node[adv[a].node].generation \in Nat
  BY DEF TypeOK, Placed, AdvRecords, NodeRecords
<1>1. CASE OpenAdvertiser(a)
  <2>1. node' \in [Nodes -> NodeRecords]
    BY <1>1, <1>a DEF OpenAdvertiser, TypeOK, NodeRecords, HasNode, Garbage
  <2>2. adv' \in [Advertisers -> AdvRecords]
    BY <1>1, <1>a DEF OpenAdvertiser, TypeOK, AdvRecords, HasNode
  <2>3. begun' \in 0 .. MaxMessages
    BY <1>1, TopicAssumption DEF OpenAdvertiser, TypeOK
  <2>4. TypeOK'
    BY <1>1, <2>1, <2>2, <2>3 DEF OpenAdvertiser, TypeOK
  <2>5. Placed'
    BY <1>1, <1>a DEF OpenAdvertiser, Placed, TypeOK, AdvRecords, HasNode
  <2>6. QED
    BY <2>4, <2>5
<1>2. CASE CloseAgain(a)
  <2>1. node' \in [Nodes -> NodeRecords]
    BY <1>2, <1>a DEF CloseAgain, TypeOK, NodeRecords, HasNode, Garbage
  <2>2. adv' \in [Advertisers -> AdvRecords]
    BY <1>2, <1>a DEF CloseAgain, TypeOK, AdvRecords, HasNode
  <2>3. TypeOK'
    BY <1>2, <2>1, <2>2 DEF CloseAgain, TypeOK
  <2>4. Placed'
    BY <1>2, <1>a DEF CloseAgain, Placed, TypeOK, AdvRecords, HasNode
  <2>5. QED
    BY <2>3, <2>4
<1>3. CASE NodeAdvertise(a)
  <2>1. node' \in [Nodes -> NodeRecords]
    <3>1. PICK n \in Nodes \cup {NoNode} :
               node' = IF n = NoNode THEN node ELSE [node EXCEPT ![n].exists = TRUE]
      BY <1>3 DEF NodeAdvertise
    <3>2. QED
      BY <3>1 DEF TypeOK, NodeRecords
  <2>2. adv' \in [Advertisers -> AdvRecords]
    BY <1>3, <1>a DEF NodeAdvertise, TypeOK, AdvRecords, HasNode
  <2>3. TypeOK'
    BY <1>3, <2>1, <2>2 DEF NodeAdvertise, TypeOK
  <2>4. Placed'
    BY <1>3, <1>a DEF NodeAdvertise, Placed, TypeOK, AdvRecords, HasNode
  <2>5. QED
    BY <2>3, <2>4
<1>4. CASE ReopenAdvertiser(a)
  <2>1. node' \in [Nodes -> NodeRecords]
    <3>1. adv[a].node \in Nodes /\ node[adv[a].node] \in NodeRecords
      BY <1>4, <1>a DEF ReopenAdvertiser, HasNode, TypeOK
    <3>2. [node[adv[a].node] EXCEPT !.publisher = {a}] \in NodeRecords
      BY <3>1 DEF NodeRecords
    <3>3. UNCHANGED node \/ node' = [node EXCEPT ![adv[a].node].publisher = {a}]
      BY <1>4 DEF ReopenAdvertiser
    <3>4. QED
      BY <3>1, <3>2, <3>3 DEF TypeOK
  <2>2. adv' \in [Advertisers -> AdvRecords]
    BY <1>4, <1>a DEF ReopenAdvertiser, TypeOK, AdvRecords, HasNode
  <2>3. TypeOK'
    BY <1>4, <2>1, <2>2 DEF ReopenAdvertiser, TypeOK
  <2>4. Placed'
    BY <1>4, <1>a DEF ReopenAdvertiser, Placed, TypeOK, AdvRecords, HasNode
  <2>5. QED
    BY <2>3, <2>4
<1>5. CASE CloseAdvertiser(a)
  <2>1. node' \in [Nodes -> NodeRecords]
    BY <1>5, <1>a, NodeType DEF CloseAdvertiser, HasNode
  <2>2. adv' \in [Advertisers -> AdvRecords]
    BY <1>5, <1>a DEF CloseAdvertiser, TypeOK, AdvRecords, HasNode
  <2>3. TypeOK'
    BY <1>5, <2>1, <2>2 DEF CloseAdvertiser, TypeOK
  <2>4. Placed'
    BY <1>5, <1>a DEF CloseAdvertiser, Placed, TypeOK, AdvRecords, HasNode
  <2>5. QED
    BY <2>3, <2>4
<1>6. CASE Begin(a)
  <2>1. adv' \in [Advertisers -> AdvRecords]
    BY <1>6, <1>a DEF Begin, TypeOK, AdvRecords, HasNode
  <2>2. begun' \in 0 .. MaxMessages
    BY <1>6, TopicAssumption DEF Begin, TypeOK
  <2>3. TypeOK'
    BY <1>6, <2>1, <2>2 DEF Begin, TypeOK
  <2>4. Placed'
    BY <1>6, <1>a DEF Begin, Placed, TypeOK, AdvRecords, HasNode
  <2>5. QED
    BY <2>3, <2>4
<1>7. CASE Allocate(a)
  <2>1. node' \in [Nodes -> NodeRecords]
    BY <1>7, <1>a DEF Allocate, TypeOK, NodeRecords, HasNode, Garbage
  <2>2. adv' \in [Advertisers -> AdvRecords]
    BY <1>7, <1>a DEF Allocate, TypeOK, AdvRecords, HasNode
  <2>3. TypeOK'
    BY <1>7, <2>1, <2>2 DEF Allocate, TypeOK
  <2>4. Placed'
    BY <1>7, <1>a DEF Allocate, Placed, TypeOK, AdvRecords, HasNode
  <2>5. QED
    BY <2>3, <2>4
<1>8. CASE CopyIn(a)
  <2>1. node' \in [Nodes -> NodeRecords]
    BY <1>8, <1>a DEF CopyIn, TypeOK, NodeRecords, HasNode, Garbage
  <2>2. adv' \in [Advertisers -> AdvRecords]
    BY <1>8, <1>a DEF CopyIn, TypeOK, AdvRecords, HasNode
  <2>3. TypeOK'
    BY <1>8, <2>1, <2>2 DEF CopyIn, TypeOK
  <2>4. Placed'
    BY <1>8, <1>a DEF CopyIn, Placed, TypeOK, AdvRecords, HasNode
  <2>5. QED
    BY <2>3, <2>4
<1>9. CASE Load(a)
  <2>1. adv' \in [Advertisers -> AdvRecords]
    BY <1>9, <1>a DEF Load, TypeOK, AdvRecords, HasNode
  <2>2. TypeOK'
    BY <1>9, <2>1 DEF Load, TypeOK
  <2>3. Placed'
    BY <1>9, <1>a DEF Load, Placed, TypeOK, AdvRecords, HasNode
  <2>4. QED
    BY <2>2, <2>3
<1>10. CASE Store(a)
  <2>1. node' \in [Nodes -> NodeRecords]
    <3>1. adv[a].node \in Nodes /\ adv[a].generation + 1 \in Nat
      BY <1>10, <1>a DEF Store, HasNode
    <3>2. [node EXCEPT ![adv[a].node].generation = adv[a].generation + 1]
            \in [Nodes -> NodeRecords]
      BY <3>1, NodeType, Zenon
    <3>3. QED
      BY <1>10, <3>2 DEF Store
  <2>2. adv' \in [Advertisers -> AdvRecords]
    BY <1>10, <1>a DEF Store, TypeOK, AdvRecords, HasNode
  <2>3. TypeOK'
    BY <1>10, <2>1, <2>2 DEF Store, TypeOK
  <2>4. Placed'
    BY <1>10, <1>a DEF Store, Placed, TypeOK, AdvRecords, HasNode
  <2>5. QED
    BY <2>3, <2>4
<1>11. CASE Notify(a)
  <2>1. adv[a].node \in Nodes /\ poll_notify(adv[a].node)
    BY <1>11, <1>a DEF Notify, HasNode
  <2>2. adv' \in [Advertisers -> AdvRecords] /\ UNCHANGED <<node, hrt, begun>>
    BY <1>11, <1>a DEF Notify, AdvRecords, TypeOK
  <2>3. TypeOK'
    BY <2>1, <2>2, NotifyType DEF TypeOK
  <2>4. Placed'
    BY <1>11, <2>1, NotifyType DEF Notify, Placed, TypeOK, AdvRecords, HasNode
  <2>5. QED
    BY <2>3, <2>4
<1>12. CASE Flag(a)
  <2>1. node' \in [Nodes -> NodeRecords]
    BY <1>12, <1>a, NodeType DEF Flag, HasNode
  <2>2. adv' \in [Advertisers -> AdvRecords]
    BY <1>12, <1>a DEF Flag, TypeOK, AdvRecords, HasNode
  <2>3. TypeOK'
    BY <1>12, <2>1, <2>2 DEF Flag, TypeOK
  <2>4. Placed'
    BY <1>12, <1>a DEF Flag, Placed, TypeOK, AdvRecords, HasNode
  <2>5. QED
    BY <2>3, <2>4
<1>13. QED
  BY <1>1, <1>2, <1>3, <1>4, <1>5, <1>6, <1>7, <1>8, <1>9, <1>10, <1>11, <1>12
     DEF Advertise, Write

\* A subscriber that goes to wait keeps its semaphore, and waits only if something is registered.
LEMMA WaitsType ==
    ASSUME TypeOK, NEW s \in Subscribers, NEW w \in Waits(s, Registered(s))
    PROVE  /\ w \in SubRecords /\ w.at \in Waiting \cup {"idle"}
           /\ w.at \in Waiting <=> Registered(s)
           /\ w.sem = sub[s].sem
           /\ \A k : /\ [w EXCEPT !.revents = @ \ {k}] \in SubRecords
                     /\ [w EXCEPT !.revents = @ \ {k}].at = w.at
                     /\ [w EXCEPT !.revents = @ \ {k}].sem = w.sem
<1>1. sub[s] \in SubRecords
  BY DEF TypeOK
<1>2. PICK p \in Waiting \cup {"idle"} :
        w = [sub[s] EXCEPT !.at = p, !.k = 0] /\ (p \in Waiting <=> Registered(s))
  BY DEF Waits, Waiting
<1>3. w \in SubRecords /\ w.at = p /\ w.sem = sub[s].sem
  BY <1>1, <1>2 DEF SubRecords
<1>4. ASSUME NEW k
      PROVE  /\ [w EXCEPT !.revents = @ \ {k}] \in SubRecords
             /\ [w EXCEPT !.revents = @ \ {k}].at = w.at
             /\ [w EXCEPT !.revents = @ \ {k}].sem = w.sem
  <2>1. w.revents \ {k} \in SUBSET (Nat \ {0})
    BY <1>3 DEF SubRecords
  <2>2. QED
    BY <1>3, <2>1 DEF SubRecords
<1>5. QED
  BY <1>2, <1>3, <1>4

\* A poll that returns leads to the collection of what is ready, or to the end.
LEMMA ReturnsType ==
    ASSUME TypeOK, NEW s \in Subscribers
    PROVE  Returns(s) \in SubRecords /\ Returns(s).at \in {"idle", "collect"}
<1> DEFINE todo == IF sub[s].todo = {} THEN {} ELSE {k \in sub[s].revents : IsOpen(<<s, k>>)}
           at == IF sub[s].todo = {} THEN "idle" ELSE "collect"
<1>1. sub[s] \in SubRecords /\ at \in {"idle", "collect"}
  BY DEF TypeOK
<1>2. todo \in SUBSET (Nat \ {0})
  BY <1>1 DEF SubRecords
<1>3. Returns(s) = [sub[s] EXCEPT !.at = at, !.k = 0, !.sem = 0, !.todo = todo]
  BY DEF Returns
<1>4. at \in Waiting \cup {"idle", "advertise", "reopen", "setup", "teardown", "collect"}
  BY DEF Waiting
<1> HIDE DEF todo, at
<1> DEFINE r == [sub[s] EXCEPT !.at = at, !.k = 0, !.sem = 0, !.todo = todo]
<1>5. r \in SubRecords
  BY <1>1, <1>2, <1>4 DEF SubRecords
<1>6. r.at = at
  BY <1>1 DEF SubRecords
<1>7. QED
  BY <1>1, <1>3, <1>5, <1>6

\* The set up of a descriptor: the table is full, or it has a place
SetsUp(s) ==
    LET f == <<s, sub[s].k>> IN
    /\ sub[s].at = "setup" /\ sub[s].k \in DOMAIN Wants[s] /\ f \in Fds /\ IsOpen(f)
    /\ sd[f].node \in Nodes /\ UNCHANGED <<adv, hrt, begun>>
    /\ sub'[s] \in SubRecords /\ sub' = [sub EXCEPT ![s] = sub'[s]]
    /\ \/ /\ UNCHANGED <<node, sd>>
          /\ sub'[s].at \in Waiting \cup {"idle"}
          /\ sub'[s].at \in Waiting <=> Registered(s)
          /\ sub'[s].sem = sub[s].sem
       \/ /\ node' = [node EXCEPT ![sd[f].node].waiters = @ \cup {f}]
          /\ sd' = IF appears_updated(f) THEN [sd EXCEPT ![f] = Reported(f)] ELSE sd
          /\ sub'[s].at = "setup" /\ sub'[s].k = sub[s].k + 1
          /\ sub'[s].sem >= sub[s].sem
          /\ appears_updated(f) => sub'[s].sem > 0

\* What poll_setup of one descriptor does, said without its cases.
LEMMA SetupEffect ==
    ASSUME TypeOK, NEW s \in Subscribers, Setup(s)
    PROVE  SetsUp(s)
<1> DEFINE k == sub[s].k
           f == <<s, k>>
           ready == appears_updated(f)
<1>1. sub[s].at = "setup" /\ k \in DOMAIN Wants[s] /\ IsOpen(f) /\ UNCHANGED <<adv, hrt, begun>>
  BY DEF Setup
<1>2. f \in Fds
  BY <1>1, DescriptorType
<1>3. sub[s] \in SubRecords /\ k \in Nat \ {0} /\ sub[s].sem \in Nat
  BY <1>1, DescriptorType DEF TypeOK, SubRecords
<1>4. sd[f].node \in Nodes
  BY <1>1, <1>2 DEF TypeOK, SdRecords, IsOpen
<1>5. CASE \E w \in Waits(s, Registered(s)) :
             sub' = [sub EXCEPT ![s] = [w EXCEPT !.revents = @ \ {k}]] /\ UNCHANGED <<node, sd>>
  <2>1. PICK w \in Waits(s, Registered(s)) :
          sub' = [sub EXCEPT ![s] = [w EXCEPT !.revents = @ \ {k}]] /\ UNCHANGED <<node, sd>>
    BY <1>5
  <2> DEFINE v == [w EXCEPT !.revents = @ \ {k}]
  <2>2. /\ v \in SubRecords /\ v.at \in Waiting \cup {"idle"} /\ v.sem = sub[s].sem
        /\ v.at \in Waiting <=> Registered(s)
    <3>1. /\ w.at \in Waiting \cup {"idle"} /\ w.sem = sub[s].sem
          /\ w.at \in Waiting <=> Registered(s)
          /\ \A x : /\ [w EXCEPT !.revents = @ \ {x}] \in SubRecords
                   /\ [w EXCEPT !.revents = @ \ {x}].at = w.at
                   /\ [w EXCEPT !.revents = @ \ {x}].sem = w.sem
      BY WaitsType, Zenon
    <3>2. v \in SubRecords /\ v.at = w.at /\ v.sem = w.sem
      BY <3>1, Zenon
    <3>3. QED
      BY <3>1, <3>2
  <2>3. sub' = [sub EXCEPT ![s] = v]
    BY <2>1
  <2> HIDE DEF v
  <2>4. sub'[s] = v
    BY <2>3 DEF TypeOK
  <2>5. QED
    BY <1>1, <1>2, <1>4, <2>1, <2>2, <2>3, <2>4 DEF SetsUp
<1>6. CASE /\ node' = [node EXCEPT ![sd[f].node].waiters = @ \cup {f}]
           /\ sd' = IF ready THEN [sd EXCEPT ![f] = Reported(f)] ELSE sd
           /\ sub' = [sub EXCEPT ![s].k = k + 1,
                                 ![s].revents = IF ready THEN @ \cup {k} ELSE @ \ {k},
                                 ![s].sem = IF ready THEN @ + 1 ELSE @]
  <2> DEFINE r == IF ready THEN sub[s].revents \cup {k} ELSE sub[s].revents \ {k}
             x == IF ready THEN sub[s].sem + 1 ELSE sub[s].sem
             v == [sub[s] EXCEPT !.k = k + 1, !.revents = r, !.sem = x]
  <2>1. sub' = [sub EXCEPT ![s] = v]
    BY <1>6
  <2>2. r \in SUBSET (Nat \ {0})
    BY <1>3 DEF SubRecords
  <2>3. x \in Nat /\ x >= sub[s].sem /\ (ready => x > 0) /\ k + 1 \in Nat
    BY <1>3
  <2> HIDE DEF r, x, k
  <2>4. v \in SubRecords /\ v.at = sub[s].at /\ v.k = k + 1 /\ v.sem = x
    BY <1>3, <2>2, <2>3 DEF SubRecords
  <2> HIDE DEF v
  <2>5. sub'[s] = v
    BY <2>1 DEF TypeOK
  <2>6. QED
    BY <1>1, <1>2, <1>4, <1>6, <2>1, <2>3, <2>4, <2>5 DEF k, SetsUp
<1>7. QED
  BY <1>5, <1>6 DEF Setup

\* The teardown of a descriptor: the last one ends the call
TearsDown(s) ==
    LET f == <<s, sub[s].k>> IN
    /\ sub[s].at = "teardown" /\ sub[s].k \in DOMAIN Wants[s] /\ f \in Fds /\ IsOpen(f)
    /\ sd[f].node \in Nodes /\ UNCHANGED <<adv, sd, hrt, begun>>
    /\ sub'[s] \in SubRecords /\ sub' = [sub EXCEPT ![s] = sub'[s]]
    /\ \/ /\ f \in node[sd[f].node].waiters
          /\ node' = [node EXCEPT ![sd[f].node].waiters = @ \ {f}]
          /\ sub'[s].at = "teardown" /\ sub'[s].k = sub[s].k + 1
       \/ /\ f \notin node[sd[f].node].waiters /\ UNCHANGED node
          /\ sub'[s].at \in {"idle", "collect"}

\* What poll_teardown of one descriptor does.
LEMMA TeardownEffect ==
    ASSUME TypeOK, NEW s \in Subscribers, Teardown(s)
    PROVE  TearsDown(s)
<1> DEFINE k == sub[s].k
           f == <<s, k>>
<1>1. /\ sub[s].at = "teardown" /\ k \in DOMAIN Wants[s] /\ IsOpen(f)
      /\ UNCHANGED <<adv, sd, hrt, begun>>
  BY DEF Teardown
<1>2. f \in Fds
  BY <1>1, DescriptorType
<1>3. sub[s] \in SubRecords /\ k \in Nat \ {0}
  BY <1>1, DescriptorType DEF TypeOK, SubRecords
<1>4. sd[f].node \in Nodes
  BY <1>1, <1>2 DEF TypeOK, SdRecords, IsOpen
<1>5. CASE f \in node[sd[f].node].waiters
  <2> DEFINE t == sub[s].todo \cup (sub[s].revents \cap {k})
             v == [sub[s] EXCEPT !.k = k + 1, !.todo = t]
  <2>1. sub' = [sub EXCEPT ![s] = v] /\ node' = [node EXCEPT ![sd[f].node].waiters = @ \ {f}]
    BY <1>5 DEF Teardown
  <2>2. t \in SUBSET (Nat \ {0}) /\ k + 1 \in Nat
    BY <1>3 DEF SubRecords
  <2> HIDE DEF t, k
  <2>3. v \in SubRecords /\ v.at = sub[s].at /\ v.k = k + 1
    BY <1>3, <2>2 DEF SubRecords
  <2> HIDE DEF v
  <2>4. sub'[s] = v
    BY <2>1 DEF TypeOK
  <2>5. QED
    BY <1>1, <1>2, <1>4, <1>5, <2>1, <2>3, <2>4 DEF k, TearsDown
<1>6. CASE f \notin node[sd[f].node].waiters
  <2>1. sub' = [sub EXCEPT ![s] = Returns(s)] /\ UNCHANGED node
    BY <1>6 DEF Teardown
  <2>2. sub'[s] = Returns(s)
    BY <2>1 DEF TypeOK
  <2>3. QED
    BY <1>1, <1>2, <1>4, <1>6, <2>1, <2>2, ReturnsType DEF TearsDown
<1>7. QED
  BY <1>5, <1>6

\* The steps of a subscriber keep the types.
LEMMA SubscriberTypes ==
    ASSUME TypeOK, Placed, Unwritten, NEW s \in Subscribers,
           Calls(s) \/ Subscribing(s) \/ PollStep(s)
    PROVE  TypeOK' /\ Placed'
<1> USE NodesAreNumbers, DescriptorType
<1>a. /\ sub[s] \in SubRecords /\ sub[s].k \in Nat /\ sub[s].sem \in Nat
      /\ sub[s].revents \subseteq Nat \ {0} /\ sub[s].todo \subseteq Nat \ {0}
      /\ sub[s].at \in {"setup", "teardown"} => sub[s].k >= 1
      /\ sub[s].at \in {"advertise", "reopen"} => sub[s].k \in DOMAIN Wants[s]
      /\ sub[s].at = "reopen" => sub[s].node \in Nodes
  BY DEF TypeOK, Placed, SubRecords
<1>1. CASE Poll(s)
  <2>1. sub' \in [Subscribers -> SubRecords]
    BY <1>1, <1>a DEF Poll, TypeOK, SubRecords, Idle
  <2>2. TypeOK'
    BY <1>1, <2>1 DEF Poll, TypeOK
  <2>3. Placed'
    BY <1>1, <1>a DEF Poll, Placed, TypeOK, SubRecords, Idle
  <2>4. QED
    BY <2>2, <2>3
<1>2. ASSUME NEW k \in DOMAIN Wants[s], Subscribe(s, k)
      PROVE  TypeOK' /\ Placed'
  <2>1. /\ <<s, k>> \in Fds /\ Opened(Wants[s][k]) \in SdRecords
        /\ \/ sd' = [sd EXCEPT ![<<s, k>>] = Opened(Wants[s][k])] /\ UNCHANGED sub
           \/ sub' = [sub EXCEPT ![s].at = "advertise", ![s].k = k] /\ UNCHANGED sd
    BY <1>2, OpenedType DEF Subscribe
  <2>2. sd' \in [Fds -> SdRecords]
    BY <2>1 DEF TypeOK
  <2>3. sub' \in [Subscribers -> SubRecords]
    BY <1>2, <1>a, <2>1 DEF Subscribe, TypeOK, SubRecords
  <2>4. TypeOK'
    BY <1>2, <2>1, <2>2, <2>3 DEF Subscribe, TypeOK
  <2>5. Placed'
    BY <1>2, <1>a, <2>1 DEF Subscribe, Placed, TypeOK, SubRecords
  <2>6. QED
    BY <2>4, <2>5
<1>3. ASSUME NEW k \in DOMAIN Wants[s], SetInterval(s, k)
      PROVE  TypeOK' /\ Placed'
  <2>1. sd' \in [Fds -> SdRecords]
    <3>1. <<s, k>> \in Fds /\ sd[<<s, k>>] \in SdRecords
      BY <1>3, <1>a DEF TypeOK
    <3>2. [sd[<<s, k>>] EXCEPT !.interval = TRUE] \in SdRecords
      BY <3>1 DEF SdRecords
    <3>3. QED
      BY <1>3, <3>1, <3>2 DEF SetInterval, TypeOK
  <2>2. TypeOK'
    BY <1>3, <2>1 DEF SetInterval, TypeOK
  <2>3. Placed'
    BY <1>3, <1>a DEF SetInterval, Placed, TypeOK, SubRecords
  <2>4. QED
    BY <2>2, <2>3
<1>4. ASSUME NEW k \in DOMAIN Wants[s], Unsubscribe(s, k)
      PROVE  TypeOK' /\ Placed'
  <2>1. sd' \in [Fds -> SdRecords]
    BY <1>4, <1>a DEF Unsubscribe, TypeOK, SdRecords, NoSd
  <2>2. TypeOK'
    BY <1>4, <2>1 DEF Unsubscribe, TypeOK
  <2>3. Placed'
    BY <1>4, <1>a DEF Unsubscribe, Placed, TypeOK, SubRecords, NoSd
  <2>4. QED
    BY <2>2, <2>3
<1>5. ASSUME NEW k \in DOMAIN Wants[s], Copy(s, k)
      PROVE  TypeOK' /\ Placed'
  <2>1. sd' \in [Fds -> SdRecords]
    BY <1>5, <1>a, CopiedType DEF Copy, TypeOK, SdRecords
  <2>2. sub' \in [Subscribers -> SubRecords]
    <3>1. CASE UNCHANGED sub
      BY <3>1 DEF TypeOK
    <3>2. CASE sub' = [sub EXCEPT ![s].todo = @ \ {k},
                                  ![s].at = IF sub[s].todo = {k} THEN "idle" ELSE "collect"]
      <4>1. sub[s] \in SubRecords
        BY DEF TypeOK
      <4>2. \A at \in {"idle", "collect"} :
              [[sub[s] EXCEPT !.todo = @ \ {k}] EXCEPT !.at = at] \in SubRecords
        BY <4>1 DEF SubRecords
      <4>3. QED
        BY <3>2, <4>2 DEF TypeOK
    <3>3. QED
      BY <1>5, <3>1, <3>2 DEF Copy
  <2>3. TypeOK'
    BY <1>5, <2>1, <2>2 DEF Copy, TypeOK
  <2>4. Placed'
    BY <1>5, <1>a, CopiedType DEF Copy, Placed, TypeOK, SubRecords
  <2>5. QED
    BY <2>3, <2>4
<1>6. ASSUME NEW k \in DOMAIN Wants[s], Check(s, k)
      PROVE  TypeOK' /\ Placed'
  <2>1. /\ <<s, k>> \in Fds /\ Reported(<<s, k>>) \in SdRecords
        /\ \/ /\ sd' = [sd EXCEPT ![<<s, k>>] = Reported(<<s, k>>)]
              /\ sub' = [sub EXCEPT ![s].at = "collect", ![s].todo = {k}]
           \/ UNCHANGED <<sd, sub>>
    BY <1>6, ReportedType DEF Check
  <2>2. sd' \in [Fds -> SdRecords]
    BY <2>1 DEF TypeOK
  <2>3. sub' \in [Subscribers -> SubRecords]
    BY <1>6, <1>a, <2>1 DEF Check, TypeOK, SubRecords
  <2>4. TypeOK'
    BY <1>6, <2>1, <2>2, <2>3 DEF Check, TypeOK
  <2>5. Placed'
    BY <1>6, <1>a, <2>1 DEF Check, Placed, TypeOK, SubRecords
  <2>6. QED
    BY <2>4, <2>5
<1>7. CASE AdvertiseForSubscriber(s)
  <2>1. \E n \in Nodes \cup {NoNode} :
          IF n = NoNode THEN sub' = [sub EXCEPT ![s].at = "idle", ![s].k = 0] /\ UNCHANGED node
          ELSE /\ node' = [node EXCEPT ![n].exists = TRUE]
               /\ sub' = [sub EXCEPT ![s].at = "reopen", ![s].node = n]
    BY <1>7 DEF AdvertiseForSubscriber
  <2>2. node' \in [Nodes -> NodeRecords]
    <3>1. PICK n \in Nodes \cup {NoNode} :
            IF n = NoNode THEN UNCHANGED node ELSE node' = [node EXCEPT ![n].exists = TRUE]
      BY <2>1
    <3>2. CASE n = NoNode
      BY <3>1, <3>2 DEF TypeOK
    <3>3. CASE n # NoNode
      <4>1. [node EXCEPT ![n].exists = TRUE] \in [Nodes -> NodeRecords]
        BY <3>3, NodeType
      <4>2. QED
        BY <3>1, <3>3, <4>1
    <3>4. QED
      BY <3>2, <3>3
  <2>3. sub' \in [Subscribers -> SubRecords]
    BY <1>7, <1>a, <2>1 DEF AdvertiseForSubscriber, TypeOK, SubRecords
  <2>4. TypeOK'
    BY <1>7, <2>1, <2>2, <2>3 DEF AdvertiseForSubscriber, TypeOK
  <2>5. Placed'
    BY <1>7, <1>a, <2>1 DEF AdvertiseForSubscriber, Placed, TypeOK, SubRecords
  <2>6. QED
    BY <2>4, <2>5
<1>8. CASE ReopenSubscriber(s)
  <2>1. sd' \in [Fds -> SdRecords]
    BY <1>8, <1>a, OpenedType DEF ReopenSubscriber, TypeOK, SdRecords
  <2>2. sub' \in [Subscribers -> SubRecords]
    BY <1>8, <1>a, OpenedType DEF ReopenSubscriber, TypeOK, SubRecords
  <2>3. TypeOK'
    BY <1>8, <2>1, <2>2 DEF ReopenSubscriber, TypeOK
  <2>4. Placed'
    BY <1>8, <1>a, OpenedType DEF ReopenSubscriber, Placed, TypeOK, SubRecords
  <2>5. QED
    BY <2>3, <2>4
<1>9. CASE SkipInvalid(s)
  <2>1. /\ sub[s].k + 1 \in Nat /\ sub[s].k + 1 >= 1
        /\ sub[s].revents \ {sub[s].k} \in SUBSET (Nat \ {0})
    BY <1>a
  <2>2. sub' \in [Subscribers -> SubRecords]
    BY <1>9, <1>a, <2>1 DEF SkipInvalid, TypeOK, SubRecords
  <2>3. TypeOK'
    BY <1>9, <2>1, <2>2 DEF SkipInvalid, TypeOK
  <2>4. Placed'
    BY <1>9, <1>a, <2>1 DEF SkipInvalid, Placed, TypeOK, SubRecords
  <2>5. QED
    BY <2>3, <2>4
<1>10. CASE SetupDone(s)
  <2>1. \E w \in Waits(s, Registered(s)) :
          sub' = [sub EXCEPT ![s] = w] /\ w \in SubRecords /\ w.at \in Waiting \cup {"idle"}
    BY <1>10, WaitsType DEF SetupDone
  <2>2. sub' \in [Subscribers -> SubRecords]
    BY <1>10, <1>a, <2>1 DEF SetupDone, TypeOK, SubRecords, Waiting
  <2>3. TypeOK'
    BY <1>10, <2>1, <2>2 DEF SetupDone, TypeOK
  <2>4. Placed'
    BY <1>10, <1>a, <2>1 DEF SetupDone, Placed, TypeOK, SubRecords, Waiting
  <2>5. QED
    BY <2>3, <2>4
<1>11. CASE Setup(s)
  <2>1. SetsUp(s)
    BY <1>11, SetupEffect
  <2>2. sub' \in [Subscribers -> SubRecords] /\ \A t \in Subscribers : t # s => sub'[t] = sub[t]
    BY <2>1 DEF SetsUp, TypeOK
  <2>3. node' \in [Nodes -> NodeRecords]
    <3> DEFINE f == <<s, sub[s].k>>
               n == sd[f].node
    <3>1. n \in Nodes /\ f \in Fds /\ node[n].waiters \in SUBSET Fds
      BY <2>1 DEF SetsUp, TypeOK, NodeRecords
    <3>2. UNCHANGED node \/ node' = [node EXCEPT ![n].waiters = node[n].waiters \cup {f}]
      BY <2>1 DEF SetsUp
    <3>3. [node EXCEPT ![n].waiters = node[n].waiters \cup {f}] \in [Nodes -> NodeRecords]
      <4>1. node[n].waiters \cup {f} \in SUBSET Fds
        BY <3>1
      <4>2. QED
        BY <3>1, <4>1, NodeType, Zenon
    <3> HIDE DEF f, n
    <3>4. node \in [Nodes -> NodeRecords]
      BY DEF TypeOK
    <3>5. QED
      BY <3>2, <3>3, <3>4
  <2>4. sd' \in [Fds -> SdRecords]
    <3> DEFINE f == <<s, sub[s].k>>
    <3>1. f \in Fds /\ Reported(f) \in SdRecords
      BY <2>1, ReportedType DEF SetsUp
    <3>2. UNCHANGED sd \/ sd' = [sd EXCEPT ![f] = Reported(f)]
      BY <2>1 DEF SetsUp
    <3>3. QED
      BY <3>1, <3>2 DEF TypeOK
  <2>5. TypeOK'
    BY <2>1, <2>2, <2>3, <2>4 DEF SetsUp, TypeOK
  <2>6. sub'[s].at \in Waiting \cup {"idle"} \/ (sub'[s].at = "setup" /\ sub'[s].k >= 1)
    BY <1>a, <2>1 DEF SetsUp
  <2>7. Placed'
    BY <2>1, <2>2, <2>6 DEF SetsUp, Placed, Waiting
  <2>8. QED
    BY <2>5, <2>7
<1>12. CASE WakeUp(s)
  <2>1. sub' \in [Subscribers -> SubRecords]
    BY <1>12, <1>a DEF WakeUp, TypeOK, SubRecords
  <2>2. TypeOK'
    BY <1>12, <2>1 DEF WakeUp, TypeOK
  <2>3. Placed'
    BY <1>12, <1>a DEF WakeUp, Placed, TypeOK, SubRecords
  <2>4. QED
    BY <2>2, <2>3
<1>13. CASE Timeout(s)
  <2>1. sub' \in [Subscribers -> SubRecords]
    BY <1>13, <1>a DEF Timeout, TypeOK, SubRecords
  <2>2. TypeOK'
    BY <1>13, <2>1 DEF Timeout, TypeOK
  <2>3. Placed'
    BY <1>13, <1>a DEF Timeout, Placed, TypeOK, SubRecords
  <2>4. QED
    BY <2>2, <2>3
<1>14. CASE SkipTeardown(s)
  <2>1. sub[s].k + 1 \in Nat /\ sub[s].k + 1 >= 1
    BY <1>a
  <2>2. sub' \in [Subscribers -> SubRecords]
    BY <1>14, <1>a, <2>1 DEF SkipTeardown, TypeOK, SubRecords
  <2>3. TypeOK'
    BY <1>14, <2>1, <2>2 DEF SkipTeardown, TypeOK
  <2>4. Placed'
    BY <1>14, <1>a, <2>1 DEF SkipTeardown, Placed, TypeOK, SubRecords
  <2>5. QED
    BY <2>3, <2>4
<1>15. CASE Teardown(s)
  <2>1. TearsDown(s)
    BY <1>15, TeardownEffect
  <2>2. sub' \in [Subscribers -> SubRecords] /\ \A t \in Subscribers : t # s => sub'[t] = sub[t]
    BY <2>1 DEF TearsDown, TypeOK
  <2>3. node' \in [Nodes -> NodeRecords]
    <3> DEFINE f == <<s, sub[s].k>>
               n == sd[f].node
    <3>1. n \in Nodes /\ f \in Fds /\ node[n].waiters \in SUBSET Fds
      BY <2>1 DEF TearsDown, TypeOK, NodeRecords
    <3>2. UNCHANGED node \/ node' = [node EXCEPT ![n].waiters = node[n].waiters \ {f}]
      BY <2>1 DEF TearsDown
    <3>3. [node EXCEPT ![n].waiters = node[n].waiters \ {f}] \in [Nodes -> NodeRecords]
      <4>1. node[n].waiters \ {f} \in SUBSET Fds
        BY <3>1
      <4>2. QED
        BY <3>1, <4>1, NodeType, Zenon
    <3> HIDE DEF f, n
    <3>4. node \in [Nodes -> NodeRecords]
      BY DEF TypeOK
    <3>5. QED
      BY <3>2, <3>3, <3>4
  <2>4. TypeOK'
    BY <2>1, <2>2, <2>3 DEF TearsDown, TypeOK
  <2>5. sub'[s].at \in {"idle", "collect"} \/ (sub'[s].at = "teardown" /\ sub'[s].k >= 1)
    BY <1>a, <2>1 DEF TearsDown
  <2>6. Placed'
    BY <2>1, <2>2, <2>5 DEF TearsDown, Placed
  <2>7. QED
    BY <2>4, <2>6
<1>16. CASE TeardownDone(s)
  <2>1. sub' \in [Subscribers -> SubRecords]
    BY <1>16, <1>a, ReturnsType DEF TeardownDone, TypeOK, SubRecords
  <2>2. TypeOK'
    BY <1>16, <2>1 DEF TeardownDone, TypeOK
  <2>3. Placed'
    BY <1>16, <1>a, ReturnsType DEF TeardownDone, Placed, TypeOK, SubRecords
  <2>4. QED
    BY <2>2, <2>3
<1>17. QED
  BY <1>1, <1>2, <1>3, <1>4, <1>5, <1>6, <1>7, <1>8, <1>9, <1>10, <1>11, <1>12, <1>13, <1>14,
     <1>15, <1>16 DEF Calls, Subscribing, PollStep

\* The timer keeps the types.
LEMMA TimerTypes ==
    ASSUME TypeOK, Placed, Timer
    PROVE  TypeOK' /\ Placed'
<1>1. CASE UpdateDeferred
  <2>1. hrt \in Nodes /\ poll_notify(hrt)
    BY <1>1 DEF UpdateDeferred, TypeOK
  <2>2. QED
    BY <1>1, <2>1, NotifyType, NodesAreNumbers DEF UpdateDeferred, TypeOK, Placed
<1>2. ASSUME NEW f \in Fds, Expire(f)  PROVE TypeOK' /\ Placed'
  BY <1>2 DEF Expire, TypeOK, Placed, SdRecords
<1>3. QED
  BY <1>1, <1>2 DEF Timer

\* Every step keeps the types.
LEMMA TypeStep ==
    ASSUME TypeOK, Placed, Unwritten, [Next]_vars
    PROVE  TypeOK' /\ Placed'
<1>1. CASE UNCHANGED vars
  BY <1>1 DEF vars, TypeOK, Placed
<1>2. QED
  BY <1>1, AdvertiserTypes, SubscriberTypes, TimerTypes DEF Next

-----------------------------------------------------------------------------
\* What subscribers and the timer leave alone

\* No subscriber writes a topic; it may create a node
LEMMA SubscriberFrame ==
    ASSUME TypeOK, NEW s \in Subscribers, Calls(s) \/ Subscribing(s) \/ PollStep(s)
    PROVE  /\ UNCHANGED adv
           /\ \A n \in Nodes : /\ node'[n].data = node[n].data
                               /\ node'[n].generation = node[n].generation
                               /\ node'[n].published = node[n].published
                               /\ node[n].exists => node'[n].exists
<1> DEFINE Same == \A n \in Nodes : /\ node'[n].data = node[n].data
                                    /\ node'[n].generation = node[n].generation
                                    /\ node'[n].published = node[n].published
                                    /\ node[n].exists => node'[n].exists
<1>1. CASE AdvertiseForSubscriber(s)
  <2>1. PICK n \in Nodes \cup {NoNode} :
          IF n = NoNode THEN UNCHANGED node ELSE node' = [node EXCEPT ![n].exists = TRUE]
    BY <1>1 DEF AdvertiseForSubscriber
  <2>2. Same
    BY <2>1 DEF TypeOK, NodeRecords
  <2>3. QED
    BY <1>1, <2>2 DEF AdvertiseForSubscriber
<1>2. CASE Setup(s)
  <2>1. SetsUp(s)
    BY <1>2, SetupEffect
  <2>2. Same
    BY <2>1 DEF SetsUp, TypeOK, NodeRecords
  <2>3. QED
    BY <2>1, <2>2 DEF SetsUp
<1>3. CASE Teardown(s)
  <2>1. TearsDown(s)
    BY <1>3, TeardownEffect
  <2>2. Same
    BY <2>1 DEF TearsDown, TypeOK, NodeRecords
  <2>3. QED
    BY <2>1, <2>2 DEF TearsDown
<1>4. CASE Calls(s)
  BY <1>4 DEF Calls, Poll, Subscribe, SetInterval, Unsubscribe, Copy, Check
<1>5. CASE ReopenSubscriber(s)
  BY <1>5 DEF ReopenSubscriber
<1>6. CASE \/ SkipInvalid(s) \/ SetupDone(s) \/ WakeUp(s) \/ Timeout(s) \/ SkipTeardown(s)
           \/ TeardownDone(s)
  BY <1>6 DEF SkipInvalid, SetupDone, WakeUp, Timeout, SkipTeardown, TeardownDone
<1>7. QED
  BY <1>1, <1>2, <1>3, <1>4, <1>5, <1>6 DEF Subscribing, PollStep

\* The timer touches neither nodes nor advertisers.
LEMMA TimerFrame ==
    ASSUME Timer
    PROVE  UNCHANGED <<node, adv>>
BY DEF Timer, UpdateDeferred, Expire

-----------------------------------------------------------------------------
\* Nodes that are claimed

\* Nobody loses the node it holds open.
LEMMA ClaimedStep ==
    ASSUME TypeOK, Placed, Claimed, [Next]_vars
    PROVE  Claimed'
<1>1. CASE UNCHANGED <<node, adv>>
  BY <1>1 DEF Claimed
<1>2. ASSUME NEW s \in Subscribers, Calls(s) \/ Subscribing(s) \/ PollStep(s)
      PROVE  Claimed'
  BY <1>2, SubscriberFrame DEF Claimed, Placed, HasNode
<1>3. ASSUME NEW a \in Advertisers, Advertise(a) \/ Begin(a) \/ Write(a)
      PROVE  Claimed'
  <2> USE NodesAreNumbers DEF TypeOK, Placed, Claimed, HasNode
  <2>1. CASE OpenAdvertiser(a)
    <3>1. \A n \in Nodes : /\ node'[n].exists = node[n].exists
                          /\ node'[n].published = node[n].published
      BY <2>1 DEF OpenAdvertiser, NodeRecords
    <3>2. \A b \in Advertisers : b # a => adv'[b] = adv[b]
      BY <2>1 DEF OpenAdvertiser
    <3>3. \/ adv'[a].at \in {"reclose", "close"} /\ adv'[a].node = 0 /\ node[0].exists
          \/ adv'[a].at = "advertise"
      <4>1. CASE /\ Opens(0)
                 /\ adv' = [adv EXCEPT ![a].at = IF a \in Multi THEN "reclose" ELSE "close",
                                       ![a].node = 0]
        <5>1. adv[a] \in AdvRecords
          OBVIOUS
        <5>2. \A at : [[adv[a] EXCEPT !.at = at] EXCEPT !.node = 0].at = at
                    /\ [[adv[a] EXCEPT !.at = at] EXCEPT !.node = 0].node = 0
          BY <5>1 DEF AdvRecords
        <5>3. adv'[a].at \in {"reclose", "close"} /\ adv'[a].node = 0
          BY <4>1, <5>2
        <5>4. QED
          BY <4>1, <5>3 DEF Opens
      <4>2. CASE adv' = [adv EXCEPT ![a].at = "advertise"]
        BY <4>2 DEF AdvRecords
      <4>3. QED
        BY <2>1, <4>1, <4>2 DEF OpenAdvertiser
    <3>4. ASSUME NEW b \in Advertisers
          PROVE  /\ adv'[b].at \in HasNode => node'[adv'[b].node].exists
                 /\ adv'[b].at = "ready" => node'[adv'[b].node].published
      <4>1. CASE b = a
        <5>1. 0 \in Nodes /\ node'[0].exists = node[0].exists
          BY <3>1
        <5>2. QED
          BY <3>3, <4>1, <5>1
      <4>2. CASE b # a
        <5>1. adv'[b] = adv[b]
          BY <3>2, <4>2
        <5>2. /\ adv[b].at \in HasNode => adv[b].node \in Nodes /\ node[adv[b].node].exists
              /\ adv[b].at = "ready" => adv[b].node \in Nodes /\ node[adv[b].node].published
          OBVIOUS
        <5>3. QED
          BY <3>1, <5>1, <5>2
      <4>3. QED
        BY <4>1, <4>2
    <3>5. \A n \in Nodes : node'[n].published => node'[n].exists
      BY <3>1
    <3>6. QED
      BY <3>4, <3>5
  <2>2. CASE CloseAgain(a)
    <3>1. \A n \in Nodes : /\ node'[n].exists = node[n].exists
                          /\ node'[n].published = node[n].published
      BY <2>2 DEF CloseAgain, NodeRecords
    <3>2. \A b \in Advertisers : b # a => adv'[b] = adv[b]
      BY <2>2 DEF CloseAgain
    <3>3. adv'[a].at = "advertise"
      BY <2>2 DEF CloseAgain, AdvRecords
    <3>4. QED
      BY <3>1, <3>2, <3>3
  <2>3. CASE NodeAdvertise(a)
    <3>1. PICK n \in Nodes \cup {NoNode} :
            IF n = NoNode
            THEN adv' = [adv EXCEPT ![a].at = "new"] /\ UNCHANGED node
            ELSE /\ node' = [node EXCEPT ![n].exists = TRUE]
                 /\ adv' = [adv EXCEPT ![a].at = "reopen", ![a].node = n]
      BY <2>3 DEF NodeAdvertise
    <3>2. \A m \in Nodes : /\ node'[m].exists <=> node[m].exists \/ m = n
                          /\ node'[m].published = node[m].published
      BY <3>1 DEF NodeRecords
    <3>3. \A b \in Advertisers : b # a => adv'[b] = adv[b]
      BY <3>1
    <3>4. \/ adv'[a].at = "reopen" /\ adv'[a].node = n /\ n \in Nodes
          \/ adv'[a].at = "new"
      BY <3>1 DEF AdvRecords
    <3>5. QED
      BY <3>2, <3>3, <3>4
  <2>4. CASE ReopenAdvertiser(a)
    <3>1. \A n \in Nodes : /\ node'[n].exists = node[n].exists
                          /\ node'[n].published = node[n].published
      <4>1. \/ UNCHANGED node
            \/ node' = [node EXCEPT ![adv[a].node].publisher = {a}] /\ adv[a].node \in Nodes
        BY <2>4 DEF ReopenAdvertiser
      <4>2. QED
        BY <4>1 DEF NodeRecords
    <3>2. \A b \in Advertisers : b # a => adv'[b] = adv[b]
      BY <2>4 DEF ReopenAdvertiser
    <3>3. \/ adv'[a].at = "close" /\ adv'[a].node = adv[a].node /\ node[adv[a].node].exists
          \/ adv'[a].at = "new"
      BY <2>4 DEF ReopenAdvertiser, Opens, AdvRecords
    <3>4. QED
      BY <2>4, <3>1, <3>2, <3>3 DEF ReopenAdvertiser
  <2>5. CASE CloseAdvertiser(a)
    BY <2>5 DEF CloseAdvertiser, NodeRecords, AdvRecords
  <2>6. CASE Begin(a)
    BY <2>6 DEF Begin, AdvRecords
  <2>7. CASE Allocate(a)
    BY <2>7 DEF Allocate, NodeRecords, AdvRecords
  <2>8. CASE CopyIn(a)
    BY <2>8 DEF CopyIn, NodeRecords, AdvRecords
  <2>9. CASE Load(a)
    BY <2>9 DEF Load, AdvRecords
  <2>10. CASE Store(a)
    BY <2>10 DEF Store, NodeRecords, AdvRecords
  <2>11. CASE Notify(a)
    BY <2>11 DEF Notify, AdvRecords
  <2>12. CASE Flag(a)
    BY <2>12 DEF Flag, NodeRecords, AdvRecords
  <2>13. QED
    BY <1>3, <2>1, <2>2, <2>3, <2>4, <2>5, <2>6, <2>7, <2>8, <2>9, <2>10, <2>11, <2>12
       DEF Advertise, Write
<1>4. QED
  BY <1>1, <1>2, <1>3, TimerFrame DEF Next, vars

-----------------------------------------------------------------------------
\* What a step does to a descriptor: it is closed, kept, opened or read from
Seen(f) ==
    \/ sd'[f].node = NoNode
    \/ /\ sd'[f].node = sd[f].node /\ sd'[f].generation = sd[f].generation
       /\ sd'[f].seen = sd[f].seen
    \/ /\ sd'[f].node \in Nodes
       /\ sd'[f].generation = node[sd'[f].node].generation
       /\ sd'[f].seen = node[sd'[f].node].generation
    \/ /\ sd'[f].node = sd[f].node /\ sd[f].node \in Nodes /\ node[sd[f].node].data # Null
       /\ sd'[f].generation = node[sd[f].node].generation
       /\ sd'[f].seen = node[sd[f].node].data

\* A notification does not change what a descriptor has seen.
LEMMA NotifySeen ==
    ASSUME TypeOK, NEW n \in Nodes, poll_notify(n), NEW f \in Fds
    PROVE  Seen(f)
BY NotifyType, ReportedType DEF Seen

\* A subscriber only moves a descriptor to what its node holds now.
LEMMA SubscriberSeen ==
    ASSUME TypeOK, Placed, Unwritten, NEW s \in Subscribers, NEW f \in Fds,
           Calls(s) \/ Subscribing(s) \/ PollStep(s)
    PROVE  Seen(f)
<1>0. sd \in [Fds -> SdRecords]
  BY DEF TypeOK
<1>1. ASSUME NEW k \in DOMAIN Wants[s], Subscribe(s, k)  PROVE Seen(f)
  <2>1. <<s, k>> \in Fds /\ Wants[s][k] \in Nodes
    BY DescriptorType
  <2>2. UNCHANGED sd \/ sd' = [sd EXCEPT ![<<s, k>>] = Opened(Wants[s][k])]
    BY <1>1 DEF Subscribe
  <2>3. /\ Opened(Wants[s][k]).node = Wants[s][k]
        /\ Opened(Wants[s][k]).generation = node[Wants[s][k]].generation
        /\ Opened(Wants[s][k]).seen = node[Wants[s][k]].generation
    BY <2>1, OpenedType
  <2>4. QED
    BY <1>0, <2>1, <2>2, <2>3 DEF Seen
<1>2. ASSUME NEW k \in DOMAIN Wants[s], SetInterval(s, k) \/ Unsubscribe(s, k)  PROVE Seen(f)
  <2>1. PICK g \in Fds : sd' = [sd EXCEPT ![g].interval = TRUE] \/ sd' = [sd EXCEPT ![g] = NoSd]
    BY <1>2, DescriptorType DEF SetInterval, Unsubscribe
  <2>2. CASE sd' = [sd EXCEPT ![g].interval = TRUE]
    BY <1>0, <2>2 DEF Seen, SdRecords
  <2>3. CASE sd' = [sd EXCEPT ![g] = NoSd]
    BY <1>0, <2>3 DEF Seen, NoSd
  <2>4. QED
    BY <2>1, <2>2, <2>3
<1>3. ASSUME NEW k \in DOMAIN Wants[s], Copy(s, k)  PROVE Seen(f)
  <2> DEFINE g == <<s, k>>
  <2>1. g \in Fds /\ IsOpen(g) /\ sd' = [sd EXCEPT ![g] = Copied(g)]
    BY <1>3, DescriptorType DEF Copy
  <2>2. /\ Copied(g).node = sd[g].node /\ sd[g].node \in Nodes
        /\ node[sd[g].node].data = Null => Copied(g) = sd[g]
        /\ node[sd[g].node].data # Null =>
                /\ Copied(g).generation = node[sd[g].node].generation
                /\ Copied(g).seen = node[sd[g].node].data
    BY <1>0, <2>1, CopiedType DEF IsOpen, SdRecords
  <2> HIDE DEF g
  <2>3. QED
    BY <1>0, <2>1, <2>2 DEF Seen
<1>4. ASSUME NEW g \in Fds, UNCHANGED sd \/ sd' = [sd EXCEPT ![g] = Reported(g)]  PROVE Seen(f)
  BY <1>0, <1>4, ReportedType DEF Seen
<1>5. ASSUME NEW k \in DOMAIN Wants[s], Check(s, k)  PROVE Seen(f)
  BY <1>4, <1>5, DescriptorType DEF Check
<1>6. CASE ReopenSubscriber(s)
  <2>1. /\ sub[s].node \in Nodes /\ <<s, sub[s].k>> \in Fds
        /\ sd' = [sd EXCEPT ![<<s, sub[s].k>>] = Opened(sub[s].node)]
    BY <1>6, DescriptorType DEF ReopenSubscriber, Placed
  <2>2. /\ Opened(sub[s].node).node = sub[s].node
        /\ Opened(sub[s].node).generation = node[sub[s].node].generation
        /\ Opened(sub[s].node).seen = node[sub[s].node].generation
    BY <2>1, OpenedType
  <2>3. QED
    BY <1>0, <2>1, <2>2 DEF Seen
<1>7. CASE Setup(s)
  <2>1. SetsUp(s)
    BY <1>7, SetupEffect
  <2>2. QED
    BY <1>4, <2>1 DEF SetsUp
<1>8. CASE Teardown(s)
  BY <1>8, TeardownEffect DEF TearsDown, Seen
<1>9. CASE \/ Poll(s) \/ AdvertiseForSubscriber(s) \/ SkipInvalid(s) \/ SetupDone(s) \/ WakeUp(s)
           \/ Timeout(s) \/ SkipTeardown(s) \/ TeardownDone(s)
  BY <1>9 DEF Poll, AdvertiseForSubscriber, SkipInvalid, SetupDone, WakeUp, Timeout, SkipTeardown,
              TeardownDone, Seen
<1>10. QED
  BY <1>1, <1>2, <1>3, <1>5, <1>6, <1>7, <1>8, <1>9 DEF Calls, Subscribing, PollStep

\* The timer does not change what a descriptor has seen.
LEMMA TimerSeen ==
    ASSUME TypeOK, Timer, NEW f \in Fds
    PROVE  Seen(f)
<1>1. CASE UpdateDeferred
  <2>1. hrt \in Nodes /\ poll_notify(hrt)
    BY <1>1 DEF UpdateDeferred, TypeOK
  <2>2. QED
    BY <2>1, NotifySeen
<1>2. ASSUME NEW g \in Fds, Expire(g)  PROVE Seen(f)
  BY <1>2 DEF Expire, TypeOK, SdRecords, Seen
<1>3. QED
  BY <1>1, <1>2 DEF Timer

\* Publishing changes no descriptor but by its notification
LEMMA AdvertiserSeen ==
    ASSUME TypeOK, Placed, NEW a \in Advertisers, NEW f \in Fds,
           Advertise(a) \/ Begin(a) \/ Write(a)
    PROVE  /\ sd'[f].node = sd[f].node /\ sd'[f].generation = sd[f].generation
           /\ sd'[f].seen = sd[f].seen
<1>1. CASE Notify(a)
  <2>1. adv[a].node \in Nodes /\ poll_notify(adv[a].node)
    BY <1>1 DEF Notify, Placed, HasNode
  <2>2. QED
    BY <2>1, NotifyType, ReportedType
<1>2. CASE UNCHANGED sd
  BY <1>2
<1>3. QED
  BY <1>1, <1>2 DEF Advertise, Begin, Write, OpenAdvertiser, CloseAgain, NodeAdvertise,
     ReopenAdvertiser, CloseAdvertiser, Allocate, CopyIn, Load, Store, Flag

-----------------------------------------------------------------------------
\* Where an advertiser is among the writers of its node
Holding == {"close", "alloc", "copy", "load", "store", "notify", "flag", "ready"}

\* The steps that neither write nor count a message
LEMMA AdvertiserFrame ==
    ASSUME TypeOK, Placed, NEW a \in Advertisers,
           Advertise(a) \/ Begin(a) \/ Notify(a) \/ Flag(a)
    PROVE  /\ \A b \in Advertisers : b # a => adv'[b] = adv[b]
           /\ \A n \in Nodes : /\ node'[n].data = node[n].data
                               /\ node'[n].generation = node[n].generation
           /\ adv[a].at \notin {"load", "store"} /\ adv'[a].at \notin {"copy", "load", "store"}
           /\ adv[a].at \in Holding => adv'[a].at \in Holding /\ adv'[a].node = adv[a].node
           /\ adv'[a].at \in Written => adv[a].at \in Written /\ adv'[a].node = adv[a].node
<1> USE NodesAreNumbers DEF TypeOK, Placed, HasNode, Holding, Written
<1>1. CASE OpenAdvertiser(a)
  <2>1. \A n \in Nodes : /\ node'[n].data = node[n].data
                        /\ node'[n].generation = node[n].generation
    BY <1>1 DEF OpenAdvertiser, NodeRecords
  <2>2. adv[a].at = "new" /\ adv'[a].at \in {"reclose", "close", "advertise"}
    BY <1>1 DEF OpenAdvertiser, AdvRecords
  <2>3. \A b \in Advertisers : b # a => adv'[b] = adv[b]
    BY <1>1 DEF OpenAdvertiser
  <2>4. QED
    BY <2>1, <2>2, <2>3
<1>2. CASE CloseAgain(a)
  BY <1>2 DEF CloseAgain, NodeRecords, AdvRecords
<1>3. CASE NodeAdvertise(a)
  <2>1. PICK n \in Nodes \cup {NoNode} :
          IF n = NoNode
          THEN adv' = [adv EXCEPT ![a].at = "new"] /\ UNCHANGED node
          ELSE /\ node' = [node EXCEPT ![n].exists = TRUE]
               /\ adv' = [adv EXCEPT ![a].at = "reopen", ![a].node = n]
    BY <1>3 DEF NodeAdvertise
  <2>2. \A m \in Nodes : /\ node'[m].data = node[m].data
                        /\ node'[m].generation = node[m].generation
    BY <2>1 DEF NodeRecords
  <2>3. adv[a].at = "advertise" /\ adv'[a].at \in {"new", "reopen"}
    BY <1>3, <2>1 DEF NodeAdvertise, AdvRecords
  <2>4. \A b \in Advertisers : b # a => adv'[b] = adv[b]
    BY <2>1
  <2>5. QED
    BY <2>2, <2>3, <2>4
<1>4. CASE ReopenAdvertiser(a)
  <2>1. \/ UNCHANGED node
        \/ node' = [node EXCEPT ![adv[a].node].publisher = {a}] /\ adv[a].node \in Nodes
    BY <1>4 DEF ReopenAdvertiser
  <2>2. \A n \in Nodes : /\ node'[n].data = node[n].data
                        /\ node'[n].generation = node[n].generation
    BY <2>1 DEF NodeRecords
  <2>3. QED
    BY <1>4, <2>2 DEF ReopenAdvertiser, AdvRecords
<1>5. CASE CloseAdvertiser(a)
  BY <1>5 DEF CloseAdvertiser, NodeRecords, AdvRecords
<1>6. CASE Begin(a)
  BY <1>6 DEF Begin, AdvRecords
<1>7. CASE Notify(a)
  BY <1>7 DEF Notify, AdvRecords
<1>8. CASE Flag(a)
  BY <1>8 DEF Flag, NodeRecords, AdvRecords
<1>9. QED
  BY <1>1, <1>2, <1>3, <1>4, <1>5, <1>6, <1>7, <1>8 DEF Advertise

\* The others, with the node they are about
Wrote(a) ==
    LET n == adv[a].node IN
    /\ n \in Nodes /\ adv'[a].node = n /\ adv[a].at \in Holding /\ adv'[a].at \in Written
    /\ \A b \in Advertisers : b # a => adv'[b] = adv[b]
    /\ \A m \in Nodes : m # n => /\ node'[m].data = node[m].data
                                 /\ node'[m].generation = node[m].generation
    /\ \/ /\ adv[a].at = "alloc" /\ adv'[a].at = "copy"
          /\ node'[n].data = IF node[n].data = Null THEN 0 ELSE node[n].data
          /\ node'[n].generation = node[n].generation
       \/ /\ adv[a].at = "copy" /\ adv'[a].at = "load"
          /\ node'[n].data = node[n].data + 1 /\ node'[n].generation = node[n].generation
       \/ /\ adv[a].at = "load" /\ adv'[a].at = "store"
          /\ adv'[a].generation = node[n].generation
          /\ node'[n].data = node[n].data /\ node'[n].generation = node[n].generation
       \/ /\ adv[a].at = "store" /\ adv'[a].at = "notify"
          /\ node'[n].data = node[n].data /\ node'[n].generation = adv[a].generation + 1

\* What the steps inside a write do to the node, the message and its count.
LEMMA WriteEffect ==
    ASSUME TypeOK, Placed, NEW a \in Advertisers, Allocate(a) \/ CopyIn(a) \/ Load(a) \/ Store(a)
    PROVE  Wrote(a)
<1>1. adv[a].node \in Nodes
  BY DEF Placed, HasNode, Allocate, CopyIn, Load, Store
<1> USE DEF TypeOK, Wrote, Holding, Written
<1>2. CASE Allocate(a)
  BY <1>1, <1>2 DEF Allocate, NodeRecords, AdvRecords, Garbage
<1>3. CASE CopyIn(a)
  BY <1>1, <1>3 DEF CopyIn, NodeRecords, AdvRecords
<1>4. CASE Load(a)
  BY <1>1, <1>4 DEF Load, NodeRecords, AdvRecords
<1>5. CASE Store(a)
  BY <1>1, <1>5 DEF Store, NodeRecords, AdvRecords
<1>6. QED
  BY <1>2, <1>3, <1>4, <1>5

\* A node without data stays uncounted until its first message.
LEMMA UnwrittenStep ==
    ASSUME TypeOK, Placed, Unwritten, [Next]_vars
    PROVE  Unwritten'
<1>0. \A n \in Nodes : node[n].data \in Int
  BY DEF TypeOK, NodeRecords
<1>1. CASE UNCHANGED vars
  BY <1>1 DEF vars, Unwritten
<1>2. ASSUME NEW a \in Advertisers, Advertise(a) \/ Begin(a) \/ Notify(a) \/ Flag(a)
      PROVE  Unwritten'
  <2>1. \A f \in Fds : sd'[f].node = sd[f].node /\ sd'[f].generation = sd[f].generation
    BY <1>2, AdvertiserSeen DEF Write
  <2>2. QED
    BY <1>2, <2>1, AdvertiserFrame DEF Unwritten
<1>3. ASSUME NEW a \in Advertisers, Allocate(a) \/ CopyIn(a) \/ Load(a) \/ Store(a)
      PROVE  Unwritten'
  <2>1. \A f \in Fds : sd'[f].node = sd[f].node /\ sd'[f].generation = sd[f].generation
    BY <1>3, AdvertiserSeen DEF Write
  <2>2. Wrote(a)
    BY <1>3, WriteEffect
  <2>3. adv[a].at \in Written => node[adv[a].node].data # Null
    BY <2>2 DEF Wrote, Unwritten
  <2>4. QED
    BY <1>0, <2>1, <2>2, <2>3 DEF Wrote, Unwritten, Written, Null
<1>4. ASSUME NEW s \in Subscribers, Calls(s) \/ Subscribing(s) \/ PollStep(s)
      PROVE  Unwritten'
  <2>1. \A f \in Fds : Seen(f)
    BY <1>4, SubscriberSeen
  <2>2. /\ UNCHANGED adv
        /\ \A n \in Nodes : node'[n].data = node[n].data /\ node'[n].generation = node[n].generation
    BY <1>4, SubscriberFrame
  <2>3. ASSUME NEW n \in Nodes, node[n].data = Null, NEW f \in Fds, sd'[f].node = n
        PROVE  sd'[f].generation = 0
    BY <2>1, <2>3, NodesAreNumbers DEF Unwritten, Seen
  <2>4. QED
    BY <2>2, <2>3 DEF Unwritten
<1>5. CASE Timer
  <2>1. \A f \in Fds : Seen(f)
    BY <1>5, TimerSeen
  <2>2. QED
    BY <1>5, <2>1, TimerFrame, NodesAreNumbers DEF Unwritten, Seen
<1>6. QED
  BY <1>1, <1>2, <1>3, <1>4, <1>5 DEF Next, Write

-----------------------------------------------------------------------------
\* Counting

\* Nobody stops to write a node
LEMMA WritersStay ==
    ASSUME TypeOK, Placed, [Next]_vars, NEW n \in Nodes
    PROVE  Writers(n) \subseteq Writers(n)' /\ (Alone(n)' => Alone(n))
<1>1. \A a \in Advertisers :
        adv[a].at \in Holding => adv'[a].at \in Holding /\ adv'[a].node = adv[a].node
  <2>1. ASSUME NEW a \in Advertisers, Advertise(a) \/ Begin(a) \/ Notify(a) \/ Flag(a)
        PROVE  \A b \in Advertisers :
                 adv[b].at \in Holding => adv'[b].at \in Holding /\ adv'[b].node = adv[b].node
    BY <2>1, AdvertiserFrame
  <2>2. ASSUME NEW a \in Advertisers, Allocate(a) \/ CopyIn(a) \/ Load(a) \/ Store(a)
        PROVE  \A b \in Advertisers :
                 adv[b].at \in Holding => adv'[b].at \in Holding /\ adv'[b].node = adv[b].node
    BY <2>2, WriteEffect DEF Wrote, Holding, Written
  <2>3. CASE UNCHANGED adv
    BY <2>3
  <2>4. QED
    BY <2>1, <2>2, <2>3, SubscriberFrame, TimerFrame DEF Next, Write, vars
<1>2. QED
  BY <1>1 DEF Writers, Alone, Holding

\* A lone writer is the only one between its load and its store.
LEMMA AloneWriter ==
    ASSUME NEW a \in Advertisers, adv[a].node \in Nodes, adv[a].at \in Holding, Alone(adv[a].node)
    PROVE  /\ \A b \in Advertisers :
                adv[b].node = adv[a].node /\ adv[b].at \in Holding => b = a
           /\ Quiet(adv[a].node) <=> adv[a].at \notin {"load", "store"}
BY DEF Alone, Writers, Quiet, Holding

\* A node whose numbers and writers stay, with descriptors that may be read from
LEMMA CountsFrame ==
    ASSUME TypeOK, Unwritten, NEW n \in Nodes, Counts(n),
           node'[n].data = node[n].data, node'[n].generation = node[n].generation,
           Quiet(n)' <=> Quiet(n),
           \A a \in Advertisers : adv'[a].at = "store" /\ adv'[a].node = n =>
               adv[a].at = "store" /\ adv[a].node = n /\ adv'[a].generation = adv[a].generation,
           \A f \in Fds : Seen(f)
    PROVE  Counts(n)'
<1>1. /\ node[n].data \in Int /\ node[n].generation \in Nat /\ node[n].data >= -1
      /\ node[n].data = -1 => node[n].generation = 0
  BY DEF TypeOK, NodeRecords, Unwritten, Null
<1>2. ASSUME NEW f \in Fds, sd'[f].node = n
      PROVE  sd'[f].generation <= node[n].generation /\ sd'[f].seen >= sd'[f].generation
  <2>1. sd[f] \in SdRecords /\ n # NoNode /\ Seen(f)
    BY NodesAreNumbers DEF TypeOK
  <2>2. CASE /\ sd'[f].node = sd[f].node /\ sd'[f].generation = sd[f].generation
             /\ sd'[f].seen = sd[f].seen
    BY <1>2, <2>2 DEF Counts
  <2>3. CASE sd'[f].generation = node[n].generation /\ sd'[f].seen = node[n].generation
    BY <1>1, <2>3
  <2>4. CASE /\ node[n].data # Null /\ sd'[f].generation = node[n].generation
             /\ sd'[f].seen = node[n].data
    <3>1. node[n].data >= 0
      BY <1>1, <2>4 DEF Null
    <3>2. node[n].data >= node[n].generation
      BY <1>1, <3>1 DEF Counts
    <3>3. QED
      BY <1>1, <2>4, <3>2
  <2>5. QED
    BY <1>2, <2>1, <2>2, <2>3, <2>4 DEF Seen
<1>3. QED
  BY <1>2 DEF Counts

\* A write of an advertiser that is alone, seen from its node
LEMMA CountsWrite ==
    ASSUME TypeOK, Placed, Unwritten, NEW a \in Advertisers, Wrote(a),
           NEW n \in Nodes, n = adv[a].node, Alone(n), Counts(n),
           \A f \in Fds : /\ sd'[f].node = sd[f].node /\ sd'[f].generation = sd[f].generation
                          /\ sd'[f].seen = sd[f].seen
    PROVE  Counts(n)'
<1>1. /\ adv'[a].node = n /\ adv[a].at \in Holding /\ adv'[a].at \in Holding
      /\ \A b \in Advertisers : b # a => adv'[b] = adv[b]
  BY DEF Wrote, Holding, Written
<1>2. /\ Quiet(n) <=> adv[a].at \notin {"load", "store"}
      /\ \A b \in Advertisers : adv[b].node = n /\ adv[b].at \in Holding => b = a
  BY <1>1, AloneWriter
<1>3. Quiet(n)' <=> adv'[a].at \notin {"load", "store"}
  BY <1>1, <1>2 DEF Quiet, Writers, Holding
<1>4. /\ node[n].data \in Int /\ node[n].generation \in Nat /\ node[n].data >= -1
      /\ node[n].data = -1 => node[n].generation = 0
      /\ adv[a].at \in Written => node[n].data >= 0
      /\ \A f \in Fds : sd[f].generation \in Nat
  BY <1>1 DEF TypeOK, NodeRecords, SdRecords, Unwritten, Null
<1>5. \A b \in Advertisers : adv'[b].at = "store" /\ adv'[b].node = n => b = a
  BY <1>1, <1>2 DEF Holding
<1>6. \A f \in Fds : sd'[f].node = n =>
        /\ sd'[f].generation \in Nat /\ sd'[f].generation <= node[n].generation
        /\ sd'[f].seen >= sd'[f].generation
  BY <1>4 DEF Counts
<1>7. CASE /\ adv[a].at = "alloc" /\ adv'[a].at = "copy"
           /\ node'[n].data = IF node[n].data = Null THEN 0 ELSE node[n].data
           /\ node'[n].generation = node[n].generation
  BY <1>2, <1>3, <1>4, <1>5, <1>6, <1>7 DEF Counts, Null
<1>8. CASE /\ adv[a].at = "copy" /\ adv'[a].at = "load"
           /\ node'[n].data = node[n].data + 1 /\ node'[n].generation = node[n].generation
  BY <1>2, <1>3, <1>4, <1>5, <1>6, <1>8 DEF Counts, Written
<1>9. CASE /\ adv[a].at = "load" /\ adv'[a].at = "store"
           /\ adv'[a].generation = node[n].generation
           /\ node'[n].data = node[n].data /\ node'[n].generation = node[n].generation
  BY <1>2, <1>3, <1>4, <1>5, <1>6, <1>9 DEF Counts
<1>10. CASE /\ adv[a].at = "store" /\ adv'[a].at = "notify"
            /\ node'[n].data = node[n].data /\ node'[n].generation = adv[a].generation + 1
  BY <1>1, <1>2, <1>3, <1>4, <1>5, <1>6, <1>10 DEF Counts
<1>11. QED
  BY <1>7, <1>8, <1>9, <1>10 DEF Wrote

\* While a node has one writer at a time, its generation counts its messages.
LEMMA CountedStep ==
    ASSUME TypeOK, Placed, Unwritten, Counted, [Next]_vars
    PROVE  Counted'
<1> SUFFICES ASSUME NEW n \in Nodes, Alone(n)'  PROVE Counts(n)'
  BY DEF Counted
<1>1. Alone(n) /\ Counts(n)
  BY WritersStay DEF Counted
<1>2. CASE UNCHANGED vars
  <2>1. \A f \in Fds : Seen(f)
    BY <1>2 DEF Seen, vars
  <2>2. QED
    BY <1>1, <1>2, <2>1, CountsFrame DEF vars, Quiet, Writers
<1>3. ASSUME NEW a \in Advertisers, Advertise(a) \/ Begin(a) \/ Notify(a) \/ Flag(a)
      PROVE  Counts(n)'
  <2>1. \A f \in Fds : Seen(f)
    BY <1>3, AdvertiserSeen DEF Seen, Write
  <2>2. /\ \A b \in Advertisers : b # a => adv'[b] = adv[b]
        /\ node'[n].data = node[n].data /\ node'[n].generation = node[n].generation
        /\ adv[a].at \notin {"load", "store"} /\ adv'[a].at \notin {"copy", "load", "store"}
    BY <1>3, AdvertiserFrame
  <2>3. Quiet(n)' <=> Quiet(n)
    BY <2>2 DEF Quiet, Writers
  <2>4. QED
    BY <1>1, <2>1, <2>2, <2>3, CountsFrame
<1>4. ASSUME NEW a \in Advertisers, Allocate(a) \/ CopyIn(a) \/ Load(a) \/ Store(a)
      PROVE  Counts(n)'
  <2>1. \A f \in Fds : /\ sd'[f].node = sd[f].node /\ sd'[f].generation = sd[f].generation
                       /\ sd'[f].seen = sd[f].seen
    BY <1>4, AdvertiserSeen DEF Write
  <2>2. Wrote(a)
    BY <1>4, WriteEffect
  <2>3. CASE n = adv[a].node
    BY <1>1, <2>1, <2>2, <2>3, CountsWrite
  <2>4. CASE n # adv[a].node
    <3>1. /\ \A b \in Advertisers : b # a => adv'[b] = adv[b]
          /\ adv'[a].node # n
          /\ node'[n].data = node[n].data /\ node'[n].generation = node[n].generation
      BY <2>2, <2>4 DEF Wrote
    <3>2. Quiet(n)' <=> Quiet(n)
      BY <2>4, <3>1 DEF Quiet, Writers
    <3>3. \A f \in Fds : Seen(f)
      BY <2>1 DEF Seen
    <3>4. QED
      BY <1>1, <3>1, <3>2, <3>3, CountsFrame
  <2>5. QED
    BY <2>3, <2>4
<1>5. ASSUME NEW s \in Subscribers, Calls(s) \/ Subscribing(s) \/ PollStep(s)
      PROVE  Counts(n)'
  <2>1. \A f \in Fds : Seen(f)
    BY <1>5, SubscriberSeen
  <2>2. UNCHANGED adv /\ node'[n].data = node[n].data /\ node'[n].generation = node[n].generation
    BY <1>5, SubscriberFrame
  <2>3. QED
    BY <1>1, <2>1, <2>2, CountsFrame DEF Quiet, Writers
<1>6. CASE Timer
  <2>1. \A f \in Fds : Seen(f)
    BY <1>6, TimerSeen
  <2>2. UNCHANGED <<node, adv>>
    BY <1>6, TimerFrame
  <2>3. QED
    BY <1>1, <2>1, <2>2, CountsFrame DEF Quiet, Writers
<1>7. QED
  BY <1>2, <1>3, <1>4, <1>5, <1>6 DEF Next, Write

-----------------------------------------------------------------------------
\* The descriptors that are set up

\* A descriptor belongs to one subscriber.
LEMMA DescriptorPair ==
    ASSUME NEW f \in Fds
    PROVE  f[1] \in Subscribers /\ \E k \in DOMAIN Wants[f[1]] : f = <<f[1], k>>
BY DEF Fds

\* The table keeps what it says of a subscriber
SameLists(s) ==
    \A k \in DOMAIN Wants[s] :
        /\ \A n \in Nodes : <<s, k>> \in node'[n].waiters <=> <<s, k>> \in node[n].waiters
        /\ sd'[<<s, k>>].node = sd[<<s, k>>].node

\* With the same table the same descriptors are listed and open.
LEMMA SameListed ==
    ASSUME NEW s \in Subscribers, SameLists(s)
    PROVE  \A k \in DOMAIN Wants[s] : /\ Listed(<<s, k>>)' <=> Listed(<<s, k>>)
                                      /\ IsOpen(<<s, k>>)' <=> IsOpen(<<s, k>>)
BY DEF SameLists, Listed, IsOpen

\* A subscriber that did not move, with the same table, is listed as before.
LEMMA ListsFrame ==
    ASSUME NEW s \in Subscribers, Lists(s), SameLists(s),
           sub'[s].at = sub[s].at, sub'[s].k = sub[s].k
    PROVE  Lists(s)'
BY SameListed DEF Lists, SameLists

\* Advertisers and the timer leave the table alone
LEMMA AdvertiserWaiters ==
    ASSUME TypeOK, Placed, NEW a \in Advertisers, Advertise(a) \/ Begin(a) \/ Write(a)
    PROVE  \A n \in Nodes : node'[n].waiters = node[n].waiters
<1> USE NodesAreNumbers
<1>1. CASE OpenAdvertiser(a)
  BY <1>1 DEF OpenAdvertiser, TypeOK, NodeRecords
<1>2. CASE CloseAgain(a)
  BY <1>2 DEF CloseAgain, TypeOK, NodeRecords
<1>3. CASE NodeAdvertise(a)
  <2>1. PICK n \in Nodes \cup {NoNode} :
          UNCHANGED node \/ node' = [node EXCEPT ![n].exists = TRUE]
    BY <1>3 DEF NodeAdvertise
  <2>2. QED
    BY <2>1 DEF TypeOK, NodeRecords
<1>4. CASE ReopenAdvertiser(a)
  <2>1. UNCHANGED node \/ node' = [node EXCEPT ![adv[a].node].publisher = {a}]
    BY <1>4 DEF ReopenAdvertiser
  <2>2. QED
    BY <2>1 DEF TypeOK, NodeRecords
<1>5. CASE CloseAdvertiser(a)
  BY <1>5 DEF CloseAdvertiser, TypeOK, NodeRecords
<1>6. CASE Allocate(a)
  BY <1>6 DEF Allocate, TypeOK, NodeRecords
<1>7. CASE CopyIn(a)
  BY <1>7 DEF CopyIn, TypeOK, NodeRecords
<1>8. CASE Store(a)
  BY <1>8 DEF Store, TypeOK, NodeRecords
<1>9. CASE Flag(a)
  BY <1>9 DEF Flag, TypeOK, NodeRecords
<1>10. CASE Begin(a) \/ Load(a) \/ Notify(a)
  BY <1>10 DEF Begin, Load, Notify
<1>11. QED
  BY <1>1, <1>2, <1>3, <1>4, <1>5, <1>6, <1>7, <1>8, <1>9, <1>10 DEF Advertise, Write

\* An advertiser does not move a subscriber through its poll.
LEMMA AdvertiserSubs ==
    ASSUME TypeOK, Placed, NEW a \in Advertisers, Advertise(a) \/ Begin(a) \/ Write(a),
           NEW s \in Subscribers
    PROVE  sub'[s].at = sub[s].at /\ sub'[s].k = sub[s].k
<1>1. CASE Notify(a)
  <2>1. adv[a].node \in Nodes /\ poll_notify(adv[a].node)
    BY <1>1 DEF Notify, Placed, HasNode
  <2>2. QED
    BY <2>1, NotifyType
<1>2. CASE UNCHANGED sub
  BY <1>2
<1>3. QED
  BY <1>1, <1>2 DEF Advertise, Begin, Write, OpenAdvertiser, CloseAgain, NodeAdvertise,
     ReopenAdvertiser, CloseAdvertiser, Allocate, CopyIn, Load, Store, Flag

\* Nor does the timer.
LEMMA TimerSubs ==
    ASSUME TypeOK, Timer, NEW s \in Subscribers
    PROVE  /\ sub'[s].at = sub[s].at /\ sub'[s].k = sub[s].k
           /\ \A f \in Fds : sd'[f].node = sd[f].node
<1>1. CASE UpdateDeferred
  <2>1. hrt \in Nodes /\ poll_notify(hrt)
    BY <1>1 DEF UpdateDeferred, TypeOK
  <2>2. QED
    BY <2>1, NotifyType, ReportedType
<1>2. ASSUME NEW g \in Fds, Expire(g)
      PROVE  UNCHANGED sub /\ \A f \in Fds : sd'[f].node = sd[f].node
  BY <1>2 DEF Expire, TypeOK, SdRecords
<1>3. QED
  BY <1>1, <1>2 DEF Timer

\* One subscriber changes nothing for another
LEMMA OtherLists ==
    ASSUME TypeOK, Placed, NEW s \in Subscribers, Calls(s) \/ Subscribing(s) \/ PollStep(s),
           NEW t \in Subscribers, t # s
    PROVE  /\ SameLists(t) /\ sub'[t] = sub[t]
           /\ \A k \in DOMAIN Wants[t] : sd'[<<t, k>>] = sd[<<t, k>>]
<1>1. CASE \/ \E k \in DOMAIN Wants[s] : \/ Subscribe(s, k) \/ SetInterval(s, k)
                                         \/ Unsubscribe(s, k) \/ Copy(s, k) \/ Check(s, k)
           \/ Poll(s) \/ ReopenSubscriber(s)
  <2>1. UNCHANGED node
    BY <1>1 DEF Subscribe, SetInterval, Unsubscribe, Copy, Check, Poll, ReopenSubscriber
  <2>2. sub'[t] = sub[t]
    BY <1>1 DEF Subscribe, SetInterval, Unsubscribe, Copy, Check, Poll, ReopenSubscriber, TypeOK
  <2>3. \A k \in DOMAIN Wants[t] : sd'[<<t, k>>] = sd[<<t, k>>]
    <3>1. ASSUME NEW k \in DOMAIN Wants[t]  PROVE sd'[<<t, k>>] = sd[<<t, k>>]
      <4>1. <<t, k>> \in Fds /\ \A j : <<s, j>> # <<t, k>>
        BY DescriptorType
      <4>2. \/ UNCHANGED sd
            \/ \E i, r : sd' = [sd EXCEPT ![<<s, i>>] = r]
        BY <1>1 DEF Subscribe, SetInterval, Unsubscribe, Copy, Check, Poll, ReopenSubscriber
      <4>3. QED
        BY <4>1, <4>2 DEF TypeOK
    <3>2. QED
      BY <3>1
  <2>4. QED
    BY <2>1, <2>2, <2>3 DEF SameLists
<1>2. CASE AdvertiseForSubscriber(s)
  <2>1. PICK n \in Nodes \cup {NoNode} :
          UNCHANGED node \/ node' = [node EXCEPT ![n].exists = TRUE]
    BY <1>2 DEF AdvertiseForSubscriber
  <2>2. \A m \in Nodes : node'[m].waiters = node[m].waiters
    BY <2>1 DEF TypeOK, NodeRecords
  <2>3. UNCHANGED sd /\ sub'[t] = sub[t]
    BY <1>2 DEF AdvertiseForSubscriber, TypeOK
  <2>4. QED
    BY <2>2, <2>3 DEF SameLists
<1>3. CASE Setup(s)
  <2> DEFINE f == <<s, sub[s].k>>
             n == sd[f].node
  <2>1. SetsUp(s)
    BY <1>3, SetupEffect
  <2>2. /\ f \in Fds /\ n \in Nodes /\ sub'[t] = sub[t]
        /\ UNCHANGED node \/ node' = [node EXCEPT ![n].waiters = node[n].waiters \cup {f}]
        /\ UNCHANGED sd \/ sd' = [sd EXCEPT ![f] = Reported(f)]
    BY <2>1 DEF SetsUp, TypeOK
  <2>3. \A k \in DOMAIN Wants[t] : f # <<t, k>>
    OBVIOUS
  <2> HIDE DEF f
  <2>4. \A k \in DOMAIN Wants[t] : sd'[<<t, k>>] = sd[<<t, k>>]
    BY <2>2, <2>3, DescriptorType DEF TypeOK
  <2>5. \A k \in DOMAIN Wants[t] : \A m \in Nodes :
          <<t, k>> \in node'[m].waiters <=> <<t, k>> \in node[m].waiters
    BY <2>2, <2>3 DEF TypeOK, NodeRecords
  <2>6. QED
    BY <2>2, <2>4, <2>5 DEF SameLists
<1>4. CASE Teardown(s)
  <2> DEFINE f == <<s, sub[s].k>>
             n == sd[f].node
  <2>1. TearsDown(s)
    BY <1>4, TeardownEffect
  <2>2. /\ n \in Nodes /\ sub'[t] = sub[t] /\ UNCHANGED sd
        /\ UNCHANGED node \/ node' = [node EXCEPT ![n].waiters = node[n].waiters \ {f}]
    BY <2>1 DEF TearsDown, TypeOK
  <2>3. \A k \in DOMAIN Wants[t] : f # <<t, k>>
    OBVIOUS
  <2> HIDE DEF f
  <2>4. QED
    BY <2>2, <2>3 DEF SameLists, TypeOK, NodeRecords
<1>5. CASE \/ SkipInvalid(s) \/ SetupDone(s) \/ WakeUp(s) \/ Timeout(s) \/ SkipTeardown(s)
           \/ TeardownDone(s)
  BY <1>5 DEF SkipInvalid, SetupDone, WakeUp, Timeout, SkipTeardown, TeardownDone, SameLists, TypeOK
<1>6. QED
  BY <1>1, <1>2, <1>3, <1>4, <1>5 DEF Calls, Subscribing, PollStep

\* A subscriber that is not in px4_poll has no place in a table
LEMMA UnlistedLists ==
    ASSUME NEW s \in Subscribers, Lists(s), sub[s].at \notin Polling,
           \A n \in Nodes : \A k \in DOMAIN Wants[s] :
               <<s, k>> \in node'[n].waiters => <<s, k>> \in node[n].waiters
    PROVE  /\ \A k \in DOMAIN Wants[s] : ~Listed(<<s, k>>) /\ ~Listed(<<s, k>>)'
           /\ sub'[s].at # "setup" => Lists(s)'
<1>1. \A k \in DOMAIN Wants[s] : ~Listed(<<s, k>>)
  BY DEF Lists
<1>2. \A k \in DOMAIN Wants[s] : ~Listed(<<s, k>>)'
  BY <1>1 DEF Listed
<1>3. \A k \in DOMAIN Wants[s] : \A n \in Nodes : <<s, k>> \notin node'[n].waiters
  BY <1>1 DEF Listed
<1>4. QED
  BY <1>1, <1>2, <1>3 DEF Lists

\* Waiting begins, or ends at once: all that could be set up is
LEMMA WaitLists ==
    ASSUME NEW s \in Subscribers, TypeOK, Lists(s), SameLists(s), sub[s].at = "setup",
           sub'[s].at \in Waiting \cup {"idle"}, sub'[s].at \in Waiting <=> Registered(s)
    PROVE  Lists(s)'
<1>1. \A k \in DOMAIN Wants[s] : k \in Nat
  BY DescriptorType
<1>2. sub[s].k \in Nat
  BY DEF TypeOK, SubRecords
<1>3. Registered(s) <=> \E k \in DOMAIN Wants[s] : Listed(<<s, k>>)
  BY DEF Registered, Listed
<1>4. \A k \in DOMAIN Wants[s] : \A j \in DOMAIN Wants[s] :
        Listed(<<s, k>>) /\ j < k /\ IsOpen(<<s, j>>) => Listed(<<s, j>>)
  BY <1>1, <1>2 DEF Lists
<1>5. \A k \in DOMAIN Wants[s] :
        /\ \A n \in Nodes : <<s, k>> \in node'[n].waiters => sd'[<<s, k>>].node = n
        /\ Listed(<<s, k>>)' <=> Listed(<<s, k>>)
        /\ IsOpen(<<s, k>>)' <=> IsOpen(<<s, k>>)
  BY SameListed DEF SameLists, Lists
<1>6. sub'[s].at \notin {"setup", "teardown"} /\ (sub'[s].at \in Polling <=> Registered(s))
  BY DEF Polling, Waiting
<1>7. QED
  BY <1>3, <1>4, <1>5, <1>6 DEF Lists

\* A subscriber that moves through its poll lists and unlists its own descriptors.
LEMMA OwnLists ==
    ASSUME TypeOK, Placed, NEW s \in Subscribers, Lists(s),
           Calls(s) \/ Subscribing(s) \/ PollStep(s)
    PROVE  Lists(s)'
<1>0. /\ \A k \in DOMAIN Wants[s] : k \in Nat \ {0} /\ <<s, k>> \in Fds
      /\ sub[s] \in SubRecords /\ sub[s].k \in Nat
      /\ sub[s].at \in {"setup", "teardown"} => sub[s].k >= 1
  BY DescriptorType DEF TypeOK, Placed, SubRecords
<1>1. ASSUME UNCHANGED node, sub[s].at \notin Polling, sub'[s].at # "setup"  PROVE Lists(s)'
  BY <1>1, UnlistedLists
<1>2. CASE Poll(s)
  <2>1. sub[s].at \notin Polling /\ UNCHANGED node /\ sub'[s].at = "setup" /\ sub'[s].k = 1
    BY <1>2 DEF Poll, Idle, Polling, Waiting, TypeOK, SubRecords
  <2>2. \A k \in DOMAIN Wants[s] : ~Listed(<<s, k>>) /\ ~Listed(<<s, k>>)'
    BY <2>1, UnlistedLists
  <2>3. \A k \in DOMAIN Wants[s] : \A n \in Nodes : <<s, k>> \notin node'[n].waiters
    BY <2>2 DEF Listed
  <2>4. QED
    BY <1>0, <2>1, <2>2, <2>3 DEF Lists, Waiting
<1>3. ASSUME NEW k \in DOMAIN Wants[s],
             Subscribe(s, k) \/ SetInterval(s, k) \/ Unsubscribe(s, k) \/ Copy(s, k) \/ Check(s, k)
      PROVE  Lists(s)'
  <2>1. sub[s].at \in {"idle", "collect"} /\ UNCHANGED node
    BY <1>3 DEF Subscribe, SetInterval, Unsubscribe, Copy, Check, Idle
  <2>2. sub'[s].at \in {"idle", "collect", "advertise"}
    BY <1>0, <1>3, <2>1 DEF Subscribe, SetInterval, Unsubscribe, Copy, Check, TypeOK, SubRecords
  <2>3. QED
    BY <1>1, <2>1, <2>2 DEF Polling, Waiting
<1>4. CASE AdvertiseForSubscriber(s)
  <2>1. PICK n \in Nodes \cup {NoNode} :
          UNCHANGED node \/ node' = [node EXCEPT ![n].exists = TRUE]
    BY <1>4 DEF AdvertiseForSubscriber
  <2>2. \A m \in Nodes : node'[m].waiters = node[m].waiters
    BY <2>1 DEF TypeOK, NodeRecords
  <2>3. sub[s].at \notin Polling /\ sub'[s].at \in {"idle", "reopen"}
    BY <1>4 DEF AdvertiseForSubscriber, Polling, Waiting, TypeOK, SubRecords
  <2>4. QED
    BY <2>2, <2>3, UnlistedLists
<1>5. CASE ReopenSubscriber(s)
  <2>1. sub[s].at \notin Polling /\ sub'[s].at = "idle" /\ UNCHANGED node
    BY <1>5 DEF ReopenSubscriber, Polling, Waiting, TypeOK, SubRecords
  <2>2. QED
    BY <1>1, <2>1
<1>6. ASSUME UNCHANGED <<node, sd>>  PROVE SameLists(s)
  BY <1>6 DEF SameLists
<1>7. CASE SkipInvalid(s)
  <2>1. /\ UNCHANGED <<node, sd>> /\ sub[s].at = "setup" /\ ~IsOpen(<<s, sub[s].k>>)
        /\ sub[s].k \in DOMAIN Wants[s] /\ sub'[s].at = "setup" /\ sub'[s].k = sub[s].k + 1
    BY <1>7 DEF SkipInvalid, TypeOK, SubRecords
  <2>2. QED
    BY <1>0, <1>6, <2>1, SameListed DEF Lists, SameLists, Waiting
<1>8. CASE SetupDone(s)
  <2>1. /\ UNCHANGED <<node, sd>> /\ sub[s].at = "setup"
        /\ \E w \in Waits(s, Registered(s)) : sub' = [sub EXCEPT ![s] = w]
    BY <1>8 DEF SetupDone
  <2>2. sub'[s].at \in Waiting \cup {"idle"} /\ (sub'[s].at \in Waiting <=> Registered(s))
    BY <2>1, WaitsType DEF TypeOK
  <2>3. QED
    BY <1>6, <2>1, <2>2, WaitLists
<1>9. CASE WakeUp(s) \/ Timeout(s)
  <2>1. /\ UNCHANGED <<node, sd>> /\ sub[s].at \in Waiting
        /\ sub'[s].at = "teardown" /\ sub'[s].k = 1
    BY <1>9 DEF WakeUp, Timeout, Waiting, TypeOK, SubRecords
  <2>2. sub[s].at \notin {"setup", "teardown"} /\ sub'[s].at \in Polling
    BY <2>1 DEF Waiting, Polling
  <2>3. QED
    BY <1>0, <1>6, <2>1, <2>2, SameListed DEF Lists, SameLists
<1>10. CASE SkipTeardown(s)
  <2>1. /\ UNCHANGED <<node, sd>> /\ sub[s].at = "teardown" /\ ~IsOpen(<<s, sub[s].k>>)
        /\ sub'[s].at = "teardown" /\ sub'[s].k = sub[s].k + 1
    BY <1>10 DEF SkipTeardown, TypeOK, SubRecords
  <2>2. \A k \in DOMAIN Wants[s] : Listed(<<s, k>>) => IsOpen(<<s, k>>)
    BY NodesAreNumbers DEF Lists, Listed, IsOpen
  <2>3. QED
    BY <1>0, <1>6, <2>1, <2>2, SameListed DEF Lists, SameLists
<1>11. CASE TeardownDone(s)
  <2>1. /\ UNCHANGED <<node, sd>> /\ sub[s].at = "teardown" /\ sub[s].k \notin DOMAIN Wants[s]
        /\ sub'[s].at \in {"idle", "collect"}
    BY <1>11, ReturnsType DEF TeardownDone, TypeOK
  <2>2. \A k \in DOMAIN Wants[s] : k < sub[s].k
    <3>1. DOMAIN Wants[s] = 1 .. Len(Wants[s]) /\ Len(Wants[s]) \in Nat
      BY TopicAssumption
    <3>2. QED
      BY <1>0, <2>1, <3>1
  <2>3. \A k \in DOMAIN Wants[s] : ~Listed(<<s, k>>)
    BY <1>0, <2>1, <2>2 DEF Lists
  <2>4. QED
    BY <1>6, <2>1, <2>3, SameListed DEF Lists, SameLists, Waiting
<1>12. CASE Setup(s)
  <2> DEFINE f == <<s, sub[s].k>>
             n == sd[f].node
  <2>1. SetsUp(s)
    BY <1>12, SetupEffect
  <2>2. CASE /\ UNCHANGED <<node, sd>> /\ sub'[s].at \in Waiting \cup {"idle"}
             /\ sub'[s].at \in Waiting <=> Registered(s)
    BY <1>6, <2>1, <2>2, WaitLists DEF SetsUp
  <2>3. CASE /\ node' = [node EXCEPT ![n].waiters = @ \cup {f}]
             /\ sd' = IF appears_updated(f) THEN [sd EXCEPT ![f] = Reported(f)] ELSE sd
             /\ sub'[s].at = "setup" /\ sub'[s].k = sub[s].k + 1
    <3>1. /\ sub[s].at = "setup" /\ sub[s].k \in DOMAIN Wants[s] /\ f \in Fds /\ IsOpen(f)
          /\ n \in Nodes
      BY <2>1 DEF SetsUp
    <3>2. \A k \in DOMAIN Wants[s] : sd'[<<s, k>>].node = sd[<<s, k>>].node
      BY <1>0, <2>3, <3>1, ReportedType DEF TypeOK
    <3>3. \A k \in DOMAIN Wants[s] : \A m \in Nodes :
            <<s, k>> \in node'[m].waiters <=>
                <<s, k>> \in node[m].waiters \/ (k = sub[s].k /\ m = n)
      <4>1. \A m \in Nodes : node'[m].waiters = IF m = n THEN node[m].waiters \cup {f}
                                                        ELSE node[m].waiters
        BY <2>3, <3>1 DEF TypeOK, NodeRecords
      <4>2. \A k \in DOMAIN Wants[s] : <<s, k>> = f <=> k = sub[s].k
        OBVIOUS
      <4> HIDE DEF f, n
      <4>3. QED
        BY <4>1, <4>2
    <3>4. \A k \in DOMAIN Wants[s] :
            /\ Listed(<<s, k>>)' <=> Listed(<<s, k>>) \/ k = sub[s].k
            /\ IsOpen(<<s, k>>)' <=> IsOpen(<<s, k>>)
      BY <3>1, <3>2, <3>3 DEF Listed, IsOpen
    <3>5. QED
      <4>1. sub'[s].at = "setup" /\ "setup" \in Polling /\ "setup" \notin Waiting
        BY <2>3 DEF Waiting, Polling
      <4>2. \A k \in DOMAIN Wants[s] : \A m \in Nodes :
              <<s, k>> \in node'[m].waiters => sd'[<<s, k>>].node = m
        BY <1>0, <3>1, <3>2, <3>3 DEF Lists
      <4>3. ASSUME NEW k \in DOMAIN Wants[s]
            PROVE  /\ Listed(<<s, k>>)' => k < sub'[s].k
                   /\ k < sub'[s].k /\ IsOpen(<<s, k>>)' => Listed(<<s, k>>)'
        <5>1. k \in Nat /\ sub[s].k \in Nat /\ sub'[s].k = sub[s].k + 1
          BY <2>3, <3>1, TopicAssumption
        <5>2. /\ Listed(<<s, k>>) => k < sub[s].k
              /\ k < sub[s].k /\ IsOpen(<<s, k>>) => Listed(<<s, k>>)
          BY <1>0, <3>1 DEF Lists
        <5>3. QED
          BY <3>4, <5>1, <5>2
      <4>4. QED
        BY <4>1, <4>2, <4>3 DEF Lists
  <2>4. QED
    BY <2>1, <2>2, <2>3 DEF SetsUp
<1>13. CASE Teardown(s)
  <2> DEFINE f == <<s, sub[s].k>>
             n == sd[f].node
  <2>1. TearsDown(s)
    BY <1>13, TeardownEffect
  <2>2. /\ sub[s].at = "teardown" /\ sub[s].k \in DOMAIN Wants[s] /\ f \in Fds /\ IsOpen(f)
        /\ n \in Nodes /\ UNCHANGED sd
    BY <2>1 DEF TearsDown
  <2>3. CASE /\ f \in node[n].waiters /\ node' = [node EXCEPT ![n].waiters = @ \ {f}]
             /\ sub'[s].at = "teardown" /\ sub'[s].k = sub[s].k + 1
    <3>1. \A k \in DOMAIN Wants[s] : \A m \in Nodes :
            <<s, k>> \in node'[m].waiters <=>
                <<s, k>> \in node[m].waiters /\ ~(k = sub[s].k /\ m = n)
      <4>1. \A m \in Nodes : node'[m].waiters = IF m = n THEN node[m].waiters \ {f}
                                                        ELSE node[m].waiters
        BY <2>2, <2>3 DEF TypeOK, NodeRecords
      <4>2. \A k \in DOMAIN Wants[s] : <<s, k>> = f <=> k = sub[s].k
        OBVIOUS
      <4> HIDE DEF f, n
      <4>3. QED
        BY <4>1, <4>2
    <3>2. \A k \in DOMAIN Wants[s] :
            /\ Listed(<<s, k>>)' <=> Listed(<<s, k>>) /\ k # sub[s].k
            /\ IsOpen(<<s, k>>)' <=> IsOpen(<<s, k>>)
      BY <2>2, <3>1 DEF Listed, IsOpen, Lists
    <3>3. QED
      <4>1. sub'[s].at = "teardown" /\ "teardown" \in Polling /\ "teardown" \notin Waiting
        BY <2>3 DEF Waiting, Polling
      <4>2. \A k \in DOMAIN Wants[s] : \A m \in Nodes :
              <<s, k>> \in node'[m].waiters => sd'[<<s, k>>].node = m
        BY <1>0, <2>2, <3>1 DEF Lists
      <4>3. ASSUME NEW k \in DOMAIN Wants[s], Listed(<<s, k>>)'
            PROVE  k >= sub'[s].k
        <5>1. k \in Nat /\ sub[s].k \in Nat /\ sub'[s].k = sub[s].k + 1
          BY <2>2, <2>3, TopicAssumption
        <5>2. Listed(<<s, k>>) /\ k # sub[s].k
          BY <3>2, <4>3
        <5>3. k >= sub[s].k
          BY <1>0, <2>2, <5>2 DEF Lists
        <5>4. QED
          BY <5>1, <5>2, <5>3
      <4>4. ASSUME NEW k \in DOMAIN Wants[s], NEW j \in DOMAIN Wants[s], Listed(<<s, k>>)',
                   j < k, IsOpen(<<s, j>>)', j >= sub'[s].k
            PROVE  Listed(<<s, j>>)'
        <5>1. j \in Nat /\ sub[s].k \in Nat /\ sub'[s].k = sub[s].k + 1
          BY <2>2, <2>3, TopicAssumption
        <5>2. j # sub[s].k /\ j >= sub[s].k
          BY <4>4, <5>1
        <5>3. Listed(<<s, k>>) /\ IsOpen(<<s, j>>)
          BY <3>2, <4>4
        <5>4. Listed(<<s, j>>)
          BY <1>0, <2>2, <4>4, <5>2, <5>3 DEF Lists
        <5>5. QED
          BY <3>2, <5>2, <5>4
      <4>5. QED
        BY <4>1, <4>2, <4>3, <4>4 DEF Lists
  <2>4. CASE f \notin node[n].waiters /\ UNCHANGED node /\ sub'[s].at \in {"idle", "collect"}
    <3>1. ~Listed(f)
      BY <2>2, <2>4 DEF Listed, Lists
    <3>2. \A k \in DOMAIN Wants[s] : ~Listed(<<s, k>>)
      BY <1>0, <2>2, <3>1 DEF Lists
    <3>3. QED
      BY <1>6, <2>2, <2>4, <3>2, SameListed DEF Lists, SameLists, Waiting
  <2>5. QED
    BY <2>1, <2>3, <2>4 DEF TearsDown
<1>14. QED
  BY <1>2, <1>3, <1>4, <1>5, <1>7, <1>8, <1>9, <1>10, <1>11, <1>12, <1>13
     DEF Calls, Subscribing, PollStep

\* Every step keeps the table of waiters in step with the polls.
LEMMA ListingStep ==
    ASSUME TypeOK, Placed, Listing, [Next]_vars
    PROVE  Listing'
<1> SUFFICES ASSUME NEW s \in Subscribers  PROVE Lists(s)'
  BY DEF Listing
<1>0. Lists(s) /\ \A k \in DOMAIN Wants[s] : <<s, k>> \in Fds
  BY DescriptorType DEF Listing
<1>1. CASE UNCHANGED vars
  BY <1>0, <1>1, ListsFrame DEF vars, SameLists
<1>2. ASSUME NEW a \in Advertisers, Advertise(a) \/ Begin(a) \/ Write(a)
      PROVE  Lists(s)'
  <2>1. SameLists(s)
    BY <1>0, <1>2, AdvertiserWaiters, AdvertiserSeen DEF SameLists
  <2>2. QED
    BY <1>0, <1>2, <2>1, AdvertiserSubs, ListsFrame
<1>3. ASSUME NEW t \in Subscribers, Calls(t) \/ Subscribing(t) \/ PollStep(t)
      PROVE  Lists(s)'
  BY <1>0, <1>3, OwnLists, OtherLists, ListsFrame
<1>4. CASE Timer
  <2>1. SameLists(s)
    BY <1>0, <1>4, TimerFrame, TimerSubs DEF SameLists
  <2>2. QED
    BY <1>0, <1>4, <2>1, TimerSubs, ListsFrame
<1>5. QED
  BY <1>1, <1>2, <1>3, <1>4 DEF Next

-----------------------------------------------------------------------------
\* Sleepers

\* A listed descriptor is open on the node that lists it.
LEMMA ListedNode ==
    ASSUME Listing, NEW f \in Fds, Listed(f)
    PROVE  /\ sd[f].node \in Nodes /\ f \in node[sd[f].node].waiters
           /\ sub[f[1]].at \in Polling
BY DescriptorPair DEF Listing, Lists, Listed

\* A step that takes no post away, and brings no news, leaves nobody untold.
LEMMA HeardFrame ==
    ASSUME TypeOK, TypeOK', NEW f \in Fds, HeardBy(f), sd'[f] = sd[f],
           sub'[f[1]].at \in Waiting \cup {"setup"} => sub[f[1]].at \in Waiting \cup {"setup"},
           sub'[f[1]].sem >= sub[f[1]].sem,
           Listed(f)' /\ Newer(f)' => Listed(f) /\ (Newer(f) \/ Notifying(sd[f].node)'),
           Notifying(sd[f].node) => Notifying(sd[f].node)',
           hrt = sd[f].node => hrt' = sd[f].node
    PROVE  HeardBy(f)'
<1>1. sub[f[1]].sem \in Nat /\ sub'[f[1]].sem \in Nat
  BY DescriptorPair DEF TypeOK, SubRecords
<1>3. SUFFICES ASSUME sub'[f[1]].at \in Waiting \cup {"setup"}, Listed(f)', Newer(f)',
                      ~Notifying(sd[f].node)', hrt' # sd[f].node
               PROVE  sub'[f[1]].sem > 0 \/ (sd[f].interval /\ ~sd[f].reported /\ sd[f].timer)
  BY DEF HeardBy
<1>4. sub[f[1]].sem > 0 \/ (sd[f].interval /\ ~sd[f].reported /\ sd[f].timer)
  BY <1>3 DEF HeardBy
<1>5. QED
  BY <1>1, <1>4

\* Who is not told by a notification has a timer running
LEMMA NotifyHeard ==
    ASSUME TypeOK, TypeOK', Listing, NEW n \in Nodes, poll_notify(n), UNCHANGED node,
           NEW f \in Fds, HeardBy(f),
           \A m \in Nodes : m # n => (Notifying(m) => Notifying(m)'),
           hrt = sd[f].node => sd[f].node = n \/ hrt' = sd[f].node
    PROVE  HeardBy(f)'
<1> DEFINE s == f[1]
<1>1. PICK k \in DOMAIN Wants[s] : f = <<s, k>> /\ s \in Subscribers
  BY DescriptorPair
<1>2. /\ sub'[s].at = sub[s].at /\ sub'[s].sem >= sub[s].sem
      /\ f \in Told(n) => sub'[s].sem > 0
      /\ sd'[f] = IF f \in Told(n) THEN Reported(f) ELSE sd[f]
  BY <1>1, NotifyType
<1>3. Listed(f)' <=> Listed(f)
  BY DEF Listed
<1>4. CASE f \in Told(n)
  BY <1>1, <1>2, <1>4 DEF HeardBy
<1>5. CASE f \notin Told(n) /\ Listed(f) /\ sd[f].node = n
  <2>1. sd'[f] = sd[f] /\ f \in node[n].waiters
    BY <1>2, <1>5, ListedNode
  <2>2. Newer(f)' => Newer(f)
    BY <2>1 DEF Newer
  <2>3. Newer(f) => sd[f].interval /\ ~sd[f].reported /\ sd[f].timer
    BY <1>5, <2>1 DEF Told, appears_updated, Due
  <2>4. QED
    BY <2>1, <2>2, <2>3 DEF HeardBy
<1>6. CASE f \notin Told(n) /\ Listed(f) /\ sd[f].node # n
  <2>1. sd'[f] = sd[f] /\ sd[f].node \in Nodes
    BY <1>2, <1>6, ListedNode
  <2>2. Newer(f)' => Newer(f)
    BY <2>1 DEF Newer
  <2>3. QED
    BY <1>1, <1>2, <1>6, <2>1, <2>2, HeardFrame
<1>7. CASE ~Listed(f)
  BY <1>3, <1>7 DEF HeardBy
<1>8. QED
  BY <1>4, <1>5, <1>6, <1>7

\* A message brings its post with it, now or when the notification runs.
LEMMA AdvertiserHeard ==
    ASSUME TypeOK, TypeOK', Placed, Unwritten, Listing, NEW f \in Fds, HeardBy(f),
           NEW a \in Advertisers, Advertise(a) \/ Begin(a) \/ Write(a)
    PROVE  HeardBy(f)'
<1>1. CASE Notify(a)
  <2>1. /\ adv[a].node \in Nodes /\ poll_notify(adv[a].node) /\ UNCHANGED <<node, hrt>>
        /\ \A b \in Advertisers : b # a => adv'[b] = adv[b]
    BY <1>1 DEF Notify, Placed, HasNode
  <2>2. \A m : m # adv[a].node => (Notifying(m) => Notifying(m)')
    BY <2>1 DEF Notifying, Writers
  <2>3. QED
    BY <2>1, <2>2, NotifyHeard
<1>2. CASE ~Notify(a) /\ ~Listed(f)
  <2>1. ~Listed(f)'
    BY <1>2, AdvertiserWaiters DEF Listed
  <2>2. QED
    BY <2>1 DEF HeardBy
<1>3. CASE ~Notify(a) /\ Listed(f)
  <2>1. UNCHANGED <<sd, sub, hrt>> /\ sub[f[1]].sem \in Nat /\ adv[a].at # "notify"
    <3>1. UNCHANGED <<sd, sub, hrt>> /\ adv[a].at # "notify"
      BY <1>3 DEF Advertise, Begin, Write, OpenAdvertiser, CloseAgain, NodeAdvertise,
           ReopenAdvertiser, CloseAdvertiser, Allocate, CopyIn, Load, Store, Flag
    <3>2. QED
      BY <3>1, DescriptorPair DEF TypeOK, SubRecords
  <2>2. sd[f].node \in Nodes
    BY <1>3, ListedNode
  <2> DEFINE n == sd[f].node
  <2>3. CASE Advertise(a) \/ Begin(a) \/ Flag(a)
    <3>1. /\ \A b \in Advertisers : b # a => adv'[b] = adv[b]
          /\ node'[n].data = node[n].data /\ node'[n].generation = node[n].generation
      BY <2>2, <2>3, AdvertiserFrame
    <3>2. Notifying(n) => Notifying(n)'
      BY <2>1, <3>1 DEF Notifying, Writers
    <3>3. Newer(f)' => Newer(f)
      BY <2>1, <3>1 DEF Newer
    <3>4. QED
      BY <1>3, <2>1, <3>2, <3>3, HeardFrame
  <2>4. CASE Allocate(a) \/ CopyIn(a) \/ Load(a) \/ Store(a)
    <3>1. Wrote(a)
      BY <2>4, WriteEffect
    <3>2. Notifying(n) => Notifying(n)'
      BY <2>1, <3>1 DEF Wrote, Notifying, Writers
    <3>3. Newer(f)' => Newer(f) \/ Notifying(n)'
      <4>1. CASE n # adv[a].node
        BY <2>1, <2>2, <3>1, <4>1 DEF Wrote, Newer
      <4>2. CASE n = adv[a].node /\ node[n].data = Null
        <5>1. node[n].generation = 0 /\ sd[f].generation = 0 /\ adv[a].at \notin Written
          BY <2>2, <4>2 DEF Unwritten
        <5>2. node'[n].generation = 0
          BY <3>1, <4>2, <5>1 DEF Wrote, Written
        <5>3. QED
          BY <2>1, <5>1, <5>2 DEF Newer
      <4>3. CASE n = adv[a].node /\ node[n].data # Null /\ adv[a].at # "store"
        BY <2>1, <3>1, <4>3 DEF Wrote, Newer
      <4>4. CASE n = adv[a].node /\ adv[a].at = "store"
        <5>1. adv'[a].at = "notify" /\ adv'[a].node = n
          BY <3>1, <4>4 DEF Wrote
        <5>2. QED
          BY <2>1, <5>1 DEF Notifying, Writers
      <4>5. QED
        BY <4>1, <4>2, <4>3, <4>4
    <3>4. QED
      BY <1>3, <2>1, <3>2, <3>3, HeardFrame
  <2>5. QED
    BY <1>3, <2>3, <2>4 DEF Write
<1>4. QED
  BY <1>1, <1>2, <1>3

\* Nor does the timer leave a sleeper untold, whether its callback begins or notifies.
LEMMA TimerHeard ==
    ASSUME TypeOK, TypeOK', Listing, NEW f \in Fds, HeardBy(f), Timer
    PROVE  HeardBy(f)'
<1>1. \A m : Notifying(m)' <=> Notifying(m)
  BY TimerFrame DEF Notifying, Writers
<1>2. CASE UpdateDeferred
  <2>1. hrt \in Nodes /\ poll_notify(hrt) /\ UNCHANGED node
    BY <1>2 DEF UpdateDeferred, TypeOK
  <2>2. QED
    BY <1>1, <2>1, NotifyHeard
<1>3. ASSUME NEW g \in Fds, Expire(g)  PROVE HeardBy(f)'
  <2>1. /\ hrt = NoNode /\ hrt' = sd[g].node /\ UNCHANGED <<node, sub>>
        /\ sd' = [sd EXCEPT ![g].timer = FALSE]
    BY <1>3 DEF Expire
  <2>2. CASE f = g
    <3>1. sd'[f].node = hrt'
      BY <2>1, <2>2 DEF TypeOK, SdRecords
    <3>2. QED
      BY <3>1 DEF HeardBy
  <2>3. CASE f # g /\ Listed(f)
    <3>1. sd'[f] = sd[f] /\ sd[f].node # NoNode /\ sub[f[1]].sem \in Nat
      BY <2>1, <2>3, ListedNode, NodesAreNumbers, DescriptorPair DEF TypeOK, SubRecords
    <3>2. Newer(f)' => Newer(f)
      BY <2>1, <3>1 DEF Newer
    <3>3. QED
      BY <1>1, <2>1, <2>3, <3>1, <3>2, HeardFrame
  <2>4. CASE ~Listed(f)
    BY <2>1, <2>4 DEF HeardBy, Listed
  <2>5. QED
    BY <2>2, <2>3, <2>4
<1>4. QED
  BY <1>2, <1>3 DEF Timer

\* A step of a subscriber leaves the running hrt callback alone.
LEMMA TimerIdle ==
    ASSUME NEW s \in Subscribers, Calls(s) \/ Subscribing(s) \/ PollStep(s)
    PROVE  UNCHANGED hrt
BY DEF Calls, Subscribing, PollStep, Poll, Subscribe, SetInterval, Unsubscribe, Copy, Check,
       AdvertiseForSubscriber, ReopenSubscriber, SkipInvalid, SetupDone, Setup, WakeUp, Timeout,
       SkipTeardown, Teardown, TeardownDone

\* A subscriber that moves through its own poll does not miss what came meanwhile.
LEMMA SubscriberHeard ==
    ASSUME TypeOK, TypeOK', Placed, Listing, Listing', NEW f \in Fds, HeardBy(f),
           NEW s \in Subscribers, Calls(s) \/ Subscribing(s) \/ PollStep(s)
    PROVE  HeardBy(f)'
<1> SUFFICES ASSUME Listed(f)', sub'[f[1]].at \in Waiting \cup {"setup"}
             PROVE  HeardBy(f)'
  BY DEF HeardBy
<1>0. /\ f[1] \in Subscribers /\ \E k \in DOMAIN Wants[f[1]] : f = <<f[1], k>>
      /\ sub[f[1]].sem \in Nat
  BY DescriptorPair DEF TypeOK, SubRecords
<1>1. /\ UNCHANGED <<adv, hrt>>
      /\ \A n \in Nodes : node'[n].data = node[n].data /\ node'[n].generation = node[n].generation
      /\ \A m : Notifying(m)' <=> Notifying(m)
  BY SubscriberFrame, TimerIdle DEF Notifying, Writers
<1>2. sd'[f].node \in Nodes
  <2>1. PICK n \in Nodes : f \in node'[n].waiters
    BY DEF Listed
  <2>2. Lists(f[1])'
    BY <1>0 DEF Listing
  <2>3. QED
    BY <1>0, <2>1, <2>2 DEF Lists
<1>3. ASSUME sd'[f] = sd[f]  PROVE Newer(f)' => Newer(f)
  BY <1>1, <1>2, <1>3 DEF Newer
<1>4. CASE f[1] # s
  <2>1. sd'[f] = sd[f] /\ sub'[f[1]] = sub[f[1]] /\ SameLists(f[1])
    BY <1>0, <1>4, OtherLists
  <2>2. Listed(f)
    BY <1>0, <2>1, SameListed
  <2>3. QED
    BY <1>0, <1>1, <1>3, <2>1, <2>2, HeardFrame
<1>5. CASE f[1] = s /\ (Calls(s) \/ Subscribing(s))
  <2>1. sub[s].at \notin Polling
    BY <1>5 DEF Calls, Subscribing, Poll, Subscribe, SetInterval, Unsubscribe, Copy, Check, Idle,
                AdvertiseForSubscriber, ReopenSubscriber, Polling, Waiting
  <2>2. ~Listed(f)
    BY <1>5, <2>1, ListedNode
  <2>3. \A n \in Nodes : node'[n].waiters = node[n].waiters
    <3>1. CASE AdvertiseForSubscriber(s)
      <4>1. PICK n \in Nodes \cup {NoNode} :
              UNCHANGED node \/ node' = [node EXCEPT ![n].exists = TRUE]
        BY <3>1 DEF AdvertiseForSubscriber
      <4>2. QED
        BY <4>1 DEF TypeOK, NodeRecords
    <3>2. CASE UNCHANGED node
      BY <3>2
    <3>3. QED
      BY <1>5, <3>1, <3>2 DEF Calls, Subscribing, Poll, Subscribe, SetInterval, Unsubscribe, Copy,
         Check, ReopenSubscriber
  <2>4. QED
    BY <2>2, <2>3 DEF Listed
<1>6. CASE f[1] = s /\ (SkipInvalid(s) \/ SetupDone(s))
  <2>1. UNCHANGED <<node, sd>> /\ sub[s].at = "setup"
    BY <1>6 DEF SkipInvalid, SetupDone
  <2>2. sub'[s].sem = sub[s].sem
    <3>1. CASE SkipInvalid(s)
      BY <3>1 DEF SkipInvalid, TypeOK, SubRecords
    <3>2. CASE SetupDone(s)
      <4>1. \E w \in Waits(s, Registered(s)) : sub' = [sub EXCEPT ![s] = w]
        BY <3>2 DEF SetupDone
      <4>2. QED
        BY <4>1, WaitsType DEF TypeOK
    <3>3. QED
      BY <1>6, <3>1, <3>2
  <2>3. Listed(f)
    BY <2>1 DEF Listed
  <2>4. QED
    BY <1>0, <1>1, <1>3, <1>6, <2>1, <2>2, <2>3, HeardFrame
<1>7. CASE f[1] = s /\ Setup(s)
  <2> DEFINE g == <<s, sub[s].k>>
  <2>1. SetsUp(s)
    BY <1>7, SetupEffect
  <2>2. CASE UNCHANGED <<node, sd>> /\ sub'[s].sem = sub[s].sem
    <3>1. Listed(f)
      BY <2>2 DEF Listed
    <3>2. QED
      BY <1>0, <1>1, <1>3, <1>7, <2>1, <2>2, <3>1, HeardFrame DEF SetsUp
  <2>3. CASE appears_updated(g) /\ sub'[s].sem > 0
    BY <1>7, <2>3 DEF HeardBy
  <2>4. CASE /\ ~appears_updated(g) /\ UNCHANGED sd /\ sub'[s].sem >= sub[s].sem
             /\ node' = [node EXCEPT ![sd[g].node].waiters = @ \cup {g}]
    <3>1. CASE f = g
      BY <1>3, <2>4, <3>1 DEF HeardBy, appears_updated, Due
    <3>2. CASE f # g
      <4>1. Listed(f)
        BY <2>4, <3>2 DEF Listed, TypeOK, NodeRecords
      <4>2. QED
        BY <1>0, <1>1, <1>3, <1>7, <2>1, <2>4, <4>1, HeardFrame DEF SetsUp
    <3>3. QED
      BY <3>1, <3>2
  <2>5. QED
    BY <2>1, <2>2, <2>3, <2>4 DEF SetsUp
<1>8. CASE /\ f[1] = s
           /\ WakeUp(s) \/ Timeout(s) \/ SkipTeardown(s) \/ Teardown(s) \/ TeardownDone(s)
  <2>1. sub'[s].at \in {"teardown", "idle", "collect"}
    <3>1. CASE Teardown(s)
      BY <3>1, TeardownEffect DEF TearsDown
    <3>2. CASE TeardownDone(s)
      BY <3>2, ReturnsType DEF TeardownDone, TypeOK
    <3>3. CASE WakeUp(s) \/ Timeout(s) \/ SkipTeardown(s)
      BY <3>3 DEF WakeUp, Timeout, SkipTeardown, TypeOK, SubRecords
    <3>4. QED
      BY <1>8, <3>1, <3>2, <3>3
  <2>2. QED
    BY <1>8, <2>1 DEF Waiting
<1>9. QED
  BY <1>4, <1>5, <1>6, <1>7, <1>8 DEF PollStep

\* Every step keeps sleepers told.
LEMMA HeardStep ==
    ASSUME TypeOK, TypeOK', Placed, Unwritten, Listing, Listing', Heard, [Next]_vars
    PROVE  Heard'
<1> SUFFICES ASSUME NEW f \in Fds  PROVE HeardBy(f)'
  BY DEF Heard
<1>1. HeardBy(f)
  BY DEF Heard
<1>2. CASE UNCHANGED vars
  BY <1>1, <1>2 DEF vars, HeardBy, Listed, Newer, Notifying, Writers
<1>3. QED
  BY <1>1, <1>2, AdvertiserHeard, SubscriberHeard, TimerHeard DEF Next

-----------------------------------------------------------------------------
\* The inductive invariant holds at boot.
LEMMA TopicInit ==
    ASSUME Init
    PROVE  IInv
<1>1. TypeOK
  BY TopicAssumption, NodesAreNumbers
     DEF Init, TypeOK, NodeRecords, AdvRecords, SdRecords, SubRecords, NoSd, Null
<1>2. Placed
  BY DEF Init, Placed, HasNode
<1>3. Claimed /\ Unwritten
  BY NodesAreNumbers DEF Init, Claimed, Unwritten, HasNode, Written, NoSd, Null
<1>4. Counted
  BY NodesAreNumbers DEF Init, Counted, Counts, Quiet, Writers, NoSd, Null, NoNode
<1>5. \A f : ~Listed(f)
  BY DEF Init, Listed
<1>6. Listing
  BY <1>5 DEF Init, Listing, Lists, Listed, Waiting
<1>7. Heard
  BY <1>5 DEF Heard, HeardBy
<1>8. QED
  BY <1>1, <1>2, <1>3, <1>4, <1>6, <1>7 DEF IInv

\* Every step keeps the inductive invariant.
LEMMA TopicStep ==
    ASSUME IInv, [Next]_vars
    PROVE  IInv'
<1>1. TypeOK' /\ Placed'
  BY TypeStep DEF IInv
<1>2. Claimed' /\ Unwritten' /\ Counted' /\ Listing'
  BY ClaimedStep, UnwrittenStep, CountedStep, ListingStep DEF IInv
<1>3. Heard'
  BY <1>1, <1>2, HeardStep DEF IInv
<1>4. QED
  BY <1>1, <1>2, <1>3 DEF IInv

\* What the proofs above come to: the device nodes keep IInv
THEOREM TopicInvariant == Spec => []IInv
BY TopicInit, TopicStep, PTL DEF Spec

\* Every variable keeps its type.
THEOREM TopicTypes == Spec => []TypeOK
<1>1. IInv => TypeOK
  BY DEF IInv
<1>2. QED
  BY <1>1, TopicInvariant, PTL

\* With one advertiser nothing is missed, however the unlocked count of
\* DeviceNode::write interleaves with opens, reads and checks.
THEOREM NothingIsMissed == Spec => []NothingMissed
<1>1. ASSUME IInv  PROVE NothingMissed
  <2> SUFFICES ASSUME NEW f \in Fds, IsOpen(f), Alone(sd[f].node), Quiet(sd[f].node),
                      sd[f].generation = node[sd[f].node].generation
               PROVE  sd[f].seen >= node[sd[f].node].data
    BY DEF NothingMissed
  <2> DEFINE n == sd[f].node
  <2>1. n \in Nodes /\ sd[f].seen \in Nat /\ node[n].data \in Int /\ sd[f].generation \in Nat
    BY <1>1 DEF IInv, TypeOK, SdRecords, NodeRecords, IsOpen
  <2>2. Counts(n) /\ sd[f].seen >= sd[f].generation
    BY <1>1, <2>1 DEF IInv, Counted, Counts
  <2>3. node[n].data >= 0 => node[n].generation = node[n].data
    BY <2>2 DEF Counts
  <2>4. QED
    BY <2>1, <2>2, <2>3
<1>2. QED
  BY <1>1, TopicInvariant, PTL

\* Nobody sleeps on an update it has registered for: poll_notify tells every
\* waiter whose update is due, and the set up of a poll tells itself.
THEOREM SleepersAreAlwaysTold == Spec => []SleepersAreTold
<1>1. IInv => SleepersAreTold
  BY DEF IInv, Heard, HeardBy, SleepersAreTold, Listed, IsOpen, TypeOK, SdRecords
<1>2. QED
  BY <1>1, TopicInvariant, PTL

\* px4_poll takes every entry it made out of the tables before it returns, and
\* no descriptor is closed or opened anew that a table still points to.
THEOREM WaitersAreLive == Spec => []NoStaleWaiters
<1>1. ASSUME IInv  PROVE NoStaleWaiters
  <2> SUFFICES ASSUME NEW n \in Nodes, NEW f \in node[n].waiters
               PROVE  sd[f].node = n /\ sub[f[1]].at \in Polling
    BY DEF NoStaleWaiters, Polling
  <2>1. f \in Fds
    BY <1>1 DEF IInv, TypeOK, NodeRecords
  <2>2. PICK k \in DOMAIN Wants[f[1]] : f = <<f[1], k>> /\ f[1] \in Subscribers
    BY <2>1, DescriptorPair
  <2>3. QED
    BY <1>1, <2>2 DEF IInv, Listing, Lists, Listed
<1>2. QED
  BY <1>1, TopicInvariant, PTL

\* orb_advertise_multi never hands out an instance whose advertiser has
\* returned: that one has been published to, and is not claimable.
THEOREM InstancesAreKept == Spec => KeepsItsInstance
<1> DEFINE Kept == \A a \in Multi : (adv[a].at = "advertise" /\ adv'[a].at = "reopen")
                     => \A b \in Advertisers : adv[b].node = adv'[a].node => adv[b].at # "ready"
<1>1. ASSUME IInv, Next  PROVE Kept
  <2> SUFFICES ASSUME NEW a \in Multi, adv[a].at = "advertise", adv'[a].at = "reopen",
                      NEW b \in Advertisers, adv[b].node = adv'[a].node, adv[b].at = "ready"
               PROVE  FALSE
    OBVIOUS
  <2>1. a \in Advertisers /\ \A c \in Advertisers : adv[c] \in AdvRecords
    BY <1>1, TopicAssumption DEF IInv, TypeOK
  <2>2. ASSUME NEW c \in Advertisers, Advertise(c) \/ Begin(c) \/ Write(c)  PROVE c = a
    <3>1. \A d \in Advertisers : d # c => adv'[d] = adv[d]
      <4>1. \/ Advertise(c) \/ Begin(c) \/ Notify(c) \/ Flag(c)
            \/ Allocate(c) \/ CopyIn(c) \/ Load(c) \/ Store(c)
        BY <2>2 DEF Write
      <4>2. QED
        BY <1>1, <4>1, AdvertiserFrame, WriteEffect DEF IInv, Wrote
    <3>2. QED
      BY <2>1, <3>1
  <2>3. NodeAdvertise(a)
    <3>1. Advertise(a) \/ Begin(a) \/ Write(a)
      BY <1>1, <2>2, SubscriberFrame, TimerFrame DEF Next, IInv
    <3>2. QED
      BY <3>1 DEF Advertise, Begin, Write, OpenAdvertiser, CloseAgain, ReopenAdvertiser,
         CloseAdvertiser, Allocate, CopyIn, Load, Store, Notify, Flag
  <2>4. PICK n \in Nodes \cup {NoNode} :
          /\ n # NoNode => Claimable(n)
          /\ IF n = NoNode THEN adv' = [adv EXCEPT ![a].at = "new"]
             ELSE adv' = [adv EXCEPT ![a].at = "reopen", ![a].node = n]
    BY <2>3 DEF NodeAdvertise, Advertised
  <2>5. n # NoNode /\ adv'[a].node = n
    BY <1>1, <2>1, <2>4 DEF IInv, TypeOK, AdvRecords
  <2>6. node[n].exists => ~node[n].published
    BY <2>4, <2>5 DEF Claimable
  <2>7. node[n].published /\ node[n].exists
    BY <1>1, <2>5 DEF IInv, Claimed, HasNode
  <2>8. QED
    BY <2>6, <2>7
<1>2. ASSUME IInv, [Next]_vars  PROVE [Kept]_vars
  BY <1>1, <1>2
<1>3. QED
  BY <1>2, TopicInvariant, PTL DEF Spec, KeepsItsInstance
=============================================================================
