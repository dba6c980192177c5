------------------------------ MODULE TopicNode ------------------------------
(***************************************************************************)
(* The device nodes of a uORB topic on POSIX (uORBDevices_posix.cpp,       *)
(* uORBManager_posix.cpp, vdev.cpp, vdev_posix.cpp): advertise, publish,   *)
(* subscribe, check, copy and poll, with the timer thread that wakes rate  *)
(* limited subscribers (drv_hrt.c).  NuttX disables interrupts where this  *)
(* build takes the lock of the node.                                       *)
(*                                                                         *)
(* What runs under the lock of a node is one step; what does not, the      *)
(* generation count and the flag _published, is a step per access.  The    *)
(* messages of an instance are numbered as they are copied into it.        *)
(***************************************************************************)
EXTENDS Integers, FiniteSets, Sequences

CONSTANTS
    Advertisers, Subscribers,   \* threads
    Instances,                  \* ORB_MULTI_MAX_INSTANCES
    Multi,                      \* who calls orb_advertise_multi; *instance is 0 or none
    Wants,                      \* per descriptor of a subscriber, the instance asked for
    Limited,                    \* who calls orb_set_interval
    MaxWaiters,                 \* _max_pollwaiters
    MaxMessages,                \* bound: publications that are begun
    Closes                      \* bound: whether subscribers may unsubscribe

Nodes == 0 .. Instances - 1
Fds == UNION {{<<s, k>> : k \in DOMAIN Wants[s]} : s \in Subscribers}
ASSUME TopicAssumption ==
    /\ Instances \in Nat \ {0}
    /\ Multi \subseteq Advertisers
    /\ Wants \in [Subscribers -> Seq(Nodes)]
    /\ Limited \subseteq Subscribers
    /\ MaxWaiters \in Nat \ {0} /\ MaxMessages \in Nat
    /\ Closes \in BOOLEAN

VARIABLES
    node,       \* per instance, the DeviceNode
    adv,        \* per advertiser, where it is
    sd,         \* per descriptor, its node and SubscriberData
    sub,        \* per subscriber, where it is and its pollfds
    hrt,        \* the timer thread: the instance whose subscribers it notifies
    begun       \* publications begun

vars == <<node, adv, sd, sub, hrt, begun>>

Null == -1      \* _data == nullptr
Garbage == 0    \* allocated and never written
NoNode == -1
\* A descriptor that is not open; seen is the newest message it has been copied
NoSd == [node |-> NoNode, generation |-> 0, interval |-> FALSE, reported |-> FALSE,
         timer |-> FALSE, seen |-> 0]

Init ==
    /\ node = [n \in Nodes |-> [exists |-> FALSE, publisher |-> {}, data |-> Null,
                                generation |-> 0, published |-> FALSE, waiters |-> {}]]
    /\ adv = [a \in Advertisers |-> [at |-> "new", node |-> NoNode, generation |-> 0]]
    /\ sd = [f \in Fds |-> NoSd]
    /\ sub = [s \in Subscribers |-> [at |-> "idle", k |-> 0, node |-> NoNode, revents |-> {},
                                     sem |-> 0, todo |-> {}]]
    /\ hrt = NoNode
    /\ begun = 0

-----------------------------------------------------------------------------
\* Mutant of Claimable: a node that was published to is claimed again
Claimable_published(n) == TRUE

\* DeviceMaster::ioctl, ORBIOCADVERTISE: a node is created, or an existing one
\* claimed to which nothing has been published
Claimable(n) == node[n].exists => ~node[n].published
\* n is the first of the instances tried that may be had, NoNode if there is none
Advertised(n, tried) ==
    /\ n # NoNode => n < tried /\ Claimable(n)
    /\ \A m \in Nodes : m < (IF n = NoNode THEN tried ELSE n) => ~Claimable(m)

\* px4_open for writing; without a node, or while another thread has it open
\* (-EBUSY), the node is advertised first
Opens(n) == node[n].exists /\ node[n].publisher = {}
OpenAdvertiser(a) ==
    /\ adv[a].at = "new" /\ begun < MaxMessages
    /\ begun' = begun + 1
    /\ \/ /\ Opens(0)
          /\ node' = [node EXCEPT ![0].publisher = {a}]
          /\ adv' = [adv EXCEPT ![a].at = IF a \in Multi THEN "reclose" ELSE "close",
                                ![a].node = 0]
       \/ /\ a \in Multi \/ ~Opens(0)
          /\ adv' = [adv EXCEPT ![a].at = "advertise"]
          /\ UNCHANGED node
    /\ UNCHANGED <<sd, sub, hrt>>
\* A new instance is wanted: the descriptor is closed again
CloseAgain(a) ==
    /\ adv[a].at = "reclose"
    /\ node' = [node EXCEPT ![0].publisher = {}]
    /\ adv' = [adv EXCEPT ![a].at = "advertise", ![a].node = NoNode]
    /\ UNCHANGED <<sd, sub, hrt, begun>>
NodeAdvertise(a) ==
    /\ adv[a].at = "advertise"
    /\ \E n \in Nodes \cup {NoNode} :
         /\ Advertised(n, IF a \in Multi THEN Instances ELSE 1)
         /\ IF n = NoNode
            THEN /\ adv' = [adv EXCEPT ![a].at = "new"]
                 /\ UNCHANGED node
            ELSE /\ node' = [node EXCEPT ![n].exists = TRUE]
                 /\ adv' = [adv EXCEPT ![a].at = "reopen", ![a].node = n]
    /\ UNCHANGED <<sd, sub, hrt, begun>>
ReopenAdvertiser(a) ==
    /\ adv[a].at = "reopen"
    /\ IF Opens(adv[a].node)
       THEN /\ node' = [node EXCEPT ![adv[a].node].publisher = {a}]
            /\ adv' = [adv EXCEPT ![a].at = "close"]
       ELSE /\ adv' = [adv EXCEPT ![a].at = "new", ![a].node = NoNode]
            /\ UNCHANGED node
    /\ UNCHANGED <<sd, sub, hrt, begun>>
\* The handle is the node; then comes the first publication
CloseAdvertiser(a) ==
    /\ adv[a].at = "close"
    /\ node' = [node EXCEPT ![adv[a].node].publisher = {}]
    /\ adv' = [adv EXCEPT ![a].at = "alloc"]
    /\ UNCHANGED <<sd, sub, hrt, begun>>

-----------------------------------------------------------------------------
\* appears_updated, for a descriptor f
Newer(f) == node[sd[f].node].data # Null /\ sd[f].generation # node[sd[f].node].generation
Due(f) == ~sd[f].interval \/ sd[f].reported \/ ~sd[f].timer
appears_updated(f) == Newer(f) /\ Due(f)
\* An update that is reported to a rate limited subscriber starts its timer
Reported(f) ==
    [sd[f] EXCEPT !.timer = @ \/ (sd[f].interval /\ ~sd[f].reported),
                  !.reported = @ \/ sd[f].interval]

\* Mutant of poll_notify: a semaphore that is at 0 is not posted
poll_notify_late(n) ==
    LET told == {f \in node[n].waiters : appears_updated(f)}
    IN  /\ sd' = [f \in Fds |-> IF f \in told THEN Reported(f) ELSE sd[f]]
        /\ sub' = [s \in Subscribers |->
                     LET ks == {k \in DOMAIN Wants[s] : <<s, k>> \in told}
                     IN  IF ks = {} THEN sub[s]
                         ELSE [sub[s] EXCEPT !.revents = @ \cup ks,
                                             !.sem = IF @ < 0 THEN @ + 1 ELSE @]]

\* VDev::poll_notify, under the lock of the node
Told(n) == {f \in node[n].waiters : appears_updated(f)}
poll_notify(n) ==
    /\ sd' = [f \in Fds |-> IF f \in Told(n) THEN Reported(f) ELSE sd[f]]
    /\ sub' = [s \in Subscribers |->
                LET ks == {k \in DOMAIN Wants[s] : <<s, k>> \in Told(n)}
                IN  IF ks = {} THEN sub[s]
                    ELSE [sub[s] EXCEPT !.revents = @ \cup ks,
                                        !.sem = IF @ <= 0 THEN @ + 1 ELSE @]]

\* DeviceNode::write
Begin(a) ==
    /\ adv[a].at = "ready" /\ begun < MaxMessages
    /\ begun' = begun + 1
    /\ adv' = [adv EXCEPT ![a].at = "alloc"]
    /\ UNCHANGED <<node, sd, sub, hrt>>
Allocate(a) ==
    /\ adv[a].at = "alloc"
    /\ node' = [node EXCEPT ![adv[a].node].data = IF @ = Null THEN Garbage ELSE @]
    /\ adv' = [adv EXCEPT ![a].at = "copy"]
    /\ UNCHANGED <<sd, sub, hrt, begun>>
CopyIn(a) ==
    /\ adv[a].at = "copy"
    /\ node' = [node EXCEPT ![adv[a].node].data = @ + 1]
    /\ adv' = [adv EXCEPT ![a].at = "load"]
    /\ UNCHANGED <<sd, sub, hrt, begun>>
\* _generation++ is not atomic
Load(a) ==
    /\ adv[a].at = "load"
    /\ adv' = [adv EXCEPT ![a].at = "store", ![a].generation = node[adv[a].node].generation]
    /\ UNCHANGED <<node, sd, sub, hrt, begun>>
\* Mutant of Store: a flag instead of a count
Store_flag(a) ==
    /\ adv[a].at = "store"
    /\ node' = [node EXCEPT ![adv[a].node].generation = 1]
    /\ adv' = [adv EXCEPT ![a].at = "notify", ![a].generation = 0]
    /\ UNCHANGED <<sd, sub, hrt, begun>>
Store(a) ==
    /\ adv[a].at = "store"
    /\ node' = [node EXCEPT ![adv[a].node].generation = adv[a].generation + 1]
    /\ adv' = [adv EXCEPT ![a].at = "notify", ![a].generation = 0]
    /\ UNCHANGED <<sd, sub, hrt, begun>>
Notify(a) ==
    /\ adv[a].at = "notify"
    /\ poll_notify(adv[a].node)
    /\ adv' = [adv EXCEPT ![a].at = "flag"]
    /\ UNCHANGED <<node, hrt, begun>>
Flag(a) ==
    /\ adv[a].at = "flag"
    /\ node' = [node EXCEPT ![adv[a].node].published = TRUE]
    /\ adv' = [adv EXCEPT ![a].at = "ready"]
    /\ UNCHANGED <<sd, sub, hrt, begun>>

Advertise(a) ==
    \/ OpenAdvertiser(a) \/ CloseAgain(a) \/ NodeAdvertise(a)
    \/ ReopenAdvertiser(a) \/ CloseAdvertiser(a)
Write(a) ==
    Allocate(a) \/ CopyIn(a) \/ Load(a) \/ Store(a) \/ Notify(a) \/ Flag(a)

-----------------------------------------------------------------------------
Idle(s) == sub[s].at = "idle"
IsOpen(f) == sd[f].node # NoNode

\* DeviceNode::open for reading: there is no update to begin with
Opened(n) ==
    [NoSd EXCEPT !.node = n, !.generation = node[n].generation, !.seen = node[n].generation]
\* orb_subscribe for instance 0, orb_subscribe_multi for the others
Subscribe(s, k) ==
    /\ Idle(s) /\ ~IsOpen(<<s, k>>)
    /\ IF node[Wants[s][k]].exists
       THEN sd' = [sd EXCEPT ![<<s, k>>] = Opened(Wants[s][k])] /\ UNCHANGED sub
       ELSE sub' = [sub EXCEPT ![s].at = "advertise", ![s].k = k] /\ UNCHANGED sd
    /\ UNCHANGED <<node, adv, hrt, begun>>
\* Without a node one is advertised; orb_subscribe_multi lets the instance be
\* chosen.  -EEXIST of px4_ioctl is not in errno, and the call fails
AdvertiseForSubscriber(s) ==
    /\ sub[s].at = "advertise"
    /\ \E n \in Nodes \cup {NoNode} :
         /\ Advertised(n, IF Wants[s][sub[s].k] = 0 THEN 1 ELSE Instances)
         /\ IF n = NoNode
            THEN /\ sub' = [sub EXCEPT ![s].at = "idle", ![s].k = 0]
                 /\ UNCHANGED node
            ELSE /\ node' = [node EXCEPT ![n].exists = TRUE]
                 /\ sub' = [sub EXCEPT ![s].at = "reopen", ![s].node = n]
    /\ UNCHANGED <<adv, sd, hrt, begun>>
ReopenSubscriber(s) ==
    /\ sub[s].at = "reopen"
    /\ sd' = [sd EXCEPT ![<<s, sub[s].k>>] = Opened(sub[s].node)]
    /\ sub' = [sub EXCEPT ![s].at = "idle", ![s].k = 0, ![s].node = NoNode]
    /\ UNCHANGED <<node, adv, hrt, begun>>
SetInterval(s, k) ==
    /\ Idle(s) /\ IsOpen(<<s, k>>) /\ s \in Limited /\ ~sd[<<s, k>>].interval
    /\ sd' = [sd EXCEPT ![<<s, k>>].interval = TRUE]
    /\ UNCHANGED <<node, adv, sub, hrt, begun>>
\* DeviceNode::close cancels the timer
Unsubscribe(s, k) ==
    /\ Closes /\ Idle(s) /\ IsOpen(<<s, k>>)
    /\ sd' = [sd EXCEPT ![<<s, k>>] = NoSd]
    /\ UNCHANGED <<node, adv, sub, hrt, begun>>

\* DeviceNode::read under the lock; it fails as long as there is no data
Copied(f) ==
    IF node[sd[f].node].data = Null THEN sd[f]
    ELSE [sd[f] EXCEPT !.generation = node[sd[f].node].generation,
                       !.seen = node[sd[f].node].data, !.reported = FALSE]
Copy(s, k) ==
    /\ IsOpen(<<s, k>>)
    /\ \/ Idle(s) /\ UNCHANGED sub
       \/ /\ sub[s].at = "collect" /\ k \in sub[s].todo
          /\ sub' = [sub EXCEPT ![s].todo = @ \ {k},
                                ![s].at = IF sub[s].todo = {k} THEN "idle" ELSE "collect"]
    /\ sd' = [sd EXCEPT ![<<s, k>>] = Copied(<<s, k>>)]
    /\ UNCHANGED <<node, adv, hrt, begun>>
\* orb_check; who is told of an update copies it
Check(s, k) ==
    /\ Idle(s) /\ IsOpen(<<s, k>>)
    /\ IF appears_updated(<<s, k>>)
       THEN /\ sd' = [sd EXCEPT ![<<s, k>>] = Reported(<<s, k>>)]
            /\ sub' = [sub EXCEPT ![s].at = "collect", ![s].todo = {k}]
       ELSE UNCHANGED <<sd, sub>>
    /\ UNCHANGED <<node, adv, hrt, begun>>

-----------------------------------------------------------------------------
\* px4_sem_wait without a timeout, px4_sem_timedwait with one
Waiting == {"wait", "timedwait"}

\* px4_poll over all descriptors of the subscriber
Registered(s) == \E k \in DOMAIN Wants[s] : \E n \in Nodes : <<s, k>> \in node[n].waiters
Poll(s) ==
    /\ Idle(s)
    /\ sub' = [sub EXCEPT ![s].at = "setup", ![s].k = 1, ![s].sem = 0]
    /\ UNCHANGED <<node, adv, sd, hrt, begun>>

\* Mutant of Waits: no descriptor that can be polled, and the call returns at once
Waits_not(s, registered) == {[sub[s] EXCEPT !.at = "idle", !.k = 0]}
\* After the last descriptor, or the first whose set up fails: wait if there is
\* one that can be polled
Waits(s, registered) ==
    {[sub[s] EXCEPT !.at = w, !.k = 0] : w \in IF registered THEN Waiting ELSE {"idle"}}
SkipInvalid(s) ==
    /\ sub[s].at = "setup" /\ sub[s].k \in DOMAIN Wants[s] /\ ~IsOpen(<<s, sub[s].k>>)
    /\ sub' = [sub EXCEPT ![s].k = @ + 1, ![s].revents = @ \ {sub[s].k}]
    /\ UNCHANGED <<node, adv, sd, hrt, begun>>
SetupDone(s) ==
    /\ sub[s].at = "setup" /\ sub[s].k \notin DOMAIN Wants[s]
    /\ \E w \in Waits(s, Registered(s)) : sub' = [sub EXCEPT ![s] = w]
    /\ UNCHANGED <<node, adv, sd, hrt, begun>>
\* VDev::poll, setup: store_poll_waiter, then poll_state
Setup(s) ==
    /\ sub[s].at = "setup" /\ sub[s].k \in DOMAIN Wants[s]
    /\ LET k == sub[s].k
           f == <<s, k>>
           full == Cardinality(node[sd[f].node].waiters) >= MaxWaiters
           ready == appears_updated(f)
       IN  /\ IsOpen(f)
           /\ IF full
              THEN /\ \E w \in Waits(s, Registered(s)) :
                        sub' = [sub EXCEPT ![s] = [w EXCEPT !.revents = @ \ {k}]]
                   /\ UNCHANGED <<node, sd>>
              ELSE /\ node' = [node EXCEPT ![sd[f].node].waiters = @ \cup {f}]
                   /\ sd' = IF ready THEN [sd EXCEPT ![f] = Reported(f)] ELSE sd
                   /\ sub' = [sub EXCEPT ![s].k = k + 1,
                                         ![s].revents = IF ready THEN @ \cup {k} ELSE @ \ {k},
                                         ![s].sem = IF ready THEN @ + 1 ELSE @]
    /\ UNCHANGED <<adv, hrt, begun>>
\* Mutant of WakeUp: px4_sem_wait does not wait
WakeUp_early(s) ==
    /\ sub[s].at \in Waiting
    /\ sub' = [sub EXCEPT ![s].at = "teardown", ![s].k = 1, ![s].sem = @ - 1, ![s].todo = {}]
    /\ UNCHANGED <<node, adv, sd, hrt, begun>>
\* The semaphore is posted, or the time is over
WakeUp(s) ==
    /\ sub[s].at \in Waiting /\ sub[s].sem > 0
    /\ sub' = [sub EXCEPT ![s].at = "teardown", ![s].k = 1, ![s].sem = @ - 1, ![s].todo = {}]
    /\ UNCHANGED <<node, adv, sd, hrt, begun>>
Timeout(s) ==
    /\ sub[s].at = "timedwait"
    /\ sub' = [sub EXCEPT ![s].at = "teardown", ![s].k = 1, ![s].todo = {}]
    /\ UNCHANGED <<node, adv, sd, hrt, begun>>

\* What px4_poll returns is in todo: who gets a positive count looks at all
\* revents, those of descriptors that were not set up are of an earlier call
Returns(s) ==
    [sub[s] EXCEPT !.at = IF sub[s].todo = {} THEN "idle" ELSE "collect", !.k = 0, !.sem = 0,
                   !.todo = IF @ = {} THEN {}
                            ELSE {k \in sub[s].revents : IsOpen(<<s, k>>)}]
SkipTeardown(s) ==
    /\ sub[s].at = "teardown" /\ sub[s].k \in DOMAIN Wants[s] /\ ~IsOpen(<<s, sub[s].k>>)
    /\ sub' = [sub EXCEPT ![s].k = @ + 1]
    /\ UNCHANGED <<node, adv, sd, hrt, begun>>
\* A descriptor that was not set up ends the teardown
Teardown(s) ==
    /\ sub[s].at = "teardown" /\ sub[s].k \in DOMAIN Wants[s]
    /\ LET k == sub[s].k
           f == <<s, k>>
       IN  /\ IsOpen(f)
           /\ IF f \in node[sd[f].node].waiters
              THEN /\ node' = [node EXCEPT ![sd[f].node].waiters = @ \ {f}]
                   /\ sub' = [sub EXCEPT ![s].k = k + 1,
                                         ![s].todo = @ \cup (sub[s].revents \cap {k})]
              ELSE /\ sub' = [sub EXCEPT ![s] = Returns(s)]
                   /\ UNCHANGED node
    /\ UNCHANGED <<adv, sd, hrt, begun>>
TeardownDone(s) ==
    /\ sub[s].at = "teardown" /\ sub[s].k \notin DOMAIN Wants[s]
    /\ sub' = [sub EXCEPT ![s] = Returns(s)]
    /\ UNCHANGED <<node, adv, sd, hrt, begun>>

-----------------------------------------------------------------------------
\* The timer thread (hrt_call_invoke, update_deferred)
Expire(f) ==
    /\ hrt = NoNode /\ sd[f].timer
    /\ sd' = [sd EXCEPT ![f].timer = FALSE]
    /\ hrt' = sd[f].node
    /\ UNCHANGED <<node, adv, sub, begun>>
\* Mutant of UpdateDeferred: nobody is notified
UpdateDeferred_silent ==
    /\ hrt # NoNode
    /\ hrt' = NoNode
    /\ UNCHANGED <<node, adv, sd, sub, begun>>
UpdateDeferred ==
    /\ hrt # NoNode
    /\ poll_notify(hrt)
    /\ hrt' = NoNode
    /\ UNCHANGED <<node, adv, begun>>

PollStep(s) ==
    SkipInvalid(s) \/ SetupDone(s) \/ Setup(s) \/ WakeUp(s) \/ Timeout(s)
    \/ SkipTeardown(s) \/ Teardown(s) \/ TeardownDone(s)
Subscribing(s) == AdvertiseForSubscriber(s) \/ ReopenSubscriber(s)
Calls(s) ==
    \/ Poll(s)
    \/ \E k \in DOMAIN Wants[s] :
         Subscribe(s, k) \/ SetInterval(s, k) \/ Unsubscribe(s, k) \/ Copy(s, k) \/ Check(s, k)
Timer == UpdateDeferred \/ \E f \in Fds : Expire(f)
Next ==
    \/ \E a \in Advertisers : Advertise(a) \/ Begin(a) \/ Write(a)
    \/ \E s \in Subscribers : Calls(s) \/ Subscribing(s) \/ PollStep(s)
    \/ Timer

Spec == Init /\ [][Next]_vars

\* Threads run on, timers expire, and a subscriber polls and copies what poll or
\* check told it of
Collects(s) == \E k \in DOMAIN Wants[s] : sub[s].at = "collect" /\ Copy(s, k)
FairSpec ==
    /\ Spec
    /\ \A a \in Advertisers : WF_vars(Write(a))
    /\ \A s \in Subscribers :
         WF_vars(PollStep(s) \/ Subscribing(s)) /\ WF_vars(Collects(s)) /\ SF_vars(Poll(s))
    /\ WF_vars(Timer)

-----------------------------------------------------------------------------
NodeRecords ==
    [exists : BOOLEAN, publisher : SUBSET Advertisers, data : Int, generation : Nat,
     published : BOOLEAN, waiters : SUBSET Fds]
AdvRecords ==
    [at : {"new", "reclose", "advertise", "reopen", "close",
           "alloc", "copy", "load", "store", "notify", "flag", "ready"},
     node : Nodes \cup {NoNode}, generation : Nat]
SdRecords ==
    [node : Nodes \cup {NoNode}, generation : Nat, interval : BOOLEAN,
     reported : BOOLEAN, timer : BOOLEAN, seen : Nat]
SubRecords ==
    [at : Waiting \cup {"idle", "advertise", "reopen", "setup", "teardown", "collect"},
     k : Nat, node : Nodes \cup {NoNode},
     revents : SUBSET (Nat \ {0}), sem : Nat, todo : SUBSET (Nat \ {0})]
TypeOK ==
    /\ node \in [Nodes -> NodeRecords]
    /\ adv \in [Advertisers -> AdvRecords]
    /\ sd \in [Fds -> SdRecords]
    /\ sub \in [Subscribers -> SubRecords]
    /\ hrt \in Nodes \cup {NoNode}
    /\ begun \in 0 .. MaxMessages

\* Threads that have or are getting the node for publishing
Writers(n) == {a \in Advertisers : adv[a].node = n
                 /\ adv[a].at \in {"close", "alloc", "copy", "load", "store", "notify",
                                  "flag", "ready"}}
Alone(n) == \A a, b \in Writers(n) : a = b
Quiet(n) == \A a \in Writers(n) : adv[a].at \notin {"load", "store"}

\* With one advertiser nothing is missed: a descriptor whose generation is the
\* node's has been given the newest message, whatever was read between the copy
\* of a message and the count (write counts outside of the lock).
NothingMissed ==
    \A f \in Fds :
        (IsOpen(f) /\ Alone(sd[f].node) /\ Quiet(sd[f].node)
           /\ sd[f].generation = node[sd[f].node].generation)
        => sd[f].seen >= node[sd[f].node].data

\* Nobody sleeps on an update it has registered for: the check of poll and the
\* notification of write cannot miss each other, on one or several nodes, and a
\* rate limited sleeper has a timer running or the timer thread on its way.
Notifying(n) == \E a \in Writers(n) : adv[a].at = "notify"
SleepersAreTold ==
    \A f \in Fds :
        LET s == f[1]
        IN  (/\ sub[s].at \in Waiting /\ IsOpen(f) /\ f \in node[sd[f].node].waiters
             /\ Newer(f) /\ ~Notifying(sd[f].node) /\ hrt # sd[f].node)
            => sub[s].sem > 0 \/ (sd[f].interval /\ ~sd[f].reported /\ sd[f].timer)

\* The table of a node never points to a call of poll that has returned
\* (_pollset holds pointers to the caller's pollfds).
NoStaleWaiters ==
    \A n \in Nodes : \A f \in node[n].waiters :
        sd[f].node = n /\ sub[f[1]].at \in Waiting \cup {"setup", "teardown"}

\* An instance whose advertiser has returned is not given to another one that
\* asks for an instance of its own.
KeepsItsInstance ==
    [][ \A a \in Multi : (adv[a].at = "advertise" /\ adv'[a].at = "reopen")
            => \A b \in Advertisers : adv[b].node = adv'[a].node => adv[b].at # "ready" ]_vars

\* A subscriber that polls again and again always gets to the newest message,
\* from an advertiser that is alone, unless the table of the node is full.
Behind(f) ==
    /\ IsOpen(f) /\ sd[f].seen < node[sd[f].node].data
    /\ Alone(sd[f].node)
    /\ Cardinality(node[sd[f].node].waiters \ {f}) < MaxWaiters
CatchesUp == \A f \in Fds : []<>~Behind(f)
=============================================================================
