--------------------------- MODULE DatamanProofs ---------------------------
(***************************************************************************)
(* What the data manager promises, for any number of callers, chunks,      *)
(* starts, stops and power losses: a work item serves one call at a time,  *)
(* no queued work is slept through, and what the file keeps of the items.  *)
(***************************************************************************)
EXTENDS Dataman, TLAPS, WellFoundedInduction

\* A free item is of a chunk that exists, but for a worker that gives it back
Allocated ==
    SomeoneLeaves \/ \A n \in 1 .. Len(g_free_q) : g_free_q[n][1] \in chunks

\* No item is free twice
FreeDistinct ==
    \A m, n \in 1 .. Len(g_free_q) : g_free_q[m] = g_free_q[n] => m = n

\* A caller about to enqueue still has the semaphore it initialised
EnqueueFresh ==
    \A c \in Clients : pc[c] = "enqueue" => wait_sem[item[c]] = 0

\* No item is queued twice, nor queued while a worker executes it, nor executed twice
QueueDistinct ==
    /\ \A m, n \in 1 .. Len(g_work_q) : g_work_q[m] = g_work_q[n] => m = n
    /\ \A w \in Workers : wpc[w] = "exec" =>
           \A n \in 1 .. Len(g_work_q) : g_work_q[n] # cur[w]
    /\ \A w, v \in Workers :
           wpc[w] = "exec" /\ wpc[v] = "exec" /\ cur[w] = cur[v] => w = v

\* ItemsExclusive, where no worker has left beside a call
Exclusive ==
    /\ \A c \in Clients : pc[c] \in Owning =>
          /\ \A n \in 1 .. Len(g_free_q) : g_free_q[n] # item[c]
          /\ item[c][1] \in chunks
    /\ \A c, d \in Clients :
          pc[c] \in Owning /\ pc[d] \in Owning /\ item[c] = item[d] => c = d

\* PendingItemsHaveCallers, with the caller as an operator
Pending(i) == \E c \in Clients :
    pc[c] \in {"post", "wait"} /\ item[c] = i /\ wait_sem[i] = 0
QueuePending == \A n \in 1 .. Len(g_work_q) : Pending(g_work_q[n])
CurPending == \A w \in Workers : wpc[w] = "exec" => Pending(cur[w])

\* A worker that gives the free items back has nobody beside it
NobodyBeside == \A w \in Workers : wpc[w] \in Leaving => Alone(w)

\* The inductive invariant while no worker has left beside a call
Parts == NobodyBeside /\ Allocated /\ FreeDistinct /\ EnqueueFresh /\ QueueDistinct
         /\ Exclusive /\ QueuePending /\ CurPending
PartsWhileCalm == ~raced => Parts

\* The variables Parts speaks of, wpc and cur apart
partVars == <<g_free_q, chunks, pc, item, wait_sem, g_work_q>>

(* Giving items back, a worker only takes some away from a queue. *)
LEMMA FlinkType ==
    ASSUME NEW i, g_free_q \in Seq(Items), g_work_q \in Seq(Items), NEW rest \in Flink(i)
    PROVE  rest \in Seq(Items)
<1>1. ASSUME NEW q \in Seq(Items), NEW t \in After(q, i) PROVE t \in Seq(Items)
  <2>1. PICK n \in 1 .. Len(q) : t = SubSeq(q, n + 1, Len(q))
    BY <1>1 DEF After
  <2>2. QED
    BY <2>1
<1>2. rest \in After(g_free_q, i) \/ rest \in After(g_work_q, i) \/ rest = <<>>
  BY DEF Flink
<1>3. <<>> \in Seq(Items)
  OBVIOUS
<1>4. QED
  BY <1>1, <1>2, <1>3

(* Every variable keeps its type under every step of callers, workers, shell and power. *)
LEMMA TypeStep == TypeOK /\ [Next]_vars => TypeOK'
<1> SUFFICES ASSUME TypeOK, [Next]_vars PROVE TypeOK'
    OBVIOUS
<1> USE QueueAssumption DEF TypeOK, FdTypes, QueueTypes, ClientTypes, WorkerTypes, ShellTypes,
        Workers, None, Owning, Leaving
<1>1. ASSUME NEW c \in Clients, NEW r \in Requests, dm_call(c, r) PROVE TypeOK'
  BY <1>1 DEF dm_call, queueVars, fdVars, shellVars
<1>2. ASSUME NEW c \in Clients, ClientStep(c) PROVE TypeOK'
  <2>1. CASE reuse_work_item(c)
    <3>1. Head(g_free_q) \in Items /\ Tail(g_free_q) \in Seq(Items)
      BY <2>1 DEF reuse_work_item
    <3>2. QED
      BY <2>1, <3>1 DEF reuse_work_item, fdVars, shellVars
  <2>2. CASE no_free_item(c)
    BY <2>2 DEF no_free_item, queueVars, fdVars, shellVars
  <2>3. ASSUME NEW n \in 1 .. MaxChunks, malloc_work_items(c, n) PROVE TypeOK'
    <3>1. <<n, 0>> \in Items /\ Others(n) \in Seq(Items)
      BY DEF Items, Others
    <3>2. g_free_q' \in Seq(Items) /\ chunks' \subseteq 1 .. MaxChunks
      BY <2>3, <3>1 DEF malloc_work_items
    <3> HIDE DEF Items
    <3>3. QED
      BY <2>3, <3>1, <3>2 DEF malloc_work_items, fdVars, shellVars
  <2>4. CASE malloc_fails(c)
    BY <2>4 DEF malloc_fails, queueVars, fdVars, shellVars
  <2>5. CASE enqueue_work_item(c)
    <3>1. g_work_q' \in Seq(Items) /\ DOMAIN work' = Items
      BY <2>5 DEF enqueue_work_item
    <3>2. QED
      BY <2>5, <3>1, ZenonT(60) DEF enqueue_work_item, fdVars, shellVars
  <2>6. CASE post_work_queued(c)
    BY <2>6 DEF post_work_queued, Posted, fdVars, shellVars
  <2>7. CASE take_result(c)
    BY <2>7 DEF take_result, fdVars, shellVars
  <2>8. CASE destroy_work_item(c)
    <3>1. g_free_q' \in Seq(Items) /\ DOMAIN work' = Items
      BY <2>8 DEF destroy_work_item
    <3>2. QED
      BY <2>8, <3>1 DEF destroy_work_item, fdVars, shellVars
  <2>9. QED
    BY <1>2, <2>1, <2>2, <2>3, <2>4, <2>5, <2>6, <2>7, <2>8 DEF ClientStep
<1>3. ASSUME NEW w \in Workers, WorkerStep(w) PROVE TypeOK'
  <2> USE DEF Goto
  <2>1. CASE init_queues(w)
      <3>1. FdTypes'
        BY <2>1 DEF init_queues, clientVars, shellVars
      <3>2. QueueTypes'
        BY <2>1 DEF init_queues, clientVars, shellVars
      <3>3. ClientTypes'
        BY <2>1 DEF init_queues, clientVars, shellVars
      <3>4. WorkerTypes'
        BY <2>1 DEF init_queues, clientVars, shellVars
      <3>5. ShellTypes'
        BY <2>1 DEF init_queues, clientVars, shellVars
      <3>6. QED
        BY <3>1, <3>2, <3>3, <3>4, <3>5 DEF TypeOK
  <2>2. CASE open_file(w)
    BY <2>2 DEF open_file, queueVars, clientVars, shellVars
  <2>3. CASE open_fails(w)
      <3>1. FdTypes'
        BY <2>3 DEF open_fails, queueVars, clientVars
      <3>2. QueueTypes'
        BY <2>3 DEF open_fails, queueVars, clientVars
      <3>3. ClientTypes'
        BY <2>3 DEF open_fails, queueVars, clientVars
      <3>4. WorkerTypes'
        BY <2>3 DEF open_fails, queueVars, clientVars
      <3>5. ShellTypes'
        BY <2>3 DEF open_fails, queueVars, clientVars
      <3>6. QED
        BY <3>1, <3>2, <3>3, <3>4, <3>5 DEF TypeOK
  <2>4. CASE boot_restart(w)
    BY <2>4 DEF boot_restart, queueVars, clientVars, fdVars, shellVars
  <2>5. CASE publish_fd(w)
    BY <2>5 DEF publish_fd, queueVars, clientVars
  <2>6. CASE check_exit(w)
    BY <2>6 DEF check_exit, queueVars, clientVars, shellVars
  <2>7. CASE skip_sleep(w) \/ enter_sleep(w)
    BY <2>7 DEF skip_sleep, enter_sleep, queueVars, clientVars, fdVars, shellVars
  <2>8. CASE wake_up(w)
    BY <2>8 DEF wake_up, clientVars, fdVars, shellVars
  <2>9. CASE dequeue_work_item(w)
    <3>1. Head(g_work_q) \in Items /\ Tail(g_work_q) \in Seq(Items)
      BY <2>9 DEF dequeue_work_item
    <3>2. QED
      BY <2>9, <3>1 DEF dequeue_work_item, clientVars, fdVars, shellVars
  <2>10. CASE execute(w)
      <3>1. FdTypes'
        BY <2>10 DEF execute, clientVars, fdVars, shellVars
      <3>2. QueueTypes'
        <4>1. wait_sem' = [wait_sem EXCEPT ![cur[w]] = wait_sem[cur[w]] + 1]
          BY <2>10 DEF execute
        <4>2. wait_sem' \in [Items -> Nat]
          <5>1. CASE cur[w] \in Items
            BY <4>1, <5>1
          <5>2. CASE cur[w] \notin Items
            <6>1. wait_sem' = wait_sem
              BY <4>1, <5>2
            <6>2. QED
              BY <6>1
          <5>3. QED
            BY <5>1, <5>2
        <4>3. DOMAIN work' = Items
          BY <2>10 DEF execute
        <4>4. QED
          BY <2>10, <4>2, <4>3 DEF execute, shellVars
      <3>3. ClientTypes'
        BY <2>10 DEF execute, clientVars, fdVars, shellVars
      <3>4. WorkerTypes'
        BY <2>10 DEF execute, clientVars, fdVars, shellVars
      <3>5. ShellTypes'
        BY <2>10 DEF execute, clientVars, fdVars, shellVars
      <3>6. QED
        BY <3>1, <3>2, <3>3, <3>4, <3>5 DEF TypeOK
  <2>11. CASE drained(w)
    BY <2>11 DEF drained, queueVars, clientVars, fdVars, shellVars
  <2>12. CASE close_file(w)
    BY <2>12 DEF close_file, queueVars, clientVars, shellVars
  <2>13. CASE read_free_head(w) \/ unlink_free_head(w) \/ destroy_queues(w)
    <3>1. CASE read_free_head(w)
      <4>1. Head(g_free_q) \in Items
        BY <3>1 DEF read_free_head
      <4>2. QED
        BY <3>1, <4>1 DEF read_free_head, queueVars, clientVars, fdVars, shellVars
    <3>2. CASE unlink_free_head(w)
      <4>1. g_free_q' \in Seq(Items)
        BY <3>2, FlinkType DEF unlink_free_head
      <4>2. QED
        BY <3>2, <4>1 DEF unlink_free_head, clientVars, fdVars, shellVars
    <3>3. CASE destroy_queues(w)
      BY <3>3 DEF destroy_queues, clientVars, fdVars, shellVars
    <3>4. QED
      BY <2>13, <3>1, <3>2, <3>3
  <2>14. QED
    BY <1>3, <2>1, <2>2, <2>3, <2>4, <2>5, <2>6, <2>7, <2>8, <2>9, <2>10, <2>11, <2>12, <2>13
       DEF WorkerStep, WorkerInit, WorkerLoop
<1>4. CASE start
  BY <1>4 DEF start, queueVars, clientVars, fdVars
<1>5. CASE stop
  BY <1>5 DEF stop, Posted, clientVars
<1>6. CASE PowerLoss
    <2>1. FdTypes'
      <3>1. g_task_should_exit' \in BOOLEAN
        BY <1>6, Zenon DEF PowerLoss
      <3>2. QED
        BY <1>6, <3>1 DEF PowerLoss
    <2>2. QueueTypes'
      BY <1>6 DEF PowerLoss
    <2>3. ClientTypes'
      BY <1>6 DEF PowerLoss
    <2>4. WorkerTypes'
      BY <1>6 DEF PowerLoss
    <2>5. ShellTypes'
      <3>1. starting' \in BOOLEAN /\ raced' \in BOOLEAN
        BY <1>6, Zenon DEF PowerLoss
      <3>2. QED
        BY <1>6, <3>1 DEF PowerLoss
    <2>6. QED
      BY <2>1, <2>2, <2>3, <2>4, <2>5 DEF TypeOK
<1>7. CASE UNCHANGED vars
  BY <1>7 DEF vars, queueVars, clientVars, fdVars, shellVars
<1>8. QED
  BY <1>1, <1>2, <1>3, <1>4, <1>5, <1>6, <1>7 DEF Next

(* The initial state is well typed. *)
LEMMA TypeInit == Init => TypeOK
<1> SUFFICES ASSUME Init PROVE TypeOK
    OBVIOUS
<1> USE QueueAssumption DEF Init, Workers, None, Owning
<1>0. g_task_should_exit \in BOOLEAN /\ starting \in BOOLEAN /\ raced \in BOOLEAN
  BY Zenon
<1>1. FdTypes
  BY <1>0 DEF FdTypes
<1>2. QueueTypes
  BY DEF QueueTypes
<1>3. ClientTypes
  BY DEF ClientTypes
<1>4. WorkerTypes
  BY DEF WorkerTypes
<1>5. ShellTypes
  BY <1>0 DEF ShellTypes, UNKNOWN
<1>6. QED
  BY <1>1, <1>2, <1>3, <1>4, <1>5 DEF TypeOK

(* Type correctness of the data manager. *)
THEOREM TypeCorrect == Spec => []TypeOK
<1>1. Init => TypeOK
  BY TypeInit
<1>2. TypeOK /\ [Next]_vars => TypeOK'
  BY TypeStep
<1>3. QED
  BY <1>1, <1>2, PTL DEF Spec
-----------------------------------------------------------------------------
(* What raced records is only forgotten when the power fails. *)
LEMMA StaysCalm == ASSUME [Next]_vars, ~raced', ~PowerLoss PROVE ~raced
<1>1. CASE \/ \E c \in Clients : (\E r \in Requests : dm_call(c, r)) \/ ClientStep(c)
           \/ start \/ stop \/ UNCHANGED vars
  BY <1>1 DEF dm_call, ClientStep, reuse_work_item, no_free_item, malloc_work_items,
              malloc_fails, enqueue_work_item, post_work_queued, take_result,
              destroy_work_item, start, stop, vars, shellVars
<1>2. CASE \E w \in Workers : WorkerStep(w)
  BY <1>2 DEF WorkerStep, WorkerInit, WorkerLoop, init_queues, open_file, open_fails,
              boot_restart, publish_fd, check_exit, skip_sleep, enter_sleep, wake_up,
              dequeue_work_item, execute, drained, close_file, read_free_head,
              unlink_free_head, destroy_queues, shellVars
<1>3. QED
  BY <1>1, <1>2 DEF Next

(* A worker moves alone, and from a place where it runs. *)
LEMMA WorkerMoves ==
    ASSUME TypeOK, NEW w \in Workers, WorkerStep(w)
    PROVE  /\ wpc[w] \notin {"off", "dead"}
           /\ \A v \in Workers : v # w => wpc'[v] = wpc[v]
           /\ wpc'[w] \in Leaving => wpc[w] \in Leaving \/ close_file(w)
           /\ wpc[w] \in Leaving => wpc'[w] \in Leaving \/ destroy_queues(w)
BY DEF TypeOK, WorkerTypes, Goto, Leaving, WorkerStep, WorkerInit, WorkerLoop, init_queues,
       open_file, open_fails, boot_restart, publish_fd, check_exit, skip_sleep, enter_sleep,
       wake_up, dequeue_work_item, execute, drained, close_file, read_free_head,
       unlink_free_head, destroy_queues

(* A worker that gives items back keeps having nobody beside it, or it is recorded. *)
LEMMA BesideStep ==
    ASSUME TypeOK, NobodyBeside, [Next]_vars, ~raced'
    PROVE  NobodyBeside'
<1> USE DEF NobodyBeside, Alone
<1>1. ASSUME NEW c \in Clients, NEW r \in Requests, dm_call(c, r) PROVE NobodyBeside'
  <2>1. CASE Accepting
    BY <1>1, <2>1 DEF dm_call, SomeoneLeaves
  <2>2. CASE ~Accepting
    BY <1>1, <2>2 DEF dm_call
  <2>3. QED
    BY <2>1, <2>2
<1>2. ASSUME NEW c \in Clients, ClientStep(c) PROVE NobodyBeside'
  <2>1. pc[c] # "idle" /\ UNCHANGED wpc
    BY <1>2 DEF ClientStep, reuse_work_item, no_free_item, malloc_work_items,
                malloc_fails, enqueue_work_item, post_work_queued, take_result,
                destroy_work_item
  <2>2. QED
    BY <2>1
<1>3. ASSUME NEW w \in Workers, WorkerStep(w), NEW v \in Workers, wpc'[v] \in Leaving
      PROVE  Alone(v)'
  <2>1. UNCHANGED pc
    BY <1>3 DEF WorkerStep, WorkerInit, WorkerLoop, init_queues, open_file, open_fails,
                boot_restart, publish_fd, check_exit, skip_sleep, enter_sleep, wake_up,
                dequeue_work_item, execute, drained, close_file, read_free_head,
                unlink_free_head, destroy_queues, clientVars
  <2>2. v = w
    BY <1>3, WorkerMoves
  <2>3. close_file(w) => Alone(w)
    BY DEF close_file
  <2>4. QED
    BY <1>3, <2>1, <2>2, <2>3, WorkerMoves
<1>4. CASE start
  <2>1. \A w \in Workers : wpc[w] \notin Leaving /\ wpc'[w] \in {wpc[w], "init"}
    BY <1>4 DEF start, SomeoneLeaves, TypeOK, WorkerTypes
  <2>2. QED
    BY <2>1 DEF Leaving
<1>5. CASE stop \/ UNCHANGED vars
  BY <1>5 DEF stop, vars, clientVars
<1>6. CASE PowerLoss
  BY <1>6 DEF PowerLoss, Leaving
<1>7. QED
  BY <1>1, <1>2, <1>3, <1>4, <1>5, <1>6 DEF Next

(* Hence nobody is giving items back beside a caller. *)
LEMMA NobodyLeaves ==
    ASSUME NobodyBeside, NEW c \in Clients, pc[c] # "idle"
    PROVE  ~SomeoneLeaves
BY DEF NobodyBeside, Alone, SomeoneLeaves

(* A step that leaves the items, the callers and the queues alone, and no  *)
(* worker in or out of a handler, keeps every part.                        *)
LEMMA QuietStep ==
    ASSUME Parts, NobodyBeside', UNCHANGED partVars,
           SomeoneLeaves => SomeoneLeaves' \/ g_free_q = <<>>,
           \A w \in Workers : wpc'[w] = "exec" => wpc[w] = "exec" /\ cur'[w] = cur[w]
    PROVE  Parts'
<1>1. EnqueueFresh' /\ Exclusive' /\ FreeDistinct'
  BY DEF Parts, partVars, EnqueueFresh, Exclusive, FreeDistinct
<1>2. Allocated'
  BY DEF Parts, partVars, Allocated
<1>3. QueueDistinct'
  BY DEF Parts, partVars, QueueDistinct
<1>4. QueuePending' /\ CurPending'
  BY DEF Parts, partVars, QueuePending, CurPending, Pending
<1>5. QED
  BY <1>1, <1>2, <1>3, <1>4 DEF Parts

(* A caller moving between places where it owns no item changes nothing either. *)
LEMMA CallerStep ==
    ASSUME TypeOK, Parts, NobodyBeside',
           NEW c \in Clients, NEW to \in {"idle", "create", "malloc"},
           pc[c] \in {"idle", "create", "malloc"},
           pc' = [pc EXCEPT ![c] = to],
           UNCHANGED <<g_free_q, chunks, item, wait_sem, g_work_q, cur, wpc>>
    PROVE  Parts'
<1> USE DEF TypeOK, ClientTypes, Owning
<1>1. \A d \in Clients : d # c => pc'[d] = pc[d]
  OBVIOUS
<1>2. pc'[c] = to
  OBVIOUS
<1>3. Allocated' /\ FreeDistinct'
  BY DEF Parts, Allocated, FreeDistinct, SomeoneLeaves
<1>4. EnqueueFresh'
  BY <1>1, <1>2 DEF Parts, EnqueueFresh
<1>5. Exclusive'
  BY <1>1, <1>2 DEF Parts, Exclusive
<1>6. QueueDistinct'
  BY DEF Parts, QueueDistinct
<1>7. \A i : Pending(i) => Pending(i)'
  BY <1>1, <1>2 DEF Pending
<1>8. QueuePending' /\ CurPending'
  BY <1>7 DEF Parts, QueuePending, CurPending
<1>9. QED
  BY <1>3, <1>4, <1>5, <1>6, <1>8 DEF Parts

(* A caller that gets an item nobody uses, fresh or from the free queue. *)
LEMMA ObtainStep ==
    ASSUME TypeOK, TypeOK', Parts, NobodyBeside', NEW c \in Clients, NEW i \in Items,
           pc[c] \in {"create", "malloc"},
           pc' = [pc EXCEPT ![c] = "enqueue"],
           item' = [item EXCEPT ![c] = i],
           wait_sem' = [wait_sem EXCEPT ![i] = 0],
           \A d \in Clients : pc[d] \in Owning => item[d] # i,
           FreeDistinct', chunks \subseteq chunks', i[1] \in chunks',
           \A n \in 1 .. Len(g_free_q') : g_free_q'[n] # i /\ g_free_q'[n][1] \in chunks',
           \A d \in Clients : pc[d] \in Owning =>
               \A n \in 1 .. Len(g_free_q') : g_free_q'[n] # item[d],
           UNCHANGED <<g_work_q, cur, wpc>>
    PROVE  Parts'
<1> USE DEF Owning
<1>1. /\ \A d \in Clients : d # c => pc'[d] = pc[d] /\ item'[d] = item[d]
      /\ pc'[c] = "enqueue" /\ item'[c] = i /\ wait_sem'[i] = 0
      /\ \A j \in Items : j # i => wait_sem'[j] = wait_sem[j]
  BY DEF TypeOK, ClientTypes, QueueTypes
<1>2. Allocated'
  BY DEF Allocated
<1>3. EnqueueFresh'
  BY <1>1 DEF Parts, EnqueueFresh, TypeOK, ClientTypes
<1>4. Exclusive'
  BY <1>1 DEF Parts, Exclusive
<1>5. QueueDistinct'
  BY DEF Parts, QueueDistinct
<1>6. \A j : Pending(j) => Pending(j)'
  BY <1>1 DEF Pending, TypeOK, ClientTypes
<1>7. QueuePending' /\ CurPending'
  BY <1>6 DEF Parts, QueuePending, CurPending
<1>8. QED
  BY <1>2, <1>3, <1>4, <1>5, <1>7 DEF Parts

(* The item of enqueue_work_item was nowhere and its caller is about to sleep on it. *)
LEMMA EnqueueStep ==
    ASSUME TypeOK, Parts, NobodyBeside', NEW c \in Clients, enqueue_work_item(c)
    PROVE  Parts'
<1> USE DEF enqueue_work_item, TypeOK, ClientTypes, QueueTypes
<1>1. /\ \A d \in Clients : d # c => pc'[d] = pc[d]
      /\ pc[c] = "enqueue" /\ pc'[c] = "post" /\ item' = item /\ wait_sem' = wait_sem
      /\ cur' = cur /\ wpc' = wpc /\ item[c] \in Items
  BY DEF Owning
<1>2. Allocated' /\ FreeDistinct' /\ EnqueueFresh' /\ Exclusive'
  <2>1. Allocated' /\ FreeDistinct'
    BY <1>1 DEF Parts, Allocated, FreeDistinct, SomeoneLeaves
  <2>2. EnqueueFresh'
    BY <1>1 DEF Parts, EnqueueFresh
  <2>3. Exclusive'
    BY <1>1 DEF Parts, Exclusive, Owning
  <2>4. QED
    BY <2>1, <2>2, <2>3
<1>3. ~Pending(item[c])
  BY <1>1 DEF Parts, Exclusive, Pending, Owning
<1>4. \A j : Pending(j) => Pending(j)'
  BY <1>1 DEF Pending
<1>5. Pending(item[c])'
  BY <1>1 DEF Parts, EnqueueFresh, Pending
<1>6. /\ Len(g_work_q') = Len(g_work_q) + 1
      /\ g_work_q'[Len(g_work_q) + 1] = item[c]
      /\ \A n \in 1 .. Len(g_work_q) : g_work_q'[n] = g_work_q[n]
      /\ Len(g_work_q) \in Nat
  BY <1>1
<1>7. QueueDistinct'
  BY <1>1, <1>3, <1>6 DEF Parts, QueueDistinct, QueuePending, CurPending
<1>8. QueuePending'
  BY <1>4, <1>5, <1>6 DEF Parts, QueuePending
<1>9. CurPending'
  BY <1>1, <1>4 DEF Parts, CurPending
<1>10. QED
  BY <1>2, <1>7, <1>8, <1>9 DEF Parts

(* Posting the worker does not touch the items. *)
LEMMA PostStep ==
    ASSUME TypeOK, Parts, NobodyBeside', NEW c \in Clients, post_work_queued(c)
    PROVE  Parts'
<1> USE DEF post_work_queued, TypeOK, ClientTypes
<1>1. /\ \A d \in Clients : d # c => pc'[d] = pc[d]
      /\ pc[c] = "post" /\ pc'[c] = "wait"
  OBVIOUS
<1>2. Allocated' /\ FreeDistinct'
  BY DEF Parts, Allocated, FreeDistinct, SomeoneLeaves
<1>3. EnqueueFresh'
  BY <1>1 DEF Parts, EnqueueFresh
<1>4. Exclusive'
  BY <1>1 DEF Parts, Exclusive, Owning
<1>5. QueueDistinct'
  BY DEF Parts, QueueDistinct
<1>6. \A j : Pending(j) => Pending(j)'
  BY <1>1 DEF Pending
<1>7. QueuePending' /\ CurPending'
  BY <1>6 DEF Parts, QueuePending, CurPending
<1>8. QED
  BY <1>2, <1>3, <1>4, <1>5, <1>7 DEF Parts

(* A caller only wakes on an item that is neither queued nor being executed. *)
LEMMA TakeStep ==
    ASSUME TypeOK, Parts, NobodyBeside', NEW c \in Clients, take_result(c)
    PROVE  Parts'
<1> USE DEF take_result, TypeOK, ClientTypes, QueueTypes
<1>1. /\ \A d \in Clients : d # c => pc'[d] = pc[d]
      /\ pc[c] = "wait" /\ pc'[c] = "destroy" /\ item[c] \in Items
      /\ wait_sem[item[c]] > 0
      /\ \A j \in Items : j # item[c] => wait_sem'[j] = wait_sem[j]
  BY DEF Owning
<1>2. Allocated' /\ FreeDistinct'
  BY DEF Parts, Allocated, FreeDistinct, SomeoneLeaves
<1>3. EnqueueFresh'
  BY <1>1 DEF Parts, EnqueueFresh, Exclusive, Owning
<1>4. Exclusive'
  BY <1>1 DEF Parts, Exclusive, Owning
<1>5. QueueDistinct'
  BY DEF Parts, QueueDistinct
<1>6. \A j : Pending(j) => Pending(j)'
  BY <1>1 DEF Pending, Owning
<1>7. QueuePending' /\ CurPending'
  BY <1>6 DEF Parts, QueuePending, CurPending
<1>8. QED
  BY <1>2, <1>3, <1>4, <1>5, <1>7 DEF Parts

(* The item a caller frees has no other user. *)
LEMMA DestroyStep ==
    ASSUME TypeOK, Parts, NobodyBeside', NEW c \in Clients, destroy_work_item(c)
    PROVE  Parts'
<1> USE DEF destroy_work_item, TypeOK, ClientTypes, QueueTypes
<1>1. /\ \A d \in Clients : d # c => pc'[d] = pc[d] /\ item'[d] = item[d]
      /\ pc[c] = "destroy" /\ pc'[c] = "idle" /\ item[c] \in Items
      /\ g_free_q' = <<item[c]>> \o g_free_q
  BY DEF Owning
<1>2. /\ Len(g_free_q') = Len(g_free_q) + 1 /\ Len(g_free_q) \in Nat /\ g_free_q'[1] = item[c]
      /\ \A n \in 1 .. Len(g_free_q') : n # 1 =>
             n - 1 \in 1 .. Len(g_free_q) /\ g_free_q'[n] = g_free_q[n - 1]
  BY <1>1
<1>3. Allocated' /\ FreeDistinct'
  <2>1. \A n \in 1 .. Len(g_free_q) : g_free_q[n] # item[c] /\ g_free_q[n][1] \in chunks
    BY <1>1, NobodyLeaves DEF Parts, Exclusive, Allocated, Owning
  <2>2. item[c][1] \in chunks
    BY <1>1 DEF Parts, Exclusive, Owning
  <2>3. Allocated'
    BY <1>2, <2>1, <2>2 DEF Allocated
  <2>4. FreeDistinct'
    BY <1>2, <2>1 DEF Parts, FreeDistinct
  <2>5. QED
    BY <2>3, <2>4
<1>4. EnqueueFresh'
  BY <1>1 DEF Parts, EnqueueFresh
<1>5. Exclusive'
  <2>1. \A d \in Clients : pc'[d] \in Owning => pc[d] \in Owning /\ item'[d] = item[d] /\ d # c
    BY <1>1 DEF Owning
  <2>2. pc[c] \in Owning
    BY <1>1 DEF Owning
  <2>3. ASSUME NEW d \in Clients, pc'[d] \in Owning, NEW n \in 1 .. Len(g_free_q')
        PROVE  g_free_q'[n] # item'[d]
    <3>1. item'[d] = item[d] /\ item[d] # item[c]
      BY <2>1, <2>2, <2>3 DEF Parts, Exclusive
    <3>2. CASE n = 1
      BY <1>2, <3>1, <3>2
    <3>3. CASE n # 1
      BY <1>2, <2>1, <2>3, <3>1, <3>3 DEF Parts, Exclusive
    <3>4. QED
      BY <3>2, <3>3
  <2>4. QED
    BY <2>1, <2>3 DEF Parts, Exclusive
<1>6. QueueDistinct'
  BY DEF Parts, QueueDistinct
<1>7. \A j : Pending(j) => Pending(j)'
  BY <1>1 DEF Pending
<1>8. QueuePending' /\ CurPending'
  BY <1>7 DEF Parts, QueuePending, CurPending
<1>9. QED
  BY <1>3, <1>4, <1>5, <1>6, <1>8 DEF Parts

(* A worker takes the first item of the queue, which no other worker has. *)
LEMMA DequeueStep ==
    ASSUME TypeOK, Parts, NobodyBeside', NEW w \in Workers, dequeue_work_item(w)
    PROVE  Parts'
<1> USE DEF dequeue_work_item, clientVars, Goto, TypeOK, QueueTypes, WorkerTypes
<1>1. /\ wpc[w] = "drain" /\ wpc'[w] = "exec" /\ cur'[w] = g_work_q[1]
      /\ \A v \in Workers : v # w => wpc'[v] = wpc[v] /\ cur'[v] = cur[v]
  OBVIOUS
<1>2. /\ Len(g_work_q) \in Nat \ {0} /\ Len(g_work_q') = Len(g_work_q) - 1
      /\ \A n \in 1 .. Len(g_work_q') : n + 1 \in 1 .. Len(g_work_q) /\ g_work_q'[n] = g_work_q[n + 1]
  OBVIOUS
<1>3. Allocated' /\ FreeDistinct' /\ EnqueueFresh' /\ Exclusive'
  <2>1. SomeoneLeaves => SomeoneLeaves'
    BY DEF SomeoneLeaves, Leaving
  <2>2. QED
    BY <2>1 DEF Parts, Allocated, FreeDistinct, EnqueueFresh, Exclusive
<1>4. QueueDistinct'
  <2>1. \A m, n \in 1 .. Len(g_work_q') : g_work_q'[m] = g_work_q'[n] => m = n
    BY <1>2 DEF Parts, QueueDistinct
  <2>2. \A v \in Workers : wpc'[v] = "exec" =>
            \A n \in 1 .. Len(g_work_q') : g_work_q'[n] # cur'[v]
    BY <1>1, <1>2 DEF Parts, QueueDistinct
  <2>3. \A u, v \in Workers : wpc'[u] = "exec" /\ wpc'[v] = "exec" /\ cur'[u] = cur'[v] => u = v
    BY <1>1, <1>2 DEF Parts, QueueDistinct
  <2>4. QED
    BY <2>1, <2>2, <2>3 DEF QueueDistinct
<1>5. \A j : Pending(j) => Pending(j)'
  BY DEF Pending
<1>6. QueuePending'
  BY <1>2, <1>5 DEF Parts, QueuePending
<1>7. CurPending'
  BY <1>1, <1>2, <1>5 DEF Parts, QueuePending, CurPending
<1>8. QED
  BY <1>3, <1>4, <1>6, <1>7 DEF Parts

(* Answering one item leaves the pending ones pending. *)
LEMMA ExecuteStep ==
    ASSUME TypeOK, Parts, NobodyBeside', NEW w \in Workers, execute(w)
    PROVE  Parts'
<1> USE DEF TypeOK, QueueTypes, WorkerTypes
<1>1. /\ wpc[w] = "exec" /\ wpc'[w] = "drain"
      /\ \A v \in Workers : v # w => wpc'[v] = wpc[v] /\ cur'[v] = cur[v]
      /\ UNCHANGED <<pc, item, g_free_q, g_work_q, chunks>>
      /\ wait_sem' = [wait_sem EXCEPT ![cur[w]] = wait_sem[cur[w]] + 1]
  BY DEF execute, Goto, clientVars
<1>2. \A j : j # cur[w] => wait_sem'[j] = wait_sem[j]
  BY <1>1
<1>3. Allocated' /\ FreeDistinct' /\ Exclusive'
  <2>1. SomeoneLeaves => SomeoneLeaves'
    BY <1>1 DEF SomeoneLeaves, Leaving
  <2>2. QED
    BY <1>1, <2>1 DEF Parts, Allocated, FreeDistinct, Exclusive
<1>4. EnqueueFresh'
  BY <1>1, <1>2 DEF Parts, EnqueueFresh, CurPending, Pending, Exclusive, Owning
<1>5. QueueDistinct'
  <2>1. \A v \in Workers : wpc'[v] = "exec" => wpc[v] = "exec" /\ cur'[v] = cur[v]
    BY <1>1
  <2>2. QED
    BY <1>1, <2>1 DEF Parts, QueueDistinct
<1>6. \A j : Pending(j) /\ j # cur[w] => Pending(j)'
  BY <1>1, <1>2 DEF Pending
<1>7. QueuePending'
  BY <1>1, <1>6 DEF Parts, QueuePending, QueueDistinct
<1>8. CurPending'
  BY <1>1, <1>6 DEF Parts, CurPending, QueueDistinct
<1>9. QED
  BY <1>3, <1>4, <1>5, <1>7, <1>8 DEF Parts

(* The elements of two sequences put together. *)
LEMMA Joined ==
    ASSUME NEW S, NEW s \in Seq(S), NEW t \in Seq(S)
    PROVE  /\ Len(s \o t) = Len(s) + Len(t) /\ Len(s) \in Nat /\ Len(t) \in Nat
           /\ \A n \in 1 .. Len(s \o t) :
                  /\ n <= Len(s) => (s \o t)[n] = s[n]
                  /\ n > Len(s) => n - Len(s) \in 1 .. Len(t) /\ (s \o t)[n] = t[n - Len(s)]
OBVIOUS

(* Every step of a caller keeps the parts. *)
LEMMA ClientParts ==
    ASSUME TypeOK, TypeOK', Parts, NobodyBeside', NEW c \in Clients, ClientStep(c)
    PROVE  Parts'
<1>1. CASE reuse_work_item(c)
  <2> DEFINE i == Head(g_free_q)
  <2>1. /\ g_free_q # <<>> /\ pc[c] = "create" /\ g_free_q' = Tail(g_free_q)
        /\ g_free_q \in Seq(Items)
    BY <1>1 DEF reuse_work_item, TypeOK, QueueTypes
  <2>2. /\ 1 \in 1 .. Len(g_free_q) /\ i = g_free_q[1] /\ i \in Items
        /\ \A n \in 1 .. Len(g_free_q') :
               n + 1 \in 1 .. Len(g_free_q) /\ n + 1 # 1 /\ g_free_q'[n] = g_free_q[n + 1]
    BY <2>1
  <2>3. \A n \in 1 .. Len(g_free_q) : g_free_q[n][1] \in chunks
    BY <2>1, NobodyLeaves DEF Parts, Allocated
  <2>4. /\ \A m, n \in 1 .. Len(g_free_q) : g_free_q[m] = g_free_q[n] => m = n
        /\ \A d \in Clients : pc[d] \in Owning =>
               \A n \in 1 .. Len(g_free_q) : g_free_q[n] # item[d]
    BY DEF Parts, FreeDistinct, Exclusive
  <2>5. /\ pc' = [pc EXCEPT ![c] = "enqueue"] /\ item' = [item EXCEPT ![c] = i]
        /\ wait_sem' = [wait_sem EXCEPT ![i] = 0]
        /\ chunks' = chunks /\ UNCHANGED <<g_work_q, cur, wpc>>
    BY <1>1 DEF reuse_work_item
  <2>6. FreeDistinct'
    <3>1. SUFFICES ASSUME NEW m \in 1 .. Len(g_free_q'), NEW n \in 1 .. Len(g_free_q'),
                          g_free_q'[m] = g_free_q'[n]
                   PROVE  m = n
      BY DEF FreeDistinct
    <3>2. m + 1 = n + 1
      BY <2>2, <2>4, <3>1
    <3>3. QED
      BY <3>2
  <2>7. /\ \A d \in Clients : pc[d] \in Owning => item[d] # i
        /\ chunks \subseteq chunks' /\ i[1] \in chunks'
    BY <2>2, <2>3, <2>4, <2>5
  <2>8. \A n \in 1 .. Len(g_free_q') : g_free_q'[n] # i /\ g_free_q'[n][1] \in chunks'
    BY <2>2, <2>3, <2>4, <2>5
  <2>9. \A d \in Clients : pc[d] \in Owning =>
            \A n \in 1 .. Len(g_free_q') : g_free_q'[n] # item[d]
    BY <2>2, <2>4
  <2> HIDE DEF i
  <2>10. QED
    BY <2>1, <2>2, <2>5, <2>6, <2>7, <2>8, <2>9, ObtainStep
<1>2. ASSUME NEW k \in 1 .. MaxChunks, malloc_work_items(c, k) PROVE Parts'
  <2> DEFINE i == <<k, 0>>
             q == g_free_q
  <2>1. /\ pc[c] = "malloc" /\ k \notin chunks /\ chunks' = chunks \cup {k}
        /\ g_free_q' = Others(k) \o q /\ i \in Items /\ i[1] = k /\ q \in Seq(Items)
    BY <1>2, QueueAssumption DEF malloc_work_items, TypeOK, QueueTypes, Items
  <2>2. /\ Others(k) \in Seq(Items) /\ Len(Others(k)) = ChunkSize - 1 /\ Len(q) \in Nat
        /\ \A n \in 1 .. ChunkSize - 1 : Others(k)[n] = <<k, ChunkSize - n>>
    BY <2>1, QueueAssumption DEF Others, Items
  <2>3. /\ Len(g_free_q') = (ChunkSize - 1) + Len(q)
        /\ \A n \in 1 .. Len(g_free_q') :
               IF n <= ChunkSize - 1 THEN g_free_q'[n] = <<k, ChunkSize - n>>
               ELSE /\ n - (ChunkSize - 1) \in 1 .. Len(q)
                    /\ g_free_q'[n] = q[n - (ChunkSize - 1)]
    <3> DEFINE o == Others(k)
    <3>1. /\ o \in Seq(Items) /\ Len(o) = ChunkSize - 1 /\ g_free_q' = o \o q
          /\ \A n \in 1 .. ChunkSize - 1 : o[n] = <<k, ChunkSize - n>>
      BY <2>1, <2>2
    <3> HIDE DEF o
    <3>2. /\ Len(g_free_q') = Len(o) + Len(q)
          /\ \A n \in 1 .. Len(g_free_q') :
                 /\ n <= Len(o) => g_free_q'[n] = o[n]
                 /\ n > Len(o) => n - Len(o) \in 1 .. Len(q) /\ g_free_q'[n] = q[n - Len(o)]
      <4> HIDE DEF q
      <4>1. /\ Len(o \o q) = Len(o) + Len(q)
            /\ \A n \in 1 .. Len(o \o q) :
                   /\ n <= Len(o) => (o \o q)[n] = o[n]
                   /\ n > Len(o) => n - Len(o) \in 1 .. Len(q) /\ (o \o q)[n] = q[n - Len(o)]
        <5>1. o \in Seq(Items)
          BY <3>1
        <5>2. q \in Seq(Items)
          BY <2>1
        <5>3. QED
          BY <5>1, <5>2, Joined
      <4>2. QED
        BY <3>1, <4>1
    <3>3. QED
      <4> HIDE DEF q
      <4>1. Len(g_free_q') = (ChunkSize - 1) + Len(q)
        BY <3>1, <3>2
      <4>2. ASSUME NEW n \in 1 .. Len(g_free_q'), n <= ChunkSize - 1
            PROVE  g_free_q'[n] = <<k, ChunkSize - n>>
        <5>1. n \in 1 .. ChunkSize - 1
          BY <2>2, <4>1, <4>2, QueueAssumption
        <5>2. QED
          BY <3>1, <3>2, <4>2, <5>1
      <4>3. ASSUME NEW n \in 1 .. Len(g_free_q'), ~(n <= ChunkSize - 1)
            PROVE  /\ n - (ChunkSize - 1) \in 1 .. Len(q)
                   /\ g_free_q'[n] = q[n - (ChunkSize - 1)]
        <5>1. n > Len(o)
          BY <2>2, <3>1, <4>1, <4>3, QueueAssumption
        <5>2. QED
          BY <3>1, <3>2, <5>1
      <4>4. QED
        BY <4>1, <4>2, <4>3
  <2>4. \A n \in 1 .. Len(q) : q[n][1] \in chunks /\ q[n][1] # k
    BY <2>1, NobodyLeaves DEF Parts, Allocated
  <2>5. \A d \in Clients : pc[d] \in Owning => item[d][1] \in chunks /\ item[d][1] # k
    BY <2>1 DEF Parts, Exclusive
  <2>6. /\ pc' = [pc EXCEPT ![c] = "enqueue"] /\ item' = [item EXCEPT ![c] = i]
        /\ wait_sem' = [wait_sem EXCEPT ![i] = 0] /\ UNCHANGED <<g_work_q, cur, wpc>>
    BY <1>2 DEF malloc_work_items
  <2>7. FreeDistinct'
    <3>1. SUFFICES ASSUME NEW m \in 1 .. Len(g_free_q'), NEW n \in 1 .. Len(g_free_q'),
                          g_free_q'[m] = g_free_q'[n]
                   PROVE  m = n
      BY DEF FreeDistinct
    <3>2. CASE m <= ChunkSize - 1 /\ n <= ChunkSize - 1
      BY <2>3, <3>1, <3>2, QueueAssumption
    <3>3. CASE m > ChunkSize - 1 /\ n > ChunkSize - 1
      <4>1. \A x, y \in 1 .. Len(q) : q[x] = q[y] => x = y
        BY DEF Parts, FreeDistinct
      <4>2. m - (ChunkSize - 1) = n - (ChunkSize - 1)
        <5> DEFINE x == m - (ChunkSize - 1)
                   y == n - (ChunkSize - 1)
        <5> HIDE DEF q
        <5>1. x \in 1 .. Len(q) /\ g_free_q'[m] = q[x]
          BY <2>3, <3>3, QueueAssumption
        <5>2. y \in 1 .. Len(q) /\ g_free_q'[n] = q[y]
          BY <2>3, <3>3, QueueAssumption
        <5> HIDE DEF x, y
        <5>3. x = y
          BY <3>1, <4>1, <5>1, <5>2
        <5>4. QED
          BY <5>3 DEF x, y
      <4>3. QED
        BY <4>2, QueueAssumption
    <3>4. CASE \/ m <= ChunkSize - 1 /\ n > ChunkSize - 1
               \/ m > ChunkSize - 1 /\ n <= ChunkSize - 1
      <4>1. \A x \in 1 .. Len(g_free_q') : g_free_q'[x][1] = k <=> x <= ChunkSize - 1
        BY <2>3, <2>4, QueueAssumption
      <4>2. QED
        BY <3>1, <3>4, <4>1, QueueAssumption
    <3>5. QED
      BY <3>2, <3>3, <3>4, QueueAssumption
  <2>8. \A d \in Clients : pc[d] \in Owning => item[d] # i
    BY <2>1, <2>5
  <2>9. \A n \in 1 .. Len(g_free_q') : g_free_q'[n] # i /\ g_free_q'[n][1] \in chunks'
    BY <2>1, <2>3, <2>4, QueueAssumption
  <2>10. ASSUME NEW d \in Clients, pc[d] \in Owning, NEW n \in 1 .. Len(g_free_q')
         PROVE  g_free_q'[n] # item[d]
    <3>1. \A m \in 1 .. Len(q) : q[m] # item[d]
      BY <2>10 DEF Parts, Exclusive
    <3>2. QED
      BY <2>3, <2>5, <2>10, <3>1, QueueAssumption
  <2> HIDE DEF i, q
  <2>11. QED
    BY <2>1, <2>6, <2>7, <2>8, <2>9, <2>10, ObtainStep
<1>3. CASE no_free_item(c)
  BY <1>3, CallerStep DEF no_free_item, queueVars
<1>4. CASE malloc_fails(c)
  BY <1>4, CallerStep DEF malloc_fails, queueVars
<1>5. QED
  BY <1>1, <1>2, <1>3, <1>4, EnqueueStep, PostStep, TakeStep, DestroyStep DEF ClientStep

(* A worker that leaves alone takes items off the free queue, whose callers are gone. *)
LEMMA UnlinkStep ==
    ASSUME TypeOK, Parts, NobodyBeside', NEW w \in Workers, unlink_free_head(w)
    PROVE  Parts'
<1> USE DEF TypeOK, QueueTypes, WorkerTypes
<1>1. /\ wpc[w] = "unlink" /\ wpc' = [wpc EXCEPT ![w] = "cleanup"]
      /\ g_free_q' \in Flink(cur[w]) /\ UNCHANGED <<pc, item, wait_sem, g_work_q>>
      /\ \A v \in Workers \ {w} : cur'[v] = cur[v]
  BY DEF unlink_free_head, Goto, clientVars
<1>2. \A c \in Clients : pc[c] = "idle"
  BY <1>1 DEF Parts, NobodyBeside, Alone, Leaving
<1>3. Len(g_work_q) = 0
  <2>1. ~(1 \in 1 .. Len(g_work_q))
    BY <1>2 DEF Parts, QueuePending, Pending
  <2>2. Len(g_work_q) \in Nat
    OBVIOUS
  <2>3. QED
    BY <2>1, <2>2
<1>4. FreeDistinct'
  <2>1. After(g_work_q, cur[w]) = {}
    BY <1>3 DEF After
  <2>2. CASE g_free_q' = <<>>
    BY <2>2 DEF FreeDistinct
  <2>3. CASE g_free_q' \in After(g_free_q, cur[w])
    <3>1. PICK n \in 1 .. Len(g_free_q) : g_free_q' = SubSeq(g_free_q, n + 1, Len(g_free_q))
      BY <2>3 DEF After
    <3>2. \A m \in 1 .. Len(g_free_q') : n + m \in 1 .. Len(g_free_q)
                                         /\ g_free_q'[m] = g_free_q[n + m]
      BY <3>1
    <3>3. SUFFICES ASSUME NEW l \in 1 .. Len(g_free_q'), NEW m \in 1 .. Len(g_free_q'),
                          g_free_q'[l] = g_free_q'[m]
                   PROVE  l = m
      BY DEF FreeDistinct
    <3>4. n + l = n + m
      BY <3>2, <3>3 DEF Parts, FreeDistinct
    <3>5. QED
      BY <3>4
  <2>4. QED
    BY <1>1, <2>1, <2>2, <2>3 DEF Flink
<1>5. Allocated'
  <2>1. wpc'[w] \in Leaving
    BY <1>1 DEF Leaving
  <2>2. QED
    BY <2>1 DEF Allocated, SomeoneLeaves
<1>6. EnqueueFresh' /\ Exclusive' /\ QueuePending' /\ QueueDistinct'
  BY <1>1, <1>2, <1>3 DEF EnqueueFresh, Exclusive, QueuePending, QueueDistinct, Owning, Parts
<1>7. \A v \in Workers : wpc'[v] # "exec"
  BY <1>1 DEF Parts, NobodyBeside, Alone, Leaving
<1>8. QED
  BY <1>4, <1>5, <1>6, <1>7 DEF Parts, CurPending, QueueDistinct

(* Every step of a worker task keeps the parts. *)
LEMMA WorkerParts ==
    ASSUME TypeOK, Parts, NobodyBeside', NEW w \in Workers, WorkerStep(w)
    PROVE  Parts'
<1> USE DEF TypeOK, WorkerTypes, Goto
<1>1. CASE init_queues(w)
  <2>1. /\ UNCHANGED <<chunks, pc, item, wait_sem, cur>>
        /\ g_free_q' = <<>> /\ g_work_q' = <<>>
        /\ \A v \in Workers : wpc'[v] = "exec" => wpc[v] = "exec"
    BY <1>1 DEF init_queues, clientVars
  <2>2. Allocated' /\ FreeDistinct' /\ EnqueueFresh' /\ Exclusive'
    BY <2>1 DEF Parts, Allocated, FreeDistinct, EnqueueFresh, Exclusive
  <2>3. QueueDistinct'
    BY <2>1 DEF Parts, QueueDistinct
  <2>4. QueuePending' /\ CurPending'
    BY <2>1 DEF Parts, QueuePending, CurPending, Pending
  <2>5. QED
    BY <2>2, <2>3, <2>4 DEF Parts
<1>2. CASE open_file(w) \/ open_fails(w) \/ boot_restart(w) \/ publish_fd(w)
  <2>1. /\ UNCHANGED partVars
        /\ \A v \in Workers : wpc'[v] = "exec" => wpc[v] = "exec" /\ cur'[v] = cur[v]
        /\ \A v \in Workers : wpc[v] \in Leaving => wpc'[v] \in Leaving
    BY <1>2 DEF open_file, open_fails, boot_restart, publish_fd, partVars, queueVars, clientVars,
                Leaving
  <2>2. QED
    BY <2>1, QuietStep DEF SomeoneLeaves
<1>3. CASE \/ check_exit(w) \/ skip_sleep(w) \/ enter_sleep(w) \/ wake_up(w)
           \/ drained(w) \/ close_file(w) \/ read_free_head(w)
  <2>1. /\ UNCHANGED partVars
        /\ \A v \in Workers : wpc'[v] = "exec" => wpc[v] = "exec" /\ cur'[v] = cur[v]
        /\ \A v \in Workers : wpc[v] \in Leaving => wpc'[v] \in Leaving
    BY <1>3 DEF check_exit, skip_sleep, enter_sleep, wake_up, drained, close_file,
                read_free_head, partVars, queueVars, clientVars, Leaving
  <2>2. QED
    BY <2>1, QuietStep DEF SomeoneLeaves
<1>4. CASE destroy_queues(w)
  <2>1. /\ UNCHANGED partVars /\ g_free_q = <<>>
        /\ \A v \in Workers : wpc'[v] = "exec" => wpc[v] = "exec" /\ cur'[v] = cur[v]
    BY <1>4 DEF destroy_queues, partVars, clientVars
  <2>2. QED
    BY <2>1, QuietStep
<1>5. QED
  BY <1>1, <1>2, <1>3, <1>4, DequeueStep, ExecuteStep, UnlinkStep
     DEF WorkerStep, WorkerInit, WorkerLoop

(* Every step of the system keeps the inductive invariant. *)
LEMMA PartsStep == TypeOK /\ TypeOK' /\ PartsWhileCalm /\ [Next]_vars => PartsWhileCalm'
<1> SUFFICES ASSUME TypeOK, TypeOK', PartsWhileCalm, [Next]_vars, ~raced' PROVE Parts'
    BY DEF PartsWhileCalm
<1>1. CASE PowerLoss
  <2>1. /\ g_free_q' = <<>> /\ g_work_q' = <<>>
        /\ \A c \in Clients : pc'[c] = "idle"
        /\ \A w \in Workers : wpc'[w] = "off"
    BY <1>1 DEF PowerLoss
  <2>2. QED
    BY <2>1 DEF Parts, NobodyBeside, Leaving, Allocated, FreeDistinct, EnqueueFresh,
                QueueDistinct, Exclusive, QueuePending, CurPending, Owning
<1> SUFFICES ASSUME ~PowerLoss PROVE Parts'
  BY <1>1
<1>2. Parts /\ NobodyBeside'
  BY StaysCalm, BesideStep DEF PartsWhileCalm, Parts
<1>3. ASSUME NEW c \in Clients, NEW r \in Requests, dm_call(c, r) PROVE Parts'
  <2>1. CASE Accepting
    BY <1>2, <1>3, <2>1, CallerStep DEF dm_call, queueVars
  <2>2. CASE ~Accepting
    BY <1>2, <1>3, <2>2, QuietStep DEF dm_call, queueVars, partVars, SomeoneLeaves
  <2>3. QED
    BY <2>1, <2>2
<1>4. CASE start \/ stop \/ UNCHANGED vars
  <2>1. UNCHANGED partVars /\ UNCHANGED cur
    BY <1>4 DEF start, stop, vars, partVars, queueVars, clientVars
  <2>2. /\ \A v \in Workers : wpc'[v] = "exec" => wpc[v] = "exec"
        /\ SomeoneLeaves => SomeoneLeaves'
    BY <1>4 DEF start, stop, vars, TypeOK, WorkerTypes, SomeoneLeaves
  <2>3. QED
    BY <1>2, <2>1, <2>2, QuietStep
<1>5. QED
  BY <1>2, <1>3, <1>4, ClientParts, WorkerParts DEF Next

(* Initially nothing is queued, executed or owned. *)
LEMMA PartsInit == Init => Parts
<1> SUFFICES ASSUME Init PROVE Parts
    OBVIOUS
<1>1. /\ g_free_q = <<>> /\ g_work_q = <<>>
      /\ \A c \in Clients : pc[c] = "idle"
      /\ \A w \in Workers : wpc[w] = "off"
  BY DEF Init
<1>2. QED
  BY <1>1 DEF Parts, NobodyBeside, Leaving, Allocated, FreeDistinct, EnqueueFresh,
              QueueDistinct, Exclusive, QueuePending, CurPending, Owning

(* The inductive invariant holds in every reachable state. *)
LEMMA IInvCorrect == Spec => [](TypeOK /\ PartsWhileCalm)
<1>1. Init => TypeOK /\ PartsWhileCalm
  BY TypeInit, PartsInit DEF PartsWhileCalm
<1>2. TypeOK /\ PartsWhileCalm /\ [Next]_vars => (TypeOK /\ PartsWhileCalm)'
  BY TypeStep, PartsStep
<1>3. QED
  BY <1>1, <1>2, PTL DEF Spec

(* As long as no worker has left beside a call or another worker,           *)
(* create_work_item hands out only items of chunks that exist, and none     *)
(* that another call still uses.                                            *)
THEOREM ItemsAreExclusive == Spec => []ItemsExclusive
<1>1. PartsWhileCalm => ItemsExclusive
  BY DEF PartsWhileCalm, Parts, Exclusive, ItemsExclusive
<1>2. QED
  BY <1>1, IInvCorrect, PTL

(* As long as no worker has left beside a call or another worker, a worker  *)
(* only executes, and the queue only holds, items whose caller waits        *)
(* unanswered.                                                              *)
THEOREM PendingItemsAreOwned == Spec => []PendingItemsHaveCallers
<1>1. PartsWhileCalm => PendingItemsHaveCallers
  BY DEF PartsWhileCalm, Parts, QueuePending, CurPending, Pending, PendingItemsHaveCallers
<1>2. QED
  BY <1>1, IInvCorrect, PTL
-----------------------------------------------------------------------------
(* The task of a start not made yet does not run, and only the one of the  *)
(* last start may still be on its way to its loop: the shell waits for it. *)
Coming == {"init", "open", "restart", "publish"}
Started ==
    \A w \in Workers :
        /\ w > starts => wpc[w] = "off"
        /\ wpc[w] \in Coming => starting /\ w = starts

(* Init and every step keep the order of the starts. *)
LEMMA StartedStep == TypeOK /\ Started /\ [Next]_vars => Started'
<1> SUFFICES ASSUME TypeOK, Started, [Next]_vars PROVE Started'
    OBVIOUS
<1> USE DEF TypeOK, WorkerTypes, Coming
<1>1. CASE \E c \in Clients : (\E r \in Requests : dm_call(c, r)) \/ ClientStep(c)
  <2>1. UNCHANGED <<wpc, starts, starting>>
    BY <1>1 DEF dm_call, ClientStep, reuse_work_item, no_free_item, malloc_work_items,
                malloc_fails, enqueue_work_item, post_work_queued, take_result,
                destroy_work_item, shellVars
  <2>2. QED
    BY <2>1 DEF Started
<1>2. ASSUME NEW w \in Workers, WorkerInit(w) PROVE Started'
  <2> USE DEF Goto, Started
  <2>1. CASE init_queues(w) \/ open_file(w) \/ boot_restart(w)
    BY <1>2, <2>1 DEF init_queues, open_file, boot_restart, shellVars
  <2>2. CASE open_fails(w) \/ publish_fd(w)
    <3>1. /\ wpc[w] \in Coming /\ wpc'[w] \in {"dead", "top"} /\ starts' = starts
          /\ \A v \in Workers : v # w => wpc'[v] = wpc[v]
      BY <2>2 DEF open_fails, publish_fd
    <3>2. \A v \in Workers : wpc'[v] \notin Coming
      BY <3>1
    <3>3. QED
      BY <3>1, <3>2
  <2>3. QED
    BY <1>2, <2>1, <2>2 DEF WorkerInit
<1>3. ASSUME NEW w \in Workers, WorkerLoop(w) PROVE Started'
  <2>1. /\ UNCHANGED <<starts, starting>>
        /\ wpc[w] # "off" /\ wpc'[w] \notin Coming
        /\ \A v \in Workers : v # w => wpc'[v] = wpc[v]
    BY <1>3 DEF WorkerLoop, check_exit, skip_sleep, enter_sleep, wake_up, dequeue_work_item,
                execute, drained, close_file, read_free_head, unlink_free_head,
                destroy_queues, shellVars, Goto
  <2>2. QED
    BY <2>1 DEF Started
<1>4. CASE start
  <2>1. /\ ~starting /\ starting' /\ starts \in Nat /\ starts' = starts + 1
        /\ \A v \in Workers : v # starts' => wpc'[v] = wpc[v]
    BY <1>4 DEF start, ShellTypes
  <2>2. ASSUME NEW v \in Workers PROVE v \in Nat
    BY DEF Workers
  <2>3. QED
    BY <2>1, <2>2 DEF Started
<1>5. CASE stop \/ UNCHANGED vars
  BY <1>5 DEF stop, vars, shellVars, Started
<1>6. CASE PowerLoss
  BY <1>6 DEF PowerLoss, Started
<1>7. QED
  BY <1>1, <1>2, <1>3, <1>4, <1>5, <1>6 DEF Next, WorkerStep

(* Hence it holds in every reachable state. *)
LEMMA StartedAlways == Spec => []Started
<1>1. Init => Started
  BY DEF Init, Started, Coming
<1>2. QED
  BY <1>1, StartedStep, TypeCorrect, PTL DEF Spec

(* Whoever queued an item posts the worker afterwards, and a post that was *)
(* taken has a worker empty the queue: something is always under way.      *)
QueueIsServed ==
    g_work_q # <<>> =>
        \/ g_work_queued_sema > 0
        \/ \E c \in Clients : pc[c] = "post"
        \/ \E v \in Workers : wpc[v] \in {"drain", "exec"}

(* A caller that queues an item is about to post. *)
LEMMA ServedByCallers ==
    ASSUME TypeOK, QueueIsServed, NEW c \in Clients, ClientStep(c)
    PROVE  QueueIsServed'
<1> USE DEF TypeOK, QueueTypes, ClientTypes
<1>1. CASE enqueue_work_item(c)
  <2>1. pc'[c] = "post"
    BY <1>1 DEF enqueue_work_item
  <2>2. QED
    BY <2>1 DEF QueueIsServed
<1>2. CASE post_work_queued(c)
  <2>1. g_work_queued_sema' > 0
    BY <1>2, QueueAssumption DEF post_work_queued, Posted
  <2>2. QED
    BY <2>1 DEF QueueIsServed
<1>3. CASE ~enqueue_work_item(c) /\ ~post_work_queued(c)
  <2>1. /\ UNCHANGED <<g_work_q, g_work_queued_sema, wpc>>
        /\ \A d \in Clients : pc[d] = "post" => pc'[d] = "post"
    BY <1>3 DEF ClientStep, reuse_work_item, no_free_item, malloc_work_items, malloc_fails,
                take_result, destroy_work_item, queueVars
  <2>2. QED
    BY <2>1 DEF QueueIsServed
<1>4. QED
  BY <1>1, <1>2, <1>3

(* A worker only takes the post to empty the queue. *)
LEMMA ServedByWorkers ==
    ASSUME TypeOK, QueueIsServed, NEW w \in Workers, WorkerStep(w)
    PROVE  QueueIsServed'
<1> USE DEF TypeOK, QueueTypes, WorkerTypes, Goto
<1>1. CASE init_queues(w) \/ drained(w)
  BY <1>1 DEF init_queues, drained, queueVars, QueueIsServed
<1>2. CASE wake_up(w) \/ dequeue_work_item(w) \/ execute(w)
  <2>1. wpc'[w] \in {"drain", "exec"}
    BY <1>2 DEF wake_up, dequeue_work_item, execute
  <2>2. QED
    BY <2>1 DEF QueueIsServed
<1>3. CASE \/ open_file(w) \/ open_fails(w) \/ boot_restart(w) \/ publish_fd(w)
           \/ check_exit(w) \/ skip_sleep(w) \/ enter_sleep(w) \/ close_file(w)
           \/ read_free_head(w) \/ unlink_free_head(w) \/ destroy_queues(w)
  <2>1. /\ UNCHANGED <<g_work_q, pc>> /\ g_work_queued_sema' \in {g_work_queued_sema, 1}
        /\ \A v \in Workers : wpc[v] \in {"drain", "exec"} => wpc'[v] \in {"drain", "exec"}
    BY <1>3 DEF open_file, open_fails, boot_restart, publish_fd, check_exit, skip_sleep,
                enter_sleep, close_file, read_free_head, unlink_free_head, destroy_queues,
                queueVars, clientVars
  <2>2. QED
    BY <2>1 DEF QueueIsServed
<1>4. QED
  BY <1>1, <1>2, <1>3 DEF WorkerStep, WorkerInit, WorkerLoop

(* A worker that sleeps in px4_sem_wait(&g_work_queued_sema) while items    *)
(* are queued has a post coming, for any number of callers, starts, stops   *)
(* and tasks.                                                               *)
THEOREM NobodySleepsBesideWork == Spec => []NoLostWakeup
<1>1. Init => QueueIsServed
  BY DEF Init, QueueIsServed
<1>2. TypeOK /\ Started /\ QueueIsServed /\ [Next]_vars => QueueIsServed'
  <2> SUFFICES ASSUME TypeOK, Started, QueueIsServed, [Next]_vars PROVE QueueIsServed'
      OBVIOUS
  <2>1. ASSUME NEW c \in Clients, NEW r \in Requests, dm_call(c, r) PROVE QueueIsServed'
    <3>1. /\ UNCHANGED <<g_work_q, g_work_queued_sema, wpc>>
          /\ \A d \in Clients : pc[d] = "post" => pc'[d] = "post"
      BY <2>1 DEF dm_call, queueVars, TypeOK, ClientTypes
    <3>2. QED
      BY <3>1 DEF QueueIsServed
  <2>2. CASE start
    <3>1. /\ UNCHANGED <<g_work_q, g_work_queued_sema, pc>>
          /\ wpc' = [wpc EXCEPT ![starts + 1] = "init"]
      BY <2>2 DEF start, queueVars, clientVars
    <3>2. ASSUME NEW v \in Workers, wpc[v] \in {"drain", "exec"} PROVE wpc'[v] = wpc[v]
      BY <3>1, <3>2 DEF Started, TypeOK, WorkerTypes, ShellTypes, Workers
    <3>3. QED
      BY <3>1, <3>2 DEF QueueIsServed
  <2>3. CASE stop
    BY <2>3, QueueAssumption DEF stop, Posted, clientVars, QueueIsServed, TypeOK, QueueTypes
  <2>4. CASE PowerLoss \/ UNCHANGED vars
    BY <2>4 DEF PowerLoss, QueueIsServed, vars, queueVars, clientVars
  <2>5. QED
    BY <2>1, <2>2, <2>3, <2>4, ServedByCallers, ServedByWorkers DEF Next
<1>3. QueueIsServed => NoLostWakeup
  BY DEF QueueIsServed, NoLostWakeup
<1>4. QED
  BY <1>1, <1>2, <1>3, TypeCorrect, StartedAlways, PTL DEF Spec
-----------------------------------------------------------------------------
(* Until the first stop nobody in a call is without a worker: callers are  *)
(* only admitted once the task of the last start is in its loop, where it  *)
(* stays, and no other start follows.  Nor does a worker leave.            *)
Loop == {"top", "sleep", "asleep", "drain", "exec"}
Running ==
    stops = 0 =>
        /\ ~g_task_should_exit
        /\ g_fd # None => ~starting /\ starts \in Workers /\ wpc[starts] \in Loop
        /\ g_fd = None => \A c \in Clients : pc[c] = "idle"
        /\ ~raced /\ \A w \in Workers : wpc[w] \notin Leaving \cup {"close"}

(* Admitting a caller, and every step inside a call, leaves the worker where it is. *)
LEMMA RunningByCallers ==
    ASSUME TypeOK, Running, NEW c \in Clients,
           (\E r \in Requests : dm_call(c, r)) \/ ClientStep(c)
    PROVE  Running'
<1>1. /\ UNCHANGED <<stops, g_task_should_exit, g_fd, starting, starts, wpc>>
      /\ stops = 0 /\ g_fd = None => UNCHANGED pc
  BY DEF dm_call, Accepting, ClientStep, reuse_work_item, no_free_item, malloc_work_items,
         malloc_fails, enqueue_work_item, post_work_queued, take_result, destroy_work_item,
         fdVars, shellVars, Running
<1>2. raced' => raced \/ SomeoneLeaves
  BY DEF dm_call, ClientStep, reuse_work_item, no_free_item, malloc_work_items,
         malloc_fails, enqueue_work_item, post_work_queued, take_result, destroy_work_item,
         shellVars
<1>3. QED
  BY <1>1, <1>2 DEF Running, SomeoneLeaves

(* The worker only leaves its loop, and only closes the door, on a stop. *)
LEMMA RunningByWorkers ==
    ASSUME TypeOK, Started, Running, NEW w \in Workers, WorkerStep(w)
    PROVE  Running'
<1> USE DEF TypeOK, WorkerTypes, ShellTypes, FdTypes, Goto
<1>1. CASE init_queues(w) \/ open_file(w) \/ open_fails(w) \/ boot_restart(w)
  <2>1. /\ wpc[w] \in Coming /\ UNCHANGED <<stops, g_fd, pc>>
        /\ g_task_should_exit' \in {FALSE, g_task_should_exit} /\ raced' = raced
        /\ \A v \in Workers : wpc'[v] \in {wpc[v], "open", "restart", "dead", "publish"}
    BY <1>1 DEF init_queues, open_file, open_fails, boot_restart, clientVars, fdVars, shellVars,
                Coming
  <2>2. stops = 0 => g_fd = None
    BY <2>1 DEF Started, Running
  <2>3. QED
    BY <2>1, <2>2 DEF Running, Leaving
<1>2. CASE publish_fd(w)
  <2>1. w = starts /\ starting
    BY <1>2 DEF publish_fd, Started, Coming
  <2>2. QED
    BY <1>2, <2>1 DEF publish_fd, clientVars, Running, Loop, Leaving
<1>3. CASE check_exit(w)
  BY <1>3 DEF check_exit, clientVars, shellVars, Running, Loop, Leaving
<1>4. CASE skip_sleep(w) \/ enter_sleep(w) \/ wake_up(w) \/ dequeue_work_item(w)
  BY <1>4 DEF skip_sleep, enter_sleep, wake_up, dequeue_work_item, clientVars, fdVars,
              shellVars, Running, Loop, Leaving
<1>5. CASE execute(w) \/ drained(w)
  BY <1>5 DEF execute, drained, clientVars, fdVars, shellVars, Running, Loop, Leaving
<1>6. CASE close_file(w) \/ read_free_head(w) \/ unlink_free_head(w) \/ destroy_queues(w)
  BY <1>6 DEF close_file, read_free_head, unlink_free_head, destroy_queues, clientVars, fdVars,
              shellVars, Running, Leaving
<1>7. QED
  BY <1>1, <1>2, <1>3, <1>4, <1>5, <1>6 DEF WorkerStep, WorkerInit, WorkerLoop

(* Nor is a second task started while the descriptor is open. *)
LEMMA RunningStep == TypeOK /\ Started /\ Running /\ [Next]_vars => Running'
<1> SUFFICES ASSUME TypeOK, Started, Running, [Next]_vars PROVE Running'
    OBVIOUS
<1>1. CASE start \/ UNCHANGED vars
  BY <1>1 DEF start, vars, clientVars, fdVars, shellVars, Running, Leaving, SomeoneLeaves,
              TypeOK, WorkerTypes
<1>2. CASE stop
  BY <1>2 DEF stop, TypeOK, ShellTypes, Running
<1>3. CASE PowerLoss
  BY <1>3 DEF PowerLoss, Running, Leaving
<1>4. QED
  BY <1>1, <1>2, <1>3, RunningByCallers, RunningByWorkers DEF Next

(* Where the item of a caller asleep on it may be. *)
Served(c) ==
    \/ \E n \in 1 .. Len(g_work_q) : g_work_q[n] = item[c]
    \/ \E w \in Workers : wpc[w] = "exec" /\ cur[w] = item[c]
    \/ wait_sem[item[c]] > 0
AllServed == stops = 0 => \A c \in Clients : pc[c] \in {"post", "wait"} => Served(c)

(* No step of a caller takes the item of another out of the queue or eats its answer. *)
LEMMA ServedAside ==
    ASSUME TypeOK, Parts, Parts', NEW c \in Clients, NEW d \in Clients,
           (\E r \in Requests : dm_call(c, r)) \/ ClientStep(c),
           pc'[d] \in {"post", "wait"}, pc[d] \in {"post", "wait"}, Served(d)
    PROVE  Served(d)'
<1> USE DEF TypeOK, ClientTypes, QueueTypes
<1>1. pc[d] \in Owning /\ pc'[d] \in Owning /\ item[d] \in Items
  BY DEF Owning
<1>2. CASE reuse_work_item(c)
  <2>1. Head(g_free_q) = g_free_q[1] /\ 1 \in 1 .. Len(g_free_q)
    BY <1>2 DEF reuse_work_item
  <2>2. item'[d] = item[d] /\ item[d] # Head(g_free_q)
    BY <1>1, <1>2, <2>1 DEF reuse_work_item, Parts, Exclusive
  <2>3. QED
    BY <1>2, <2>2 DEF reuse_work_item, Served
<1>3. ASSUME NEW k \in 1 .. MaxChunks, malloc_work_items(c, k) PROVE Served(d)'
  <2>1. d # c /\ item'[d] = item[d] /\ pc'[c] \in Owning /\ UNCHANGED <<g_work_q, wpc, cur>>
    BY <1>1, <1>3 DEF malloc_work_items, Owning
  <2>2. item[d] # item'[c]
    BY <1>1, <2>1 DEF Parts, Exclusive
  <2>3. wait_sem'[item[d]] = wait_sem[item[d]]
    <3>1. item'[c] = <<k, 0>>
      BY <1>3 DEF malloc_work_items
    <3>2. QED
      BY <1>1, <1>3, <2>2, <3>1 DEF malloc_work_items
  <2>4. QED
    BY <2>1, <2>3 DEF Served
<1>4. CASE enqueue_work_item(c)
  <2>1. /\ \A n \in 1 .. Len(g_work_q) : n \in 1 .. Len(g_work_q') /\ g_work_q'[n] = g_work_q[n]
        /\ UNCHANGED <<item, wpc, cur, wait_sem>>
    BY <1>1, <1>4 DEF enqueue_work_item, Owning
  <2>2. QED
    BY <2>1 DEF Served
<1>5. CASE take_result(c)
  <2>1. d # c /\ pc[c] \in Owning
    BY <1>5 DEF take_result, Owning
  <2>2. item[d] # item[c]
    BY <1>1, <2>1 DEF Parts, Exclusive
  <2>3. wait_sem'[item[d]] = wait_sem[item[d]]
    BY <1>1, <1>5, <2>2 DEF take_result
  <2>4. QED
    BY <1>5, <2>3 DEF take_result, Served
<1>6. CASE destroy_work_item(c)
  <2>1. d # c
    BY <1>6 DEF destroy_work_item
  <2>2. QED
    BY <1>6, <2>1 DEF destroy_work_item, Served
<1>7. CASE \/ \E r \in Requests : dm_call(c, r)
           \/ no_free_item(c) \/ malloc_fails(c) \/ post_work_queued(c)
  BY <1>7 DEF dm_call, no_free_item, malloc_fails, post_work_queued, queueVars, Served
<1>8. QED
  BY <1>2, <1>3, <1>4, <1>5, <1>6, <1>7 DEF ClientStep

(* A caller goes to sleep with its item on the queue. *)
LEMMA ServedByCaller ==
    ASSUME TypeOK, Parts, Parts', AllServed, NEW c \in Clients,
           (\E r \in Requests : dm_call(c, r)) \/ ClientStep(c)
    PROVE  AllServed'
<1> SUFFICES ASSUME stops' = 0, NEW d \in Clients, pc'[d] \in {"post", "wait"} PROVE Served(d)'
  BY DEF AllServed
<1> USE DEF TypeOK, ClientTypes, QueueTypes
<1>1. stops = 0
  BY DEF dm_call, ClientStep, reuse_work_item, no_free_item, malloc_work_items,
         malloc_fails, enqueue_work_item, post_work_queued, take_result, destroy_work_item,
         shellVars
<1>2. CASE pc[d] \in {"post", "wait"}
  BY <1>1, <1>2, ServedAside DEF AllServed
<1>3. CASE pc[d] \notin {"post", "wait"}
  <2>1. d = c /\ enqueue_work_item(c)
    BY <1>3 DEF dm_call, ClientStep, reuse_work_item, no_free_item, malloc_work_items,
           malloc_fails, enqueue_work_item, post_work_queued, take_result, destroy_work_item
  <2>2. item[c] \in Items
    BY <2>1 DEF enqueue_work_item, Owning
  <2>3. /\ Len(g_work_q') = Len(g_work_q) + 1 /\ Len(g_work_q) \in Nat
        /\ g_work_q'[Len(g_work_q) + 1] = item[c] /\ item' = item
    BY <2>1, <2>2 DEF enqueue_work_item
  <2>4. Len(g_work_q) + 1 \in 1 .. Len(g_work_q')
    BY <2>3
  <2>5. QED
    BY <2>1, <2>3, <2>4 DEF Served
<1>4. QED
  BY <1>2, <1>3

(* A worker moves an item from the queue into its hand, and answers it from there. *)
LEMMA ServedByWorker ==
    ASSUME TypeOK, Started, Running, AllServed, NEW w \in Workers, WorkerStep(w)
    PROVE  AllServed'
<1> SUFFICES ASSUME stops' = 0, NEW d \in Clients, pc'[d] \in {"post", "wait"} PROVE Served(d)'
  BY DEF AllServed
<1> USE DEF TypeOK, ClientTypes, QueueTypes, WorkerTypes, Goto
<1>1. UNCHANGED <<stops, pc, item>>
  BY DEF WorkerStep, WorkerInit, WorkerLoop, init_queues, open_file, open_fails, boot_restart,
         publish_fd, check_exit, skip_sleep, enter_sleep, wake_up, dequeue_work_item, execute,
         drained, close_file, read_free_head, unlink_free_head, destroy_queues, clientVars,
         shellVars
<1>2. Served(d) /\ item[d] \in Items
  BY <1>1 DEF AllServed, Owning
<1>3. CASE init_queues(w)
  <2>1. starting /\ g_fd # None
    BY <1>1, <1>3 DEF init_queues, Started, Running, Coming
  <2>2. QED
    BY <1>1, <2>1 DEF Running
<1>4. CASE dequeue_work_item(w)
  <2>1. /\ wpc[w] = "drain" /\ wpc'[w] = "exec" /\ cur'[w] = g_work_q[1]
        /\ \A v \in Workers : v # w => wpc'[v] = wpc[v] /\ cur'[v] = cur[v]
        /\ wait_sem' = wait_sem
    BY <1>4 DEF dequeue_work_item
  <2>2. \A n \in 1 .. Len(g_work_q) :
          n # 1 => n - 1 \in 1 .. Len(g_work_q') /\ g_work_q'[n - 1] = g_work_q[n]
    BY <1>4 DEF dequeue_work_item
  <2>3. CASE \E n \in 1 .. Len(g_work_q) : g_work_q[n] = item[d]
    <3>1. PICK n \in 1 .. Len(g_work_q) : g_work_q[n] = item[d]
      BY <2>3
    <3>2. CASE n = 1
      BY <1>1, <2>1, <3>1, <3>2 DEF Served
    <3>3. CASE n # 1
      BY <1>1, <2>2, <3>1, <3>3 DEF Served
    <3>4. QED
      BY <3>2, <3>3
  <2>4. CASE ~\E n \in 1 .. Len(g_work_q) : g_work_q[n] = item[d]
    BY <1>1, <1>2, <2>1, <2>4 DEF Served
  <2>5. QED
    BY <2>3, <2>4
<1>5. CASE execute(w)
  <2>1. /\ wpc[w] = "exec" /\ g_work_q' = g_work_q
        /\ \A v \in Workers : v # w => wpc'[v] = wpc[v] /\ cur'[v] = cur[v]
        /\ wait_sem' = [wait_sem EXCEPT ![cur[w]] = @ + 1]
    BY <1>5 DEF execute
  <2>2. cur[w] = item[d] => wait_sem'[item[d]] > 0
    BY <1>2, <2>1
  <2>3. wait_sem[item[d]] > 0 => wait_sem'[item[d]] > 0
    BY <1>2, <2>1
  <2>4. QED
    BY <1>1, <1>2, <2>1, <2>2, <2>3 DEF Served
<1>6. CASE ~init_queues(w) /\ ~dequeue_work_item(w) /\ ~execute(w)
  <2>1. /\ UNCHANGED <<g_work_q, wait_sem>>
        /\ \A v \in Workers : wpc[v] = "exec" => wpc'[v] = "exec" /\ cur'[v] = cur[v]
    BY <1>6 DEF WorkerStep, WorkerInit, WorkerLoop, open_file, open_fails, boot_restart,
         publish_fd, check_exit, skip_sleep, enter_sleep, wake_up, drained, close_file,
         read_free_head, unlink_free_head, destroy_queues, queueVars
  <2>2. QED
    BY <1>1, <1>2, <2>1 DEF Served
<1>7. QED
  BY <1>3, <1>4, <1>5, <1>6

(* Every step of the system keeps every sleeping caller's item somewhere. *)
LEMMA AllServedStep ==
    TypeOK /\ PartsWhileCalm /\ Started /\ Running /\ AllServed /\ [Next]_vars
        /\ PartsWhileCalm' /\ Running' => AllServed'
<1> SUFFICES ASSUME TypeOK, PartsWhileCalm, PartsWhileCalm', Started, Running, Running',
                    AllServed, [Next]_vars
             PROVE  AllServed'
    OBVIOUS
<1>1. CASE start
  <2>1. UNCHANGED <<g_work_q, wait_sem, cur, pc, item, stops>>
    BY <1>1 DEF start, queueVars, clientVars
  <2>2. \A v \in Workers : wpc[v] = "exec" => wpc'[v] = "exec"
    BY <1>1 DEF start, Started, TypeOK, WorkerTypes, ShellTypes, Workers
  <2>3. QED
    BY <2>1, <2>2 DEF AllServed, Served
<1>2. CASE stop
  BY <1>2 DEF stop, TypeOK, ShellTypes, AllServed
<1>3. CASE UNCHANGED vars
  BY <1>3 DEF vars, queueVars, clientVars, shellVars, AllServed, Served
<1>4. CASE PowerLoss
  BY <1>4 DEF PowerLoss, AllServed
<1>5. ASSUME NEW c \in Clients, (\E r \in Requests : dm_call(c, r)) \/ ClientStep(c)
      PROVE  AllServed'
  <2>1. stops' = stops
    BY <1>5 DEF dm_call, ClientStep, reuse_work_item, no_free_item, malloc_work_items,
                malloc_fails, enqueue_work_item, post_work_queued, take_result,
                destroy_work_item, shellVars
  <2>2. CASE stops' = 0
    <3>1. Parts /\ Parts'
      BY <2>1, <2>2 DEF Running, PartsWhileCalm
    <3>2. QED
      BY <1>5, <3>1, ServedByCaller
  <2>3. CASE stops' # 0
    BY <2>3 DEF AllServed
  <2>4. QED
    BY <2>2, <2>3
<1>6. QED
  BY <1>1, <1>2, <1>3, <1>4, <1>5, ServedByWorker DEF Next

(* As long as nobody has stopped the worker: whoever sleeps, or is about   *)
(* to, in enqueue_work_item_and_wait_for_result has its item on the queue, *)
(* in the hands of a worker or answered; the worker of the last start is   *)
(* in its loop; and it does not sleep beside the queue.  This is what      *)
(* EveryCallReturns rests on besides the scheduler.  (After a stop it      *)
(* fails: init_queues of the next start drops what was queued late.)       *)
THEOREM NoCallIsForgotten ==
    Spec => [](stops = 0 =>
                 /\ \A c \in Clients : pc[c] \in {"post", "wait"} =>
                        Served(c) /\ starts \in Workers /\ wpc[starts] \in Loop
                 /\ NoLostWakeup)
<1>1. Init => Running /\ AllServed
  BY DEF Init, Running, AllServed, Leaving
<1>2. Running /\ AllServed =>
        (stops = 0 => \A c \in Clients : pc[c] \in {"post", "wait"} =>
                          Served(c) /\ starts \in Workers /\ wpc[starts] \in Loop)
  BY DEF Running, AllServed
<1>3. QED
  BY <1>1, <1>2, RunningStep, AllServedStep, IInvCorrect, StartedAlways,
     NobodySleepsBesideWork, PTL DEF Spec
-----------------------------------------------------------------------------
(* A set that contains 0 and with every number the next contains them all. *)
LEMMA SetInduction ==
    ASSUME NEW S, 0 \in S, \A n \in Nat : n \in S => n + 1 \in S
    PROVE  Nat \subseteq S
<1> DEFINE T == {n \in Nat : n \notin S}
           R == OpToRel(<, Nat)
<1>1. SUFFICES ASSUME T # {} PROVE FALSE
  OBVIOUS
<1>2. T \subseteq Nat
  OBVIOUS
<1>3. IsWellFoundedOn(R, Nat)
  BY NatLessThanWellFounded
<1>4. PICK x \in T : \A y \in T : <<y, x>> \notin R
  <2> HIDE DEF T, R
  <2>1. QED
    BY <1>1, <1>2, <1>3, WFMin
<1>5. \A y \in T : ~ (y < x)
  BY <1>4 DEF OpToRel
<1>6. x # 0 /\ x - 1 \in Nat
  OBVIOUS
<1>7. x - 1 \in S
  BY <1>5, <1>6
<1>8. QED
  BY <1>6, <1>7

(* The recursion of g_key_offsets defines a table. *)
LEMMA KeyOffsetDef ==
    KeyOffset = [k \in 0 .. NumKeys |->
                    IF k = 0 THEN 0 ELSE KeyOffset[k-1] + MaxIndex[k-1]]
<1> DEFINE Table(n, f) ==
               f = [k \in 0 .. n |-> IF k = 0 THEN 0 ELSE f[k-1] + MaxIndex[k-1]]
           S == {n \in Nat : n <= NumKeys => \E f \in [0 .. n -> Nat] : Table(n, f)}
<1>1. 0 \in S
  <2> DEFINE f == [k \in 0 .. 0 |-> 0]
  <2>1. f \in [0 .. 0 -> Nat] /\ Table(0, f)
    OBVIOUS
  <2>2. QED
    BY <2>1
<1>2. ASSUME NEW n \in Nat, n \in S PROVE n + 1 \in S
  <2> SUFFICES ASSUME n + 1 <= NumKeys PROVE \E f \in [0 .. n + 1 -> Nat] : Table(n + 1, f)
      OBVIOUS
  <2>1. n <= NumKeys
    BY KeysAssumption
  <2>2. PICK f \in [0 .. n -> Nat] : Table(n, f)
    BY <1>2, <2>1
  <2> DEFINE g == [k \in 0 .. n + 1 |-> IF k = n + 1 THEN f[n] + MaxIndex[n] ELSE f[k]]
  <2>3. MaxIndex[n] \in Nat
    BY KeysAssumption DEF Keys
  <2>4. g \in [0 .. n + 1 -> Nat]
    BY <2>3
  <2>5. ASSUME NEW k \in 0 .. n + 1
        PROVE  g[k] = IF k = 0 THEN 0 ELSE g[k-1] + MaxIndex[k-1]
    <3>1. CASE k = n + 1
      BY <3>1
    <3>2. CASE k \in 0 .. n
      <4>1. f[k] = IF k = 0 THEN 0 ELSE f[k-1] + MaxIndex[k-1]
        BY <2>2, <3>2
      <4>2. g[k] = f[k] /\ (k # 0 => g[k-1] = f[k-1])
        BY <3>2
      <4>3. QED
        BY <4>1, <4>2
    <3>3. QED
      BY <3>1, <3>2
  <2>6. Table(n + 1, g)
    <3> HIDE DEF g
    <3>1. QED
      BY <2>4, <2>5
  <2>7. QED
    BY <2>4, <2>6
<1>3. NumKeys \in S
  <2> HIDE DEF S
  <2>1. QED
    BY <1>1, <1>2, SetInduction, KeysAssumption
<1>4. PICK f : f = [k \in 0 .. NumKeys |-> IF k = 0 THEN 0 ELSE f[k-1] + MaxIndex[k-1]]
  BY <1>3, KeysAssumption
<1>5. QED
  BY <1>4, Zenon DEF KeyOffset

(* Its entries, one after the other. *)
LEMMA KeyOffsetStep ==
    /\ KeyOffset[0] = 0
    /\ \A k \in Keys : KeyOffset[k + 1] = KeyOffset[k] + MaxIndex[k]
<1>1. ASSUME NEW k \in 0 .. NumKeys
      PROVE  KeyOffset[k] = IF k = 0 THEN 0 ELSE KeyOffset[k-1] + MaxIndex[k-1]
  BY KeyOffsetDef
<1>2. ASSUME NEW k \in Keys PROVE k + 1 \in 0 .. NumKeys /\ k + 1 # 0 /\ (k + 1) - 1 = k
  BY KeysAssumption DEF Keys
<1>3. 0 \in 0 .. NumKeys
  BY KeysAssumption
<1>4. QED
  BY <1>1, <1>2, <1>3

(* Keys follow each other, each with room for its items. *)
LEMMA KeyOffsetOrder ==
    \A k \in 0 .. NumKeys :
        /\ KeyOffset[k] \in Nat
        /\ \A j \in 0 .. k - 1 : KeyOffset[j] + MaxIndex[j] <= KeyOffset[k]
<1> DEFINE S == {n \in Nat : n <= NumKeys =>
                    /\ KeyOffset[n] \in Nat
                    /\ \A j \in 0 .. n - 1 :
                           KeyOffset[j] \in Nat /\ KeyOffset[j] + MaxIndex[j] <= KeyOffset[n]}
<1>1. 0 \in S
  BY KeyOffsetStep
<1>2. ASSUME NEW n \in Nat, n \in S PROVE n + 1 \in S
  <2> SUFFICES ASSUME n + 1 <= NumKeys
               PROVE  /\ KeyOffset[n + 1] \in Nat
                      /\ \A j \in 0 .. n : /\ KeyOffset[j] \in Nat
                                           /\ KeyOffset[j] + MaxIndex[j] <= KeyOffset[n + 1]
      OBVIOUS
  <2>1. n \in Keys /\ MaxIndex[n] \in Nat
    BY KeysAssumption DEF Keys
  <2>2. KeyOffset[n + 1] = KeyOffset[n] + MaxIndex[n]
    BY <2>1, KeyOffsetStep
  <2>3. /\ KeyOffset[n] \in Nat
        /\ \A j \in 0 .. n - 1 :
               KeyOffset[j] \in Nat /\ KeyOffset[j] + MaxIndex[j] <= KeyOffset[n]
    BY <1>2, KeysAssumption
  <2>4. \A j \in 0 .. n - 1 : MaxIndex[j] \in Nat
    BY KeysAssumption DEF Keys
  <2>5. \A j \in 0 .. n : j = n \/ j \in 0 .. n - 1
    OBVIOUS
  <2>6. QED
    BY <2>1, <2>2, <2>3, <2>4, <2>5
<1>3. Nat \subseteq S
  <2> HIDE DEF S
  <2>1. QED
    BY <1>1, <1>2, SetInduction
<1>4. QED
  BY <1>3

(* The sectors of a key are sectors of the file, and of no other key. *)
LEMMA KeysApart ==
    /\ NumSectors \in Nat
    /\ \A k \in Keys : /\ KeyOffset[k] \in Nat /\ MaxIndex[k] \in Nat \ {0}
                       /\ KeyOffset[k] + MaxIndex[k] <= NumSectors
    /\ \A j, k \in Keys : j < k => KeyOffset[j] + MaxIndex[j] <= KeyOffset[k]
<1>1. NumKeys \in 0 .. NumKeys /\ \A k \in Keys : k \in 0 .. NumKeys /\ k \in 0 .. NumKeys - 1
  BY KeysAssumption DEF Keys
<1>2. \A j, k \in Keys : j < k => j \in 0 .. k - 1
  BY KeysAssumption DEF Keys
<1>3. \A k \in Keys : MaxIndex[k] \in Nat \ {0}
  BY KeysAssumption
<1>4. QED
  BY <1>1, <1>2, <1>3, KeyOffsetOrder DEF NumSectors

(* calculate_offset never gives two item instances the same place on the   *)
(* card, nor one outside of the file.                                      *)
THEOREM ItemsApart ==
    ASSUME NEW i, NEW j, NEW m \in Nat, NEW n \in Nat,
           calculate_offset(i, m) # Err, calculate_offset(j, n) # Err
    PROVE  /\ calculate_offset(i, m) \in Sectors
           /\ calculate_offset(i, m) = calculate_offset(j, n) => i = j /\ m = n
<1>1. i \in Keys /\ m < MaxIndex[i] /\ calculate_offset(i, m) = KeyOffset[i] + m
  BY DEF calculate_offset
<1>2. j \in Keys /\ n < MaxIndex[j] /\ calculate_offset(j, n) = KeyOffset[j] + n
  BY DEF calculate_offset
<1>3. calculate_offset(i, m) \in Sectors
  BY <1>1, KeysApart DEF Sectors
<1>4. i \in Int /\ j \in Int
  BY <1>1, <1>2 DEF Keys
<1>5. i < j \/ i = j \/ j < i
  BY <1>4
<1>6. calculate_offset(i, m) = calculate_offset(j, n) => ~(i < j) /\ ~(j < i)
  BY <1>1, <1>2, KeysApart
<1>7. QED
  BY <1>1, <1>2, <1>3, <1>5, <1>6, KeysApart

-----------------------------------------------------------------------------
(* The file *)

\* What the file can be, and the work items
SectorEntries == [len : {0, 1}, pers : Persistence, val : Int, boot : Nat]
Files == [sec : [Sectors -> SectorEntries], end : Nat, ragged : BOOLEAN]
WorkEntries == [req : RequestType \cup {NoRequest}, result : Int]
FileOK == file \in Files /\ work \in [Items -> WorkEntries]

(* NewFile and what Put and Blank make of a file. *)
LEMMA NewFileType == NewFile \in Files
<1>1. Empty \in SectorEntries
  BY DEF Empty, SectorEntries, Persistence, POWER_ON, Torn
<1>2. NewFile.ragged \in BOOLEAN
  BY DEF NewFile
<1>3. QED
  BY <1>1, <1>2 DEF NewFile, Files

(* A sector that is written is the only one that changes. *)
LEMMA PutType ==
    ASSUME NEW f \in Files, NEW s \in Sectors, NEW e \in SectorEntries
    PROVE  /\ Put(f, s, e) \in Files
           /\ \A t \in Sectors : Put(f, s, e).sec[t] = IF t = s THEN e ELSE f.sec[t]
           /\ f.end <= Put(f, s, e).end
           /\ s < f.end => Put(f, s, e).end = f.end /\ Put(f, s, e).ragged = f.ragged
<1> DEFINE g == Put(f, s, e)
<1>1. g = [sec |-> g.sec, end |-> g.end, ragged |-> g.ragged]
  BY DEF Put
<1>2. g.sec = [f.sec EXCEPT ![s] = e] /\ f.sec \in [Sectors -> SectorEntries]
  BY DEF Put, Files
<1>3. f.end \in Nat /\ s \in Int /\ g.end = IF s >= f.end THEN s + 1 ELSE f.end
  BY DEF Put, Files, Sectors
<1>4. g.end \in Nat /\ f.end <= g.end
  BY <1>3, KeysApart DEF Sectors
<1>5. f.ragged \in BOOLEAN /\ g.ragged = (f.ragged \/ s >= f.end)
  BY DEF Put, Files
<1>6. g.ragged \in BOOLEAN
  BY <1>5
<1>7. s < f.end => ~(s >= f.end)
  BY <1>3
<1>8. s < f.end => g.ragged = f.ragged
  BY <1>5, <1>7
<1> HIDE DEF g
<1>9. QED
  BY <1>1, <1>2, <1>3, <1>4, <1>6, <1>7, <1>8 DEF Files, g

(* So are those that are cleared. *)
LEMMA BlankType ==
    ASSUME NEW f \in Files, NEW S
    PROVE  /\ Blank(f, S) \in Files
           /\ \A t \in Sectors : Blank(f, S).sec[t] = IF t \in S THEN Empty ELSE f.sec[t]
           /\ Blank(f, S).end = f.end /\ Blank(f, S).ragged = f.ragged
BY DEF Blank, Files, Empty, SectorEntries, Persistence, POWER_ON, Torn

\* What may become of a file under a request: every sector stays, is emptied or
\* gets an entry of this start; the file does not shrink, and as long as it
\* holds every sector it stays whole
Touched(f, g) ==
    /\ g \in Files
    /\ \A s \in Sectors : g.sec[s] = f.sec[s] \/ g.sec[s] = Empty \/ g.sec[s].boot = starts
    /\ f.end <= g.end /\ (f.end >= NumSectors => g.ragged = f.ragged)

\* What is to survive all resets is left alone
Survives(f, g) ==
    \A s \in Sectors : f.sec[s].len > 0 /\ f.sec[s].pers = POWER_ON => g.sec[s] = f.sec[s]

(* A file that stays as it is was not touched. *)
LEMMA Untouched == ASSUME NEW f \in Files PROVE Touched(f, f) /\ Survives(f, f)
BY DEF Touched, Survives, Files

(* A write touches the file. *)
LEMMA TouchedByPut ==
    ASSUME NEW f \in Files, NEW s \in Sectors, NEW v \in Int, NEW p \in Persistence,
           starts \in Nat
    PROVE  Touched(f, Put(f, s, Entry(v, p, starts)))
<1>1. Entry(v, p, starts) \in SectorEntries /\ Entry(v, p, starts).boot = starts
  BY DEF Entry, SectorEntries
<1>2. s < NumSectors /\ s \in Int /\ NumSectors \in Int /\ f.end \in Int
  BY KeysApart DEF Sectors, Files
<1>3. QED
  BY <1>1, <1>2, PutType DEF Touched

(* A clear touches the file. *)
LEMMA TouchedByBlank == ASSUME NEW f \in Files, NEW S PROVE Touched(f, Blank(f, S))
<1>1. f.end \in Nat
  BY DEF Files
<1>2. QED
  BY <1>1, BlankType DEF Touched

(* A clear of other entries leaves what is to survive alone. *)
LEMMA SurvivesBlank ==
    ASSUME NEW f \in Files, NEW S,
           \A s \in Sectors : s \in S => ~(f.sec[s].len > 0 /\ f.sec[s].pers = POWER_ON)
    PROVE  Survives(f, Blank(f, S))
BY BlankType DEF Survives

(* The fields of a dm_write request. *)
LEMMA WriteFields ==
    ASSUME NEW r \in RequestType \cup {NoRequest}, r.func = "write"
    PROVE  r.index \in Nat /\ r.item \in Nat /\ r.pers \in Persistence /\ r.val \in Values
<1>1. r \in [func : {"write"}, item : Nat, index : Nat, pers : Persistence, val : Values]
  BY DEF RequestType, NoRequest
<1>2. QED
  BY <1>1

(* A restart clears sectors that this reason clears, all of them unless it *)
(* meets an error.                                                         *)
LEMMA RestartOutcomes ==
    ASSUME NEW f, NEW reasn, NEW out \in _restart(f, reasn)
    PROVE  \E S : /\ \A s \in S : s \in Sectors /\ clear_entry(f.sec[s].pers, reasn)
                  /\ out[1] = Blank(f, S) /\ out[2] \in Int
                  /\ ~IoErrors => \A s \in Sectors :
                        f.sec[s].len > 0 /\ clear_entry(f.sec[s].pers, reasn) => s \in S
<1> DEFINE gone == {s \in Sectors : f.sec[s].len > 0 /\ clear_entry(f.sec[s].pers, reasn)}
           First(n) == {s \in gone : s < n}
<1>1. \/ out = <<Blank(f, gone), 0>>
      \/ IoErrors /\ \E n \in Sectors, e \in {0, Err} : out = <<Blank(f, First(n)), e>>
  <2>1. _restart(f, reasn) =
            {<<Blank(f, gone), 0>>}
            \cup (IF IoErrors
                  THEN {<<Blank(f, {s \in gone : s < n}), r>> : n \in Sectors, r \in {0, Err}}
                  ELSE {})
    BY DEF _restart
  <2> HIDE DEF gone
  <2>2. QED
    BY <2>1
<1>2. CASE out = <<Blank(f, gone), 0>>
  <2>1. /\ \A s \in gone : s \in Sectors /\ clear_entry(f.sec[s].pers, reasn)
        /\ \A s \in Sectors : f.sec[s].len > 0 /\ clear_entry(f.sec[s].pers, reasn) => s \in gone
    OBVIOUS
  <2> HIDE DEF gone
  <2>2. out[1] = Blank(f, gone) /\ out[2] = 0 /\ 0 \in Int
    BY <1>2
  <2>3. QED
    BY <2>1, <2>2
<1>3. ASSUME IoErrors, NEW n \in Sectors, NEW e \in {0, Err}, out = <<Blank(f, First(n)), e>>
      PROVE  /\ \A s \in First(n) : s \in Sectors /\ clear_entry(f.sec[s].pers, reasn)
             /\ out[1] = Blank(f, First(n)) /\ out[2] \in Int
  <2>1. out[1] = Blank(f, First(n)) /\ out[2] = e
    <3> HIDE DEF First
    <3>1. QED
      BY <1>3
  <2>2. e \in Int
    BY DEF Err
  <2>3. QED
    BY <2>1, <2>2
<1>4. QED
  BY <1>1, <1>2, <1>3

(* What the handlers do to the file, whichever of their outcomes it is. *)
LEMMA HandlersTouch ==
    ASSUME NEW f \in Files, NEW r \in RequestType \cup {NoRequest}, starts \in Nat,
           NEW out \in Handle(f, r)
    PROVE  /\ Touched(f, out[1]) /\ out[2] \in Int
           /\ r.func \notin {"write", "clear"} => Survives(f, out[1])
<1>1. CASE out[1] = f /\ out[2] \in Int
  BY <1>1, Untouched
<1>2. CASE g_task_fd \in openFds /\ r.func = "write"
  <2>1. r.index \in Nat /\ r.pers \in Persistence /\ r.val \in Int
    <3>1. r.index \in Nat /\ r.pers \in Persistence /\ r.val \in Values
      BY <1>2, WriteFields
    <3>2. \A v \in Values : v \in Int
      BY KeysAssumption
    <3>3. QED
      BY <3>1, <3>2
  <2> DEFINE s == calculate_offset(r.item, r.index)
  <2>2. out \in _write(f, r.item, r.index, r.pers, r.val, starts)
    BY <1>2 DEF Handle
  <2>3. CASE s = Err
    BY <2>2, <2>3, <1>1 DEF _write, Err
  <2>4. CASE s # Err
    <3>1. s \in Sectors
      BY <2>1, <2>4, ItemsApart
    <3> HIDE DEF s
    <3>2. \/ out[1] = f /\ out[2] = Err
          \/ \E v \in {r.val, Torn} :
                out[1] = Put(f, s, Entry(v, r.pers, starts)) /\ out[2] \in {r.val, Err}
      BY <2>2, <2>4 DEF _write, s
    <3>3. Torn \in Int /\ Err \in Int
      BY DEF Torn, Err
    <3>4. QED
      BY <1>1, <1>2, <2>1, <3>1, <3>2, <3>3, TouchedByPut
  <2>5. QED
    BY <2>3, <2>4
<1>3. CASE g_task_fd \in openFds /\ r.func = "read"
  <2>1. out \in _read(f, r.item, r.index) /\ r.index \in Nat
    BY <1>3 DEF Handle, RequestType, NoRequest
  <2>2. calculate_offset(r.item, r.index) # Err =>
            f.sec[calculate_offset(r.item, r.index)].val \in Int
    <3>1. \A s \in Sectors : f.sec[s].val \in Int
      BY DEF Files, SectorEntries
    <3>2. QED
      BY <2>1, <3>1, ItemsApart
  <2>3. out[1] = f /\ out[2] \in Int
    BY <2>1, <2>2 DEF _read, Err
  <2>4. QED
    BY <1>1, <2>3
<1>4. CASE g_task_fd \in openFds /\ r.func = "clear"
  <2>1. out \in _clear(f, r.item)
    BY <1>4 DEF Handle
  <2>2. \/ out = <<f, Err>> \/ out = <<Blank(f, KeySectors(r.item)), 0>>
        \/ \E n \in 0 .. MaxIndex[r.item] - 1, e \in {0, Err} :
              out = <<Blank(f, {s \in KeySectors(r.item) : s < KeyOffset[r.item] + n}), e>>
    <3> DEFINE k == r.item
               First(n) == {s \in KeySectors(k) : s < KeyOffset[k] + n}
               Done == {<<Blank(f, KeySectors(k)), 0>>}
                 \cup (IF IoErrors
                       THEN {<<Blank(f, First(n)), e>> : n \in 0 .. MaxIndex[k] - 1, e \in {0, Err}}
                       ELSE {})
    <3>1. _clear(f, k) = IF calculate_offset(k, 0) = Err THEN {<<f, Err>>} ELSE Done
      BY DEF _clear
    <3> HIDE DEF Done
    <3>2. out = <<f, Err>> \/ out \in Done
      BY <2>1, <3>1
    <3> HIDE DEF First
    <3>3. \/ out = <<f, Err>> \/ out = <<Blank(f, KeySectors(k)), 0>>
          \/ \E n \in 0 .. MaxIndex[k] - 1, e \in {0, Err} : out = <<Blank(f, First(n)), e>>
      BY <3>2 DEF Done
    <3>4. QED
      BY <3>3 DEF First
  <2>3. (out[1] = f /\ out[2] \in Int) \/ \E S : out[1] = Blank(f, S) /\ out[2] \in Int
    <3>1. CASE out = <<f, Err>>
      BY <3>1 DEF Err
    <3>2. ASSUME NEW S, NEW e \in {0, Err}, out = <<Blank(f, S), e>>
          PROVE  out[1] = Blank(f, S) /\ out[2] \in Int
      BY <3>2 DEF Err
    <3>3. QED
      BY <2>2, <3>1, <3>2
  <2>4. QED
    BY <1>1, <1>4, <2>3, TouchedByBlank
<1>5. CASE g_task_fd \in openFds /\ r.func = "restart"
  <2>1. out \in _restart(f, r.reason)
    BY <1>5 DEF Handle
  <2>2. PICK S : /\ \A s \in S : clear_entry(f.sec[s].pers, r.reason)
                 /\ out[1] = Blank(f, S) /\ out[2] \in Int
    BY <2>1, RestartOutcomes
  <2>3. \A s \in S : f.sec[s].pers # POWER_ON
    BY <2>2 DEF clear_entry, POWER_ON, IN_FLIGHT
  <2>4. QED
    BY <2>2, <2>3, TouchedByBlank, SurvivesBlank
<1>6. CASE g_task_fd \notin openFds \/ r.func \notin {"write", "read", "clear", "restart"}
  BY <1>1, <1>6 DEF Handle, Err
<1>7. QED
  BY <1>2, <1>3, <1>4, <1>5, <1>6

-----------------------------------------------------------------------------
(* What a power loss leaves of a request that is being executed. *)
LEMMA InterruptedTouches ==
    ASSUME NEW f \in Files, NEW r \in RequestType \cup {NoRequest}, starts \in Nat,
           NEW g \in Interrupted(f, r)
    PROVE  /\ Touched(f, g)
           /\ r.func \notin {"write", "clear"} => Survives(f, g)
<1>1. CASE g = f
  BY <1>1, Untouched
<1>2. CASE r.func = "write"
  <2>1. r.index \in Nat /\ r.pers \in Persistence /\ r.val \in Values
    BY <1>2, WriteFields
  <2> DEFINE s == calculate_offset(r.item, r.index)
  <2>2. g = f \/ (s # Err /\ \E v \in {Torn, r.val} : g = Put(f, s, Entry(v, r.pers, starts)))
    <3>1. g \in {f} \cup (IF s = Err THEN {}
                          ELSE {Put(f, s, Entry(v, r.pers, starts)) : v \in {Torn, r.val}})
      BY <1>2 DEF Interrupted
    <3> HIDE DEF s
    <3>2. QED
      BY <3>1
  <2>3. s # Err => s \in Sectors
    BY <2>1, ItemsApart
  <2>4. \A v \in {Torn, r.val} : v \in Int
    BY <2>1, KeysAssumption DEF Torn
  <2> HIDE DEF s
  <2>5. QED
    BY <1>1, <1>2, <2>1, <2>2, <2>3, <2>4, TouchedByPut
<1>3. CASE r.func = "clear"
  <2>1. g = f \/ \E S : g = Blank(f, S)
    <3>1. g \in {f} \cup (IF calculate_offset(r.item, 0) = Err THEN {}
                ELSE {Blank(f, {s \in KeySectors(r.item) : s < n}) : n \in 0 .. NumSectors})
      BY <1>3 DEF Interrupted
    <3>2. QED
      BY <3>1
  <2>2. QED
    BY <1>1, <1>3, <2>1, TouchedByBlank
<1>4. CASE r.func = "restart"
  <2> DEFINE gone(n) == {s \in Sectors : s < n /\ f.sec[s].len > 0
                                        /\ clear_entry(f.sec[s].pers, r.reason)}
  <2>1. g \in {Blank(f, gone(n)) : n \in 0 .. NumSectors}
    BY <1>4 DEF Interrupted
  <2>2. PICK n \in 0 .. NumSectors : g = Blank(f, gone(n))
    <3> HIDE DEF gone
    <3>1. QED
      BY <2>1
  <2>3. \A s \in gone(n) : f.sec[s].pers # POWER_ON
    BY DEF clear_entry, POWER_ON, IN_FLIGHT
  <2>4. QED
    BY <2>2, <2>3, TouchedByBlank, SurvivesBlank
<1>5. CASE r.func \notin {"write", "clear", "restart"}
  BY <1>1, <1>5 DEF Interrupted
<1>6. QED
  BY <1>2, <1>3, <1>4, <1>5

(* A worker that executes has an item in its hands. *)
LEMMA InHand ==
    ASSUME TypeOK, FileOK, NEW w \in Workers, wpc[w] = "exec"
    PROVE  cur[w] \in Items /\ work[cur[w]].req \in RequestType \cup {NoRequest}
<1>1. cur[w] \in Items
  BY DEF TypeOK, WorkerTypes
<1>2. QED
  BY <1>1 DEF FileOK, WorkEntries

\* A worker that executes a request, or the reset of a start, changes the file
Executing(w) ==
    /\ wpc[w] = "exec" /\ Touched(file, file')
    /\ work[cur[w]].req.func \notin {"write", "clear"} => Survives(file, file')
Restarting(w) ==
    /\ boot_restart(w) /\ Touched(file, file') /\ Survives(file, file')

(* Nothing but an open, a reset and a request changes the file, and it stays a file. *)
LEMMA FileStep ==
    ASSUME TypeOK, FileOK, [Next]_vars
    PROVE  /\ FileOK'
           /\ \/ UNCHANGED file
              \/ \E w \in Workers : open_file(w) \/ Restarting(w) \/ Executing(w)
<1>0. starts \in Nat /\ file \in Files
  BY DEF TypeOK, ShellTypes, FileOK
<1>1. ASSUME NEW c \in Clients, (\E r \in Requests : dm_call(c, r)) \/ ClientStep(c)
      PROVE  UNCHANGED file /\ work' \in [Items -> WorkEntries]
  <2>1. UNCHANGED file
    BY <1>1 DEF dm_call, ClientStep, reuse_work_item, no_free_item, malloc_work_items,
                malloc_fails, enqueue_work_item, post_work_queued, take_result, destroy_work_item
  <2>2. CASE enqueue_work_item(c)
    <3>1. req[c] \in RequestType \cup {NoRequest}
      BY DEF TypeOK, ClientTypes
    <3>2. work' = [work EXCEPT ![item[c]].req = req[c]]
      BY <2>2 DEF enqueue_work_item
    <3>3. QED
      BY <2>1, <3>1, <3>2 DEF FileOK, WorkEntries
  <2>3. CASE destroy_work_item(c)
    <3>1. [req |-> NoRequest, result |-> 0] \in WorkEntries
      BY DEF WorkEntries
    <3>2. QED
      BY <2>1, <2>3, <3>1 DEF destroy_work_item, FileOK
  <2>4. CASE ~enqueue_work_item(c) /\ ~destroy_work_item(c)
    <3>1. UNCHANGED work
      BY <1>1, <2>4 DEF dm_call, ClientStep, reuse_work_item, no_free_item, malloc_work_items,
                        malloc_fails, post_work_queued, take_result, queueVars
    <3>2. QED
      BY <2>1, <3>1 DEF FileOK
  <2>5. QED
    BY <2>1, <2>2, <2>3, <2>4
<1>2. ASSUME NEW w \in Workers, open_file(w) PROVE FileOK'
  <2>1. file' = Opened(file) /\ UNCHANGED work
    BY <1>2 DEF open_file, queueVars
  <2>2. Opened(file) \in Files
    <3> DEFINE g == IF file.ragged THEN NewFile ELSE file
    <3>1. g \in Files
      BY <1>0, NewFileType
    <3> HIDE DEF g
    <3>2. CASE SeekExtends
      <4>1. [g EXCEPT !.end = NumSectors, !.ragged = FALSE] \in Files
        <5>1. FALSE \in BOOLEAN
          BY Zenon
        <5>2. QED
          BY <3>1, <5>1, KeysApart DEF Files
      <4>2. Opened(file) = [g EXCEPT !.end = NumSectors, !.ragged = FALSE]
        BY <3>2 DEF Opened, g
      <4>3. QED
        BY <4>1, <4>2
    <3>3. CASE ~SeekExtends
      BY <3>1, <3>3 DEF Opened, g
    <3>4. QED
      BY <3>2, <3>3
  <2>3. QED
    BY <2>1, <2>2 DEF FileOK
<1>3. ASSUME NEW w \in Workers, boot_restart(w)
      PROVE  FileOK' /\ (UNCHANGED file \/ Restarting(w))
  <2>1. UNCHANGED work
    BY <1>3 DEF boot_restart, queueVars
  <2>2. UNCHANGED file \/ \E out \in _restart(file, reason) : file' = out[1]
    <3>1. UNCHANGED file \/ \E f \in BootRestart(file, reason) : file' = f
      BY <1>3 DEF boot_restart
    <3>2. CASE reason \in {POWER_ON, IN_FLIGHT}
      BY <3>1, <3>2 DEF BootRestart
    <3>3. CASE reason \notin {POWER_ON, IN_FLIGHT}
      BY <3>1, <3>3 DEF BootRestart
    <3>4. QED
      BY <3>2, <3>3
  <2>3. ASSUME NEW out \in _restart(file, reason), file' = out[1]
        PROVE  Touched(file, file') /\ Survives(file, file')
    <3>1. PICK S : (\A s \in S : clear_entry(file.sec[s].pers, reason)) /\ file' = Blank(file, S)
      BY <2>3, RestartOutcomes
    <3>2. \A s \in S : file.sec[s].pers # POWER_ON
      BY <3>1 DEF clear_entry, POWER_ON, IN_FLIGHT
    <3>3. QED
      BY <1>0, <3>1, <3>2, TouchedByBlank, SurvivesBlank
  <2>4. file' \in Files
    BY <1>0, <2>2, <2>3 DEF Touched
  <2>5. QED
    BY <1>3, <2>1, <2>2, <2>3, <2>4 DEF FileOK, Restarting
<1>4. ASSUME NEW w \in Workers, execute(w) PROVE FileOK' /\ Executing(w)
  <2>1. wpc[w] = "exec"
    BY <1>4 DEF execute, Goto
  <2>2. cur[w] \in Items /\ work[cur[w]].req \in RequestType \cup {NoRequest}
    BY <2>1, InHand
  <2>3. PICK out \in Handle(file, work[cur[w]].req) :
            file' = out[1] /\ work' = [work EXCEPT ![cur[w]].result = out[2]]
    BY <1>4 DEF execute
  <2>4. /\ Touched(file, out[1]) /\ out[2] \in Int
        /\ work[cur[w]].req.func \notin {"write", "clear"} => Survives(file, out[1])
    BY <1>0, <2>2, HandlersTouch
  <2>5. work' \in [Items -> WorkEntries]
    BY <2>2, <2>3, <2>4 DEF FileOK, WorkEntries
  <2>6. QED
    BY <2>1, <2>3, <2>4, <2>5 DEF FileOK, Executing, Touched
<1>5. ASSUME NEW w \in Workers, WorkerStep(w),
             ~open_file(w), ~boot_restart(w), ~execute(w)
      PROVE  UNCHANGED <<file, work>>
  BY <1>5 DEF WorkerStep, WorkerInit, WorkerLoop, init_queues, open_fails, publish_fd,
              check_exit, skip_sleep, enter_sleep, wake_up, dequeue_work_item, drained,
              close_file, read_free_head, unlink_free_head, destroy_queues, queueVars
<1>6. CASE PowerLoss
  <2>1. work' \in [Items -> WorkEntries]
    BY <1>6 DEF PowerLoss, WorkEntries
  <2>2. CASE UNCHANGED file
    BY <2>1, <2>2 DEF FileOK
  <2>3. ASSUME NEW w \in Workers, wpc[w] = "exec", file' \in Interrupted(file, work[cur[w]].req)
        PROVE  FileOK' /\ Executing(w)
    <3>1. work[cur[w]].req \in RequestType \cup {NoRequest}
      BY <2>3, InHand
    <3>2. QED
      BY <1>0, <2>1, <2>3, <3>1, InterruptedTouches DEF FileOK, Executing, Touched
  <2>4. QED
    BY <1>6, <2>2, <2>3 DEF PowerLoss
<1>7. CASE start \/ stop \/ UNCHANGED vars
  BY <1>7 DEF start, stop, vars, queueVars, FileOK
<1>8. QED
  BY <1>1, <1>2, <1>3, <1>4, <1>5, <1>6, <1>7 DEF Next, FileOK, WorkerStep, WorkerInit, WorkerLoop

-----------------------------------------------------------------------------
\* Where a task has not opened the file, or has given up
Without == {"off", "init", "open", "dead"}

\* Where lseek() past the end makes the file as long as it is to be, it is so
\* from the first open on
Whole ==
    /\ ~file.ragged
    /\ (\E w \in Workers : wpc[w] \notin Without) => file.end >= NumSectors

(* Only the task that opens the file gets beyond the opening. *)
LEMMA OpensFirst ==
    ASSUME TypeOK, [Next]_vars, NEW w \in Workers, wpc'[w] \notin Without
    PROVE  wpc[w] \notin Without \/ open_file(w)
<1> USE DEF TypeOK, WorkerTypes, Without
<1>1. CASE \E c \in Clients : (\E r \in Requests : dm_call(c, r)) \/ ClientStep(c)
  <2>1. UNCHANGED wpc
    BY <1>1 DEF dm_call, ClientStep, reuse_work_item, no_free_item, malloc_work_items,
                malloc_fails, enqueue_work_item, post_work_queued, take_result,
                destroy_work_item
  <2>2. QED
    BY <2>1
<1>2. ASSUME NEW v \in Workers, WorkerStep(v) PROVE wpc[w] \notin Without \/ open_file(w)
  <2>1. CASE open_file(v)
    BY <2>1 DEF open_file, Goto
  <2>2. CASE init_queues(v) \/ open_fails(v) \/ destroy_queues(v)
    BY <2>2 DEF init_queues, open_fails, destroy_queues, Goto
  <2>3. CASE ~open_file(v) /\ ~init_queues(v) /\ ~open_fails(v) /\ ~destroy_queues(v)
    <3>1. wpc[v] \notin Without /\ \A u \in Workers : u # v => wpc'[u] = wpc[u]
      BY <1>2, <2>3 DEF WorkerStep, WorkerInit, WorkerLoop, Goto, boot_restart, publish_fd,
              check_exit, skip_sleep, enter_sleep, wake_up, dequeue_work_item, execute, drained,
              close_file, read_free_head, unlink_free_head
    <3>2. QED
      BY <3>1
  <2>4. QED
    BY <2>1, <2>2, <2>3
<1>3. CASE start
  BY <1>3 DEF start
<1>4. CASE stop \/ UNCHANGED vars
  BY <1>4 DEF stop, vars
<1>5. CASE PowerLoss
  BY <1>5 DEF PowerLoss
<1>6. QED
  BY <1>1, <1>2, <1>3, <1>4, <1>5 DEF Next

(* The file keeps its length. *)
LEMMA WholeStep ==
    ASSUME SeekExtends, TypeOK, FileOK, Whole, [Next]_vars
    PROVE  Whole'
<1>1. CASE \E w \in Workers : open_file(w)
  <2>1. file'.end = NumSectors /\ ~file'.ragged
    BY <1>1 DEF open_file, Opened, NewFile, FileOK, Files
  <2>2. NumSectors >= NumSectors
    BY KeysApart
  <2>3. QED
    BY <2>1, <2>2 DEF Whole
<1>2. CASE ~\E w \in Workers : open_file(w)
  <2>1. (\E w \in Workers : wpc'[w] \notin Without) => \E w \in Workers : wpc[w] \notin Without
    BY <1>2, OpensFirst
  <2>2. UNCHANGED file \/ \E w \in Workers : wpc[w] \notin Without /\ Touched(file, file')
    BY <1>2, FileStep DEF Restarting, Executing, boot_restart, Goto, Without
  <2>3. file.end >= NumSectors /\ Touched(file, file') => file'.end >= NumSectors
    BY KeysApart DEF Touched, FileOK, Files
  <2>4. QED
    BY <2>1, <2>2, <2>3 DEF Whole, Touched
<1>3. QED
  BY <1>1, <1>2

(* The work items and the file are well typed in every reachable state. *)
LEMMA FileAlways == Spec => [](TypeOK /\ FileOK)
<1>1. Init => FileOK
  <2>1. [req |-> NoRequest, result |-> 0] \in WorkEntries
    BY DEF WorkEntries
  <2>2. QED
    BY <2>1, NewFileType DEF Init, FileOK
<1>2. TypeOK /\ FileOK /\ [Next]_vars => FileOK'
  BY FileStep
<1>3. QED
  BY <1>1, <1>2, TypeCorrect, PTL DEF Spec

(* Where lseek() past the end extends the file, what is written to survive  *)
(* all resets (DM_PERSIST_POWER_ON_RESET) only changes under dm_write and   *)
(* dm_clear, through any starts, restarts, errors and power losses.         *)
THEOREM PowerOnDataStays == ASSUME SeekExtends PROVE Spec => PowerOnDataSurvives
<1>1. Init => Whole
  BY DEF Init, Whole, NewFile, Without
<1>2. TypeOK /\ FileOK /\ Whole /\ [Next]_vars => Whole'
  BY WholeStep
<1>3. TypeOK /\ FileOK /\ Whole /\ [Next]_vars =>
      [\A s \in Sectors :
          file.sec[s].len > 0 /\ file.sec[s].pers = POWER_ON /\ file'.sec[s] # file.sec[s]
            => \E w \in Workers : wpc[w] = "exec" /\ work[cur[w]].req.func \in {"write", "clear"}]_vars
  <2> SUFFICES ASSUME TypeOK, FileOK, Whole, [Next]_vars,
                      NEW s \in Sectors, file.sec[s].len > 0, file.sec[s].pers = POWER_ON,
                      file'.sec[s] # file.sec[s]
               PROVE  \E w \in Workers : /\ wpc[w] = "exec"
                                         /\ work[cur[w]].req.func \in {"write", "clear"}
      OBVIOUS
  <2>1. ASSUME NEW w \in Workers, open_file(w) PROVE file'.sec = file.sec
    BY <2>1 DEF open_file, Opened, Whole, FileOK, Files
  <2>2. ~Survives(file, file')
    BY DEF Survives
  <2>3. QED
    BY <2>1, <2>2, FileStep DEF Restarting, Executing
<1>4. QED
  BY <1>1, <1>2, <1>3, FileAlways, PTL DEF Spec, PowerOnDataSurvives
-----------------------------------------------------------------------------
\* Nothing is in the file that the last reset was to clear
Cleansed ==
    reason \in {POWER_ON, IN_FLIGHT} =>
        \A s \in Sectors :
            file.sec[s].len > 0 /\ file.sec[s].boot < starts =>
                file.sec[s].pers \in IF reason = POWER_ON THEN {POWER_ON} ELSE {POWER_ON, IN_FLIGHT}

\* Callers are admitted, or about to be, to a file that was reset
Restarted ==
    /\ g_task_fd # None => g_task_fd \in openFds
    /\ g_fd # None => Cleansed
    /\ g_task_fd # None /\ (\E w \in Workers : wpc[w] = "publish") => Cleansed

(* A restart without errors clears what its reason asks for. *)
LEMMA RestartCleanses ==
    ASSUME TypeOK, FileOK, ~IoErrors, NEW w \in Workers, boot_restart(w),
           g_task_fd \in openFds
    PROVE  Cleansed'
<1>1. UNCHANGED <<reason, starts>> /\ \E f \in BootRestart(file, reason) : file' = f
  BY DEF boot_restart, shellVars
<1>2. CASE reason \in {POWER_ON, IN_FLIGHT}
  <2>1. PICK out \in _restart(file, reason) : file' = out[1]
    BY <1>1, <1>2 DEF BootRestart
  <2>2. PICK S : /\ file' = Blank(file, S)
                 /\ \A s \in Sectors : file.sec[s].len > 0 /\ clear_entry(file.sec[s].pers, reason)
                        => s \in S
    BY <2>1, RestartOutcomes
  <2>3. ASSUME NEW s \in Sectors, file'.sec[s].len > 0
        PROVE  file'.sec[s].pers \in
                   IF reason = POWER_ON THEN {POWER_ON} ELSE {POWER_ON, IN_FLIGHT}
    <3>1. file \in Files /\ file.sec[s].pers \in Persistence
      BY DEF FileOK, Files, SectorEntries
    <3>2. s \notin S /\ file'.sec[s] = file.sec[s]
      BY <2>2, <2>3, <3>1, BlankType DEF Empty
    <3>3. ~clear_entry(file.sec[s].pers, reason)
      BY <2>2, <2>3, <3>2
    <3>4. QED
      BY <1>2, <3>1, <3>2, <3>3 DEF clear_entry, Persistence, POWER_ON, IN_FLIGHT, VOLATILE
  <2>4. QED
    BY <1>1, <2>3 DEF Cleansed
<1>3. CASE reason \notin {POWER_ON, IN_FLIGHT}
  BY <1>1, <1>3 DEF Cleansed
<1>4. QED
  BY <1>2, <1>3

(* What is cleared stays so until the next start. *)
LEMMA StaysCleansed ==
    ASSUME TypeOK, FileOK, Cleansed, [Next]_vars, ~start
    PROVE  Cleansed'
<1>1. UNCHANGED <<reason, starts>>
  BY DEF Next, dm_call, ClientStep, reuse_work_item, no_free_item, malloc_work_items,
         malloc_fails, enqueue_work_item, post_work_queued, take_result, destroy_work_item,
         WorkerStep, WorkerInit, WorkerLoop, init_queues, open_file, open_fails, boot_restart,
         publish_fd, check_exit, skip_sleep, enter_sleep, wake_up, dequeue_work_item, execute,
         drained, close_file, read_free_head, unlink_free_head, destroy_queues, stop, PowerLoss,
         shellVars, vars
<1>2. \A s \in Sectors : \/ file'.sec[s] = file.sec[s] \/ file'.sec[s] = Empty
                         \/ file'.sec[s].boot = starts
  <2>1. ASSUME NEW w \in Workers, open_file(w), NEW s \in Sectors
        PROVE  file'.sec[s] = file.sec[s] \/ file'.sec[s] = Empty
    BY <2>1 DEF open_file, Opened, NewFile, FileOK, Files
  <2>2. QED
    BY <2>1, FileStep DEF Restarting, Executing, Touched
<1>3. starts \in Nat /\ Empty.len = 0
  BY DEF TypeOK, ShellTypes, Empty
<1>4. ASSUME NEW s \in Sectors, file'.sec[s].len > 0, file'.sec[s].boot < starts
      PROVE  file'.sec[s] = file.sec[s]
  BY <1>2, <1>3, <1>4
<1>5. QED
  BY <1>1, <1>4 DEF Cleansed

(* Without I/O errors nobody is admitted before the reset was done. *)
LEMMA RestartedStep ==
    ASSUME ~IoErrors, TypeOK, Started, FileOK, Restarted, [Next]_vars
    PROVE  Restarted'
<1> USE DEF TypeOK, WorkerTypes, FdTypes
<1>1. ASSUME UNCHANGED <<g_fd, g_task_fd, openFds, wpc>>, ~start PROVE Restarted'
  BY <1>1, StaysCleansed DEF Restarted
<1>2. CASE \E c \in Clients : (\E r \in Requests : dm_call(c, r)) \/ ClientStep(c)
  <2>1. UNCHANGED <<g_fd, g_task_fd, openFds, wpc, starts>>
    BY <1>2 DEF dm_call, ClientStep, reuse_work_item, no_free_item, malloc_work_items,
                malloc_fails, enqueue_work_item, post_work_queued, take_result,
                destroy_work_item, fdVars, shellVars
  <2>2. ~start
    BY <2>1 DEF start, ShellTypes
  <2>3. QED
    BY <1>1, <2>1, <2>2
<1>3. ASSUME NEW w \in Workers, WorkerStep(w) PROVE Restarted'
  <2>1. ~start
    <3>1. UNCHANGED starts
      BY <1>3 DEF WorkerStep, WorkerInit, WorkerLoop, init_queues, open_file, open_fails,
           boot_restart, publish_fd, check_exit, skip_sleep, enter_sleep, wake_up,
           dequeue_work_item, execute, drained, close_file, read_free_head,
           unlink_free_head, destroy_queues, shellVars
    <3>2. QED
      BY <3>1 DEF start, ShellTypes
  <2>2. CASE open_file(w)
    <3>1. /\ g_task_fd' = w /\ openFds' = openFds \cup {w} /\ g_fd' = g_fd
          /\ wpc[w] = "open" /\ wpc' = [wpc EXCEPT ![w] = "restart"]
      BY <2>2 DEF open_file, Goto
    <3>2. \A v \in Workers : wpc'[v] # "publish"
      BY <3>1 DEF Started, Coming
    <3>3. QED
      BY <2>1, <3>1, <3>2, StaysCleansed DEF Restarted
  <2>3. CASE boot_restart(w)
    <3>1. UNCHANGED <<g_fd, g_task_fd, openFds>>
      BY <2>3 DEF boot_restart, fdVars
    <3>2. g_task_fd # None => Cleansed'
      BY <2>3, RestartCleanses DEF Restarted
    <3>3. QED
      BY <2>1, <3>1, <3>2, StaysCleansed DEF Restarted
  <2>4. CASE publish_fd(w)
    <3>1. /\ g_fd' = g_task_fd /\ UNCHANGED <<g_task_fd, openFds>>
          /\ wpc[w] = "publish" /\ wpc' = [wpc EXCEPT ![w] = "top"]
      BY <2>4 DEF publish_fd, Goto
    <3>2. QED
      BY <2>1, <3>1, StaysCleansed DEF Restarted
  <2>5. CASE open_fails(w) \/ close_file(w)
    <3>1. /\ g_fd' = g_fd /\ g_task_fd' = None
      BY <2>5 DEF open_fails, close_file
    <3>2. QED
      BY <2>1, <3>1, StaysCleansed DEF Restarted
  <2>6. CASE ~open_file(w) /\ ~boot_restart(w) /\ ~publish_fd(w) /\ ~open_fails(w) /\ ~close_file(w)
    <3>1. /\ UNCHANGED <<g_task_fd, openFds>> /\ g_fd' \in {g_fd, None}
          /\ \A v \in Workers : wpc'[v] = "publish" => wpc[v] = "publish"
      BY <1>3, <2>6 DEF WorkerStep, WorkerInit, WorkerLoop, init_queues, check_exit, skip_sleep,
           enter_sleep, wake_up, dequeue_work_item, execute, drained, read_free_head, unlink_free_head,
           destroy_queues, fdVars, Goto
    <3>2. QED
      BY <2>1, <3>1, StaysCleansed DEF Restarted
  <2>7. QED
    BY <2>2, <2>3, <2>4, <2>5, <2>6
<1>4. CASE start
  <2>1. /\ g_fd' = None /\ UNCHANGED <<g_task_fd, openFds>> /\ ~starting
        /\ wpc' = [wpc EXCEPT ![starts + 1] = "init"]
    BY <1>4 DEF start, fdVars
  <2>2. \A v \in Workers : wpc'[v] # "publish"
    BY <2>1 DEF Started, Coming
  <2>3. QED
    BY <2>1, <2>2 DEF Restarted
<1>5. CASE (stop \/ UNCHANGED vars) /\ ~start
  <2>1. UNCHANGED <<g_fd, g_task_fd, openFds, wpc>>
    BY <1>5 DEF stop, vars, fdVars
  <2>2. QED
    BY <1>1, <1>5, <2>1
<1>6. CASE PowerLoss
  BY <1>6 DEF PowerLoss, Restarted
<1>7. QED
  BY <1>2, <1>3, <1>4, <1>5, <1>6 DEF Next

(* Unless the card fails, callers are only admitted to a file that          *)
(* _restart cleared of everything the type of the last start is to clear.   *)
THEOREM ResetsAreKept == ASSUME ~IoErrors PROVE Spec => []NothingOutlivesItsReset
<1>1. Init => Restarted
  BY DEF Init, Restarted
<1>2. TypeOK /\ Started /\ FileOK /\ Restarted /\ [Next]_vars => Restarted'
  BY RestartedStep
<1>3. Restarted => NothingOutlivesItsReset
  BY DEF Restarted, Cleansed, NothingOutlivesItsReset
<1>4. QED
  BY <1>1, <1>2, <1>3, FileAlways, StartedAlways, PTL DEF Spec
-----------------------------------------------------------------------------
(* The file as the store the callers see *)

(* An address is an item instance with a sector of its own. *)
LEMMA AddressSectors ==
    /\ \A a \in Addresses :
          /\ a = <<a[1], a[2]>> /\ a[1] \in Keys /\ a[2] \in 0 .. MaxIndex[a[1]] - 1
          /\ SectorOf(a) \in Sectors
    /\ \A a, b \in Addresses : SectorOf(a) = SectorOf(b) => a = b
    /\ \A k : \A i \in Nat : /\ <<k, i>> \in Addresses <=> calculate_offset(k, i) # Err
                             /\ <<k, i>> \in Addresses => SectorOf(<<k, i>>) = calculate_offset(k, i)
<1>1. ASSUME NEW a \in Addresses
      PROVE  a = <<a[1], a[2]>> /\ a[1] \in Keys /\ a[2] \in 0 .. MaxIndex[a[1]] - 1
  BY DEF Addresses
<1>2. ASSUME NEW k, NEW i \in Nat
      PROVE  <<k, i>> \in Addresses <=> k \in Keys /\ i < MaxIndex[k]
  BY KeysAssumption DEF Addresses
<1>3. ASSUME NEW k, NEW i \in Nat
      PROVE  /\ calculate_offset(k, i) # Err <=> k \in Keys /\ i < MaxIndex[k]
             /\ calculate_offset(k, i) # Err => calculate_offset(k, i) = KeyOffset[k] + i
  BY KeysApart DEF calculate_offset, Err
<1>4. ASSUME NEW a \in Addresses
      PROVE  /\ a[2] \in Nat /\ calculate_offset(a[1], a[2]) # Err
             /\ SectorOf(a) = calculate_offset(a[1], a[2])
  BY <1>1, <1>3, KeysAssumption DEF SectorOf
<1>5. ASSUME NEW a \in Addresses, NEW b \in Addresses, SectorOf(a) = SectorOf(b)
      PROVE  a = b
  BY <1>1, <1>4, <1>5, ItemsApart
<1>6. ASSUME NEW k, NEW i \in Nat, <<k, i>> \in Addresses
      PROVE  SectorOf(<<k, i>>) = calculate_offset(k, i)
  BY <1>4, <1>6
<1>7. \A a \in Addresses : SectorOf(a) \in Sectors
  BY <1>4, ItemsApart
<1>8. QED
  BY <1>1, <1>2, <1>3, <1>5, <1>6, <1>7

(* A sector that is cleared is a record that is gone. *)
LEMMA StoredBlank ==
    ASSUME NEW f \in Files, NEW S
    PROVE  Stored(Blank(f, S)) = Emptied(Stored(f), {a \in Addresses : SectorOf(a) \in S})
<1>1. ASSUME NEW a \in Addresses
      PROVE  Plain(Blank(f, S).sec[SectorOf(a)]) =
                IF SectorOf(a) \in S THEN Blanks ELSE Plain(f.sec[SectorOf(a)])
  BY AddressSectors, BlankType DEF Plain, Empty, Blanks
<1>2. QED
  BY <1>1 DEF Stored, Emptied

(* A sector that is written is a record that is stored. *)
LEMMA StoredPut ==
    ASSUME NEW f \in Files, NEW a \in Addresses, NEW v \in Int, NEW p \in Persistence,
           starts \in Nat
    PROVE  Stored(Put(f, SectorOf(a), Entry(v, p, starts))) =
              [Stored(f) EXCEPT ![a] = [len |-> 1, pers |-> p, val |-> v]]
<1> DEFINE e == Entry(v, p, starts)
           g == Put(f, SectorOf(a), e)
<1>1. e \in SectorEntries /\ Plain(e) = [len |-> 1, pers |-> p, val |-> v]
  BY DEF Entry, SectorEntries, Plain
<1> HIDE DEF e
<1>2. ASSUME NEW b \in Addresses
      PROVE  g.sec[SectorOf(b)] = IF b = a THEN e ELSE f.sec[SectorOf(b)]
  BY <1>1, AddressSectors, PutType
<1>3. QED
  BY <1>1, <1>2 DEF Stored, e

(* What is left of the store when some of its records go, and what the    *)
(* worker clears, are the same records.                                    *)
LEMMA KeyRecords ==
    ASSUME NEW k \in Keys, NEW a \in Addresses
    PROVE  /\ SectorOf(a) \in KeySectors(k) <=> a[1] = k
           /\ \A n \in Int : a[1] = k => (SectorOf(a) < KeyOffset[k] + n <=> a[2] < n)
<1>1. /\ a[1] \in Keys /\ a[2] \in 0 .. MaxIndex[a[1]] - 1 /\ SectorOf(a) = KeyOffset[a[1]] + a[2]
  BY AddressSectors DEF SectorOf
<1>2. a[1] \in Int /\ k \in Int
  BY <1>1 DEF Keys
<1>3. a[1] < k \/ a[1] = k \/ k < a[1]
  BY <1>2
<1>4. CASE a[1] = k
  BY <1>1, <1>4, KeysApart DEF KeySectors
<1>5. CASE a[1] < k
  BY <1>1, <1>2, <1>5, KeysApart DEF KeySectors
<1>6. CASE k < a[1]
  BY <1>1, <1>2, <1>6, KeysApart DEF KeySectors
<1>7. QED
  BY <1>3, <1>4, <1>5, <1>6

(* Which records a restart takes for old. *)
LEMMA OldRecords ==
    ASSUME NEW f \in Files, NEW a \in Addresses, NEW reasn \in {POWER_ON, IN_FLIGHT}
    PROVE  (Stored(f)[a].len > 0 /\ Stored(f)[a].pers > reasn) <=>
           (f.sec[SectorOf(a)].len > 0 /\ clear_entry(f.sec[SectorOf(a)].pers, reasn))
<1> DEFINE e == f.sec[SectorOf(a)]
<1>1. e \in SectorEntries
  BY AddressSectors DEF Files
<1>2. Stored(f)[a] = Plain(e)
  BY DEF Stored
<1> HIDE DEF e
<1>3. (Plain(e).len > 0 /\ Plain(e).pers > reasn) <=> (e.len > 0 /\ clear_entry(e.pers, reasn))
  BY <1>1 DEF Plain, SectorEntries, Persistence, POWER_ON, IN_FLIGHT, VOLATILE, clear_entry
<1>4. QED
  BY <1>2, <1>3 DEF e

(* Every outcome of a handler is one the callers are promised: dm_write *)
LEMMA WriteOutcomes ==
    ASSUME NEW f \in Files, NEW r \in RequestType, r.func = "write", starts \in Nat,
           NEW out \in _write(f, r.item, r.index, r.pers, r.val, starts)
    PROVE  <<Stored(out[1]), out[2]>> \in AtomicOutcomes(Stored(f), r)
<1> DEFINE at == <<r.item, r.index>>
           s == calculate_offset(r.item, r.index)
           With(v) == [Stored(f) EXCEPT ![at] = [len |-> 1, pers |-> r.pers, val |-> v]]
<1>1. r.index \in Nat /\ r.pers \in Persistence /\ r.val \in Int /\ Torn \in Int
  <2>1. r.index \in Nat /\ r.pers \in Persistence /\ r.val \in Values
    BY WriteFields
  <2>2. \A v \in Values : v \in Int
    BY KeysAssumption
  <2>3. QED
    BY <2>1, <2>2 DEF Torn
<1>2. /\ at \in Addresses <=> s # Err
      /\ at \in Addresses => SectorOf(at) = s
  BY <1>1, AddressSectors
<1>3. CASE s = Err
  <2>1. out[1] = f /\ out[2] = -1
    BY <1>3 DEF _write, Err
  <2>2. AtomicOutcomes(Stored(f), r) = {<<Stored(f), -1>>}
    BY <1>2, <1>3 DEF AtomicOutcomes
  <2>3. QED
    BY <2>1, <2>2
<1>4. CASE s # Err
  <2>1. \A v \in Int : Stored(Put(f, s, Entry(v, r.pers, starts))) = With(v)
    BY <1>1, <1>2, <1>4, StoredPut
  <2>2. AtomicOutcomes(Stored(f), r) =
            {<<With(r.val), r.val>>} \cup Faults({<<Stored(f), -1>>, <<With(Torn), -1>>})
    BY <1>2, <1>4 DEF AtomicOutcomes
  <2>3. \/ out[1] = Put(f, s, Entry(r.val, r.pers, starts)) /\ out[2] = r.val
        \/ IoErrors /\ out[1] = f /\ out[2] = -1
        \/ IoErrors /\ out[1] = Put(f, s, Entry(Torn, r.pers, starts)) /\ out[2] = -1
    <3> HIDE DEF s
    <3>1. out \in {<<Put(f, s, Entry(r.val, r.pers, starts)), r.val>>}
             \cup (IF IoErrors
                   THEN {<<f, Err>>, <<Put(f, s, Entry(Torn, r.pers, starts)), Err>>}
                   ELSE {})
      BY <1>4 DEF _write, s
    <3>2. QED
      BY <3>1 DEF Err
  <2> HIDE DEF With, s, at
  <2>4. QED
    BY <1>1, <2>1, <2>2, <2>3 DEF Faults
<1>5. QED
  BY <1>3, <1>4

(* dm_read *)
LEMMA ReadOutcomes ==
    ASSUME NEW f \in Files, NEW r \in RequestType, r.func = "read",
           NEW out \in _read(f, r.item, r.index)
    PROVE  <<Stored(out[1]), out[2]>> \in AtomicOutcomes(Stored(f), r)
<1> DEFINE at == <<r.item, r.index>>
           s == calculate_offset(r.item, r.index)
<1>1. r.index \in Nat
  BY DEF RequestType
<1>2. /\ at \in Addresses <=> s # Err
      /\ at \in Addresses => SectorOf(at) = s
  BY <1>1, AddressSectors
<1>3. CASE s = Err
  <2>1. out[1] = f /\ out[2] = -1
    BY <1>3 DEF _read, Err
  <2>2. AtomicOutcomes(Stored(f), r) = {<<Stored(f), -1>>}
    BY <1>2, <1>3 DEF AtomicOutcomes
  <2>3. QED
    BY <2>1, <2>2
<1>4. CASE s # Err
  <2> DEFINE found == IF Stored(f)[at].len = 0 THEN 0 ELSE Stored(f)[at].val
  <2>1. found = IF f.sec[s].len = 0 THEN 0 ELSE f.sec[s].val
    BY <1>2, <1>4 DEF Stored, Plain
  <2>2. AtomicOutcomes(Stored(f), r) = {<<Stored(f), found>>} \cup Faults({<<Stored(f), -1>>})
    BY <1>2, <1>4 DEF AtomicOutcomes
  <2>3. out[1] = f /\ (out[2] = found \/ (IoErrors /\ out[2] = -1))
    BY <1>4, <2>1 DEF _read, Err
  <2> HIDE DEF found
  <2>4. QED
    BY <2>2, <2>3 DEF Faults
<1>5. QED
  BY <1>3, <1>4

(* dm_clear *)
LEMMA ClearOutcomes ==
    ASSUME NEW f \in Files, NEW r \in RequestType, r.func = "clear",
           NEW out \in _clear(f, r.item)
    PROVE  <<Stored(out[1]), out[2]>> \in AtomicOutcomes(Stored(f), r)
<1> DEFINE k == r.item
           key == {a \in Addresses : a[1] = k}
           First(n) == {s \in KeySectors(k) : s < KeyOffset[k] + n}
           Rest(n) == Emptied(Stored(f), {a \in key : a[2] < n})
<1>1. k \in Keys <=> calculate_offset(k, 0) # Err
  BY KeysApart, KeysAssumption DEF calculate_offset, Err
<1>2. CASE k \notin Keys
  <2>1. out[1] = f /\ out[2] = -1
    BY <1>1, <1>2 DEF _clear, Err
  <2>2. AtomicOutcomes(Stored(f), r) = {<<Stored(f), -1>>}
    BY <1>2 DEF AtomicOutcomes
  <2>3. QED
    BY <2>1, <2>2
<1>3. CASE k \in Keys
  <2>1. AtomicOutcomes(Stored(f), r) =
            {<<Emptied(Stored(f), key), 0>>}
            \cup Faults({<<Rest(n), e>> : n \in 0 .. MaxIndex[k] - 1, e \in {0, -1}})
    BY <1>3 DEF AtomicOutcomes
  <2>2. \/ out = <<Blank(f, KeySectors(k)), 0>>
        \/ IoErrors /\ \E n \in 0 .. MaxIndex[k] - 1, e \in {0, Err} : out = <<Blank(f, First(n)), e>>
    <3> DEFINE Done == {<<Blank(f, KeySectors(k)), 0>>}
              \cup (IF IoErrors
                    THEN {<<Blank(f, First(n)), e>> : n \in 0 .. MaxIndex[k] - 1, e \in {0, Err}}
                    ELSE {})
    <3>1. _clear(f, k) = IF calculate_offset(k, 0) = Err THEN {<<f, Err>>} ELSE Done
      BY DEF _clear
    <3>2. calculate_offset(k, 0) # Err
      BY <1>1, <1>3
    <3> HIDE DEF Done
    <3>3. out \in Done
      BY <3>1, <3>2
    <3> HIDE DEF First
    <3>4. QED
      BY <3>3 DEF Done
  <2>3. {a \in Addresses : SectorOf(a) \in KeySectors(k)} = key
    BY <1>3, KeyRecords
  <2>4. CASE out = <<Blank(f, KeySectors(k)), 0>>
    <3>1. Stored(out[1]) = Emptied(Stored(f), key) /\ out[2] = 0
      BY <2>3, <2>4, StoredBlank
    <3>2. QED
      BY <2>1, <3>1
  <2>5. ASSUME IoErrors, NEW n \in 0 .. MaxIndex[k] - 1, NEW e \in {0, Err},
               out = <<Blank(f, First(n)), e>>
        PROVE  <<Stored(out[1]), out[2]>> \in AtomicOutcomes(Stored(f), r)
    <3>1. {a \in Addresses : SectorOf(a) \in First(n)} = {a \in key : a[2] < n}
      BY <1>3, KeyRecords
    <3>2. Stored(Blank(f, First(n))) = Rest(n)
      BY <3>1, StoredBlank
    <3>3. out[1] = Blank(f, First(n)) /\ out[2] = e /\ e \in {0, -1}
      BY <2>5 DEF Err
    <3> HIDE DEF First, Rest, key, k
    <3>4. QED
      BY <2>1, <2>5, <3>2, <3>3 DEF Faults
  <2>6. QED
    BY <2>2, <2>4, <2>5
<1>4. QED
  BY <1>2, <1>3

(* dm_restart *)
LEMMA ResetOutcomes ==
    ASSUME NEW f \in Files, NEW r \in RequestType, r.func = "restart",
           NEW out \in _restart(f, r.reason)
    PROVE  <<Stored(out[1]), out[2]>> \in AtomicOutcomes(Stored(f), r)
<1> DEFINE old == {a \in Addresses : Stored(f)[a].len > 0 /\ Stored(f)[a].pers > r.reason}
           gone == {s \in Sectors : f.sec[s].len > 0 /\ clear_entry(f.sec[s].pers, r.reason)}
           First(n) == {s \in gone : s < n}
           Rest(n) == Emptied(Stored(f), {a \in old : SectorOf(a) < n})
<1>1. r.reason \in {POWER_ON, IN_FLIGHT}
  BY DEF RequestType
<1>2. \A a \in Addresses : SectorOf(a) \in gone <=> a \in old
  BY <1>1, OldRecords, AddressSectors
<1>3. AtomicOutcomes(Stored(f), r) =
          {<<Emptied(Stored(f), old), 0>>}
          \cup Faults({<<Rest(n), e>> : n \in Sectors, e \in {0, -1}})
  BY DEF AtomicOutcomes
<1>4. \/ out = <<Blank(f, gone), 0>>
      \/ IoErrors /\ \E n \in Sectors, e \in {0, Err} : out = <<Blank(f, First(n)), e>>
  <2>1. _restart(f, r.reason) =
            {<<Blank(f, gone), 0>>}
            \cup (IF IoErrors
                  THEN {<<Blank(f, First(n)), e>> : n \in Sectors, e \in {0, Err}}
                  ELSE {})
    BY DEF _restart
  <2> HIDE DEF gone, First
  <2>2. QED
    BY <2>1
<1>5. \A a \in old : a \in Addresses
  OBVIOUS
<1> HIDE DEF old, gone
<1>6. CASE out = <<Blank(f, gone), 0>>
  <2>1. {a \in Addresses : SectorOf(a) \in gone} = old
    BY <1>2, <1>5
  <2>2. Stored(out[1]) = Emptied(Stored(f), old) /\ out[2] = 0
    BY <1>6, <2>1, StoredBlank
  <2>3. QED
    BY <1>3, <2>2
<1>7. ASSUME IoErrors, NEW n \in Sectors, NEW e \in {0, Err}, out = <<Blank(f, First(n)), e>>
      PROVE  <<Stored(out[1]), out[2]>> \in AtomicOutcomes(Stored(f), r)
  <2>1. {a \in Addresses : SectorOf(a) \in First(n)} = {a \in old : SectorOf(a) < n}
    BY <1>2, <1>5
  <2>2. Stored(Blank(f, First(n))) = Rest(n)
    BY <2>1, StoredBlank
  <2>3. out[1] = Blank(f, First(n)) /\ out[2] = e /\ e \in {0, -1}
    BY <1>7 DEF Err
  <2> HIDE DEF First, Rest
  <2>4. QED
    BY <1>3, <1>7, <2>2, <2>3 DEF Faults
<1>8. QED
  BY <1>4, <1>6, <1>7

(* All of them *)
LEMMA PromisedOutcomes ==
    ASSUME NEW f \in Files, NEW r \in RequestType, starts \in Nat, g_task_fd \in openFds,
           NEW out \in Handle(f, r)
    PROVE  <<Stored(out[1]), out[2]>> \in AtomicOutcomes(Stored(f), r)
<1>1. r.func \in {"write", "read", "clear", "restart"}
  BY DEF RequestType
<1>2. /\ r.func = "write" => out \in _write(f, r.item, r.index, r.pers, r.val, starts)
      /\ r.func = "read" => out \in _read(f, r.item, r.index)
      /\ r.func = "clear" => out \in _clear(f, r.item)
      /\ r.func = "restart" => out \in _restart(f, r.reason)
  BY DEF Handle
<1>3. QED
  BY <1>1, <1>2, WriteOutcomes, ReadOutcomes, ClearOutcomes, ResetOutcomes
-----------------------------------------------------------------------------
(* The work item of a call in progress *)

\* A task in a call has its request with it, and in the item once that is queued
InCall ==
    \A c \in Clients :
        /\ pc[c] = "idle" => req[c] = NoRequest
        /\ pc[c] # "idle" => req[c] \in RequestType
        /\ pc[c] \in {"post", "wait"} => work[item[c]].req = req[c]

(* No step of a caller mixes up the requests. *)
LEMMA InCallByCallers ==
    ASSUME TypeOK, Parts, FileOK, InCall, NEW c \in Clients,
           (\E r \in Requests : dm_call(c, r)) \/ ClientStep(c)
    PROVE  InCall'
<1> USE DEF TypeOK, ClientTypes
<1>1. ASSUME NEW r \in Requests, dm_call(c, r) PROVE InCall'
  <2>1. r \in RequestType /\ UNCHANGED <<work, item>>
    BY <1>1, QueueAssumption DEF dm_call, queueVars
  <2>2. CASE UNCHANGED <<pc, req>>
    BY <2>1, <2>2 DEF InCall
  <2>3. CASE pc' = [pc EXCEPT ![c] = "create"] /\ req' = [req EXCEPT ![c] = r]
    BY <2>1, <2>3 DEF InCall
  <2>4. QED
    BY <1>1, <2>2, <2>3 DEF dm_call
<1>2. CASE reuse_work_item(c)
  BY <1>2 DEF reuse_work_item, InCall
<1>3. CASE \/ no_free_item(c) \/ malloc_fails(c)
           \/ \E k \in 1 .. MaxChunks : malloc_work_items(c, k)
  BY <1>3 DEF no_free_item, malloc_work_items, malloc_fails, InCall, queueVars
<1>4. CASE enqueue_work_item(c)
  <2>1. /\ pc[c] = "enqueue" /\ item[c] \in Items /\ UNCHANGED <<item, req>>
        /\ pc' = [pc EXCEPT ![c] = "post"] /\ work' = [work EXCEPT ![item[c]].req = req[c]]
    BY <1>4 DEF enqueue_work_item, Owning
  <2>2. \A i \in Items : work'[i].req = IF i = item[c] THEN req[c] ELSE work[i].req
    BY <2>1 DEF FileOK, WorkEntries
  <2>3. \A d \in Clients : pc[d] \in {"post", "wait"} => item[d] \in Items
    BY DEF Owning
  <2>4. \A d \in Clients : pc[d] \in {"post", "wait"} => item[d] # item[c]
    BY <2>1 DEF Parts, Exclusive, Owning
  <2>5. QED
    BY <2>1, <2>2, <2>3, <2>4 DEF InCall
<1>5. CASE post_work_queued(c) \/ take_result(c)
  BY <1>5 DEF post_work_queued, take_result, InCall
<1>6. CASE destroy_work_item(c)
  <2>1. /\ pc[c] = "destroy" /\ item[c] \in Items
        /\ pc' = [pc EXCEPT ![c] = "idle"] /\ req' = [req EXCEPT ![c] = NoRequest]
        /\ item' = [item EXCEPT ![c] = NoItem]
        /\ \A i \in Items : i # item[c] => work'[i] = work[i]
    BY <1>6 DEF destroy_work_item, QueueTypes, Owning
  <2>2. \A d \in Clients : pc[d] \in {"post", "wait"} => item[d] \in Items /\ item[d] # item[c]
    BY <2>1 DEF Parts, Exclusive, Owning
  <2>3. QED
    BY <2>1, <2>2 DEF InCall
<1>7. QED
  BY <1>1, <1>2, <1>3, <1>4, <1>5, <1>6 DEF ClientStep

(* Nor does one of the worker. *)
LEMMA InCallByWorkers ==
    ASSUME TypeOK, Parts, FileOK, InCall, NEW w \in Workers, WorkerStep(w)
    PROVE  InCall'
<1>1. CASE execute(w)
  <2>1. wpc[w] = "exec" /\ UNCHANGED <<pc, item, req>>
    BY <1>1 DEF execute, Goto, clientVars
  <2>2. cur[w] \in Items
    BY <2>1, InHand
  <2>3. \A i \in Items : work'[i].req = work[i].req
    BY <1>1, <2>2 DEF execute, FileOK, WorkEntries
  <2>4. \A c \in Clients : pc[c] \in {"post", "wait"} => item[c] \in Items
    BY DEF TypeOK, ClientTypes, Owning
  <2>5. QED
    BY <2>1, <2>3, <2>4 DEF InCall
<1>2. CASE ~execute(w)
  <2>1. UNCHANGED <<pc, item, req, work>>
    BY <1>2 DEF WorkerStep, WorkerInit, WorkerLoop, init_queues, open_file, open_fails,
           boot_restart, publish_fd, check_exit, skip_sleep, enter_sleep, wake_up,
           dequeue_work_item, drained, close_file, read_free_head,
           unlink_free_head, destroy_queues, queueVars, clientVars
  <2>2. QED
    BY <2>1 DEF InCall
<1>3. QED
  BY <1>1, <1>2

\* As long as no worker has left beside a call
InCallWhileCalm == ~raced => InCall

(* Nor do the shell and the power. *)
LEMMA InCallStep ==
    ASSUME TypeOK, PartsWhileCalm, FileOK, InCallWhileCalm, [Next]_vars
    PROVE  InCallWhileCalm'
<1> SUFFICES ASSUME ~raced' PROVE InCall'
    BY DEF InCallWhileCalm
<1>0. ~PowerLoss => Parts /\ InCall
  BY StaysCalm DEF PartsWhileCalm, InCallWhileCalm
<1>1. CASE start \/ stop \/ UNCHANGED vars
  BY <1>0, <1>1 DEF start, stop, vars, queueVars, clientVars, InCall, PowerLoss
<1>2. CASE PowerLoss
  BY <1>2 DEF PowerLoss, InCall
<1>3. QED
  BY <1>0, <1>1, <1>2, InCallByCallers, InCallByWorkers DEF Next
-----------------------------------------------------------------------------
(* A worker that is started once *)

\* Where it has not reset the file yet, and where it has the file open
Early == {"off", "init", "open", "restart"}
Open == {"restart", "publish", "top", "sleep", "asleep", "drain", "exec", "close"}
OneRun ==
    /\ wpc[1] \in Open => g_task_fd \in openFds
    /\ wpc[1] \in Early => \A s \in Sectors : file.sec[s] = Empty

(* The task goes from one to the other. *)
LEMMA OneWorker ==
    ASSUME MaxStarts = 1, MaxCrashes = 0, TypeOK, Started, [Next]_vars
    PROVE  /\ 1 \in Workers /\ \A w \in Workers : w = 1
           /\ wpc'[1] \in Early => wpc[1] \in Early
           /\ wpc'[1] \in Open => (wpc[1] \in Open /\ UNCHANGED <<g_task_fd, openFds>>) \/ open_file(1)
<1>1. 1 \in Workers /\ \A w \in Workers : w = 1
  BY DEF Workers
<1> USE <1>1 DEF TypeOK, WorkerTypes, Early, Open
<1>2. CASE \E c \in Clients : (\E r \in Requests : dm_call(c, r)) \/ ClientStep(c)
  BY <1>2 DEF dm_call, ClientStep, reuse_work_item, no_free_item, malloc_work_items,
                malloc_fails, enqueue_work_item, post_work_queued, take_result,
                destroy_work_item, fdVars
<1>3. CASE WorkerInit(1)
  BY <1>3 DEF WorkerInit, init_queues, open_file, open_fails, boot_restart, publish_fd, fdVars, Goto
<1>4. CASE WorkerLoop(1)
  BY <1>4 DEF WorkerLoop, check_exit, skip_sleep, enter_sleep, wake_up,
           dequeue_work_item, execute, drained, close_file, read_free_head,
           unlink_free_head, destroy_queues, fdVars, Goto
<1>5. CASE start
  <2>1. starts = 0 /\ wpc' = [wpc EXCEPT ![starts + 1] = "init"]
    BY <1>5 DEF start, ShellTypes
  <2>2. wpc[1] = "off"
    BY <2>1 DEF Started
  <2>3. QED
    BY <2>1, <2>2
<1>6. CASE stop \/ UNCHANGED vars
  BY <1>6 DEF stop, vars, fdVars
<1>7. ~PowerLoss
  BY DEF PowerLoss, ShellTypes
<1>8. QED
  BY <1>2, <1>3, <1>4, <1>5, <1>6, <1>7 DEF Next, WorkerStep

(* Its file is open from then on, and empty until then. *)
LEMMA OneRunStep ==
    ASSUME MaxStarts = 1, MaxCrashes = 0, TypeOK, Started, FileOK, OneRun, [Next]_vars
    PROVE  OneRun'
<1>1. 1 \in Workers /\ \A w \in Workers : w = 1
  BY OneWorker
<1>2. wpc'[1] \in Open => g_task_fd' \in openFds'
  <2>1. open_file(1) => g_task_fd' \in openFds'
    BY DEF open_file
  <2>2. QED
    BY <2>1, OneWorker DEF OneRun
<1>3. ASSUME wpc'[1] \in Early, NEW s \in Sectors PROVE file'.sec[s] = Empty
  <2>1. wpc[1] \in Early /\ file.sec[s] = Empty
    BY <1>3, OneWorker DEF OneRun
  <2>2. ~Restarting(1)
    BY <1>1, <1>3 DEF Restarting, boot_restart, Goto, TypeOK, WorkerTypes, Early
  <2>3. ~Executing(1)
    BY <2>1 DEF Executing, Early
  <2>4. CASE open_file(1)
    BY <2>1, <2>4 DEF open_file, Opened, NewFile, FileOK, Files
  <2>5. QED
    BY <1>1, <2>1, <2>2, <2>3, <2>4, FileStep
<1>4. QED
  BY <1>2, <1>3 DEF OneRun
-----------------------------------------------------------------------------
(* The data manager as the atomic store *)

\* What a caller that takes no part in a step sees of it
Apart(d) ==
    /\ pc'[d] = pc[d] /\ item'[d] = item[d] /\ ret'[d] = ret[d]
    /\ pc[d] \in {"post", "wait"} =>
          /\ wait_sem'[item[d]] = wait_sem[item[d]]
          /\ work'[item[d]].result = work[item[d]].result

(* For it the call is where it was. *)
LEMMA ApartSees ==
    ASSUME NEW d \in Clients, Apart(d)
    PROVE  AbsPhase(d)' = AbsPhase(d) /\ AbsAnswer(d)' = AbsAnswer(d)
BY DEF Apart, AbsPhase, AbsAnswer, Answered

(* The step is none of the atomic store. *)
LEMMA Unseen ==
    ASSUME Stored(file)' = Stored(file), UNCHANGED req,
           \A c \in Clients : AbsPhase(c)' = AbsPhase(c) /\ AbsAnswer(c)' = AbsAnswer(c)
    PROVE  UNCHANGED Atomic!vars
BY DEF Atomic!vars

(* The step of the atomic store is one of caller c. *)
LEMMA Seen ==
    ASSUME NEW c \in Clients, \A d \in Clients \ {c} : Apart(d)
    PROVE  /\ [d \in Clients |-> AbsPhase(d)]' = [[d \in Clients |-> AbsPhase(d)] EXCEPT ![c] = AbsPhase(c)']
           /\ [d \in Clients |-> AbsAnswer(d)]' = [[d \in Clients |-> AbsAnswer(d)] EXCEPT ![c] = AbsAnswer(c)']
<1>1. \A d \in Clients \ {c} : AbsPhase(d)' = AbsPhase(d) /\ AbsAnswer(d)' = AbsAnswer(d)
  BY ApartSees
<1>2. QED
  BY <1>1

(* A call begins, or is refused at once. *)
LEMMA CallIsSeen ==
    ASSUME TypeOK, InCall, NEW c \in Clients, NEW r \in Requests, dm_call(c, r)
    PROVE  Atomic!Next
<1> USE DEF TypeOK, ClientTypes
<1>1. pc[c] = "idle" /\ UNCHANGED <<file, item, wait_sem, work>> /\ req[c] = NoRequest
  BY DEF dm_call, queueVars, InCall
<1>2. \A d \in Clients \ {c} : Apart(d)
  BY DEF dm_call, queueVars, Apart
<1>3. AbsPhase(c) = "idle" /\ AbsAnswer(c) = ret[c] /\ UNCHANGED Stored(file)
  BY <1>1 DEF AbsPhase, AbsAnswer, Answered
<1>4. CASE Accepting
  <2>1. pc'[c] = "create" /\ req' = [req EXCEPT ![c] = r] /\ ret'[c] = 0
    BY <1>4 DEF dm_call
  <2>2. AbsPhase(c)' = "pending" /\ AbsAnswer(c)' = 0
    BY <2>1 DEF AbsPhase, AbsAnswer, Answered
  <2>3. Atomic!Invoke(c, r)
    BY <1>2, <1>3, <2>1, <2>2, Seen DEF Atomic!Invoke
  <2>4. QED
    BY <2>3 DEF Atomic!Next
<1>5. CASE ~Accepting
  <2>1. pc' = pc /\ req' = req /\ ret'[c] = -1
    BY <1>5 DEF dm_call, Err
  <2>2. AbsPhase(c)' = "idle" /\ AbsAnswer(c)' = -1
    BY <1>1, <2>1 DEF AbsPhase, AbsAnswer, Answered
  <2>3. req' = [req EXCEPT ![c] = NoRequest]
    BY <1>1, <2>1
  <2>4. Atomic!Fail(c)
    BY <1>2, <1>3, <2>2, <2>3, Seen DEF Atomic!Fail, Atomic!NoCall, NoRequest
  <2>5. QED
    BY <2>4 DEF Atomic!Next
<1>6. QED
  BY <1>4, <1>5

(* It fails for want of memory. *)
LEMMA FailIsSeen ==
    ASSUME TypeOK, NEW c \in Clients, malloc_fails(c)
    PROVE  Atomic!Next
<1>1. /\ pc[c] = "malloc" /\ pc'[c] = "idle" /\ ret'[c] = -1 /\ UNCHANGED file
      /\ req' = [req EXCEPT ![c] = NoRequest]
  BY DEF malloc_fails, TypeOK, ClientTypes, Err
<1>2. \A d \in Clients \ {c} : Apart(d)
  BY DEF malloc_fails, queueVars, Apart, TypeOK, ClientTypes
<1>3. AbsPhase(c) = "pending" /\ AbsPhase(c)' = "idle" /\ AbsAnswer(c)' = -1
  BY <1>1 DEF AbsPhase, AbsAnswer, Answered
<1>4. Atomic!Fail(c)
  BY <1>1, <1>2, <1>3, Seen DEF Atomic!Fail, Atomic!NoCall, NoRequest
<1>5. QED
  BY <1>4 DEF Atomic!Next

(* It returns. *)
LEMMA ReturnIsSeen ==
    ASSUME TypeOK, Parts, NEW c \in Clients, destroy_work_item(c)
    PROVE  Atomic!Next
<1> USE DEF TypeOK, ClientTypes, QueueTypes
<1>1. /\ pc[c] = "destroy" /\ pc'[c] = "idle" /\ UNCHANGED <<file, ret>>
      /\ req' = [req EXCEPT ![c] = NoRequest]
  BY DEF destroy_work_item
<1>2. \A d \in Clients \ {c} : Apart(d)
  <2>1. \A d \in Clients : pc[d] \in {"post", "wait"} => item[d] \in Items /\ item[d] # item[c]
    BY <1>1 DEF Parts, Exclusive, Owning
  <2>2. QED
    BY <2>1 DEF destroy_work_item, Apart
<1>3. /\ AbsPhase(c) = "done" /\ AbsPhase(c)' = "idle"
      /\ AbsAnswer(c) = ret[c] /\ AbsAnswer(c)' = ret[c]
  BY <1>1 DEF AbsPhase, AbsAnswer, Answered
<1>4. [d \in Clients |-> AbsAnswer(d)]' = [d \in Clients |-> AbsAnswer(d)]
  <2>1. \A d \in Clients : AbsAnswer(d)' = AbsAnswer(d)
    BY <1>2, <1>3, ApartSees
  <2>2. QED
    BY <2>1
<1>5. Atomic!Return(c)
  BY <1>1, <1>2, <1>3, <1>4, Seen DEF Atomic!Return, Atomic!NoCall, NoRequest
<1>6. QED
  BY <1>5 DEF Atomic!Next

(* The worker performs it. *)
LEMMA ExecuteIsSeen ==
    ASSUME TypeOK, Parts, FileOK, InCall, NEW w \in Workers, execute(w), g_task_fd \in openFds
    PROVE  Atomic!Next
<1> USE DEF TypeOK, ClientTypes, QueueTypes
<1>1. wpc[w] = "exec"
  BY DEF execute, Goto
<1>2. PICK c \in Clients : pc[c] \in {"post", "wait"} /\ item[c] = cur[w] /\ wait_sem[cur[w]] = 0
  BY <1>1 DEF Parts, CurPending, Pending
<1>3. cur[w] \in Items /\ work[cur[w]].req = req[c] /\ req[c] \in RequestType
  BY <1>2 DEF InCall, Owning
<1>4. PICK out \in Handle(file, req[c]) :
          file' = out[1] /\ work' = [work EXCEPT ![cur[w]].result = out[2]]
  BY <1>3 DEF execute
<1>5. /\ UNCHANGED <<pc, item, req, ret>>
      /\ wait_sem' = [wait_sem EXCEPT ![cur[w]] = wait_sem[cur[w]] + 1]
  BY DEF execute, clientVars
<1>6. \A d \in Clients \ {c} : Apart(d)
  <2>1. \A d \in Clients \ {c} : pc[d] \in {"post", "wait"} => item[d] \in Items /\ item[d] # cur[w]
    BY <1>2 DEF Parts, Exclusive, Owning
  <2>2. QED
    BY <1>3, <1>4, <1>5, <2>1 DEF Apart
<1>7. wait_sem'[cur[w]] = 1 /\ work'[cur[w]].result = out[2]
  BY <1>2, <1>3, <1>4, <1>5 DEF FileOK, WorkEntries
<1>8. AbsPhase(c) = "pending" /\ AbsPhase(c)' = "done" /\ AbsAnswer(c)' = out[2]
  BY <1>2, <1>5, <1>7 DEF AbsPhase, AbsAnswer, Answered
<1>9. <<Stored(out[1]), out[2]>> \in AtomicOutcomes(Stored(file), req[c])
  BY <1>3, PromisedOutcomes DEF FileOK, ShellTypes
<1>10. Atomic!Perform(c)
  <2> DEFINE o == <<Stored(out[1]), out[2]>>
  <2>1. Stored(file)' = o[1] /\ o[2] = out[2]
    BY <1>4 DEF Stored
  <2>2. [d \in Clients |-> AbsAnswer(d)]' = [[d \in Clients |-> AbsAnswer(d)] EXCEPT ![c] = o[2]]
    BY <1>6, <1>8, Seen
  <2>3. [d \in Clients |-> AbsPhase(d)]' = [[d \in Clients |-> AbsPhase(d)] EXCEPT ![c] = "done"]
    BY <1>6, <1>8, Seen
  <2> HIDE DEF o
  <2>4. o \in AtomicOutcomes(Stored(file), req[c])
    BY <1>9 DEF o
  <2>5. [d \in Clients |-> AbsPhase(d)][c] = "pending"
    BY <1>8
  <2>6. QED
    BY <1>5, <2>1, <2>2, <2>3, <2>4, <2>5 DEF Atomic!Perform
<1>11. QED
  BY <1>10 DEF Atomic!Next

(* What callers do to get at their result is not seen by anybody. *)
LEMMA CallerUnseen ==
    ASSUME TypeOK, Parts, NEW c \in Clients, ClientStep(c),
           ~malloc_fails(c), ~destroy_work_item(c)
    PROVE  UNCHANGED Atomic!vars
<1> USE DEF TypeOK, ClientTypes, QueueTypes
<1>1. UNCHANGED <<file, req>>
  BY DEF ClientStep, reuse_work_item, no_free_item, malloc_work_items, enqueue_work_item,
         post_work_queued, take_result, queueVars
<1>2. SUFFICES ASSUME TRUE
               PROVE  /\ \A d \in Clients \ {c} : Apart(d)
                      /\ AbsPhase(c)' = AbsPhase(c) /\ AbsAnswer(c)' = AbsAnswer(c)
  BY <1>1, ApartSees, Unseen DEF Stored
<1>3. \A d \in Clients : pc[d] \in {"post", "wait"} => item[d] \in Items
  BY DEF Owning
<1>4. \A d \in Clients \ {c} : pc[c] \in Owning /\ pc[d] \in {"post", "wait"} => item[d] # item[c]
  BY DEF Parts, Exclusive, Owning
<1>5. ASSUME reuse_work_item(c)
      PROVE  /\ \A d \in Clients \ {c} : Apart(d)
             /\ AbsPhase(c)' = AbsPhase(c) /\ AbsAnswer(c)' = AbsAnswer(c)
  <2>1. \A d \in Clients : pc[d] \in {"post", "wait"} => item[d] # Head(g_free_q)
    <3>1. Head(g_free_q) = g_free_q[1] /\ 1 \in 1 .. Len(g_free_q)
      BY <1>5 DEF reuse_work_item
    <3>2. QED
      BY <3>1 DEF Parts, Exclusive, Owning
  <2>2. \A d \in Clients \ {c} : Apart(d)
    BY <1>3, <1>5, <2>1 DEF reuse_work_item, Apart
  <2>3. pc[c] = "create" /\ pc'[c] = "enqueue" /\ ret' = ret
    BY <1>5 DEF reuse_work_item
  <2>4. QED
    BY <2>2, <2>3 DEF AbsPhase, AbsAnswer, Answered
<1>6. ASSUME no_free_item(c)
      PROVE  /\ \A d \in Clients \ {c} : Apart(d)
             /\ AbsPhase(c)' = AbsPhase(c) /\ AbsAnswer(c)' = AbsAnswer(c)
  <2>1. \A d \in Clients \ {c} : Apart(d)
    BY <1>6 DEF no_free_item, queueVars, Apart
  <2>2. pc[c] = "create" /\ pc'[c] = "malloc" /\ ret' = ret
    BY <1>6 DEF no_free_item
  <2>3. QED
    BY <2>1, <2>2 DEF AbsPhase, AbsAnswer, Answered
<1>7. ASSUME NEW k \in 1 .. MaxChunks, malloc_work_items(c, k)
      PROVE  /\ \A d \in Clients \ {c} : Apart(d)
             /\ AbsPhase(c)' = AbsPhase(c) /\ AbsAnswer(c)' = AbsAnswer(c)
  <2>1. \A d \in Clients : pc[d] \in {"post", "wait"} => item[d] # <<k, 0>>
    BY <1>7 DEF malloc_work_items, Parts, Exclusive, Owning
  <2>2. \A d \in Clients \ {c} : Apart(d)
    BY <1>3, <1>7, <2>1 DEF malloc_work_items, Apart
  <2>3. pc[c] = "malloc" /\ pc'[c] = "enqueue" /\ ret' = ret
    BY <1>7 DEF malloc_work_items
  <2>4. QED
    BY <2>2, <2>3 DEF AbsPhase, AbsAnswer, Answered
<1>8. ASSUME enqueue_work_item(c)
      PROVE  /\ \A d \in Clients \ {c} : Apart(d)
             /\ AbsPhase(c)' = AbsPhase(c) /\ AbsAnswer(c)' = AbsAnswer(c)
  <2>1. pc[c] = "enqueue" /\ pc'[c] = "post" /\ UNCHANGED <<item, ret, wait_sem>>
    BY <1>8 DEF enqueue_work_item
  <2>2. \A d \in Clients \ {c} : Apart(d)
    <3>1. \A i \in Items : i # item[c] => work'[i] = work[i]
      BY <1>8 DEF enqueue_work_item
    <3>2. QED
      BY <1>3, <1>4, <1>8, <2>1, <3>1 DEF Apart, enqueue_work_item, Owning
  <2>3. wait_sem[item[c]] = 0
    BY <2>1 DEF Parts, EnqueueFresh
  <2>4. QED
    BY <2>1, <2>2, <2>3 DEF AbsPhase, AbsAnswer, Answered
<1>9. ASSUME post_work_queued(c)
      PROVE  /\ \A d \in Clients \ {c} : Apart(d)
             /\ AbsPhase(c)' = AbsPhase(c) /\ AbsAnswer(c)' = AbsAnswer(c)
  <2>1. pc[c] = "post" /\ pc'[c] = "wait" /\ UNCHANGED <<item, ret, wait_sem, work>>
    BY <1>9 DEF post_work_queued
  <2>2. \A d \in Clients \ {c} : Apart(d)
    BY <1>9 DEF post_work_queued, Apart
  <2>3. QED
    BY <2>1, <2>2 DEF AbsPhase, AbsAnswer, Answered
<1>10. ASSUME take_result(c)
       PROVE  /\ \A d \in Clients \ {c} : Apart(d)
              /\ AbsPhase(c)' = AbsPhase(c) /\ AbsAnswer(c)' = AbsAnswer(c)
  <2>1. /\ pc[c] = "wait" /\ wait_sem[item[c]] > 0 /\ pc'[c] = "destroy"
        /\ ret'[c] = work[item[c]].result
    BY <1>10 DEF take_result
  <2>2. \A d \in Clients \ {c} : Apart(d)
    BY <1>3, <1>4, <1>10, <2>1 DEF take_result, Apart, Owning
  <2>3. QED
    BY <2>1, <2>2 DEF AbsPhase, AbsAnswer, Answered
<1>11. QED
  BY <1>5, <1>6, <1>7, <1>8, <1>9, <1>10 DEF ClientStep

(* A file nothing was written to since NewFile is left as it is at a start. *)
LEMMA ResetOfNothing ==
    ASSUME FileOK, NEW w \in Workers, open_file(w) \/ boot_restart(w),
           \A s \in Sectors : file.sec[s] = Empty
    PROVE  Stored(file)' = Stored(file)
<1>1. \A s \in Sectors : file'.sec[s] = Empty
  <2>1. CASE open_file(w)
    BY <2>1 DEF open_file, Opened, NewFile, FileOK, Files
  <2>2. CASE boot_restart(w)
    <3>1. UNCHANGED file \/ \E out \in _restart(file, reason) : file' = out[1]
      <4>1. UNCHANGED file \/ \E f \in BootRestart(file, reason) : file' = f
        BY <2>2 DEF boot_restart
      <4>2. CASE reason \in {POWER_ON, IN_FLIGHT}
        BY <4>1, <4>2 DEF BootRestart
      <4>3. CASE reason \notin {POWER_ON, IN_FLIGHT}
        BY <4>1, <4>3 DEF BootRestart
      <4>4. QED
        BY <4>2, <4>3
    <3>2. UNCHANGED file \/ \E S : file' = Blank(file, S)
      BY <3>1, RestartOutcomes
    <3>3. QED
      BY <3>2, BlankType DEF FileOK
  <2>3. QED
    BY <2>1, <2>2
<1>2. QED
  BY <1>1, AddressSectors DEF Stored

(* Nor is what the worker does between two requests. *)
LEMMA WorkerUnseen ==
    ASSUME FileOK, OneRun, NEW w \in Workers, w = 1, WorkerStep(w), ~execute(w)
    PROVE  UNCHANGED Atomic!vars
<1>1. UNCHANGED <<pc, item, req, ret, wait_sem, work>>
  BY DEF WorkerStep, WorkerInit, WorkerLoop, init_queues, open_file, open_fails,
         boot_restart, publish_fd, check_exit, skip_sleep, enter_sleep, wake_up,
         dequeue_work_item, drained, close_file, read_free_head,
           unlink_free_head, destroy_queues, queueVars, clientVars
<1>2. \A c \in Clients : Apart(c)
  BY <1>1 DEF Apart
<1>3. Stored(file)' = Stored(file)
  <2>1. CASE open_file(w) \/ boot_restart(w)
    <3>1. wpc[1] \in Early
      BY <2>1 DEF open_file, boot_restart, Goto, Early
    <3>2. QED
      BY <2>1, <3>1, ResetOfNothing DEF OneRun
  <2>2. CASE ~open_file(w) /\ ~boot_restart(w)
    <3>1. UNCHANGED file
      BY <2>2 DEF WorkerStep, WorkerInit, WorkerLoop, init_queues, open_fails, publish_fd,
           check_exit, skip_sleep, enter_sleep, wake_up, dequeue_work_item, drained,
           close_file, read_free_head, unlink_free_head, destroy_queues
    <3>2. QED
      BY <3>1 DEF Stored
  <2>3. QED
    BY <2>1, <2>2
<1>4. QED
  BY <1>1, <1>2, <1>3, ApartSees, Unseen

(* It begins empty, nobody in a call. *)
LEMMA AtomicInit == Init => Atomic!Init
<1> SUFFICES ASSUME Init PROVE Atomic!Init
  OBVIOUS
<1>1. \A a \in Addresses : Plain(file.sec[SectorOf(a)]) = [len |-> 0, pers |-> 0, val |-> -2]
  BY AddressSectors DEF Init, NewFile, Plain, Empty, Torn
<1>2. \A c \in Clients : AbsPhase(c) = "idle" /\ AbsAnswer(c) = 0
  BY DEF Init, AbsPhase, AbsAnswer, Answered
<1>3. QED
  BY <1>1, <1>2 DEF Init, Stored, Atomic!Init, Atomic!NoCall, NoRequest

(* Every step of a worker started once, and of its callers, is one of the  *)
(* atomic store or not seen, until the worker leaves beside a call.        *)
LEMMA AtomicStep ==
    ASSUME MaxStarts = 1, MaxCrashes = 0, TypeOK, PartsWhileCalm, FileOK, Started,
           InCallWhileCalm, OneRun, [Next]_vars
    PROVE  [Atomic!Next \/ raced']_(Atomic!vars)
<1> SUFFICES ASSUME ~raced' PROVE [Atomic!Next]_(Atomic!vars)
    OBVIOUS
<1>0. ~PowerLoss /\ Parts /\ InCall
  <2>1. ~PowerLoss
    BY DEF PowerLoss, TypeOK, ShellTypes
  <2>2. QED
    BY <2>1, StaysCalm DEF PartsWhileCalm, InCallWhileCalm
<1>1. ASSUME NEW c \in Clients, NEW r \in Requests, dm_call(c, r) PROVE Atomic!Next
  BY <1>0, <1>1, CallIsSeen
<1>2. ASSUME NEW c \in Clients, ClientStep(c) PROVE [Atomic!Next]_(Atomic!vars)
  BY <1>0, <1>2, FailIsSeen, ReturnIsSeen, CallerUnseen
<1>3. ASSUME NEW w \in Workers, WorkerStep(w) PROVE [Atomic!Next]_(Atomic!vars)
  <2>1. w = 1
    BY OneWorker
  <2>2. execute(w) => g_task_fd \in openFds
    BY <2>1 DEF execute, Goto, OneRun, Open
  <2>3. QED
    BY <1>0, <1>3, <2>1, <2>2, ExecuteIsSeen, WorkerUnseen
<1>4. CASE start \/ stop \/ UNCHANGED vars
  <2>1. UNCHANGED <<file, pc, item, req, ret, wait_sem, work>>
    BY <1>4 DEF start, stop, vars, queueVars, clientVars
  <2>2. \A c \in Clients : Apart(c)
    BY <2>1 DEF Apart
  <2>3. Stored(file)' = Stored(file)
    BY <2>1 DEF Stored
  <2>4. QED
    BY <2>1, <2>2, <2>3, ApartSees, Unseen
<1>5. QED
  BY <1>0, <1>1, <1>2, <1>3, <1>4 DEF Next

(* From a start to the end of the run, whatever callers, queues, chunks,   *)
(* stops, I/O errors and the file system do: each dm_read, dm_write,       *)
(* dm_clear and dm_restart takes effect at one instant between its call    *)
(* and its return, and returns what belongs to that effect, until the      *)
(* stopped worker leaves beside a call.                                    *)
THEOREM IsAtomicStore ==
    ASSUME MaxStarts = 1, MaxCrashes = 0 PROVE Spec => ImplementsAtomicStore
<1>1. Init => InCallWhileCalm /\ OneRun
  BY DEF Init, InCallWhileCalm, InCall, OneRun, NewFile, Open, Workers
<1>2. TypeOK /\ PartsWhileCalm /\ FileOK /\ Started /\ InCallWhileCalm /\ OneRun
        /\ [Next]_vars => InCallWhileCalm' /\ OneRun'
  BY InCallStep, OneRunStep
<1>3. TypeOK /\ PartsWhileCalm /\ FileOK /\ Started /\ InCallWhileCalm /\ OneRun
        /\ [Next]_vars => [Atomic!Next \/ raced']_(Atomic!vars)
  BY AtomicStep
<1>4. QED
  BY <1>1, <1>2, <1>3, AtomicInit, IInvCorrect, FileAlways, StartedAlways, PTL
     DEF Spec, ImplementsAtomicStore
=============================================================================
