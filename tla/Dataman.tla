------------------------------ MODULE Dataman ------------------------------
(***************************************************************************)
(* The data manager (src/modules/dataman/dataman.c): tasks call            *)
(* dm_read/dm_write/dm_clear/dm_restart; each call takes a work item from  *)
(* a free queue, puts it on a work queue and sleeps on the item's own      *)
(* semaphore until the worker task has executed it.  The worker is started *)
(* and stopped by shell commands, and the power may fail at any time.      *)
(*                                                                         *)
(* Every critical section under a queue mutex is one step; what the worker *)
(* does without the mutex when it leaves is not.  A start of the worker is *)
(* numbered: task w is the one of the w-th start, and the file descriptor  *)
(* it opens is w too, so that tasks of two starts can overlap.             *)
(***************************************************************************)
EXTENDS DatamanFile, Sequences

CONSTANTS Clients,      \* tasks that call dm_*()
          Requests,     \* the calls they may make
          ChunkSize,    \* k_work_item_allocation_chunk_size
          MaxChunks,    \* bound: mallocs of work items that succeed
          MaxPosts,     \* SEM_VALUE_MAX, for g_work_queued_sema
          MaxStarts,    \* bound: starts of the worker
          MaxStops,     \* bound: "dataman stop" commands
          MaxCrashes,   \* bound: power losses
          Reasons       \* SYS_RESTART_TYPE at a start

None == 0               \* a descriptor of -1
Workers == 1 .. MaxStarts
Items == (1 .. MaxChunks) \X (0 .. ChunkSize - 1)     \* chunk, place in it
IsFirst(i) == i[2] = 0
NoItem == <<0, 0>>
NoRequest == [func |-> "none"]

RequestType ==
    [func : {"write"}, item : Nat, index : Nat, pers : Persistence, val : Values]
    \cup [func : {"read"}, item : Nat, index : Nat]
    \cup [func : {"clear"}, item : Nat]
    \cup [func : {"restart"}, reason : {POWER_ON, IN_FLIGHT}]

ASSUME QueueAssumption ==
    /\ ChunkSize \in Nat \ {0} /\ MaxChunks \in Nat /\ MaxPosts \in Nat \ {0}
    /\ MaxStarts \in Nat /\ MaxStops \in Nat /\ MaxCrashes \in Nat
    /\ Requests \subseteq RequestType
    /\ Reasons \subseteq {POWER_ON, IN_FLIGHT, UNKNOWN}

VARIABLES
    file,               \* the file on the card, kept over a power loss
    g_fd,               \* descriptor callers test
    g_task_fd,          \* descriptor the worker uses
    openFds,            \* descriptors open in the file system
    g_task_should_exit,
    g_work_q, g_free_q, \* pending items and free items, in the order of their lists
    g_work_queued_sema, \* count of the semaphore the worker sleeps on
    wait_sem,           \* count of each item's semaphore
    work,               \* func, parameters and result of each item
    pc, item, req, ret, \* per client: place in the call, its item, its call, its
                        \* result (0 before there is one)
    wpc, cur,           \* per worker task: place in task_main, the item in "work"
    starting,           \* the shell sleeps on g_init_sema
    chunks,             \* chunks obtained from malloc and not freed
    reason,             \* reason of the last start
    starts, stops, crashes,
    raced               \* history, read by no step: a worker task has left
                        \* beside a call or beside another worker task

queueVars  == <<g_work_q, g_free_q, g_work_queued_sema, wait_sem, work, chunks>>
clientVars == <<pc, item, req, ret>>
fdVars     == <<g_fd, g_task_fd, openFds, g_task_should_exit>>
shellVars  == <<starting, reason, starts, stops, crashes, raced>>
vars == <<file, queueVars, clientVars, fdVars, wpc, cur, shellVars>>

Init ==
    /\ file = NewFile
    /\ g_fd = None /\ g_task_fd = None /\ openFds = {} /\ g_task_should_exit = FALSE
    /\ g_work_q = <<>> /\ g_free_q = <<>> /\ g_work_queued_sema = 0
    /\ wait_sem = [i \in Items |-> 0]
    /\ work = [i \in Items |-> [req |-> NoRequest, result |-> 0]]
    /\ pc = [c \in Clients |-> "idle"] /\ item = [c \in Clients |-> NoItem]
    /\ req = [c \in Clients |-> NoRequest] /\ ret = [c \in Clients |-> 0]
    /\ wpc = [w \in Workers |-> "off"] /\ cur = [w \in Workers |-> NoItem]
    /\ starting = FALSE /\ chunks = {}
    /\ reason = UNKNOWN /\ starts = 0 /\ stops = 0 /\ crashes = 0 /\ raced = FALSE

\* Places of task_main at which the worker gives the free items back
Leaving == {"cleanup", "unlink"}
SomeoneLeaves == \E w \in Workers : wpc[w] \in Leaving
Alone(w) == /\ \A c \in Clients : pc[c] = "idle"
            /\ \A v \in Workers \ {w} : wpc[v] \in {"off", "dead"}
-----------------------------------------------------------------------------
(* The callers *)

\* "Make sure data manager has been started and is not shutting down"
Accepting == g_fd # None /\ ~g_task_should_exit

dm_call(c, r) ==
    /\ pc[c] = "idle"
    /\ IF Accepting
       THEN /\ pc' = [pc EXCEPT ![c] = "create"]
            /\ req' = [req EXCEPT ![c] = r]
            /\ ret' = [ret EXCEPT ![c] = 0]
       ELSE /\ ret' = [ret EXCEPT ![c] = Err]
            /\ UNCHANGED <<pc, req>>
    /\ raced' = (raced \/ (Accepting /\ SomeoneLeaves))
    /\ UNCHANGED <<file, queueVars, item, fdVars, wpc, cur,
                   starting, reason, starts, stops, crashes>>

\* Mutant of reuse_work_item: the item stays on the free queue
reuse_keeps_free(c) ==
    /\ pc[c] = "create" /\ g_free_q # <<>>
    /\ wait_sem' = [wait_sem EXCEPT ![Head(g_free_q)] = 0]
    /\ item' = [item EXCEPT ![c] = Head(g_free_q)]
    /\ pc' = [pc EXCEPT ![c] = "enqueue"]
    /\ UNCHANGED <<file, g_work_q, g_free_q, g_work_queued_sema, work, chunks, req, ret,
                   fdVars, wpc, cur, shellVars>>

\* create_work_item: reuse the first free item, its semaphore starts at 0
reuse_work_item(c) ==
    /\ pc[c] = "create" /\ g_free_q # <<>>
    /\ g_free_q' = Tail(g_free_q)
    /\ wait_sem' = [wait_sem EXCEPT ![Head(g_free_q)] = 0]
    /\ item' = [item EXCEPT ![c] = Head(g_free_q)]
    /\ pc' = [pc EXCEPT ![c] = "enqueue"]
    /\ UNCHANGED <<file, g_work_q, g_work_queued_sema, work, chunks, req, ret,
                   fdVars, wpc, cur, shellVars>>

\* create_work_item: nothing to reuse, the lock is dropped and malloc follows
no_free_item(c) ==
    /\ pc[c] = "create" /\ g_free_q = <<>>
    /\ pc' = [pc EXCEPT ![c] = "malloc"]
    /\ UNCHANGED <<file, queueVars, item, req, ret, fdVars, wpc, cur, shellVars>>

\* The other items of chunk n as sq_addfirst leaves them on the free queue
Others(n) == [k \in 1 .. ChunkSize - 1 |-> <<n, ChunkSize - k>>]

\* create_work_item: keep the first item of a new chunk, free the others; the
\* memory may be that of a chunk freed before
malloc_work_items(c, n) ==
    /\ pc[c] = "malloc" /\ n \notin chunks
    /\ chunks' = chunks \cup {n}
    /\ g_free_q' = Others(n) \o g_free_q
    /\ item' = [item EXCEPT ![c] = <<n, 0>>]
    /\ wait_sem' = [wait_sem EXCEPT ![<<n, 0>>] = 0]
    /\ pc' = [pc EXCEPT ![c] = "enqueue"]
    /\ UNCHANGED <<file, g_work_q, g_work_queued_sema, work, req, ret,
                   fdVars, wpc, cur, shellVars>>

malloc_fails(c) ==
    /\ pc[c] = "malloc"
    /\ pc' = [pc EXCEPT ![c] = "idle"]
    /\ req' = [req EXCEPT ![c] = NoRequest]
    /\ ret' = [ret EXCEPT ![c] = Err]
    /\ UNCHANGED <<file, queueVars, item, fdVars, wpc, cur, shellVars>>

\* Mutant of enqueue_work_item: the post that follows is forgotten
enqueue_without_post(c) ==
    /\ pc[c] = "enqueue"
    /\ work' = [work EXCEPT ![item[c]].req = req[c]]
    /\ g_work_q' = Append(g_work_q, item[c])
    /\ pc' = [pc EXCEPT ![c] = "wait"]
    /\ UNCHANGED <<file, g_free_q, g_work_queued_sema, wait_sem, chunks, item, req, ret,
                   fdVars, wpc, cur, shellVars>>

\* enqueue_work_item_and_wait_for_result: the item goes to the end of the queue
enqueue_work_item(c) ==
    /\ pc[c] = "enqueue"
    /\ work' = [work EXCEPT ![item[c]].req = req[c]]
    /\ g_work_q' = Append(g_work_q, item[c])
    /\ pc' = [pc EXCEPT ![c] = "post"]
    /\ UNCHANGED <<file, g_free_q, g_work_queued_sema, wait_sem, chunks, item, req, ret,
                   fdVars, wpc, cur, shellVars>>

\* sem_post at SEM_VALUE_MAX fails and leaves the count
Posted == IF g_work_queued_sema < MaxPosts THEN g_work_queued_sema + 1 ELSE MaxPosts

post_work_queued(c) ==
    /\ pc[c] = "post"
    /\ g_work_queued_sema' = Posted
    /\ pc' = [pc EXCEPT ![c] = "wait"]
    /\ UNCHANGED <<file, g_work_q, g_free_q, wait_sem, work, chunks, item, req, ret,
                   fdVars, wpc, cur, shellVars>>

\* Mutant of take_result: the caller does not sleep on its item
take_result_at_once(c) ==
    /\ pc[c] = "wait"
    /\ wait_sem' = [wait_sem EXCEPT ![item[c]] = @ - 1]
    /\ ret' = [ret EXCEPT ![c] = work[item[c]].result]
    /\ pc' = [pc EXCEPT ![c] = "destroy"]
    /\ UNCHANGED <<file, g_work_q, g_free_q, g_work_queued_sema, work, chunks, item, req,
                   fdVars, wpc, cur, shellVars>>

take_result(c) ==
    /\ pc[c] = "wait" /\ wait_sem[item[c]] > 0
    /\ wait_sem' = [wait_sem EXCEPT ![item[c]] = @ - 1]
    /\ ret' = [ret EXCEPT ![c] = work[item[c]].result]
    /\ pc' = [pc EXCEPT ![c] = "destroy"]
    /\ UNCHANGED <<file, g_work_q, g_free_q, g_work_queued_sema, work, chunks, item, req,
                   fdVars, wpc, cur, shellVars>>

\* Somebody besides caller c has its item
Shared(c) ==
    \/ \E d \in Clients \ {c} : pc[d] # "idle" /\ item[d] = item[c]
    \/ \E n \in 1 .. Len(g_work_q) : g_work_q[n] = item[c]
    \/ \E w \in Workers : wpc[w] = "exec" /\ cur[w] = item[c]

\* The item goes to the front of the free queue.  The content of a free item is
\* never read: it is reset to say so, unless somebody else has the item
destroy_work_item(c) ==
    /\ pc[c] = "destroy"
    /\ g_free_q' = <<item[c]>> \o g_free_q
    /\ work' = IF Shared(c) THEN work
               ELSE [work EXCEPT ![item[c]] = [req |-> NoRequest, result |-> 0]]
    /\ item' = [item EXCEPT ![c] = NoItem]
    /\ req' = [req EXCEPT ![c] = NoRequest]
    /\ pc' = [pc EXCEPT ![c] = "idle"]
    /\ UNCHANGED <<file, g_work_q, g_work_queued_sema, wait_sem, chunks, ret,
                   fdVars, wpc, cur, shellVars>>

ClientStep(c) ==
    \/ reuse_work_item(c) \/ no_free_item(c)
    \/ (\E n \in 1 .. MaxChunks : malloc_work_items(c, n)) \/ malloc_fails(c)
    \/ enqueue_work_item(c) \/ post_work_queued(c)
    \/ take_result(c) \/ destroy_work_item(c)
-----------------------------------------------------------------------------
(* The worker task of the w-th start: task_main *)

Goto(w, from, to) == wpc[w] = from /\ wpc' = [wpc EXCEPT ![w] = to]

init_queues(w) ==
    /\ Goto(w, "init", "open")
    /\ g_task_should_exit' = FALSE
    /\ g_work_q' = <<>> /\ g_free_q' = <<>> /\ g_work_queued_sema' = 0
    /\ UNCHANGED <<file, wait_sem, work, chunks, clientVars, g_fd, g_task_fd, openFds,
                   cur, shellVars>>

open_file(w) ==
    /\ Goto(w, "open", "restart")
    /\ file' = Opened(file)
    /\ g_task_fd' = w /\ openFds' = openFds \cup {w}
    /\ UNCHANGED <<queueVars, clientVars, g_fd, g_task_should_exit, cur, shellVars>>

\* "Could not open data manager file": the shell is released all the same
open_fails(w) ==
    /\ Goto(w, "open", "dead")
    /\ IoErrors
    /\ g_task_fd' = None /\ starting' = FALSE
    /\ UNCHANGED <<file, queueVars, clientVars, g_fd, openFds, g_task_should_exit, cur,
                   reason, starts, stops, crashes, raced>>

boot_restart(w) ==
    /\ Goto(w, "restart", "publish")
    /\ IF g_task_fd \in openFds
       THEN \E f \in BootRestart(file, reason) : file' = f
       ELSE UNCHANGED file
    /\ UNCHANGED <<queueVars, clientVars, fdVars, cur, shellVars>>

\* g_fd = g_task_fd, then the shell is told that the worker is up
publish_fd(w) ==
    /\ Goto(w, "publish", "top")
    /\ g_fd' = g_task_fd /\ starting' = FALSE
    /\ UNCHANGED <<file, queueVars, clientVars, g_task_fd, openFds, g_task_should_exit, cur,
                   reason, starts, stops, crashes, raced>>

\* "Close the file handle to stop further queuing"
check_exit(w) ==
    /\ Goto(w, "top", "sleep")
    /\ g_fd' = IF g_task_should_exit THEN None ELSE g_fd
    /\ UNCHANGED <<file, queueVars, clientVars, g_task_fd, openFds, g_task_should_exit, cur,
                   shellVars>>

skip_sleep(w) ==
    /\ g_task_should_exit
    /\ Goto(w, "sleep", "drain")
    /\ UNCHANGED <<file, queueVars, clientVars, fdVars, cur, shellVars>>

\* The test of the exit flag comes first, so a stop may come in between
enter_sleep(w) ==
    /\ ~g_task_should_exit
    /\ Goto(w, "sleep", "asleep")
    /\ UNCHANGED <<file, queueVars, clientVars, fdVars, cur, shellVars>>

wake_up(w) ==
    /\ g_work_queued_sema > 0
    /\ Goto(w, "asleep", "drain")
    /\ g_work_queued_sema' = g_work_queued_sema - 1
    /\ UNCHANGED <<file, g_work_q, g_free_q, wait_sem, work, chunks, clientVars, fdVars, cur,
                   shellVars>>

dequeue_work_item(w) ==
    /\ g_work_q # <<>>
    /\ Goto(w, "drain", "exec")
    /\ cur' = [cur EXCEPT ![w] = Head(g_work_q)]
    /\ g_work_q' = Tail(g_work_q)
    /\ UNCHANGED <<file, g_free_q, g_work_queued_sema, wait_sem, work, chunks, clientVars,
                   fdVars, shellVars>>

\* What the handler of request r may do to file f; without an open file it fails
Handle(f, r) ==
    IF g_task_fd \notin openFds
    THEN {<<f, IF r.func = "restart" THEN 0 ELSE Err>>}
    ELSE CASE r.func = "write"   -> _write(f, r.item, r.index, r.pers, r.val, starts)
           [] r.func = "read"    -> _read(f, r.item, r.index)
           [] r.func = "clear"   -> _clear(f, r.item)
           [] r.func = "restart" -> _restart(f, r.reason)
           [] OTHER              -> {<<f, Err>>}

\* Run the handler, store its result and post the caller's semaphore
execute(w) ==
    /\ Goto(w, "exec", "drain")
    /\ LET i == cur[w] IN
       /\ \E out \in Handle(file, work[i].req) :
              /\ file' = out[1]
              /\ work' = [work EXCEPT ![i].result = out[2]]
       /\ wait_sem' = [wait_sem EXCEPT ![i] = @ + 1]
    /\ cur' = [cur EXCEPT ![w] = NoItem]
    /\ UNCHANGED <<g_work_q, g_free_q, g_work_queued_sema, chunks, clientVars, fdVars, shellVars>>

\* Mutant of drained: a stop leaves the loop with work still queued
drained_early(w) ==
    /\ g_work_q = <<>> \/ g_task_should_exit
    /\ wpc[w] = "drain"
    /\ wpc' = [wpc EXCEPT ![w] =
                 IF g_task_should_exit /\ g_fd = None THEN "close" ELSE "top"]
    /\ UNCHANGED <<file, queueVars, clientVars, fdVars, cur, shellVars>>

\* "time to go????"
drained(w) ==
    /\ g_work_q = <<>>
    /\ wpc[w] = "drain"
    /\ wpc' = [wpc EXCEPT ![w] =
                 IF g_task_should_exit /\ g_fd = None THEN "close" ELSE "top"]
    /\ UNCHANGED <<file, queueVars, clientVars, fdVars, cur, shellVars>>

\* close(g_task_fd), whichever it is by now
close_file(w) ==
    /\ Goto(w, "close", "cleanup")
    /\ openFds' = openFds \ {g_task_fd} /\ g_task_fd' = None
    /\ raced' = (raced \/ ~Alone(w))
    /\ UNCHANGED <<file, queueVars, clientVars, g_fd, g_task_should_exit, cur,
                   starting, reason, starts, stops, crashes>>

(* "The work queue is now empty, empty the free queue": sq_remfirst without *)
(* the lock, so callers and other workers come between its two accesses.    *)

\* sq_remfirst: ret = queue->head
read_free_head(w) ==
    /\ g_free_q # <<>>
    /\ Goto(w, "cleanup", "unlink")
    /\ cur' = [cur EXCEPT ![w] = Head(g_free_q)]
    /\ UNCHANGED <<file, queueVars, clientVars, fdVars, shellVars>>

\* What item i is linked to, wherever it is by now; sq_remfirst and
\* sq_addlast leave a link of NULL
After(q, i) == {SubSeq(q, n + 1, Len(q)) : n \in {m \in 1 .. Len(q) : q[m] = i}}
Flink(i) == IF After(g_free_q, i) # {} THEN After(g_free_q, i)
            ELSE IF After(g_work_q, i) # {} THEN After(g_work_q, i) ELSE {<<>>}

\* sq_remfirst: queue->head = ret->flink; then free() of the chunk, if the
\* item is its first, whoever uses the others
unlink_free_head(w) ==
    /\ Goto(w, "unlink", "cleanup")
    /\ g_free_q' \in Flink(cur[w])
    /\ chunks' = IF IsFirst(cur[w]) THEN chunks \ {cur[w][1]} ELSE chunks
    /\ cur' = [cur EXCEPT ![w] = NoItem]
    /\ UNCHANGED <<file, g_work_q, g_work_queued_sema, wait_sem, work, clientVars,
                   fdVars, shellVars>>

\* destroy_q, sem_destroy (NuttX leaves a count of 1 where nobody waits)
destroy_queues(w) ==
    /\ g_free_q = <<>>
    /\ Goto(w, "cleanup", "dead")
    /\ g_work_queued_sema' \in {g_work_queued_sema, 1}
    /\ UNCHANGED <<file, g_work_q, g_free_q, wait_sem, work, chunks, clientVars,
                   fdVars, cur, shellVars>>

WorkerInit(w) ==
    init_queues(w) \/ open_file(w) \/ open_fails(w) \/ boot_restart(w) \/ publish_fd(w)

WorkerLoop(w) ==
    \/ check_exit(w) \/ skip_sleep(w) \/ enter_sleep(w) \/ wake_up(w)
    \/ dequeue_work_item(w) \/ execute(w) \/ drained(w)
    \/ close_file(w) \/ read_free_head(w) \/ unlink_free_head(w) \/ destroy_queues(w)

WorkerStep(w) == WorkerInit(w) \/ WorkerLoop(w)
-----------------------------------------------------------------------------
(* The shell commands and the power *)

\* "dataman already running" only looks at g_fd
start ==
    /\ ~starting /\ g_fd = None /\ starts < MaxStarts
    /\ starts' = starts + 1 /\ starting' = TRUE
    /\ wpc' = [wpc EXCEPT ![starts + 1] = "init"]
    /\ reason' \in Reasons
    /\ raced' = (raced \/ SomeoneLeaves)
    /\ UNCHANGED <<file, queueVars, clientVars, fdVars, cur, stops, crashes>>

stop ==
    /\ ~starting /\ g_fd # None /\ stops < MaxStops
    /\ stops' = stops + 1
    /\ g_task_should_exit' = TRUE
    /\ g_work_queued_sema' = Posted
    /\ UNCHANGED <<file, g_work_q, g_free_q, wait_sem, work, chunks, clientVars,
                   g_fd, g_task_fd, openFds, wpc, cur, starting, reason, starts, crashes,
                   raced>>

\* A write may be cut short, a clear or restart may have done its first sectors
Interrupted(f, r) ==
    CASE r.func = "write" ->
            {f} \cup (IF calculate_offset(r.item, r.index) = Err THEN {}
                      ELSE {Put(f, calculate_offset(r.item, r.index), Entry(v, r.pers, starts)) :
                              v \in {Torn, r.val}})
      [] r.func = "clear" ->
            {f} \cup (IF calculate_offset(r.item, 0) = Err THEN {}
                      ELSE {Blank(f, {s \in KeySectors(r.item) : s < n}) : n \in 0 .. NumSectors})
      [] r.func = "restart" ->
            {Blank(f, {s \in Sectors : s < n /\ f.sec[s].len > 0
                                      /\ clear_entry(f.sec[s].pers, r.reason)}) : n \in 0 .. NumSectors}
      [] OTHER -> {f}

\* At most one request reaches the file at a time: that of a worker in "exec"
PowerLoss ==
    /\ crashes < MaxCrashes
    /\ \/ UNCHANGED file
       \/ \E w \in Workers : wpc[w] = "exec" /\ file' \in Interrupted(file, work[cur[w]].req)
    /\ g_fd' = None /\ g_task_fd' = None /\ openFds' = {} /\ g_task_should_exit' = FALSE
    /\ g_work_q' = <<>> /\ g_free_q' = <<>> /\ g_work_queued_sema' = 0
    /\ wait_sem' = [i \in Items |-> 0]
    /\ work' = [i \in Items |-> [req |-> NoRequest, result |-> 0]]
    /\ pc' = [c \in Clients |-> "idle"] /\ item' = [c \in Clients |-> NoItem]
    /\ req' = [c \in Clients |-> NoRequest] /\ ret' = [c \in Clients |-> 0]
    /\ wpc' = [w \in Workers |-> "off"] /\ cur' = [w \in Workers |-> NoItem]
    /\ starting' = FALSE /\ chunks' = {} /\ raced' = FALSE
    /\ crashes' = crashes + 1
    /\ UNCHANGED <<reason, starts, stops>>

Next ==
    \/ \E c \in Clients : (\E r \in Requests : dm_call(c, r)) \/ ClientStep(c)
    \/ \E w \in Workers : WorkerStep(w)
    \/ start \/ stop \/ PowerLoss

\* The scheduler runs every task that is not asleep; nothing obliges a client
\* to call, the shell to start or stop the worker, or the power to fail.
Fairness == /\ \A c \in Clients : WF_vars(ClientStep(c))
            /\ \A w \in Workers : WF_vars(WorkerStep(w))

Spec == Init /\ [][Next]_vars
FairSpec == Spec /\ Fairness
-----------------------------------------------------------------------------
(* Properties *)

\* Places of a call at which the client owns a work item
Owning == {"enqueue", "post", "wait", "destroy"}

FdTypes ==
    /\ g_fd \in 0 .. MaxStarts /\ g_task_fd \in 0 .. MaxStarts
    /\ openFds \subseteq Workers /\ g_task_should_exit \in BOOLEAN
QueueTypes ==
    /\ g_work_q \in Seq(Items) /\ g_free_q \in Seq(Items)
    /\ g_work_queued_sema \in Nat /\ wait_sem \in [Items -> Nat]
    /\ DOMAIN work = Items /\ chunks \subseteq 1 .. MaxChunks
ClientTypes ==
    /\ pc \in [Clients -> {"idle", "create", "malloc"} \cup Owning]
    /\ item \in [Clients -> Items \cup {NoItem}]
    /\ \A c \in Clients : pc[c] \in Owning => item[c] \in Items
    /\ req \in [Clients -> RequestType \cup {NoRequest}]
    /\ DOMAIN ret = Clients
WorkerTypes ==
    /\ wpc \in [Workers -> {"off", "init", "open", "restart", "publish", "top", "sleep",
                            "asleep", "drain", "exec", "close", "cleanup", "unlink", "dead"}]
    /\ cur \in [Workers -> Items \cup {NoItem}]
    /\ \A w \in Workers : wpc[w] \in {"exec", "unlink"} => cur[w] \in Items
ShellTypes ==
    /\ starting \in BOOLEAN /\ reason \in {POWER_ON, IN_FLIGHT, UNKNOWN}
    /\ starts \in 0 .. MaxStarts /\ stops \in Nat /\ crashes \in Nat /\ raced \in BOOLEAN

\* Every variable stays within the type the C declarations give it, and a
\* caller past create_work_item, as a worker that works, has a real item in hand.
TypeOK == FdTypes /\ QueueTypes /\ ClientTypes /\ WorkerTypes /\ ShellTypes

\* A work item serves one call at a time: create_work_item never hands out an
\* item another call still uses, nor one of a chunk that was freed, whatever
\* the order of the callers and the worker, across starts, stops and two worker
\* tasks that overlap - as long as no worker has left beside a call or another
\* worker.  One that does frees chunks whose items are in use (task_main gives
\* the free queue back without asking), and then nothing is claimed.
ItemsExclusive ==
    ~raced =>
        /\ \A c \in Clients : pc[c] \in Owning =>
              /\ \A n \in 1 .. Len(g_free_q) : g_free_q[n] # item[c]
              /\ item[c][1] \in chunks
        /\ \A c, d \in Clients :
              pc[c] \in Owning /\ pc[d] \in Owning /\ item[c] = item[d] => c = d

\* An item on the work queue or in the hands of a worker belongs to a caller
\* still inside enqueue_work_item_and_wait_for_result and not answered yet:
\* the worker never writes a result into a recycled item, nor answers twice -
\* as long as no worker has left beside a call or another worker.
PendingItemsHaveCallers ==
    LET Pending(i) == \E c \in Clients :
            pc[c] \in {"post", "wait"} /\ item[c] = i /\ wait_sem[i] = 0
    IN  ~raced =>
            /\ \A n \in 1 .. Len(g_work_q) : Pending(g_work_q[n])
            /\ \A w \in Workers : wpc[w] = "exec" => Pending(cur[w])

\* No lost wakeup: a worker asleep beside a non-empty queue has a post to come
\* (pending in the semaphore or in the caller that just enqueued), or another
\* worker task is emptying the queue.
NoLostWakeup ==
    \A w \in Workers :
        wpc[w] = "asleep" /\ g_work_q # <<>> =>
            \/ g_work_queued_sema > 0
            \/ \E c \in Clients : pc[c] = "post"
            \/ \E v \in Workers : wpc[v] \in {"drain", "exec"}

\* What an earlier run of the system left in the file never outlives the
\* resets its persistence level promises, once callers are admitted.
NothingOutlivesItsReset ==
    g_fd # None /\ reason \in {POWER_ON, IN_FLIGHT} =>
        \A s \in Sectors :
            file.sec[s].len > 0 /\ file.sec[s].boot < starts =>
                file.sec[s].pers \in IF reason = POWER_ON THEN {POWER_ON} ELSE {POWER_ON, IN_FLIGHT}

\* DM_PERSIST_POWER_ON_RESET, "Data survives all resets": such a sector only
\* changes under a write or clear that a worker is executing, never by a
\* start, a restart request or a power loss elsewhere.
PowerOnDataSurvives ==
    [][\A s \in Sectors :
          file.sec[s].len > 0 /\ file.sec[s].pers = POWER_ON /\ file'.sec[s] # file.sec[s]
            => \E w \in Workers : wpc[w] = "exec" /\ work[cur[w]].req.func \in {"write", "clear"}]_vars

\* Every admitted call returns, unless the worker is stopped.
EveryCallReturns == \A c \in Clients : pc[c] # "idle" ~> pc[c] = "idle" \/ stops > 0

\* A stop drains: what is on the queue before the last pass over it is
\* answered.  (A caller slow to wake up may find its item freed, see raced.)
StopDrains ==
    \A c \in Clients :
        (/\ pc[c] \in {"post", "wait"}
         /\ \E n \in 1 .. Len(g_work_q) : g_work_q[n] = item[c]
         /\ \A w \in Workers : wpc[w] \notin Leaving \cup {"close", "dead"})
        ~> pc[c] \notin {"post", "wait"} \/ wait_sem[item[c]] > 0
-----------------------------------------------------------------------------
(* The store of records that the callers see *)

\* Contents by (item, index)
Addresses == UNION {{<<k, i>> : i \in 0 .. MaxIndex[k] - 1} : k \in Keys}
Plain(e) == [len |-> e.len, pers |-> IF e.len = 0 THEN 0 ELSE e.pers,
             val |-> IF e.len = 0 THEN Torn ELSE e.val]
Blanks == [len |-> 0, pers |-> 0, val |-> Torn]
SectorOf(a) == KeyOffset[a[1]] + a[2]
Stored(f) == [a \in Addresses |-> Plain(f.sec[SectorOf(a)])]

\* An I/O error may leave a record torn, or a clear or restart done in part
Faults(outcomes) == IF IoErrors THEN outcomes ELSE {}
Emptied(store, gone) == [a \in Addresses |-> IF a \in gone THEN Blanks ELSE store[a]]

AtomicOutcomes(store, r) ==
    LET at == <<r.item, r.index>>
        With(v) == [store EXCEPT ![at] = [len |-> 1, pers |-> r.pers, val |-> v]]
        key == {a \in Addresses : a[1] = r.item}
        old == {a \in Addresses : store[a].len > 0 /\ store[a].pers > r.reason}
    IN  CASE r.func \in {"write", "read"} /\ at \notin Addresses -> {<<store, -1>>}
          [] r.func = "write" /\ at \in Addresses ->
                {<<With(r.val), r.val>>} \cup Faults({<<store, -1>>, <<With(Torn), -1>>})
          [] r.func = "read" /\ at \in Addresses ->
                {<<store, IF store[at].len = 0 THEN 0 ELSE store[at].val>>}
                \cup Faults({<<store, -1>>})
          [] r.func = "clear" /\ r.item \notin Keys -> {<<store, -1>>}
          [] r.func = "clear" /\ r.item \in Keys ->
                {<<Emptied(store, key), 0>>}
                \cup Faults({<<Emptied(store, {a \in key : a[2] < n}), e>> :
                               n \in 0 .. MaxIndex[r.item] - 1, e \in {0, -1}})
          [] r.func = "restart" ->
                {<<Emptied(store, old), 0>>}
                \cup Faults({<<Emptied(store, {a \in old : SectorOf(a) < n}), e>> :
                               n \in Sectors, e \in {0, -1}})

\* A call has happened once its item is answered
Answered(c) == pc[c] \in {"post", "wait"} /\ wait_sem[item[c]] > 0
AbsPhase(c) == IF pc[c] = "idle" THEN "idle"
               ELSE IF pc[c] = "destroy" \/ Answered(c) THEN "done" ELSE "pending"
\* Its result is then in the item, until take_result gets it
AbsAnswer(c) == IF Answered(c) THEN work[item[c]].result ELSE ret[c]

Atomic == INSTANCE DatamanAtomic WITH
    Outcomes <- AtomicOutcomes,
    store    <- Stored(file),
    call     <- req,
    phase    <- [c \in Clients |-> AbsPhase(c)],
    answer   <- [c \in Clients |-> AbsAnswer(c)]

\* Seen by its callers, the data manager is the atomic store, as long as no
\* worker has left beside a call: every call takes effect at one instant.
ImplementsAtomicStore == Atomic!Init /\ [][Atomic!Next \/ raced']_(Atomic!vars)
=============================================================================
