----------------------------- MODULE WorkerQueue -----------------------------
(***************************************************************************)
(* The serial work queue of core/worker_queue.py and the worker loop its   *)
(* three subclasses share (SyncDelWebhookQueue, DirectoryUploadQueue,      *)
(* EmbyMediainfoQueue).                                                    *)
(*                                                                         *)
(* Every access to the fields _queue, _worker_thread and _stopping is made *)
(* under _lock, save the read with which a worker picks its queue up; one  *)
(* action therefore stands for one _lock block.  _lifecycle_lock is held   *)
(* across the three blocks of stop() and is the variable lifecycle.  A     *)
(* Queue and the Thread made with it share a generation number; 0 is None. *)
(***************************************************************************)
EXTENDS Naturals, Sequences, Functions

CONSTANTS
    Tasks,      \* tasks producers enqueue, each once
    Callers,    \* threads that call start() and stop()
    NoOne,      \* lifecycle lock free / no task in hand
    Sentinel,   \* WorkerQueue._SENTINEL
    Lazy,       \* enqueue passes lazy_start (SyncDelWebhookQueue does)
    MayDie,     \* a task may raise past `except Exception` and end the thread
    MaxGen      \* bound: how many (Queue, Thread) pairs are ever created

ASSUME MaxGenAssumption == MaxGen \in Nat
ASSUME NamesAssumption == /\ Sentinel \notin Tasks /\ NoOne \notin Tasks
                          /\ NoOne \notin Callers
ASSUME SwitchAssumption == Lazy \in BOOLEAN /\ MayDie \in BOOLEAN

Gens == 1 .. MaxGen
Ref == 0 .. MaxGen

VARIABLES
    queue,          \* self._queue, by generation
    worker,         \* self._worker_thread, by generation
    stopping,       \* self._stopping
    discoveryStop,  \* EmbyMediainfoQueue._discovery_stop
    lifecycle,      \* holder of _lifecycle_lock
    made,           \* generations created so far
    items,          \* content of each Queue
    unfinished,     \* Queue.unfinished_tasks
    thread,         \* state of each worker thread
    mine,           \* the worker's local q
    hand,           \* the task the worker has taken and not yet settled
    pc,             \* where each caller is inside stop()
    stopQueue,      \* the local `queue` of stop()
    stopWorker,     \* the local `worker` of stop()
    accepted,       \* history: tasks for which enqueue returned True
    settled         \* history: tasks for which task_done was called

fields == <<queue, worker, stopping, discoveryStop, made>>
queues == <<items, unfinished>>
threads == <<thread, mine, hand>>
callers == <<lifecycle, pc, stopQueue, stopWorker>>
history == <<accepted, settled>>
vars == <<queue, worker, stopping, discoveryStop, lifecycle, made, items,
          unfinished, thread, mine, hand, pc, stopQueue, stopWorker,
          accepted, settled>>

\* "leaving": the sentinel is settled, the thread has not ended yet.
LiveStates == {"starting", "idle", "busy", "leaving"}
ThreadStates == {"none", "unstarted", "dead"} \union LiveStates

TypeOK ==
    /\ queue \in Ref /\ worker \in Ref /\ made \in Ref
    /\ stopping \in BOOLEAN /\ discoveryStop \in BOOLEAN
    /\ lifecycle \in Callers \union {NoOne}
    /\ items \in [Gens -> Seq(Tasks \union {Sentinel})]
    /\ unfinished \in [Gens -> Nat]
    /\ thread \in [Gens -> ThreadStates]
    /\ mine \in [Gens -> Ref]
    /\ hand \in [Gens -> Tasks \union {NoOne}]
    /\ pc \in [Callers -> {"out", "join", "settle"}]
    /\ stopQueue \in [Callers -> Ref]
    /\ stopWorker \in [Callers -> Ref]
    /\ accepted \subseteq Tasks /\ settled \subseteq Tasks

Init ==
    /\ queue = 0 /\ worker = 0 /\ made = 0
    /\ stopping = FALSE /\ discoveryStop = FALSE
    /\ lifecycle = NoOne
    /\ items = [g \in Gens |-> <<>>]
    /\ unfinished = [g \in Gens |-> 0]
    /\ thread = [g \in Gens |-> "none"]
    /\ mine = [g \in Gens |-> 0]
    /\ hand = [g \in Gens |-> NoOne]
    /\ pc = [c \in Callers |-> "out"]
    /\ stopQueue = [c \in Callers |-> 0]
    /\ stopWorker = [c \in Callers |-> 0]
    /\ accepted = {} /\ settled = {}

------------------------------------------------------------------------------
\* Thread.is_alive, for a reference that may be None or never started.
Alive(g) == g # 0 /\ thread[g] \in LiveStates

Unsettled(g) == g # 0 /\ unfinished[g] > 0

\* Queue.put_nowait: the item and the count it adds to unfinished_tasks.
Put(g, item) ==
    /\ items' = [items EXCEPT ![g] = Append(@, item)]
    /\ unfinished' = [unfinished EXCEPT ![g] = @ + 1]

\* _start_locked once its guards have let it through: a new Queue, admission
\* open, a new Thread.  The thread runs, or Thread.start() raises.
MayCreate == ~Alive(worker) /\ ~Unsettled(queue) /\ made < MaxGen

Create(outcome) ==
    /\ made' = made + 1
    /\ queue' = made + 1
    /\ worker' = made + 1
    /\ stopping' = FALSE
    /\ discoveryStop' = FALSE
    /\ thread' = [thread EXCEPT ![made + 1] = outcome]
    /\ UNCHANGED <<mine, hand>>

\* start() creates, or it is refused or idle: with a live worker nothing
\* changes, with an unsettled queue only the subclass's event is cleared.
Start ==
    /\ lifecycle = NoOne
    /\ \/ /\ MayCreate
          /\ \E outcome \in {"starting", "unstarted"} : Create(outcome)
       \/ /\ ~Alive(worker) /\ Unsettled(queue)
          /\ discoveryStop' = FALSE
          /\ UNCHANGED <<queue, worker, stopping, made, threads>>
    /\ UNCHANGED <<queues, callers, history>>

\* Mutant: admission does not look at _stopping.
EnqueueWhileStopping(t) ==
    /\ t \notin accepted
    /\ Alive(worker) /\ queue # 0
    /\ Put(queue, t)
    /\ accepted' = accepted \union {t}
    /\ UNCHANGED <<fields, threads, callers, settled>>

\* _enqueue_task on a queue whose worker is alive.
Enqueue(t) ==
    /\ t \notin accepted
    /\ ~stopping
    /\ Alive(worker) /\ queue # 0
    /\ Put(queue, t)
    /\ accepted' = accepted \union {t}
    /\ UNCHANGED <<fields, threads, callers, settled>>

\* _enqueue_task(lazy_start=True) on a queue without a live worker: the start
\* is refused, or it fails, or it succeeds and the task goes into the new queue.
EnqueueLazily(t) ==
    /\ Lazy
    /\ t \notin accepted
    /\ ~stopping
    /\ ~Alive(worker)
    /\ \/ /\ MayCreate
          /\ Create("starting")
          /\ Put(made + 1, t)
          /\ accepted' = accepted \union {t}
       \/ /\ MayCreate
          /\ Create("unstarted")
          /\ UNCHANGED <<queues, accepted>>
       \/ /\ Unsettled(queue)
          /\ discoveryStop' = FALSE
          /\ UNCHANGED <<queue, worker, stopping, made, threads, queues,
                         accepted>>
    /\ UNCHANGED <<callers, settled>>

\* Mutants: each request puts a sentinel; _stopping is set before it is tested.
RequestStopAgain ==
    /\ discoveryStop' = TRUE /\ stopping' = TRUE
    /\ IF Alive(worker) THEN Put(queue, Sentinel) ELSE UNCHANGED queues
    /\ UNCHANGED <<queue, worker, made>>

RequestStopUnsent ==
    /\ discoveryStop' = TRUE /\ stopping' = TRUE
    /\ UNCHANGED <<queues, queue, worker, made>>

\* _request_stop_locked: one sentinel for a live worker, then admission closes.
RequestStop ==
    /\ discoveryStop' = TRUE
    /\ stopping' = TRUE
    /\ IF Alive(worker) /\ ~stopping
       THEN Put(queue, Sentinel)
       ELSE UNCHANGED queues
    /\ UNCHANGED <<queue, worker, made>>

\* stop() called by a task that runs on the worker itself.
StopFromWorker(g) ==
    /\ thread[g] = "busy" /\ worker = g
    /\ RequestStop
    /\ UNCHANGED <<threads, callers, history>>

\* stop(), second block: the lifecycle lock is taken, the references captured.
StopRequest(c) ==
    /\ pc[c] = "out" /\ lifecycle = NoOne
    /\ lifecycle' = c
    /\ stopQueue' = [stopQueue EXCEPT ![c] = queue]
    /\ stopWorker' = [stopWorker EXCEPT ![c] = worker]
    /\ pc' = [pc EXCEPT ![c] = IF Alive(worker) THEN "join" ELSE "settle"]
    /\ RequestStop
    /\ UNCHANGED <<threads, history>>

\* Thread.join returns: the worker has ended, or the timeout has passed.
StopJoined(c) ==
    /\ pc[c] = "join"
    /\ pc' = [pc EXCEPT ![c] = "settle"]
    /\ UNCHANGED <<fields, queues, threads, lifecycle, stopQueue, stopWorker,
                   history>>

\* What the last block of stop() finds out about what it captured.
Drained(c) == ~Alive(stopWorker[c]) /\ ~Unsettled(stopQueue[c])

\* stop(), last block: True drops both references, False keeps them.
StopSettle(c) ==
    /\ pc[c] = "settle"
    /\ IF Drained(c)
       THEN queue' = 0 /\ worker' = 0
       ELSE UNCHANGED <<queue, worker>>
    /\ lifecycle' = NoOne
    /\ pc' = [pc EXCEPT ![c] = "out"]
    /\ UNCHANGED <<stopping, discoveryStop, made, queues, threads, stopQueue,
                   stopWorker, history>>

------------------------------------------------------------------------------
\* The worker reads self._queue without the lock; None ends it at once.
WorkerBegins(g) ==
    /\ thread[g] = "starting"
    /\ mine' = [mine EXCEPT ![g] = queue]
    /\ thread' = [thread EXCEPT ![g] = IF queue = 0 THEN "dead" ELSE "idle"]
    /\ UNCHANGED <<fields, queues, hand, callers, history>>

TakesTask(g) ==
    /\ thread[g] = "idle"
    /\ items[mine[g]] # <<>>
    /\ Head(items[mine[g]]) # Sentinel
    /\ hand' = [hand EXCEPT ![g] = Head(items[mine[g]])]
    /\ items' = [items EXCEPT ![mine[g]] = Tail(@)]
    /\ thread' = [thread EXCEPT ![g] = "busy"]
    /\ UNCHANGED <<fields, unfinished, mine, callers, history>>

TakesSentinel(g) ==
    /\ thread[g] = "idle"
    /\ items[mine[g]] # <<>>
    /\ Head(items[mine[g]]) = Sentinel
    /\ items' = [items EXCEPT ![mine[g]] = Tail(@)]
    /\ unfinished' = [unfinished EXCEPT ![mine[g]] = @ - 1]
    /\ thread' = [thread EXCEPT ![g] = "leaving"]
    /\ UNCHANGED <<fields, mine, hand, callers, history>>

\* The task ends, normally or with an Exception that is logged; `finally`
\* settles it.  Anything that is not an Exception ends the thread as well.
EndsTask(g) ==
    /\ thread[g] = "busy"
    /\ unfinished' = [unfinished EXCEPT ![mine[g]] = @ - 1]
    /\ settled' = settled \union {hand[g]}
    /\ hand' = [hand EXCEPT ![g] = NoOne]
    /\ \E next \in IF MayDie THEN {"idle", "dead"} ELSE {"idle"} :
          thread' = [thread EXCEPT ![g] = next]
    /\ UNCHANGED <<fields, items, mine, callers, accepted>>

WorkerExits(g) ==
    /\ thread[g] = "leaving"
    /\ thread' = [thread EXCEPT ![g] = "dead"]
    /\ UNCHANGED <<fields, queues, mine, hand, callers, history>>

Worker(g) == \/ WorkerBegins(g) \/ TakesTask(g) \/ TakesSentinel(g)
             \/ EndsTask(g) \/ WorkerExits(g)

Stop(c) == StopRequest(c) \/ StopJoined(c) \/ StopSettle(c)

Next == \/ Start
        \/ \E t \in Tasks : Enqueue(t) \/ EnqueueLazily(t)
        \/ \E c \in Callers : Stop(c)
        \/ \E g \in Gens : StopFromWorker(g) \/ Worker(g)

Spec == Init /\ [][Next]_vars

\* A thread that can take a step takes it; start, stop and enqueue are called
\* or not, but a stop() that has begun runs to its end.
Fairness == /\ \A g \in Gens : WF_vars(Worker(g))
            /\ \A c \in Callers : WF_vars(StopJoined(c) \/ StopSettle(c))

FairSpec == Spec /\ Fairness
------------------------------------------------------------------------------
Waiting(g) == Range(items[g]) \ {Sentinel}
InHand(g) == {hand[g]} \ {NoOne}
Pending == IF queue = 0 THEN {} ELSE Waiting(queue) \union InHand(queue)

\* No accepted task is lost or left behind in a queue that was replaced: it is
\* settled, waiting in the current queue, or in the hands of the current worker.
\* (_start_locked's unfinished_tasks guard and stop()'s refusal to drop a live
\* worker are what this rests on.)
NoTaskLost == accepted = settled \union Pending

\* However stops from outside and from a running task interleave, a queue gets
\* one sentinel, and no task is put behind it where nobody would process it.
SentinelLast ==
    \A g \in Gens : \A i \in DOMAIN items[g] :
        items[g][i] = Sentinel => i = Len(items[g]) /\ stopping

\* "管理串行工作队列": at most one worker runs, it is the one the object refers
\* to, and the queue it drains is the one producers put into.
OneWorker ==
    \A g \in Gens : thread[g] \in LiveStates =>
        /\ worker = g /\ queue = g
        /\ thread[g] # "starting" => mine[g] = queue

\* stop() that returned True left nothing behind: the references are dropped
\* only when each accepted task is settled and no worker thread runs.
StopBarrier ==
    queue = 0 => accepted = settled /\ \A g \in Gens : thread[g] \notin LiveStates

\* The Emby subclass's event agrees with _stopping whenever somebody reads it.
DiscoveryFollowsStop == Alive(worker) => (discoveryStop <=> stopping)

\* A worker that has left on request left an empty queue; only one that died in
\* a task leaves an unsettled queue behind.
CleanExit == ~MayDie =>
    \A g \in Gens : thread[g] \in {"dead", "leaving"} => unfinished[g] = 0

\* Admission, once closed, is opened again by a start that creates a new queue,
\* at a moment when everything accepted before has been settled.
ReopensSettled == [][stopping /\ ~stopping' => made' = made + 1
                                               /\ accepted = settled]_vars

\* The barrier is reached: a worker that was asked to stop ends.
StopEndsWorker == \A g \in Gens : (worker = g /\ stopping) ~> ~Alive(g)

Phase == IF queue = 0
         THEN IF stopping THEN "stopped" ELSE "fresh"
         ELSE IF stopping THEN "draining" ELSE "open"

Barrier == INSTANCE DrainBarrier WITH phase <- Phase

\* The queue implements the drain barrier.
ImplementsBarrier == Barrier!Spec

------------------------------------------------------------------------------
\* What makes the above inductive, part by part.

\* The object refers to the newest pair or to none; what it no longer refers to
\* has ended and is empty, and nothing exists beyond the newest pair.
Generations ==
    /\ queue = worker /\ queue \in {0, made}
    /\ \A g \in Gens : g > made => thread[g] = "none"
    /\ \A g \in Gens : g # queue =>
          /\ thread[g] \notin LiveStates
          /\ items[g] = <<>> /\ unfinished[g] = 0 /\ hand[g] = NoOne

\* Queue.unfinished_tasks counts what waits and what is being processed.
Counting ==
    \A g \in Gens :
        /\ thread[g] = "busy" => unfinished[g] = Len(items[g]) + 1
        /\ thread[g] # "busy" => unfinished[g] = Len(items[g])
        /\ thread[g] = "busy" <=> hand[g] # NoOne

\* A worker past its first step drains the queue it was made with, and once it
\* has settled the sentinel that queue is empty and closed.
Working ==
    \A g \in Gens :
        /\ thread[g] \in {"idle", "busy", "leaving"} => mine[g] = g
        /\ thread[g] = "leaving" => stopping /\ items[g] = <<>>

\* While a caller is inside stop(), what it captured is still current.
Stoppers ==
    \A c \in Callers : pc[c] # "out" =>
        /\ lifecycle = c /\ stopping
        /\ stopQueue[c] = queue /\ stopWorker[c] = worker

IInv == /\ TypeOK /\ Generations /\ Counting /\ Working /\ Stoppers
        /\ SentinelLast /\ NoTaskLost /\ settled \subseteq accepted
        /\ DiscoveryFollowsStop /\ CleanExit
=============================================================================
