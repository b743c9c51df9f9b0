-------------------------- MODULE BatchCoordinator --------------------------
(***************************************************************************)
(* helper/transfer/batch.py: transfer steps of many host threads are       *)
(* gathered for a short time, validated, grouped by key and executed by    *)
(* one worker thread, while each submitter blocks on its own future.  The  *)
(* executor is DurableBatchTransfer._execute_batch (durable.py 169-181),   *)
(* which validates the leases of a group once more before it calls the     *)
(* cloud.                                                                  *)
(*                                                                         *)
(* A worker thread is named by the operation whose submit() created it, so *)
(* the model needs no bound on threads.  The clock is abstracted to the    *)
(* flag due: the deadline of the pending operations has passed.            *)
(***************************************************************************)
EXTENDS Naturals, Sequences, Functions

CONSTANTS
    Ops,            \* operations, each submitted once
    Keys, KeyOf,    \* what may be merged into one cloud request
    MaxSize,        \* max_size
    Stoppers,       \* threads that call shutdown()
    NoWorker,           \* self._worker is None
    StartMayFail    \* Thread.start() may raise in submit()

ASSUME MaxSizeAssumption == MaxSize \in Nat /\ MaxSize > 0
ASSUME KeyAssumption == KeyOf \in [Ops -> Keys]
ASSUME NoWorkerAssumption == NoWorker \notin Ops
ASSUME StartAssumption == StartMayFail \in BOOLEAN

VARIABLES
    pending,    \* self._pending
    closing,    \* self._closing
    due,        \* monotonic() >= self._deadline
    worker,     \* self._worker
    thread,     \* state of each worker thread
    batch,      \* taken by a worker, not yet validated
    grouped,    \* validated, their group not yet executed
    running,    \* the group being executed, as far as its futures are open
    result,     \* the future of each operation
    owned,      \* the host still holds the task's lease
    caller,     \* the thread that submits the operation
    left,       \* history: operations whose submit() raised after queueing them
    pc, joins,  \* where each stopper is, and the worker it captured
    reported    \* some shutdown() has returned True

submitting == <<pending, due, worker>>
work == <<batch, grouped, running>>
stop == <<closing, pc, joins, reported>>
vars == <<pending, closing, due, worker, thread, batch, grouped, running, result,
          owned, caller, left, pc, joins, reported>>

\* "leaving": the worker has dropped self._worker and is about to end.
ThreadStates == {"none", "unstarted", "top", "working", "leaving", "dead"}

TypeOK ==
    /\ pending \in Seq(Ops)
    /\ closing \in BOOLEAN /\ due \in BOOLEAN /\ reported \in BOOLEAN
    /\ worker \in Ops \union {NoWorker}
    /\ thread \in [Ops -> ThreadStates]
    /\ batch \in [Ops -> SUBSET Ops]
    /\ grouped \in [Ops -> SUBSET Ops]
    /\ running \in [Ops -> SUBSET Ops]
    /\ result \in [Ops -> {"none", "ok", "error"}]
    /\ owned \in [Ops -> BOOLEAN]
    /\ caller \in [Ops -> {"idle", "waiting", "returned"}]
    /\ left \subseteq Ops
    /\ pc \in [Stoppers -> {"out", "join"}]
    /\ joins \in [Stoppers -> Ops \union {NoWorker}]

Init ==
    /\ pending = <<>> /\ closing = FALSE /\ due = FALSE /\ worker = NoWorker
    /\ thread = [o \in Ops |-> "none"]
    /\ batch = [o \in Ops |-> {}]
    /\ grouped = [o \in Ops |-> {}]
    /\ running = [o \in Ops |-> {}]
    /\ result = [o \in Ops |-> "none"]
    /\ owned = [o \in Ops |-> TRUE]
    /\ caller = [o \in Ops |-> "idle"]
    /\ left = {}
    /\ pc = [s \in Stoppers |-> "out"]
    /\ joins = [s \in Stoppers |-> NoWorker]
    /\ reported = FALSE

------------------------------------------------------------------------------
Alive(w) == w # NoWorker /\ thread[w] \in {"top", "working", "leaving"}

\* Mutant: a closed coordinator goes on registering.
RegisterWhileClosing(o) ==
    /\ caller[o] = "idle"
    /\ pending' = Append(pending, o)
    /\ due' = IF pending = <<>> THEN FALSE ELSE due

\* What submit() does under the lock: the first pending operation starts the
\* delay, later ones do not prolong it.
Register(o) ==
    /\ caller[o] = "idle"
    /\ ~closing
    /\ pending' = Append(pending, o)
    /\ due' = IF pending = <<>> THEN FALSE ELSE due

\* submit() while a worker runs.
SubmitToWorker(o) ==
    /\ Alive(worker)
    /\ Register(o)
    /\ caller' = [caller EXCEPT ![o] = "waiting"]
    /\ UNCHANGED <<worker, thread, left>>

\* submit() that creates the worker.
SubmitAndStart(o) ==
    /\ ~Alive(worker)
    /\ Register(o)
    /\ worker' = o
    /\ thread' = [thread EXCEPT ![o] = "top"]
    /\ caller' = [caller EXCEPT ![o] = "waiting"]
    /\ UNCHANGED left

\* submit() whose Thread.start() raises: the operation stays queued and the
\* exception goes to the submitter, who does not wait.
SubmitUnstarted(o) ==
    /\ StartMayFail
    /\ ~Alive(worker)
    /\ Register(o)
    /\ worker' = o
    /\ thread' = [thread EXCEPT ![o] = "unstarted"]
    /\ caller' = [caller EXCEPT ![o] = "returned"]
    /\ left' = left \union {o}

Submit(o) ==
    /\ SubmitToWorker(o) \/ SubmitAndStart(o) \/ SubmitUnstarted(o)
    /\ UNCHANGED <<work, result, owned, stop>>

\* future.result() returns or raises.
Answered(o) ==
    /\ caller[o] = "waiting"
    /\ result[o] # "none"
    /\ caller' = [caller EXCEPT ![o] = "returned"]
    /\ UNCHANGED <<submitting, thread, work, result, owned, left, stop>>

\* The deadline of what is pending passes.
DelayPasses ==
    /\ pending # <<>> /\ ~due
    /\ due' = TRUE
    /\ UNCHANGED <<pending, worker, thread, work, result, owned, caller,
                   left, stop>>

\* Another instance takes the task over, or its lease expires.  (Nobody reads the
\* lease of an operation that is not open.)
LeaseLost(o) ==
    /\ owned[o]
    /\ caller[o] # "idle" /\ result[o] = "none"
    /\ owned' = [owned EXCEPT ![o] = FALSE]
    /\ UNCHANGED <<submitting, thread, work, result, caller, left, stop>>

------------------------------------------------------------------------------
\* _run with nothing pending: the worker steps down in the same block.
Retire(w) ==
    /\ thread[w] = "top"
    /\ pending = <<>>
    /\ worker' = NoWorker
    /\ thread' = [thread EXCEPT ![w] = "leaving"]
    /\ UNCHANGED <<pending, due, work, result, owned, caller, left, stop>>

\* The size of the next batch.
BatchSize == IF Len(pending) < MaxSize THEN Len(pending) ELSE MaxSize

\* Mutant: what is taken is not removed.
TakeKeeping(w) ==
    /\ thread[w] = "top"
    /\ pending # <<>>
    /\ due \/ Len(pending) >= MaxSize \/ closing
    /\ batch' = [batch EXCEPT ![w] = Range(SubSeq(pending, 1, BatchSize))]
    /\ due' = FALSE
    /\ thread' = [thread EXCEPT ![w] = "working"]
    /\ UNCHANGED <<pending, worker, grouped, running, result, owned, caller, left, stop>>

Take(w) ==
    /\ thread[w] = "top"
    /\ pending # <<>>
    /\ due \/ Len(pending) >= MaxSize \/ closing
    /\ batch' = [batch EXCEPT ![w] = Range(SubSeq(pending, 1, BatchSize))]
    /\ pending' = SubSeq(pending, BatchSize + 1, Len(pending))
    /\ due' = FALSE
    /\ thread' = [thread EXCEPT ![w] = "working"]
    /\ UNCHANGED <<worker, grouped, running, result, owned, caller, left,
                   stop>>

\* operation.validate(): an operation whose lease is gone is answered at once.
Validate(w, o) ==
    /\ thread[w] = "working" /\ o \in batch[w]
    /\ batch' = [batch EXCEPT ![w] = @ \ {o}]
    /\ \/ /\ owned[o]
          /\ grouped' = [grouped EXCEPT ![w] = @ \union {o}]
          /\ UNCHANGED result
       \/ /\ ~owned[o]
          /\ result' = [result EXCEPT ![o] = "error"]
          /\ UNCHANGED grouped
    /\ UNCHANGED <<submitting, thread, running, owned, caller, left, stop>>

Group(w, k) == {o \in grouped[w] : KeyOf[o] = k}

\* Mutant: a group stays registered after it was handed to the executor.
ExecuteGroupAgain(w, k) ==
    /\ thread[w] = "working" /\ batch[w] = {} /\ running[w] = {}
    /\ Group(w, k) # {}
    /\ running' = [running EXCEPT ![w] = {o \in Group(w, k) : owned[o]}]
    /\ UNCHANGED <<submitting, thread, batch, grouped, result, owned, caller, left, stop>>

\* The executor takes up a group, validates it again and calls the cloud.
ExecuteGroup(w, k) ==
    /\ thread[w] = "working" /\ batch[w] = {} /\ running[w] = {}
    /\ Group(w, k) # {}
    /\ LET valid == {o \in Group(w, k) : owned[o]} IN
          /\ running' = [running EXCEPT ![w] = valid]
          /\ result' = [o \in Ops |->
                IF o \in Group(w, k) \ valid THEN "error" ELSE result[o]]
    /\ grouped' = [grouped EXCEPT ![w] = @ \ Group(w, k)]
    /\ UNCHANGED <<submitting, thread, batch, owned, caller, left, stop>>

\* The executor answers one operation of the group.
AnswerOne(w, o) ==
    /\ o \in running[w]
    /\ \E r \in {"ok", "error"} : result' = [result EXCEPT ![o] = r]
    /\ running' = [running EXCEPT ![w] = @ \ {o}]
    /\ UNCHANGED <<submitting, thread, batch, grouped, owned, caller, left,
                   stop>>

\* Mutant: nobody answers for an executor that left operations open.
AnswerRestNever(w) ==
    /\ running[w] # {}
    /\ running' = [running EXCEPT ![w] = {}]
    /\ UNCHANGED <<submitting, thread, batch, grouped, result, owned, caller, left, stop>>

\* The executor raises, or returns without having answered everyone: whoever is
\* left over gets an exception.
AnswerRest(w) ==
    /\ running[w] # {}
    /\ result' = [o \in Ops |-> IF o \in running[w] THEN "error" ELSE result[o]]
    /\ running' = [running EXCEPT ![w] = {}]
    /\ UNCHANGED <<submitting, thread, batch, grouped, owned, caller, left,
                   stop>>

\* The batch is done; back to the top of the loop.
BatchEnds(w) ==
    /\ thread[w] = "working"
    /\ batch[w] = {} /\ grouped[w] = {} /\ running[w] = {}
    /\ thread' = [thread EXCEPT ![w] = "top"]
    /\ UNCHANGED <<submitting, work, result, owned, caller, left, stop>>

ThreadEnds(w) ==
    /\ thread[w] = "leaving"
    /\ thread' = [thread EXCEPT ![w] = "dead"]
    /\ UNCHANGED <<submitting, work, result, owned, caller, left, stop>>

------------------------------------------------------------------------------
\* shutdown(): without a worker it reports at once; a worker that was never
\* started cannot be joined (the call raises); otherwise it joins.
Shutdown(s) ==
    /\ pc[s] = "out"
    /\ closing' = TRUE
    /\ IF worker # NoWorker /\ thread[worker] # "unstarted"
       THEN /\ joins' = [joins EXCEPT ![s] = worker]
            /\ pc' = [pc EXCEPT ![s] = "join"]
            /\ UNCHANGED reported
       ELSE /\ reported' = (reported \/ worker = NoWorker)
            /\ UNCHANGED <<pc, joins>>
    /\ UNCHANGED <<submitting, thread, work, result, owned, caller, left>>

\* shutdown() called on the worker itself never waits.
ShutdownFromWorker(w) ==
    /\ thread[w] = "working" /\ ~closing
    /\ closing' = TRUE
    /\ UNCHANGED <<submitting, thread, work, result, owned, caller, left,
                   pc, joins, reported>>

\* The join ends, by the thread's end or by the timeout.
ShutdownJoined(s) ==
    /\ pc[s] = "join"
    /\ reported' = (reported \/ ~Alive(joins[s]))
    /\ pc' = [pc EXCEPT ![s] = "out"]
    /\ joins' = [joins EXCEPT ![s] = NoWorker]
    /\ UNCHANGED <<submitting, thread, work, result, owned, caller, left,
                   closing>>

------------------------------------------------------------------------------
Run(w) ==
    \/ Retire(w) \/ Take(w) \/ AnswerRest(w) \/ BatchEnds(w) \/ ThreadEnds(w)
    \/ \E o \in Ops : Validate(w, o) \/ AnswerOne(w, o)
    \/ \E k \in Keys : ExecuteGroup(w, k)

Next ==
    \/ DelayPasses
    \/ \E o \in Ops : Submit(o) \/ Answered(o) \/ LeaseLost(o)
    \/ \E w \in Ops : Run(w) \/ ShutdownFromWorker(w)
    \/ \E s \in Stoppers : Shutdown(s) \/ ShutdownJoined(s)

Spec == Init /\ [][Next]_vars

\* The clock runs, threads run; nobody has to submit or to stop.
Fairness == /\ WF_vars(DelayPasses)
            /\ \A w \in Ops : WF_vars(Run(w))
            /\ \A o \in Ops : WF_vars(Answered(o))

FairSpec == Spec /\ Fairness
------------------------------------------------------------------------------
Accepted == {o \in Ops : caller[o] # "idle"}
Settled == {o \in Ops : result[o] # "none"}
InWork(w) == batch[w] \union grouped[w] \union running[w]

\* No submitter is forgotten: an operation that was taken over is answered, or
\* it is pending, or it is in the hands of the one worker self._worker names.
NobodyForgotten ==
    Accepted = Settled \union Range(pending)
                       \union IF worker = NoWorker THEN {} ELSE InWork(worker)

\* ...and in one of these places only: no operation is executed or answered twice.
OnePlace ==
    /\ IsInjective(pending)
    /\ \A w \in Ops :
          /\ InWork(w) \cap (Settled \union Range(pending)) = {}
          /\ batch[w] \cap (grouped[w] \union running[w]) = {}
          /\ grouped[w] \cap running[w] = {}
    /\ Range(pending) \cap Settled = {}

\* While something is pending there is a worker that will look at it; the worker
\* steps down and the next submit starts a new one without a gap between them.
PendingHasWorker ==
    pending # <<>> => /\ worker # NoWorker
                      /\ worker \in left \/ thread[worker] \in {"top", "working"}

\* At most one thread serves the queue, the one self._worker names.
OneServer ==
    \A w \in Ops : thread[w] \in {"top", "working"} \/ InWork(w) # {} => worker = w

\* "已无批量工作线程时返回 True": when shutdown() has returned True everyone who
\* ever submitted has been answered and nobody else will be let in.
ShutdownIsBarrier == reported => closing /\ Accepted = Settled

\* Nothing happens behind the back of a submitter that has its answer: the cloud
\* is called for an operation only while its submitter waits - or after its
\* submit() failed to start the worker, see SubmitUnstarted.
AnswerIsFinal ==
    [][\A w, o \in Ops : o \in running'[w] \ running[w] =>
                            caller[o] = "waiting" \/ o \in left]_vars

\* Every submitter gets its answer: again and again nobody waits.
SubmitterReturns == []<>(\A o \in Ops : caller[o] # "waiting")

Phase == IF reported THEN "stopped"
         ELSE IF closing THEN "draining"
         ELSE IF Accepted = {} THEN "fresh" ELSE "open"

Barrier == INSTANCE DrainBarrier
    WITH Tasks <- Ops, accepted <- Accepted, settled <- Settled, phase <- Phase

\* The coordinator keeps the promise of a drain barrier.
ImplementsBarrier == Barrier!Spec

------------------------------------------------------------------------------
\* What makes the above inductive, part by part.

\* The worker of the object is at work or was never started; who is not at work
\* has nothing in hand; a thread is named by an operation that was submitted.
Threads ==
    /\ worker # NoWorker =>
          /\ thread[worker] \in {"top", "working", "unstarted"}
          /\ thread[worker] = "unstarted" => worker \in left
    /\ \A w \in Ops : /\ thread[w] # "working" => InWork(w) = {}
                      /\ thread[w] # "none" => caller[w] # "idle"

\* While somebody joins a worker no other one is created.
Joining ==
    \A s \in Stoppers : pc[s] = "join" =>
        /\ closing
        /\ joins[s] # NoWorker /\ worker \in {joins[s], NoWorker}
        /\ thread[joins[s]] \in {"top", "working", "leaving", "dead"}

\* A submitter goes on with its answer, or because its submit() raised.
Returning == \A o \in Ops : caller[o] = "returned" => o \in Settled \union left

IInv == /\ TypeOK /\ NobodyForgotten /\ OnePlace /\ PendingHasWorker /\ OneServer
        /\ ShutdownIsBarrier /\ Threads /\ Joining /\ Returning
=============================================================================
