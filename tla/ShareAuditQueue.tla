-------------------------- MODULE ShareAuditQueue --------------------------
(***************************************************************************)
(* helper/strm/share/audit_download_queue.py with its user, the tail of a  *)
(* share run in create.py.  The files of a share that 115 is still         *)
(* auditing cannot be downloaded: they wait in tasks, kept in memory and   *)
(* in a JSON file, until the worker thread finds the share passed (it      *)
(* downloads them), expired or overdue (it gives them up with a notice).   *)
(* A run downloads at once what is not under audit, and hands the files    *)
(* it could not download over to the queue if the audit has begun again.   *)
(* Runs and the worker download through one MediaInfoDownloader, one       *)
(* batch at a time, to the same paths.                                     *)
(*                                                                         *)
(* One share; an item and its local path have one name.  A file of at most *)
(* 100 bytes is to the queue what no file is, and so it is here.           *)
(***************************************************************************)
EXTENDS Naturals, FiniteSets

CONSTANTS
    Items,          \* files of the share
    Runs,           \* runs of generate_strm_files_for_configs
    ItemsOf,        \* what a run collected
    Transfers,      \* items with mp_transfer_after_download
    Worker, None,
    MaxTasks,       \* bound: tasks ever created
    Scenarios       \* bounds: which runs take place, and how often at most a task is
                    \* made, the share's state turns, the process ends, a write of
                    \* the JSON file fails, a downloaded file is refused, and a file
                    \* that is to be removed stays

ASSUME ItemsAssumption ==
    /\ IsFiniteSet(Items)
    /\ ItemsOf \in [Runs -> SUBSET Items]
    /\ Transfers \subseteq Items
ASSUME NamesAssumption ==
    /\ Worker \notin Runs /\ {"none", "whole"} \intersect (Runs \union {Worker}) = {}
    /\ None \notin Items \union Runs \union {Worker}
    /\ None \notin (1 .. MaxTasks) \union [items : SUBSET Items, required : SUBSET Items]
ASSUME BoundAssumption ==
    /\ MaxTasks \in Nat
    /\ Scenarios \subseteq [runs : SUBSET Runs, made : 0 .. MaxTasks, turns : Nat,
                            crashes : Nat, unsaved : Nat, refused : Nat, uncleaned : Nat]

VARIABLES
    share,      \* what 115 says of the share
    disk,       \* the file at each item's path
    tasks,      \* _tasks
    stored,     \* the JSON file
    due, late,  \* tasks whose next_retry_at, deadline_at is past
    service,    \* whether the plugin is up
    batch,      \* who holds _batch_lock
    open,       \* the item that is being downloaded
    pc,         \* where the worker and each run are
    want,       \* what a batch still has to download
    failed,     \* failure paths of a batch
    job,        \* the worker's task
    todo, dropped, stuck,   \* its items: to be looked at, download_failures,
                            \* post_action_failures
    discarding, \* items whose file a run is about to remove
    deferred,   \* paths a run was told are in the queue
    owed,       \* history: items the queue took and has not settled
    closed,     \* history: items handed on, or given up with a notice
    raced,      \* history: items a run handed over while the worker had them
    uncleaned,  \* history: half files the worker could not remove
    halves,     \* history: whose half a file the worker took for whole
    budget      \* how often each bounded thing may still happen

outer == <<share, service>>
queue == <<tasks, stored>>
clock == <<due, late>>
downloader == <<batch, open, want, failed>>
worker == <<job, todo, dropped, stuck>>
runner == <<discarding, deferred>>
history == <<owed, closed, raced, uncleaned, halves>>
vars == <<share, disk, tasks, stored, due, late, service, batch, open, pc, want, failed,
          job, todo, dropped, stuck, discarding, deferred, owed, closed, raced, uncleaned, halves,
          budget>>

TaskIds == 1 .. MaxTasks
\* required: download_required
Tasks == {t \in [items : SUBSET Items, required : SUBSET Items] : t.required \subseteq t.items}
Users == Runs \union {Worker}
Bounded == {"made", "turns", "crashes", "unsaved", "refused", "uncleaned"}
WorkerPCs == {"none", "idle", "query", "plan", "download", "fetch", "settle", "ask",
              "replace", "again", "remove", "finish"}
RunPCs == {"off", "ask", "enqueue", "download", "fetch", "askAgain", "protect", "discard",
           "report", "over"}

\* A half file is known by who wrote it: None is a process that is gone.
TypeOK ==
    /\ share \in {"auditing", "normal", "expired"}
    /\ disk \in [Items -> {"none", "whole", None} \union Users]
    /\ tasks \in [TaskIds -> Tasks \union {None}] /\ stored \in [TaskIds -> Tasks \union {None}]
    /\ due \subseteq TaskIds /\ late \subseteq TaskIds
    /\ service \in {"down", "up", "stopping"}
    /\ batch \in Users \union {None} /\ open \in Items \union {None}
    /\ pc \in [Users -> WorkerPCs \union RunPCs]
    /\ want \in [Users -> SUBSET Items] /\ failed \in [Users -> SUBSET Items]
    /\ job \in TaskIds \union {None}
    /\ todo \subseteq Items /\ dropped \subseteq Items /\ stuck \subseteq Items
    /\ discarding \in [Runs -> SUBSET Items] /\ deferred \in [Runs -> SUBSET Items]
    /\ owed \subseteq Items /\ closed \subseteq Items /\ raced \subseteq Items
    /\ uncleaned \subseteq Items
    /\ halves \subseteq [item : Items, by : Users \union {None}, growing : BOOLEAN,
                         stays : BOOLEAN]
    /\ budget \in [Bounded -> Nat] /\ budget.made \in 0 .. MaxTasks

Init ==
    /\ share \in {"auditing", "normal"}
    /\ disk = [i \in Items |-> "none"]
    /\ tasks = [t \in TaskIds |-> None] /\ stored = [t \in TaskIds |-> None]
    /\ due = {} /\ late = {}
    /\ service = "down"
    /\ batch = None /\ open = None
    /\ \E s \in Scenarios :
         /\ budget = [k \in Bounded |-> s[k]]
         /\ pc = [u \in Users |-> IF u = Worker THEN "none"
                                  ELSE IF u \in s.runs THEN "off" ELSE "over"]
    /\ want = [u \in Users |-> {}] /\ failed = [u \in Users |-> {}]
    /\ job = None /\ todo = {} /\ dropped = {} /\ stuck = {}
    /\ discarding = [r \in Runs |-> {}] /\ deferred = [r \in Runs |-> {}]
    /\ owed = {} /\ closed = {} /\ raced = {} /\ uncleaned = {} /\ halves = {}

------------------------------------------------------------------------------
Pending(q) == UNION {q[t].items : t \in {x \in TaskIds : q[x] # None}}
Required(q) == UNION {q[t].required : t \in {x \in TaskIds : q[x] # None}}

\* _is_downloaded looks at the size only.
Downloaded == {i \in Items : disk[i] # "none"}

At(u, label) == pc[u] = label
Goto(u, label) == pc' = [pc EXCEPT ![u] = label]

Once(k) == budget[k] > 0 /\ budget' = [budget EXCEPT ![k] = @ - 1]

\* _save_tasks_locked writes the file and replaces the old one, or fails.
Saved == stored' = tasks' /\ UNCHANGED budget
Unsaved == Once("unsaved") /\ UNCHANGED stored
Save == Saved \/ Unsaved

\* get_share_state: the answer, or None when the query fails.
Answers == {share, None}

Accept(items) == owed' = owed \union items /\ closed' = closed \ items

------------------------------------------------------------------------------
\* 115 passes the share, audits it again, or expires it.
Turn ==
    /\ Once("turns")
    /\ share # "expired"
    /\ share' \in {"auditing", "normal", "expired"} \ {share}
    /\ UNCHANGED <<service, disk, queue, clock, pc, downloader, worker, runner, history>>

\* Time passes; next_retry_at is never behind deadline_at.
RetryTime(t) ==
    /\ t \notin due /\ (tasks[t] # None \/ stored[t] # None)
    /\ due' = due \union {t}
    /\ UNCHANGED <<outer, disk, queue, late, pc, downloader, worker, runner, history, budget>>

Deadline(t) ==
    /\ t \notin late /\ (tasks[t] # None \/ stored[t] # None)
    /\ late' = late \union {t} /\ due' = due \union {t}
    /\ UNCHANGED <<outer, disk, queue, pc, downloader, worker, runner, history, budget>>

------------------------------------------------------------------------------
Quiet == \A r \in Runs : pc[r] \in {"off", "over"}
Stopped == service # "up" /\ pc[Worker] = "none" /\ Quiet

\* Mutant: the tasks of an earlier process are not read.
StartFresh ==
    /\ Stopped
    /\ service' = "up"
    /\ Goto(Worker, "idle")
    /\ UNCHANGED <<share, disk, queue, clock, downloader, worker, runner, history, budget>>

\* init_service comes to start(): the tasks are those of the file; one that is beyond
\* its deadline is due.
Start ==
    /\ Stopped
    /\ service' = "up"
    /\ tasks' = stored
    /\ due' = due \union {t \in late : stored[t] # None}
    /\ Goto(Worker, "idle")
    /\ UNCHANGED <<share, disk, stored, late, downloader, worker, runner, history, budget>>

\* servicer.stop() waits for the runs, then stop() tells the worker to exit, which
\* it does between two tasks; stop() may have given up waiting by then.
Stop ==
    /\ service = "up" /\ Quiet
    /\ service' = "stopping"
    /\ UNCHANGED <<share, disk, queue, clock, pc, downloader, worker, runner, history, budget>>

WorkerExit ==
    /\ service = "stopping" /\ At(Worker, "idle")
    /\ Goto(Worker, "none")
    /\ UNCHANGED <<outer, disk, queue, clock, downloader, worker, runner, history, budget>>

\* The process ends: the threads are daemons.
Crash ==
    /\ service # "down" /\ Once("crashes")
    /\ service' = "down"
    /\ tasks' = [t \in TaskIds |-> None]
    /\ batch' = None /\ open' = None
    /\ pc' = [u \in Users |-> IF u = Worker THEN "none"
                              ELSE IF pc[u] = "off" THEN "off" ELSE "over"]
    /\ want' = [u \in Users |-> {}] /\ failed' = [u \in Users |-> {}]
    /\ job' = None /\ todo' = {} /\ dropped' = {} /\ stuck' = {}
    /\ discarding' = [r \in Runs |-> {}] /\ deferred' = [r \in Runs |-> {}]
    /\ disk' = [i \in Items |-> IF disk[i] \in Users THEN None ELSE disk[i]]
    /\ UNCHANGED <<share, stored, clock, history>>

------------------------------------------------------------------------------
\* batch_auto_share_downloader, by the worker or a run u: one batch at a time.
Acquire(u) ==
    /\ At(u, "download") /\ batch = None
    /\ batch' = u
    /\ Goto(u, "fetch")
    /\ UNCHANGED <<outer, disk, queue, clock, open, want, failed, worker, runner, history, budget>>

\* What a run cannot download it reports to the user.
Report(u, i) == closed' = IF u = Worker THEN closed ELSE closed \union {i}

\* A file is not opened: it failed before, or the batch did not contain it.
Miss(u, i) ==
    /\ At(u, "fetch") /\ open = None /\ i \in want[u]
    /\ want' = [want EXCEPT ![u] = @ \ {i}]
    /\ \/ failed' = [failed EXCEPT ![u] = @ \union {i}] /\ Report(u, i)
       \/ UNCHANGED <<failed, closed>>
    /\ UNCHANGED <<outer, disk, queue, clock, pc, batch, open, worker, runner,
                   owed, raced, uncleaned, halves, budget>>

Open(u, i) ==
    /\ At(u, "fetch") /\ open = None /\ i \in want[u]
    /\ open' = i
    /\ disk' = [disk EXCEPT ![i] = u]
    /\ uncleaned' = uncleaned \ {i}
    /\ UNCHANGED <<outer, queue, clock, pc, batch, want, failed, worker, runner,
                   owed, closed, raced, halves, budget>>

\* The download ends well, or fails with what was written so far left behind.
Close(u) ==
    /\ At(u, "fetch") /\ open # None
    /\ open' = None
    /\ want' = [want EXCEPT ![u] = @ \ {open}]
    /\ \/ disk' = [disk EXCEPT ![open] = "whole"] /\ UNCHANGED <<failed, closed>>
       \/ /\ \E left \in {disk[open], "none"} : disk' = [disk EXCEPT ![open] = left]
          /\ failed' = [failed EXCEPT ![u] = @ \union {open}] /\ Report(u, open)
    /\ UNCHANGED <<outer, queue, clock, pc, batch, worker, runner,
                   owed, raced, uncleaned, halves, budget>>

AfterBatch(u) == IF u = Worker THEN "settle" ELSE IF failed[u] = {} THEN "report" ELSE "askAgain"

EndBatch(u) ==
    /\ At(u, "fetch") /\ want[u] = {}
    /\ batch' = None
    /\ Goto(u, AfterBatch(u))
    /\ UNCHANGED <<outer, disk, queue, clock, open, want, failed, worker, runner, history, budget>>

------------------------------------------------------------------------------
\* A run comes to partition_downloads.  It was let in as a sync_operation, which
\* init_service allows after the queue has started, and stop() no longer.
Run(r) ==
    /\ service = "up" /\ At(r, "off")
    /\ Goto(r, "ask")
    /\ UNCHANGED <<outer, disk, queue, clock, downloader, worker, runner, history, budget>>

Partition(r) ==
    /\ At(r, "ask")
    /\ \E state \in Answers :
          \/ state = "auditing" /\ Goto(r, "enqueue") /\ UNCHANGED want
          \/ state = "expired" /\ Goto(r, "over") /\ UNCHANGED want
          \/ /\ state \in {"normal", None}
             /\ want' = [want EXCEPT ![r] = ItemsOf[r]]
             /\ Goto(r, "download")
    /\ UNCHANGED <<outer, disk, queue, clock, batch, open, failed, worker, runner, history, budget>>

\* A new task for items that are in none.
NewTask(q, items, flag) ==
    [q EXCEPT ![budget.made] = [items |-> items, required |-> IF flag THEN items ELSE {}]]

\* The task is made and the file written, or nothing is (_enqueue_items rolls back).
SavedWithTask == Once("made") /\ stored' = tasks'

RolledBack == Unsaved /\ UNCHANGED <<tasks, owed, closed>>

\* Mutant: waiting items are not looked for.
EnqueueAll(r) ==
    /\ At(r, "enqueue")
    /\ tasks' = NewTask(tasks, ItemsOf[r], FALSE) /\ SavedWithTask /\ Accept(ItemsOf[r])
    /\ Goto(r, "over")
    /\ UNCHANGED <<outer, disk, clock, downloader, worker, runner, raced, uncleaned, halves>>

\* partition_downloads puts the items that wait in no task yet into a new one.
Enqueue(r) ==
    /\ At(r, "enqueue")
    /\ LET new == ItemsOf[r] \ Pending(tasks) IN
          \/ new = {} /\ UNCHANGED <<queue, owed, closed, budget>>
          \/ /\ new # {}
             /\ \/ tasks' = NewTask(tasks, new, FALSE) /\ SavedWithTask /\ Accept(new)
                \/ RolledBack
    /\ Goto(r, "over")
    /\ UNCHANGED <<outer, disk, clock, downloader, worker, runner, raced, uncleaned, halves>>

\* enqueue_failed_auditing_downloads
AskAgain(r) ==
    /\ At(r, "askAgain")
    /\ \E state \in Answers : Goto(r, IF state = "auditing" THEN "protect" ELSE "report")
    /\ UNCHANGED <<outer, disk, queue, clock, downloader, worker, runner, history, budget>>

Upgrade(q, items) ==
    [t \in TaskIds |-> IF q[t] = None THEN None
                       ELSE [q[t] EXCEPT !.required = @ \union (items \intersect q[t].items)]]

InHand == IF job = None THEN {} ELSE tasks[job].items

\* _enqueue_items with download_required: waiting items are marked, others get a task.
Protect(r) ==
    /\ At(r, "protect")
    /\ LET items == failed[r]
           new == items \ Pending(tasks)
           marked == items \intersect Required(tasks)
           Hands(taken) == /\ discarding' = [discarding EXCEPT ![r] = taken]
                           /\ raced' = raced \union (taken \intersect InHand)
       IN  \/ /\ items = marked
              /\ Hands(marked) /\ UNCHANGED <<queue, owed, closed, budget>>
           \/ /\ items # marked
              /\ \/ /\ new = {} /\ tasks' = Upgrade(tasks, items)
                    /\ Saved /\ Accept(items) /\ Hands(items)
                 \/ /\ new # {} /\ tasks' = NewTask(Upgrade(tasks, items), new, TRUE)
                    /\ SavedWithTask /\ Accept(items) /\ Hands(items)
                 \/ RolledBack /\ Hands(marked)
    /\ Goto(r, "discard")
    /\ UNCHANGED <<outer, disk, clock, downloader, worker, deferred, uncleaned, halves>>

\* _remove_invalid_download, after the queue's lock is released; what it cannot remove
\* (an OSError, which is logged) is in the queue all the same.
Discard(r, i) ==
    /\ At(r, "discard") /\ i \in discarding[r]
    /\ \/ disk' = [disk EXCEPT ![i] = "none"] /\ UNCHANGED budget
       \/ disk[i] # "none" /\ Once("uncleaned") /\ UNCHANGED disk
    /\ discarding' = [discarding EXCEPT ![r] = @ \ {i}]
    /\ deferred' = [deferred EXCEPT ![r] = @ \union {i}]
    /\ UNCHANGED <<outer, queue, clock, pc, downloader, worker, history>>

Discarded(r) ==
    /\ At(r, "discard") /\ discarding[r] = {}
    /\ Goto(r, "report")
    /\ UNCHANGED <<outer, disk, queue, clock, downloader, worker, runner, history, budget>>

\* The run reports what failed and submits the files that are there to MoviePilot,
\* which may move them away.
HandOver(r) ==
    /\ At(r, "report")
    /\ \E moved \in SUBSET ((ItemsOf[r] \intersect Transfers \intersect Downloaded) \ deferred[r]) :
          /\ disk' = [i \in Items |-> IF i \in moved THEN "none" ELSE disk[i]]
          /\ closed' = closed \union moved
    /\ failed' = [failed EXCEPT ![r] = {}] /\ deferred' = [deferred EXCEPT ![r] = {}]
    /\ Goto(r, "over")
    /\ UNCHANGED <<outer, queue, clock, batch, open, want, worker, discarding,
                   owed, raced, uncleaned, halves, budget>>

------------------------------------------------------------------------------
\* _next_due_task
Take(t) ==
    /\ service = "up" /\ At(Worker, "idle")
    /\ t \in due /\ tasks[t] # None
    /\ job' = t
    /\ raced' = raced \union (tasks[t].items \intersect UNION {discarding[r] : r \in Runs})
    /\ Goto(Worker, "query")
    /\ UNCHANGED <<outer, disk, queue, clock, downloader, todo, dropped, stuck, runner,
                   owed, closed, uncleaned, halves, budget>>

\* The deadline counts only while the share has not passed.
Query ==
    /\ At(Worker, "query")
    /\ \E state \in Answers :
          Goto(Worker, CASE state = "normal" -> "plan"
                         [] state = "expired" -> "finish"
                         [] OTHER -> IF job \in late THEN "finish" ELSE "again")
    /\ UNCHANGED <<outer, disk, queue, clock, downloader, worker, runner, history, budget>>

Plan ==
    /\ At(Worker, "plan")
    /\ LET items == tasks[job].items
           download == tasks[job].required \union (items \ Downloaded)
       IN  /\ todo' = items
           /\ want' = [want EXCEPT ![Worker] = download]
           /\ Goto(Worker, IF download = {} THEN "settle" ELSE "download")
    /\ UNCHANGED <<outer, disk, queue, clock, batch, open, failed, job, dropped, stuck, runner,
                   history, budget>>

Unforce(i) == tasks' = [tasks EXCEPT ![job].required = @ \ {i}]

Fails(i) == i \in failed[Worker] \/ i \notin Downloaded

\* The item is done: its file was submitted to MoviePilot if need be.
Success(i) ==
    /\ owed' = owed \ {i}
    /\ halves' = IF disk[i] = "whole" THEN halves
                 ELSE halves \union {[item |-> i, by |-> disk[i], growing |-> open = i,
                                    stays |-> i \in uncleaned]}
    /\ \/ i \notin Transfers /\ UNCHANGED <<disk, closed>>
       \/ /\ i \in Transfers
          /\ \E left \in {disk[i], "none"} : disk' = [disk EXCEPT ![i] = left]
          /\ closed' = closed \union {i}

\* Mutant: the file of a failed download stays.
SettleLeavingHalf(i) ==
    /\ At(Worker, "settle") /\ i \in todo
    /\ todo' = todo \ {i}
    /\ \/ /\ Fails(i)
          /\ dropped' = dropped \union {i}
          /\ UNCHANGED <<tasks, disk, stuck, owed, closed, halves>>
       \/ /\ ~Fails(i) /\ Unforce(i) /\ Success(i)
          /\ UNCHANGED <<dropped, stuck>>
    /\ UNCHANGED <<outer, stored, clock, pc, downloader, job, runner, raced, uncleaned, budget>>

\* _remove_invalid_download in the worker: a file it cannot remove stays, and the item
\* does not say so.
Remove(i) ==
    \/ disk' = [disk EXCEPT ![i] = "none"] /\ UNCHANGED <<uncleaned, budget>>
    \/ /\ disk[i] # "none" /\ Once("uncleaned") /\ UNCHANGED disk
       /\ uncleaned' = uncleaned \union {i}

\* What happens to one item after the downloads: its file is removed, or it is done,
\* or MoviePilot did not take it.
Settle(i) ==
    /\ At(Worker, "settle") /\ i \in todo
    /\ todo' = todo \ {i}
    /\ \/ /\ Fails(i)
          /\ Remove(i)
          /\ dropped' = dropped \union {i}
          /\ UNCHANGED <<tasks, stuck, owed, closed, halves>>
       \/ /\ ~Fails(i) /\ Unforce(i) /\ Success(i)
          /\ UNCHANGED <<dropped, stuck, uncleaned, budget>>
       \/ /\ ~Fails(i) /\ Unforce(i)
          /\ i \in Transfers /\ Once("refused")
          /\ stuck' = stuck \union {i}
          /\ UNCHANGED <<disk, dropped, owed, closed, uncleaned, halves>>
    /\ UNCHANGED <<outer, stored, clock, pc, downloader, job, runner, raced>>

Settled ==
    /\ At(Worker, "settle") /\ todo = {}
    /\ Goto(Worker, IF dropped # {} THEN "ask" ELSE IF stuck # {} THEN "replace" ELSE "remove")
    /\ UNCHANGED <<outer, disk, queue, clock, downloader, worker, runner, history, budget>>

\* Mutant: nothing is said of what is given up.
AskLatestSilent ==
    /\ At(Worker, "ask")
    /\ \E state \in Answers :
          \/ state = "auditing" /\ Goto(Worker, "replace") /\ UNCHANGED dropped
          \/ /\ state # "auditing" /\ dropped' = {}
             /\ Goto(Worker, IF stuck # {} THEN "replace" ELSE "remove")
    /\ UNCHANGED <<outer, disk, queue, clock, downloader, job, todo, stuck, runner,
                   history, budget>>

\* What could not be downloaded waits on if the share is audited again, and is given
\* up with a notice otherwise.
AskLatest ==
    /\ At(Worker, "ask")
    /\ \E state \in Answers :
          \/ state = "auditing" /\ Goto(Worker, "replace")
             /\ UNCHANGED <<dropped, owed, closed>>
          \/ /\ state # "auditing"
             /\ owed' = owed \ dropped /\ closed' = closed \union dropped
             /\ dropped' = {}
             /\ Goto(Worker, IF stuck # {} THEN "replace" ELSE "remove")
    /\ UNCHANGED <<outer, disk, queue, clock, downloader, job, todo, stuck, runner,
                   raced, uncleaned, halves, budget>>

BackToIdle ==
    /\ job' = None /\ todo' = {} /\ dropped' = {} /\ stuck' = {}
    /\ failed' = [failed EXCEPT ![Worker] = {}]
    /\ Goto(Worker, "idle")
    /\ UNCHANGED <<batch, open, want>>

\* Mutant: the deadline does not cap the next retry.
RescheduleUncapped == due' = due \ {job}

\* next_retry_at = min(now + interval, deadline_at)
Reschedule == due' = IF job \in late THEN due ELSE due \ {job}

\* _replace_items_and_reschedule
ReplaceItems ==
    /\ At(Worker, "replace")
    /\ LET kept == dropped \union stuck IN
          tasks' = [tasks EXCEPT ![job] = [items |-> kept, required |-> @.required \intersect kept]]
    /\ Save /\ Reschedule /\ BackToIdle
    /\ UNCHANGED <<outer, disk, late, runner, history>>

\* _reschedule_task
Again ==
    /\ At(Worker, "again")
    /\ UNCHANGED tasks /\ Save
    /\ Reschedule /\ BackToIdle
    /\ UNCHANGED <<outer, disk, late, runner, history>>

\* The task is gone from memory even if the file keeps it.
Forget == tasks' = [tasks EXCEPT ![job] = None] /\ due' = due \ {job} /\ Save

\* _remove_task
RemoveTask ==
    /\ At(Worker, "remove")
    /\ Forget /\ BackToIdle
    /\ UNCHANGED <<outer, disk, late, runner, history>>

\* _finish_task: the items are given up with a notice.
FinishTask ==
    /\ At(Worker, "finish")
    /\ Forget /\ BackToIdle
    /\ owed' = owed \ tasks[job].items /\ closed' = closed \union tasks[job].items
    /\ UNCHANGED <<outer, disk, late, runner, raced, uncleaned, halves>>

------------------------------------------------------------------------------
Download(u) ==
    \/ Acquire(u) \/ Close(u) \/ EndBatch(u)
    \/ \E i \in Items : Miss(u, i) \/ Open(u, i)

RunStep(r) ==
    \/ Partition(r) \/ Enqueue(r) \/ AskAgain(r) \/ Protect(r) \/ Discarded(r)
    \/ HandOver(r) \/ Download(r)
    \/ \E i \in Items : Discard(r, i)

WorkerStep ==
    \/ Query \/ Plan \/ Settled \/ AskLatest \/ ReplaceItems \/ Again
    \/ RemoveTask \/ FinishTask \/ WorkerExit \/ Download(Worker)
    \/ \E i \in Items : Settle(i)

Next ==
    \/ Turn \/ Start \/ Stop \/ Crash \/ WorkerStep
    \/ \E t \in TaskIds : RetryTime(t) \/ Deadline(t) \/ Take(t)
    \/ \E r \in Runs : Run(r) \/ RunStep(r)

Spec == Init /\ [][Next]_vars

\* A thread that runs goes on, time passes, the worker comes to every task that stays
\* due, and a plugin that went down is initialised again.  New runs, the share and
\* the administrator owe nothing.
FairSpec ==
    /\ Spec
    /\ WF_vars(WorkerStep) /\ WF_vars(Start)
    /\ \A r \in Runs : WF_vars(RunStep(r))
    /\ \A t \in TaskIds : WF_vars(Deadline(t)) /\ SF_vars(Take(t))
------------------------------------------------------------------------------
\* What the queue took stays in its file until it is settled, and in memory while the
\* worker runs: whatever is saved, not saved, rolled back, resumed or resurrected.
NothingForgotten ==
    /\ owed \subseteq Pending(stored) \union raced
    /\ service = "up" => owed \subseteq Pending(tasks) \union raced

\* An item waits in one task, so that it is downloaded and handed on once.
OneTask ==
    \A q \in {tasks, stored} : \A t, u \in TaskIds :
        t # u /\ q[t] # None /\ q[u] # None => q[t].items \intersect q[u].items = {}

\* The queue is well formed: its variables have their types, and no item waits twice.
WellFormed == TypeOK /\ OneTask

Deferred(r) == IF pc[r] = "report" THEN deferred[r] ELSE {}
Safe(i) == i \in Pending(tasks) \/ i \in Downloaded \/ i \in closed

\* "将下载期间再次进入审核状态的失败文件加入队列", returning "已转入等待队列的文件路径"
\* (lines 255 and 259): of what a run is told the queue has taken over, the file
\* is waiting, there, or given up with a notice.
DeferredIsKept == \A r \in Runs : Deferred(r) \subseteq {i \in Items : Safe(i)}

\* A file is lost only where a run hands it over while the worker has its task.
OnlyRacedAreLost == \A r \in Runs : Deferred(r) \subseteq {i \in Items : Safe(i)} \union raced

\* What the worker itself failed to download it does not take for whole later on,
\* unless its file was to be removed and stayed: nothing but the missing file says,
\* when the task comes up again, that the item is still to be downloaded.
OwnHalvesAreRedone == \A h \in halves : h.by = Worker => h.stays

\* Everything the queue took is settled some day.
EverythingEnds == \A i \in Items : (i \in owed) ~> (i \notin owed \/ i \in raced)

=============================================================================
