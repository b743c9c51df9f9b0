----------------------- MODULE ShareAuditQueueProofs -----------------------
(***************************************************************************)
(* What the queue of files under audit keeps, for any share, runs, tasks   *)
(* and faults: its state is well formed, nothing it took is forgotten, a   *)
(* file is lost only where a run hands it over while the worker has it,    *)
(* and what the worker left half written it downloads again.               *)
(***************************************************************************)
EXTENDS ShareAuditQueue, TLAPS

------------------------------------------------------------------------------
(* The inductive invariant.                                                *)

\* A task is made once.
Unmade == \A t \in TaskIds : t <= budget.made => tasks[t] = None /\ stored[t] = None

\* The worker and the runs are where their labels are, and they live in a service.
Places ==
    /\ pc[Worker] \in WorkerPCs
    /\ \A r \in Runs : pc[r] \in RunPCs
    /\ service = "down" => pc[Worker] = "none"
    /\ \A r \in Runs : pc[r] \notin {"off", "over"} => service = "up"

\* A batch has one holder, who downloads, and only what it wants.
Batches ==
    /\ \A u \in Users : At(u, "fetch") <=> batch = u
    /\ open # None => batch # None /\ open \in want[batch]

\* The worker at a task: the task is there, and its items are those of the task.
Working ==
    /\ pc[Worker] \in {"none", "idle"} <=> job = None
    /\ job # None => tasks[job] # None
    /\ todo \union dropped \union stuck \union want[Worker] \union failed[Worker] \subseteq InHand
    /\ IF pc[Worker] \in {"download", "fetch"} THEN todo = InHand ELSE want[Worker] = {}
    /\ pc[Worker] \in {"ask", "replace", "remove"} => todo = {}
    /\ pc[Worker] = "remove" => dropped = {} /\ stuck = {}

\* What the worker has dealt with.
Dealt == IF pc[Worker] \in {"settle", "ask", "replace", "remove"}
         THEN InHand \ (todo \union dropped \union stuck) ELSE {}

\* What the queue took is waiting; what was dealt with is not owed any longer.
Owed ==
    /\ owed \subseteq Pending(stored) \union raced
    /\ service # "down" => owed \subseteq Pending(tasks) \union raced
    /\ Dealt \intersect owed \subseteq raced

Kept(i) == i \in Downloaded \/ i \in closed \/ i \in raced

\* What a run handed over waits, or is kept; before its file is removed the worker
\* has not got it.
HandedOver ==
    /\ \A i \in Dealt : Kept(i)
    /\ \A r \in Runs :
        /\ discarding[r] # {} => pc[r] = "discard"
        /\ deferred[r] # {} => pc[r] \in {"discard", "report"}
        /\ \A i \in deferred[r] : Kept(i) \/ i \in Pending(tasks)
        /\ \A i \in discarding[r] : i \in raced \/ (i \in Pending(tasks) /\ i \notin InHand)

\* A half file of the worker is still open, or known to have failed, unless it was to
\* be removed and stayed.
OwnHalf(i) == disk[i] = Worker /\ i \notin uncleaned

Halves ==
    /\ \A i \in Items : OwnHalf(i) =>
        /\ pc[Worker] \in {"fetch", "settle"} /\ i \in todo
        /\ (open = i /\ batch = Worker) \/ i \in failed[Worker]
    /\ OwnHalvesAreRedone

IInv ==
    /\ TypeOK /\ OneTask /\ Unmade
    /\ Places /\ Batches /\ Working
    /\ Owed /\ HandedOver /\ Halves
------------------------------------------------------------------------------
(* Names, tasks and budgets.                                               *)

\* The worker is no run, and none of the markers is anybody.
LEMMA Names ==
    /\ Worker \in Users /\ Worker \notin Runs /\ Runs \subseteq Users
    /\ Worker # "none" /\ Worker # "whole"
    /\ None \notin Users /\ None \notin Items /\ None \notin TaskIds /\ None \notin Tasks
BY NamesAssumption DEF Users, TaskIds, Tasks

\* An item waits, or is required, if some task has it.
LEMMA InPending ==
    ASSUME NEW q, NEW i
    PROVE  i \in Pending(q) <=> \E t \in TaskIds : q[t] # None /\ i \in q[t].items
BY DEF Pending

LEMMA InRequired ==
    ASSUME NEW q, NEW i
    PROVE  i \in Required(q) <=> \E t \in TaskIds : q[t] # None /\ i \in q[t].required
BY DEF Required

\* A bounded thing happens once more.
LEMMA OnceType ==
    ASSUME TypeOK, NEW k \in Bounded, Once(k)
    PROVE  /\ budget' \in [Bounded -> Nat] /\ budget'.made \in 0 .. MaxTasks
           /\ budget.made \in 0 .. MaxTasks /\ budget'.made <= budget.made
           /\ k # "made" => budget'.made = budget.made
           /\ k = "made" => budget.made \in TaskIds /\ budget'.made = budget.made - 1
<1>1. /\ budget \in [Bounded -> Nat] /\ budget.made \in 0 .. MaxTasks
      /\ budget[k] > 0 /\ budget' = [budget EXCEPT ![k] = @ - 1] /\ "made" \in Bounded
  BY DEF TypeOK, Once, Bounded
<1>2. budget' \in [Bounded -> Nat]
  BY <1>1
<1>3. CASE k = "made"
  <2>1. budget'.made = budget.made - 1
    BY <1>1, <1>3
  <2> QED
    BY <1>1, <1>2, <1>3, <2>1, BoundAssumption DEF TaskIds
<1>4. CASE k # "made"
  <2>1. budget'.made = budget.made
    BY <1>1, <1>4
  <2> QED
    BY <1>1, <1>2, <1>4, <2>1, BoundAssumption
<1> QED
  BY <1>3, <1>4

\* Writing the file.
LEMMA SaveType ==
    ASSUME TypeOK, Save
    PROVE  /\ stored' = tasks' \/ stored' = stored
           /\ budget' \in [Bounded -> Nat] /\ budget'.made \in 0 .. MaxTasks
           /\ budget'.made = budget.made
<1>1. CASE Saved
  BY <1>1 DEF Saved, TypeOK
<1>2. CASE Unsaved
  <2>1. Once("unsaved") /\ stored' = stored
    BY <1>2 DEF Unsaved
  <2> QED
    BY <2>1, OnceType DEF Bounded
<1> QED
  BY <1>1, <1>2 DEF Save

\* The tasks that Protect marks are the same tasks.
LEMMA UpgradeKeeps ==
    ASSUME NEW q \in [TaskIds -> Tasks \union {None}], NEW items
    PROVE  /\ Upgrade(q, items) \in [TaskIds -> Tasks \union {None}]
           /\ \A t \in TaskIds : /\ Upgrade(q, items)[t] = None <=> q[t] = None
                                 /\ q[t] # None => Upgrade(q, items)[t].items = q[t].items
<1> DEFINE new == Upgrade(q, items)
<1>1. \A t \in TaskIds : q[t] = None => new[t] = None
  BY DEF Upgrade
<1>2. ASSUME NEW t \in TaskIds, q[t] # None
      PROVE  new[t] \in Tasks /\ new[t].items = q[t].items
  <2>1. q[t] \in Tasks
    BY <1>2
  <2>2. new[t] = [q[t] EXCEPT !.required = @ \union (items \intersect q[t].items)]
    BY <1>2 DEF Upgrade
  <2> QED
    BY <2>1, <2>2 DEF Tasks
<1>3. new \in [TaskIds -> Tasks \union {None}]
  <2>1. DOMAIN new = TaskIds /\ new = [t \in TaskIds |-> new[t]]
    BY DEF Upgrade
  <2> QED
    BY <1>1, <1>2, <2>1
<1> QED
  BY <1>1, <1>2, <1>3, Names
------------------------------------------------------------------------------
(* What stays as it is.                                                    *)

Idle == \* neither the worker nor a run does anything
    /\ disk' = disk /\ tasks' = tasks /\ batch' = batch /\ open' = open
    /\ want' = want /\ failed' = failed /\ job' = job
    /\ todo' = todo /\ dropped' = dropped /\ stuck' = stuck
    /\ discarding' = discarding /\ deferred' = deferred
    /\ owed' = owed /\ closed' = closed /\ raced' = raced
    /\ halves' = halves /\ uncleaned' = uncleaned

LEMMA ClockInv ==
    ASSUME IInv, Turn \/ (\E t \in TaskIds : RetryTime(t) \/ Deadline(t)) \/ UNCHANGED vars
    PROVE  IInv'
<1> USE DEF outer, queue, clock, downloader, worker, runner, history
<1>1. /\ Idle /\ stored' = stored /\ pc' = pc /\ service' = service
      /\ share' \in {"auditing", "normal", "expired"}
      /\ due' \subseteq TaskIds /\ late' \subseteq TaskIds
      /\ budget' = budget \/ Once("turns")
  BY DEF IInv, TypeOK, Idle, Turn, RetryTime, Deadline, vars
<1>2. /\ budget' \in [Bounded -> Nat] /\ budget'.made \in 0 .. MaxTasks
      /\ budget'.made = budget.made
  BY <1>1, OnceType DEF IInv, TypeOK, Bounded
<1>3. TypeOK'
  BY <1>1, <1>2 DEF IInv, TypeOK, Idle
<1>4. OneTask' /\ Unmade'
  BY <1>1, <1>2 DEF IInv, OneTask, Unmade, Idle
<1>5. Places' /\ Batches' /\ Working'
  BY <1>1 DEF IInv, Idle, Places, Batches, At, Working, InHand
<1>6. Owed' /\ HandedOver'
  BY <1>1 DEF IInv, Idle, Owed, HandedOver, Pending, Dealt, InHand, Kept, Downloaded
<1>7. Halves'
  BY <1>1 DEF IInv, Idle, Halves, OwnHalf, OwnHalvesAreRedone
<1> QED
  BY <1>3, <1>4, <1>5, <1>6, <1>7 DEF IInv

\* The queue is stopped, and the worker leaves; or a queue begins, with the tasks of
\* the file.
LEMMA StopInv == ASSUME IInv, Stop \/ WorkerExit PROVE IInv'
<1> USE DEF outer, queue, clock, downloader, worker, runner, history
<1>1. /\ Idle /\ stored' = stored /\ share' = share /\ due' = due /\ late' = late
      /\ budget' = budget
      /\ service \in {"up", "stopping"} /\ service' = "stopping"
      /\ pc' = pc \/ (At(Worker, "idle") /\ Goto(Worker, "none"))
      /\ service = "up" => Quiet
  BY DEF Stop, WorkerExit, Idle
<1>2. /\ pc' \in [Users -> WorkerPCs \union RunPCs]
      /\ \A r \in Runs : pc'[r] = pc[r]
      /\ pc'[Worker] = pc[Worker] \/ (pc[Worker] = "idle" /\ pc'[Worker] = "none")
  BY <1>1, Names DEF IInv, TypeOK, At, Goto, WorkerPCs
<1>3. TypeOK'
  BY <1>1, <1>2 DEF IInv, TypeOK, Idle
<1>4. OneTask' /\ Unmade'
  BY <1>1 DEF IInv, OneTask, Unmade, Idle
<1>5. Places'
  BY <1>1, <1>2 DEF IInv, Places, WorkerPCs, Quiet
<1>6. Batches' /\ Working'
  BY <1>1, <1>2 DEF IInv, Idle, Batches, At, Working, InHand, Users
<1>7. Owed' /\ HandedOver'
  BY <1>1, <1>2 DEF IInv, Idle, Owed, HandedOver, Pending, Dealt, InHand, Kept, Downloaded
<1>8. Halves'
  BY <1>1, <1>2 DEF IInv, Idle, Halves, OwnHalf, OwnHalvesAreRedone
<1> QED
  BY <1>3, <1>4, <1>5, <1>6, <1>7, <1>8 DEF IInv

LEMMA StartInv == ASSUME IInv, Start PROVE IInv'
<1> USE DEF outer, queue, clock, downloader, worker, runner, history
<1>1. /\ share' = share /\ disk' = disk /\ stored' = stored /\ late' = late /\ budget' = budget
      /\ batch' = batch /\ open' = open /\ want' = want /\ failed' = failed
      /\ job' = job /\ todo' = todo /\ dropped' = dropped /\ stuck' = stuck
      /\ discarding' = discarding /\ deferred' = deferred
      /\ owed' = owed /\ closed' = closed /\ raced' = raced
      /\ halves' = halves /\ uncleaned' = uncleaned
      /\ service' = "up" /\ tasks' = stored
      /\ due' = due \union {t \in late : stored[t] # None}
      /\ pc[Worker] = "none" /\ Quiet
  BY DEF Start, Stopped
<1>2. /\ pc' \in [Users -> WorkerPCs \union RunPCs] /\ pc'[Worker] = "idle"
      /\ \A r \in Runs : pc'[r] = pc[r] /\ pc[r] \in {"off", "over"}
  BY <1>1, Names DEF IInv, TypeOK, Start, Goto, WorkerPCs, Quiet
<1>3. job = None /\ InHand = {} /\ InHand' = {}
  BY <1>1 DEF IInv, Working, InHand
<1>4. TypeOK'
  BY <1>1, <1>2 DEF IInv, TypeOK
<1>5. OneTask' /\ Unmade'
  BY <1>1 DEF IInv, OneTask, Unmade
<1>6. Places'
  BY <1>1, <1>2 DEF Places, WorkerPCs, RunPCs
<1>7. Batches'
  BY <1>1, <1>2 DEF IInv, Batches, At, Users
<1>8. Working'
  BY <1>1, <1>2, <1>3 DEF IInv, Working
<1>9. Owed'
  BY <1>1, <1>2, <1>3 DEF IInv, Owed, Dealt
<1>10. HandedOver'
  BY <1>1, <1>2, <1>3 DEF IInv, HandedOver, Dealt
<1>11. Halves'
  BY <1>1, <1>2 DEF IInv, Halves, OwnHalf, OwnHalvesAreRedone
<1> QED
  BY <1>4, <1>5, <1>6, <1>7, <1>8, <1>9, <1>10, <1>11 DEF IInv

LEMMA CrashInv == ASSUME IInv, Crash PROVE IInv'
<1>1. /\ share' = share /\ stored' = stored /\ due' = due /\ late' = late
      /\ owed' = owed /\ closed' = closed /\ raced' = raced
      /\ halves' = halves /\ uncleaned' = uncleaned
      /\ service' = "down" /\ tasks' = [t \in TaskIds |-> None]
      /\ batch' = None /\ open' = None
      /\ pc' = [u \in Users |-> IF u = Worker THEN "none"
                                ELSE IF pc[u] = "off" THEN "off" ELSE "over"]
      /\ want' = [u \in Users |-> {}] /\ failed' = [u \in Users |-> {}]
      /\ job' = None /\ todo' = {} /\ dropped' = {} /\ stuck' = {}
      /\ discarding' = [r \in Runs |-> {}] /\ deferred' = [r \in Runs |-> {}]
      /\ disk' = [i \in Items |-> IF disk[i] \in Users THEN None ELSE disk[i]]
      /\ Once("crashes")
  BY DEF Crash, clock, history
<1>2. /\ budget' \in [Bounded -> Nat] /\ budget'.made \in 0 .. MaxTasks
      /\ budget'.made = budget.made
  BY <1>1, OnceType DEF IInv, Bounded
<1>3. /\ pc' \in [Users -> WorkerPCs \union RunPCs] /\ pc'[Worker] = "none"
      /\ \A r \in Runs : pc'[r] \in {"off", "over"}
      /\ \A u \in Users : pc'[u] # "fetch"
  BY <1>1, Names DEF WorkerPCs, RunPCs
<1>4. InHand' = {} /\ Dealt' = {}
  BY <1>1, <1>3 DEF InHand, Dealt
<1>5. TypeOK'
  <2>1. disk' \in [Items -> {"none", "whole", None} \union Users]
    BY <1>1 DEF IInv, TypeOK
  <2> QED
    BY <1>1, <1>2, <1>3, <2>1 DEF IInv, TypeOK
<1>6. OneTask' /\ Unmade'
  BY <1>1, <1>2 DEF IInv, OneTask, Unmade
<1>7. Places'
  BY <1>1, <1>3 DEF Places, WorkerPCs, RunPCs
<1>8. Batches'
  BY <1>1, <1>3, Names DEF Batches, At
<1>9. Working'
  BY <1>1, <1>3, Names DEF Working
<1>10. Owed'
  BY <1>1, <1>4 DEF IInv, Owed
<1>11. HandedOver'
  BY <1>1, <1>4 DEF HandedOver
<1>12. Halves'
  BY <1>1, Names DEF IInv, Halves, OwnHalf, OwnHalvesAreRedone
<1> QED
  BY <1>5, <1>6, <1>7, <1>8, <1>9, <1>10, <1>11, <1>12 DEF IInv
------------------------------------------------------------------------------
(* Downloading.                                                            *)

\* A step of the downloader leaves the tasks and the worker's lists alone.
Elsewhere ==
    /\ share' = share /\ service' = service /\ tasks' = tasks /\ stored' = stored
    /\ due' = due /\ late' = late /\ budget' = budget
    /\ job' = job /\ todo' = todo /\ dropped' = dropped /\ stuck' = stuck
    /\ discarding' = discarding /\ deferred' = deferred
    /\ owed' = owed /\ raced' = raced /\ halves' = halves /\ uncleaned' \subseteq uncleaned

LEMMA ElsewhereQueue == ASSUME IInv, Elsewhere PROVE OneTask' /\ Unmade'
BY DEF IInv, Elsewhere, OneTask, Unmade

LEMMA AcquireInv == ASSUME IInv, NEW u \in Users, Acquire(u) PROVE IInv'
<1> USE DEF outer, queue, clock, downloader, worker, runner, history
<1>1. /\ Elsewhere /\ disk' = disk /\ open' = open /\ want' = want /\ failed' = failed
      /\ closed' = closed /\ uncleaned' = uncleaned /\ batch = None /\ batch' = u
      /\ pc[u] = "download"
  BY DEF Acquire, Elsewhere, At
<1>2. /\ pc' = [pc EXCEPT ![u] = "fetch"] /\ pc' \in [Users -> WorkerPCs \union RunPCs]
      /\ pc'[u] = "fetch" /\ \A x \in Users : x # u => pc'[x] = pc[x]
  BY DEF Acquire, Goto, IInv, TypeOK, WorkerPCs
<1>3. TypeOK'
  BY <1>1, <1>2 DEF IInv, TypeOK, Elsewhere
<1>4. Places'
  BY <1>1, <1>2, Names DEF IInv, Places, Elsewhere, WorkerPCs, RunPCs
<1>5. Batches'
  BY <1>1, <1>2, Names DEF IInv, Batches, At
<1>6. Working'
  BY <1>1, <1>2, Names DEF IInv, Working, InHand, Elsewhere
<1>7. Dealt' = Dealt /\ InHand' = InHand
  BY <1>1, <1>2, Names DEF Dealt, InHand, Elsewhere
<1>8. Owed'
  BY <1>1, <1>7 DEF IInv, Owed, Pending, Elsewhere
<1>9. HandedOver'
  BY <1>1, <1>2, <1>7, Names DEF IInv, HandedOver, Elsewhere, Kept, Downloaded, Pending
<1>10. Halves'
  BY <1>1, <1>2, Names DEF IInv, Halves, OwnHalf, OwnHalvesAreRedone, Elsewhere
<1> QED
  BY <1>1, <1>3, <1>4, <1>5, <1>6, <1>8, <1>9, <1>10, ElsewhereQueue DEF IInv

LEMMA EndBatchInv == ASSUME IInv, NEW u \in Users, EndBatch(u) PROVE IInv'
<1> USE DEF outer, queue, clock, downloader, worker, runner, history
<1>1. /\ Elsewhere /\ disk' = disk /\ open' = open /\ want' = want /\ failed' = failed
      /\ closed' = closed /\ uncleaned' = uncleaned /\ batch' = None
      /\ pc[u] = "fetch" /\ want[u] = {}
  BY DEF EndBatch, Elsewhere, At
<1>2. batch = u /\ open = None
  BY <1>1 DEF IInv, Batches, At
<1>3. PICK label \in {"settle", "report", "askAgain"} :
        /\ label = "settle" <=> u = Worker
        /\ pc' = [pc EXCEPT ![u] = label]
  BY Zenon DEF EndBatch, Goto, AfterBatch
<1>4. /\ pc' \in [Users -> WorkerPCs \union RunPCs]
      /\ pc'[u] = label /\ \A x \in Users : x # u => pc'[x] = pc[x]
  BY <1>3 DEF IInv, TypeOK, WorkerPCs, RunPCs
<1>5. TypeOK'
  BY <1>1, <1>4 DEF IInv, TypeOK, Elsewhere
<1>6. Places'
  BY <1>1, <1>3, <1>4, Names DEF IInv, Places, Elsewhere, WorkerPCs, RunPCs
<1>7. Batches'
  BY <1>1, <1>2, <1>3, <1>4, Names DEF IInv, Batches, At
<1>8. Working'
  BY <1>1, <1>3, <1>4, Names DEF IInv, Working, InHand, Elsewhere
<1>9. Dealt' \subseteq Dealt /\ InHand' = InHand
  BY <1>1, <1>3, <1>4, Names DEF IInv, Working, Dealt, InHand, Elsewhere
<1>10. Owed'
  BY <1>1, <1>9 DEF IInv, Owed, Pending, Elsewhere
<1>11. HandedOver'
  BY <1>1, <1>3, <1>4, <1>9, Names DEF IInv, HandedOver, Elsewhere, Kept, Downloaded, Pending
<1>12. Halves'
  BY <1>1, <1>2, <1>3, <1>4, Names DEF IInv, Halves, OwnHalf, OwnHalvesAreRedone, Elsewhere
<1> QED
  BY <1>1, <1>5, <1>6, <1>7, <1>8, <1>10, <1>11, <1>12, ElsewhereQueue DEF IInv

\* While a batch goes on, nobody moves; what is no longer wanted was tried.
Fetching(u) ==
    /\ pc[u] = "fetch" /\ pc' = pc /\ batch' = batch
    /\ want' \in [Users -> SUBSET Items] /\ want'[u] \subseteq want[u]
    /\ failed' \in [Users -> SUBSET Items] /\ failed[u] \subseteq failed'[u]
    /\ failed'[u] \subseteq failed[u] \union want[u]
    /\ \A x \in Users : x # u => want'[x] = want[x] /\ failed'[x] = failed[x]
    /\ open' = None \/ open' \in want'[u]
    /\ disk' \in [Items -> {"none", "whole", None} \union Users]

\* A download writes into what its own batch wants and nowhere else.
LEMMA FetchingInv ==
    ASSUME IInv, NEW u \in Users, Elsewhere, Fetching(u),
           closed \subseteq closed', closed' \subseteq Items,
           \A i \in Items : disk'[i] = disk[i] \/ i \in want[u],
           \A i \in want[u] : disk'[i] # "none" \/ disk'[i] = disk[i] \/ u = Worker \/ i \in closed',
           \A i \in Items : OwnHalf(i)' =>
             /\ OwnHalf(i) \/ (u = Worker /\ i \in want[u])
             /\ (open' = i /\ batch' = Worker) \/ i \in failed'[Worker]
    PROVE  IInv'
<1>1. batch = u
  BY DEF IInv, Batches, At, Fetching
<1>2. TypeOK'
  BY <1>1 DEF IInv, TypeOK, Elsewhere, Fetching
<1>3. Places'
  BY DEF IInv, Places, Elsewhere, Fetching
<1>4. Batches'
  BY <1>1, Names DEF IInv, Batches, At, Fetching
<1>5. Working'
  <2>1. want[Worker] \subseteq InHand /\ failed[Worker] \subseteq InHand
    BY DEF IInv, Working
  <2>2. want'[Worker] \subseteq InHand /\ failed'[Worker] \subseteq InHand
    BY <2>1, Names DEF Fetching
  <2>3. pc[Worker] # "fetch" => want'[Worker] = want[Worker]
    BY Names DEF Fetching
  <2> QED
    BY <2>2, <2>3 DEF IInv, Working, InHand, Elsewhere, Fetching
<1>6. Dealt' = Dealt /\ InHand' = InHand
  BY DEF Dealt, InHand, Elsewhere, Fetching
<1>7. Owed'
  BY <1>6 DEF IInv, Owed, Pending, Elsewhere
<1>8. ASSUME NEW i, Kept(i), ~Kept(i)' PROVE u = Worker /\ i \in want[u]
  BY <1>8 DEF Kept, Downloaded, Elsewhere, IInv, TypeOK
<1>9. u = Worker => Dealt = {}
  BY DEF Fetching, Dealt
<1>10. u = Worker => \A i \in want[u] : i \in Pending(tasks)
  <2> SUFFICES ASSUME u = Worker, NEW i \in want[u] PROVE i \in Pending(tasks)
    OBVIOUS
  <2>1. i \in InHand
    BY DEF IInv, Working
  <2>2. job # None /\ i \in tasks[job].items
    BY <2>1 DEF InHand
  <2>3. job \in TaskIds /\ tasks[job] # None
    BY <2>2 DEF IInv, TypeOK, Working
  <2> QED
    BY <2>2, <2>3, InPending
<1>11. HandedOver'
  <2>1. \A i \in Dealt' : Kept(i)'
    BY <1>6, <1>8, <1>9 DEF IInv, HandedOver
  <2>2. ASSUME NEW r \in Runs
        PROVE  /\ discarding'[r] # {} => pc'[r] = "discard"
               /\ deferred'[r] # {} => pc'[r] \in {"discard", "report"}
               /\ \A i \in deferred'[r] : Kept(i)' \/ i \in Pending(tasks')
               /\ \A i \in discarding'[r] : i \in raced' \/ (i \in Pending(tasks') /\ i \notin InHand')
    BY <1>6, <1>8, <1>10 DEF IInv, HandedOver, Elsewhere, Fetching
  <2> QED
    BY <2>1, <2>2 DEF HandedOver
<1>12. Halves'
  <2> SUFFICES ASSUME NEW i \in Items, OwnHalf(i)'
               PROVE  pc[Worker] \in {"fetch", "settle"} /\ i \in todo
    BY DEF Halves, OwnHalvesAreRedone, IInv, Elsewhere, Fetching
  <2>1. CASE OwnHalf(i)
    BY <2>1 DEF IInv, Halves
  <2>2. CASE ~OwnHalf(i)
    <3>1. u = Worker /\ i \in want[u]
      BY <2>2
    <3> QED
      BY <3>1 DEF IInv, Working, Fetching
  <2> QED
    BY <2>1, <2>2
<1> QED
  BY <1>2, <1>3, <1>4, <1>5, <1>7, <1>11, <1>12, ElsewhereQueue DEF IInv

LEMMA MissInv == ASSUME IInv, NEW u \in Users, NEW i \in Items, Miss(u, i) PROVE IInv'
<1>1. /\ Elsewhere /\ pc' = pc /\ batch' = batch /\ open' = open /\ disk' = disk
      /\ pc[u] = "fetch" /\ open = None /\ i \in want[u]
      /\ want' = [want EXCEPT ![u] = @ \ {i}]
      /\ closed' \in {closed, closed \union {i}} /\ uncleaned' = uncleaned
  BY DEF Miss, Report, Elsewhere, At, outer, queue, clock, worker, runner
<1>2. failed' = failed \/ failed' = [failed EXCEPT ![u] = @ \union {i}]
  BY DEF Miss
<1>3. Fetching(u)
  BY <1>1, <1>2 DEF Fetching, IInv, TypeOK
<1>4. /\ closed \subseteq closed' /\ closed' \subseteq Items
      /\ failed[Worker] \subseteq failed'[Worker]
  BY <1>1, <1>3, Names DEF IInv, TypeOK, Fetching
<1>5. \A x \in Items : OwnHalf(x)' => OwnHalf(x) /\ x \in failed'[Worker]
  BY <1>1, <1>4, Names DEF IInv, Halves, OwnHalf
<1> QED
  BY <1>1, <1>3, <1>4, <1>5, FetchingInv

LEMMA OpenInv == ASSUME IInv, NEW u \in Users, NEW i \in Items, Open(u, i) PROVE IInv'
<1>1. /\ Elsewhere /\ pc' = pc /\ batch' = batch /\ want' = want /\ failed' = failed
      /\ closed' = closed
      /\ pc[u] = "fetch" /\ open = None /\ open' = i /\ i \in want[u]
      /\ disk' = [disk EXCEPT ![i] = u] /\ uncleaned' = uncleaned \ {i}
  BY DEF Open, Elsewhere, At, outer, queue, clock, worker, runner, history
<1>2. batch = u
  BY <1>1 DEF IInv, Batches, At
<1>3. Fetching(u)
  BY <1>1 DEF Fetching, IInv, TypeOK
<1>4. \A x \in Items : disk'[x] = IF x = i THEN u ELSE disk[x]
  BY <1>1 DEF IInv, TypeOK
<1>5. \A x \in Items : OwnHalf(x)' =>
        /\ OwnHalf(x) \/ (u = Worker /\ x \in want[u])
        /\ (open' = x /\ batch' = Worker) \/ x \in failed'[Worker]
  BY <1>1, <1>2, <1>4, Names DEF IInv, Halves, OwnHalf
<1>6. u # "none"
  BY NamesAssumption DEF Users
<1> QED
  BY <1>1, <1>3, <1>4, <1>5, <1>6, FetchingInv DEF IInv, TypeOK

LEMMA CloseInv == ASSUME IInv, NEW u \in Users, Close(u) PROVE IInv'
<1>1. /\ Elsewhere /\ pc' = pc /\ batch' = batch /\ open' = None
      /\ pc[u] = "fetch" /\ open # None
      /\ want' = [want EXCEPT ![u] = @ \ {open}] /\ uncleaned' = uncleaned
  BY DEF Close, Elsewhere, At, outer, queue, clock, worker, runner
<1>2. batch = u /\ open \in want[u] /\ open \in Items
  BY <1>1 DEF IInv, Batches, At, TypeOK
<1>3. PICK left \in {"whole", disk[open], "none"} :
        /\ disk' = [disk EXCEPT ![open] = left]
        /\ \/ left = "whole" /\ failed' = failed /\ closed' = closed
           \/ /\ failed' = [failed EXCEPT ![u] = @ \union {open}]
              /\ closed' = IF u = Worker THEN closed ELSE closed \union {open}
  BY DEF Close, Report
<1>4. \A x \in Items : disk'[x] = IF x = open THEN left ELSE disk[x]
  BY <1>3 DEF IInv, TypeOK
<1>5. Fetching(u)
  <2>1. disk' \in [Items -> {"none", "whole", None} \union Users]
    BY <1>2, <1>3 DEF IInv, TypeOK
  <2>2. /\ want' \in [Users -> SUBSET Items] /\ want'[u] \subseteq want[u]
        /\ \A x \in Users : x # u => want'[x] = want[x]
    BY <1>1 DEF IInv, TypeOK
  <2>3. /\ failed' \in [Users -> SUBSET Items] /\ failed[u] \subseteq failed'[u]
        /\ failed'[u] \subseteq failed[u] \union want[u]
        /\ \A x \in Users : x # u => failed'[x] = failed[x]
    BY <1>2, <1>3 DEF IInv, TypeOK
  <2> QED
    BY <1>1, <2>1, <2>2, <2>3 DEF Fetching
<1>6. /\ closed \subseteq closed' /\ closed' \subseteq Items
  BY <1>2, <1>3 DEF IInv, TypeOK
<1>7. \A x \in want[u] : disk'[x] # "none" \/ disk'[x] = disk[x] \/ u = Worker \/ x \in closed'
  BY <1>2, <1>3, <1>4 DEF IInv, TypeOK
<1>8. ASSUME NEW x \in Items, OwnHalf(x)'
      PROVE  /\ OwnHalf(x)
             /\ x \in failed'[Worker]
  <2>1. CASE x = open
    <3>1. left = disk[open] /\ OwnHalf(open) /\ left # "whole"
      BY <1>1, <1>3, <1>4, <1>8, <2>1, Names DEF OwnHalf
    <3>2. failed' = [failed EXCEPT ![u] = @ \union {open}]
      BY <1>3, <3>1
    <3>3. u = Worker \/ open \in failed[Worker]
      BY <1>2, <3>1 DEF IInv, Halves
    <3>4. open \in failed'[Worker]
      BY <3>2, <3>3, Names DEF IInv, TypeOK
    <3> QED
      BY <2>1, <3>1, <3>4
  <2>2. CASE x # open
    <3>1. OwnHalf(x)
      BY <1>1, <1>4, <1>8, <2>2 DEF OwnHalf
    <3>2. x \in failed[Worker]
      BY <3>1, <2>2 DEF IInv, Halves
    <3>3. failed[Worker] \subseteq failed'[Worker]
      BY <1>5, Names DEF Fetching
    <3> QED
      BY <3>1, <3>2, <3>3
  <2> QED
    BY <2>1, <2>2
<1>9. \A x \in Items : disk'[x] = disk[x] \/ x \in want[u]
  BY <1>2, <1>4
<1> QED
  BY <1>1, <1>5, <1>6, <1>7, <1>8, <1>9, FetchingInv
------------------------------------------------------------------------------
(* The runs.                                                               *)

\* A run goes from one label to another that is not the downloader's.
Moves(r, label) ==
    /\ pc[r] # "fetch" /\ label \in RunPCs \ {"off", "fetch"}
    /\ Goto(r, label)
    /\ label = "over" \/ service = "up"

\* A run goes on; nobody else moves.
LEMMA MovesTo ==
    ASSUME IInv, NEW r \in Runs, NEW label, Moves(r, label), service' = service
    PROVE  /\ pc' \in [Users -> WorkerPCs \union RunPCs]
           /\ pc'[r] = label /\ \A u \in Users : u # r => pc'[u] = pc[u]
           /\ pc'[Worker] = pc[Worker]
           /\ Places'
<1>1. /\ pc' \in [Users -> WorkerPCs \union RunPCs]
      /\ pc'[r] = label /\ \A u \in Users : u # r => pc'[u] = pc[u]
  BY Names DEF Moves, Goto, IInv, TypeOK
<1>2. pc'[Worker] = pc[Worker]
  BY <1>1, Names
<1>3. Places'
  <2>1. ASSUME NEW x \in Runs
        PROVE  pc'[x] \in RunPCs /\ (pc'[x] \notin {"off", "over"} => service' = "up")
    <3>1. x \in Users
      BY Names
    <3>2. CASE x = r
      BY <1>1, <3>2 DEF Moves
    <3>3. CASE x # r
      BY <1>1, <3>1, <3>3 DEF IInv, Places
    <3> QED
      BY <3>2, <3>3
  <2> QED
    BY <1>2, <2>1 DEF IInv, Places
<1> QED
  BY <1>1, <1>2, <1>3

\* A run that goes on without touching the queue.
LEMMA RunMoveInv ==
    ASSUME IInv, NEW r \in Runs, NEW label, Moves(r, label), Elsewhere,
           disk' = disk, batch' = batch, open' = open, failed' = failed, closed' = closed,
           uncleaned' = uncleaned,
           want' \in [Users -> SUBSET Items], \A u \in Users : u # r => want'[u] = want[u],
           discarding[r] # {} => label = "discard",
           deferred[r] # {} => label \in {"discard", "report"}
    PROVE  IInv'
<1>1. /\ pc' \in [Users -> WorkerPCs \union RunPCs]
      /\ pc'[r] = label /\ \A u \in Users : u # r => pc'[u] = pc[u]
      /\ pc'[Worker] = pc[Worker]
      /\ Places'
  BY MovesTo DEF Elsewhere
<1>2. TypeOK'
  BY <1>1 DEF IInv, TypeOK, Elsewhere
<1>3. batch # r /\ label # "fetch"
  BY Names DEF IInv, Batches, At, Moves
<1>4. Batches'
  <2>1. \A u \in Users : pc'[u] = "fetch" <=> batch' = u
    BY <1>1, <1>3 DEF IInv, Batches, At
  <2>2. open' # None => batch' # None /\ open' \in want'[batch']
    BY <1>3 DEF IInv, Batches, TypeOK
  <2> QED
    BY <2>1, <2>2 DEF Batches, At
<1>5. want'[Worker] = want[Worker]
  BY Names
<1>6. Working'
  BY <1>1, <1>5 DEF IInv, Working, InHand, Elsewhere
<1>7. Dealt' = Dealt /\ InHand' = InHand
  BY <1>1 DEF Dealt, InHand, Elsewhere
<1>8. Owed'
  BY <1>7 DEF IInv, Owed, Pending, Elsewhere
<1>9. HandedOver'
  <2>1. \A i : Kept(i)' <=> Kept(i)
    BY DEF Kept, Downloaded, Elsewhere
  <2>2. ASSUME NEW x \in Runs
        PROVE  /\ discarding[x] # {} => pc'[x] = "discard"
               /\ deferred[x] # {} => pc'[x] \in {"discard", "report"}
    BY <1>1, Names DEF IInv, HandedOver
  <2> QED
    BY <1>7, <2>1, <2>2 DEF IInv, HandedOver, Pending, Elsewhere
<1>10. Halves'
  BY <1>1 DEF IInv, Halves, OwnHalf, OwnHalvesAreRedone, Elsewhere
<1> QED
  BY <1>1, <1>2, <1>4, <1>6, <1>8, <1>9, <1>10, ElsewhereQueue DEF IInv

LEMMA RunInv ==
    ASSUME IInv, NEW r \in Runs, Run(r) \/ Partition(r) \/ AskAgain(r) \/ Discarded(r)
    PROVE  IInv'
<1>1. /\ Elsewhere /\ disk' = disk /\ batch' = batch /\ open' = open /\ failed' = failed
      /\ closed' = closed /\ uncleaned' = uncleaned
  BY DEF Run, Partition, AskAgain, Discarded, Elsewhere,
         outer, queue, clock, downloader, worker, runner, history
<1>2. /\ want' \in [Users -> SUBSET Items]
      /\ \A u \in Users : u # r => want'[u] = want[u]
  <2>1. ItemsOf[r] \in SUBSET Items
    BY ItemsAssumption
  <2>2. want' = want \/ want' = [want EXCEPT ![r] = ItemsOf[r]]
    BY DEF Run, Partition, AskAgain, Discarded, downloader
  <2> QED
    BY <2>1, <2>2 DEF IInv, TypeOK
<1>3. /\ pc[r] \in {"off", "ask", "askAgain", "discard"}
      /\ pc[r] = "off" => service = "up"
  BY DEF Run, Partition, AskAgain, Discarded, At
<1>4. service = "up"
  BY <1>3 DEF IInv, Places
<1>5. PICK label \in {"ask", "enqueue", "over", "download", "protect", "report"} :
        /\ Goto(r, label)
        /\ pc[r] = "discard" => label = "report"
  BY Zenon DEF Run, Partition, AskAgain, Discarded, At
<1>6. Moves(r, label)
  BY <1>3, <1>4, <1>5 DEF Moves, RunPCs
<1>7. /\ discarding[r] = {}
      /\ deferred[r] # {} => label = "report"
  <2>1. pc[r] = "discard" => discarding[r] = {}
    BY DEF Run, Partition, AskAgain, Discarded, At
  <2> QED
    BY <1>3, <1>5, <2>1 DEF IInv, HandedOver
<1> QED
  BY <1>1, <1>2, <1>5, <1>6, <1>7, RunMoveInv
------------------------------------------------------------------------------
(* What a run puts into the queue.                                         *)

\* The tasks keep their items, and the new ones make one more task.
GrowsBy(new) ==
    /\ tasks' \in [TaskIds -> Tasks \union {None}]
    /\ stored' \in {tasks', stored}
    /\ \A t \in TaskIds :
         \/ /\ tasks[t] = None <=> tasks'[t] = None
            /\ tasks[t] # None => tasks'[t].items = tasks[t].items
         \/ t = budget.made /\ budget'.made < t /\ tasks'[t] # None /\ tasks'[t].items = new
    /\ new \intersect Pending(tasks) = {} /\ new \subseteq Pending(tasks')
    /\ budget' \in [Bounded -> Nat] /\ budget'.made \in 0 .. MaxTasks
    /\ budget'.made <= budget.made

\* New tasks bring new items and take none away.
LEMMA Grown ==
    ASSUME IInv, NEW new, GrowsBy(new), job' = job
    PROVE  /\ OneTask' /\ Unmade'
           /\ InHand' = InHand
           /\ Pending(tasks) \subseteq Pending(tasks')
           /\ job # None => tasks'[job] # None
<1> DEFINE Old(t) == /\ tasks[t] = None <=> tasks'[t] = None
                     /\ tasks[t] # None => tasks'[t].items = tasks[t].items
           New(t) == /\ t = budget.made /\ budget'.made < t
                     /\ tasks'[t] # None /\ tasks'[t].items = new
<1>1. \A t \in TaskIds : Old(t) \/ New(t)
  BY DEF GrowsBy
<1>2. \A t \in TaskIds : New(t) => tasks[t] = None
  BY DEF IInv, Unmade, TaskIds, TypeOK
<1>3. ASSUME NEW t \in TaskIds, tasks[t] # None
      PROVE  tasks'[t] # None /\ tasks'[t].items = tasks[t].items
  BY <1>1, <1>2, <1>3
<1>4. ASSUME NEW i \in Pending(tasks) PROVE i \in Pending(tasks')
  BY <1>3, InPending
<1>5. InHand' = InHand /\ (job # None => tasks'[job] # None)
  <2>1. CASE job = None
    BY <2>1 DEF InHand
  <2>2. CASE job # None
    <3>1. job \in TaskIds /\ tasks[job] # None
      BY <2>2 DEF IInv, TypeOK, Working
    <3> QED
      BY <1>3, <2>2, <3>1 DEF InHand
  <2> QED
    BY <2>1, <2>2
<1>6. ASSUME NEW t \in TaskIds, NEW u \in TaskIds, t # u, tasks'[t] # None, tasks'[u] # None
      PROVE  tasks'[t].items \intersect tasks'[u].items = {}
  <2>1. CASE Old(t) /\ Old(u)
    <3>1. tasks[t] # None /\ tasks[u] # None
      BY <1>6, <2>1
    <3> QED
      BY <1>6, <2>1, <3>1 DEF IInv, OneTask
  <2>2. CASE Old(t) /\ New(u)
    <3>1. tasks[t] # None /\ tasks'[t].items = tasks[t].items /\ tasks'[u].items = new
      BY <1>6, <2>2
    <3>2. tasks[t].items \subseteq Pending(tasks)
      BY <3>1, InPending
    <3> QED
      BY <3>1, <3>2 DEF GrowsBy
  <2>3. CASE New(t) /\ Old(u)
    <3>1. tasks[u] # None /\ tasks'[u].items = tasks[u].items /\ tasks'[t].items = new
      BY <1>6, <2>3
    <3>2. tasks[u].items \subseteq Pending(tasks)
      BY <3>1, InPending
    <3> QED
      BY <3>1, <3>2 DEF GrowsBy
  <2>4. ~(New(t) /\ New(u))
    BY <1>6
  <2> QED
    BY <1>1, <2>1, <2>2, <2>3, <2>4
<1>7. OneTask'
  <2>1. stored' = tasks' \/ stored' = stored
    BY DEF GrowsBy
  <2> QED
    BY <1>6, <2>1 DEF IInv, OneTask
<1>8. Unmade'
  <2> SUFFICES ASSUME NEW t \in TaskIds, t <= budget'.made
               PROVE  tasks'[t] = None /\ stored'[t] = None
    BY DEF Unmade
  <2>1. t <= budget.made /\ ~New(t)
    BY DEF GrowsBy, TaskIds, IInv, TypeOK
  <2> QED
    BY <1>1, <2>1 DEF IInv, Unmade, GrowsBy
<1> QED
  BY <1>4, <1>5, <1>7, <1>8

\* What is accepted waits now; what of it the worker has is raced for.
LEMMA TakenInv ==
    ASSUME IInv, NEW r \in Runs, NEW label, Moves(r, label), pc[r] \notin {"off", "over"},
           NEW new, GrowsBy(new),
           share' = share, service' = service, disk' = disk, due' = due, late' = late,
           batch' = batch, open' = open, want' = want, failed' = failed,
           job' = job, todo' = todo, dropped' = dropped, stuck' = stuck,
           deferred' = deferred, halves' = halves /\ uncleaned' = uncleaned, deferred[r] = {},
           NEW taken \in SUBSET Items, taken \subseteq Pending(tasks'),
           taken = {} \/ stored' = tasks',
           owed' = owed \union taken, closed' = closed \ taken,
           taken \intersect InHand \subseteq raced',
           raced \subseteq raced', raced' \subseteq Items,
           discarding' \in [Runs -> SUBSET Items],
           \A x \in Runs : x # r => discarding'[x] = discarding[x],
           discarding'[r] # {} => label = "discard",
           \A i \in discarding'[r] : i \in raced' \/ (i \in Pending(tasks') /\ i \notin InHand)
    PROVE  IInv'
<1>1. /\ pc' \in [Users -> WorkerPCs \union RunPCs]
      /\ pc'[r] = label /\ \A u \in Users : u # r => pc'[u] = pc[u]
      /\ pc'[Worker] = pc[Worker]
      /\ Places'
  BY MovesTo
<1>2. /\ OneTask' /\ Unmade' /\ InHand' = InHand
      /\ Pending(tasks) \subseteq Pending(tasks')
      /\ job # None => tasks'[job] # None
  BY Grown
<1>3. TypeOK'
  <2>1. owed' \subseteq Items /\ closed' \subseteq Items
    BY DEF IInv, TypeOK
  <2>2. stored' \in [TaskIds -> Tasks \union {None}] /\ tasks' \in [TaskIds -> Tasks \union {None}]
    BY DEF IInv, TypeOK, GrowsBy
  <2>3. budget' \in [Bounded -> Nat] /\ budget'.made \in 0 .. MaxTasks
    BY DEF GrowsBy
  <2> QED
    BY <1>1, <2>1, <2>2, <2>3 DEF IInv, TypeOK
<1>4. Batches'
  BY <1>1, Names DEF IInv, Batches, At, Moves
<1>5. Working'
  BY <1>1, <1>2 DEF IInv, Working
<1>6. Dealt' = Dealt /\ Dealt \subseteq InHand
  BY <1>1, <1>2 DEF Dealt
<1>7. InHand \subseteq Pending(tasks)
  <2>1. CASE job = None
    BY <2>1 DEF InHand
  <2>2. CASE job # None
    <3>1. job \in TaskIds /\ tasks[job] # None
      BY <2>2 DEF IInv, TypeOK, Working
    <3> QED
      BY <2>2, <3>1, InPending DEF InHand
  <2> QED
    BY <2>1, <2>2
<1>8. Owed'
  <2>1. service = "up"
    BY DEF IInv, Places
  <2>2. owed' \subseteq Pending(tasks') \union raced'
    BY <1>2, <2>1 DEF IInv, Owed
  <2>3. owed' \subseteq Pending(stored') \union raced'
    <3>1. CASE stored' = tasks'
      BY <2>2, <3>1
    <3>2. CASE stored' # tasks'
      BY <3>2 DEF IInv, Owed, GrowsBy
    <3> QED
      BY <3>1, <3>2
  <2>4. Dealt' \intersect owed' \subseteq raced'
    BY <1>6 DEF IInv, Owed
  <2> QED
    BY <2>2, <2>3, <2>4 DEF Owed
<1>9. \A i : Kept(i) => Kept(i)' \/ i \in taken
  BY DEF Kept, Downloaded
<1>10. HandedOver'
  <2>1. ASSUME NEW i \in Dealt' PROVE Kept(i)'
    <3>1. Kept(i) /\ i \in InHand
      BY <1>6, <2>1 DEF IInv, HandedOver
    <3>2. i \in taken => i \in raced'
      BY <3>1
    <3> QED
      BY <1>9, <3>1, <3>2 DEF Kept
  <2>2. ASSUME NEW x \in Runs
        PROVE  /\ discarding'[x] # {} => pc'[x] = "discard"
               /\ deferred'[x] # {} => pc'[x] \in {"discard", "report"}
               /\ \A i \in deferred'[x] : Kept(i)' \/ i \in Pending(tasks')
               /\ \A i \in discarding'[x] : i \in raced' \/ (i \in Pending(tasks') /\ i \notin InHand')
    <3>1. CASE x = r
      BY <1>1, <1>2, <3>1
    <3>2. CASE x # r
      <4>1. pc'[x] = pc[x] /\ discarding'[x] = discarding[x] /\ deferred'[x] = deferred[x]
        BY <1>1, <3>2, Names
      <4> QED
        BY <1>2, <1>9, <4>1 DEF IInv, HandedOver
    <3> QED
      BY <3>1, <3>2
  <2> QED
    BY <2>1, <2>2 DEF HandedOver
<1>11. Halves'
  BY <1>1 DEF IInv, Halves, OwnHalf, OwnHalvesAreRedone
<1> QED
  BY <1>1, <1>2, <1>3, <1>4, <1>5, <1>8, <1>10, <1>11 DEF IInv

\* What is required waits.
LEMMA RequiredWait == ASSUME TypeOK PROVE Required(tasks) \subseteq Pending(tasks)
<1>1. ASSUME NEW i \in Required(tasks) PROVE i \in Pending(tasks)
  <2>1. PICK t \in TaskIds : tasks[t] # None /\ i \in tasks[t].required
    BY InRequired
  <2>2. tasks[t] \in Tasks
    BY <2>1 DEF TypeOK
  <2> QED
    BY <2>1, <2>2, InPending DEF Tasks
<1> QED
  BY <1>1

\* The tasks stay, or one is made with the file written.
LEMMA NothingNew ==
    ASSUME TypeOK, tasks' = tasks, stored' = stored, budget' = budget \/ Once("unsaved")
    PROVE  GrowsBy({})
<1>1. budget' \in [Bounded -> Nat] /\ budget'.made \in 0 .. MaxTasks /\ budget'.made = budget.made
  BY OnceType DEF Bounded, TypeOK
<1> QED
  BY <1>1 DEF GrowsBy, TypeOK

\* A new task's items are those that wait in none.
LEMMA NewTaskIs ==
    ASSUME NEW q, NEW items \in SUBSET Items
    PROVE  /\ \E task \in Tasks : /\ task.items = items
                                  /\ NewTask(q, items, TRUE) = [q EXCEPT ![budget.made] = task]
           /\ \E task \in Tasks : /\ task.items = items
                                  /\ NewTask(q, items, FALSE) = [q EXCEPT ![budget.made] = task]
<1>1. /\ [items |-> items, required |-> items] \in Tasks
      /\ [items |-> items, required |-> {}] \in Tasks
  BY DEF Tasks
<1>2. /\ NewTask(q, items, TRUE) = [q EXCEPT ![budget.made] = [items |-> items, required |-> items]]
      /\ NewTask(q, items, FALSE) = [q EXCEPT ![budget.made] = [items |-> items, required |-> {}]]
  BY DEF NewTask
<1> QED
  BY <1>1, <1>2

\* Adding one task of items that do not wait yet.
LEMMA OneMore ==
    ASSUME TypeOK, NEW q \in [TaskIds -> Tasks \union {None}],
           \A t \in TaskIds : /\ q[t] = None <=> tasks[t] = None
                              /\ tasks[t] # None => q[t].items = tasks[t].items,
           NEW task \in Tasks, task.items \intersect Pending(tasks) = {},
           tasks' = [q EXCEPT ![budget.made] = task], SavedWithTask
    PROVE  GrowsBy(task.items)
<1> DEFINE items == task.items
<1>1. Once("made") /\ stored' = tasks'
  BY DEF SavedWithTask
<1>2. /\ tasks' \in [TaskIds -> Tasks \union {None}]
      /\ budget.made \in TaskIds
      /\ tasks'[budget.made] \in Tasks /\ tasks'[budget.made].items = items
      /\ \A t \in TaskIds : t # budget.made => tasks'[t] = q[t]
  <2>1. budget.made \in TaskIds
    BY <1>1, OnceType DEF Bounded
  <2> QED
    BY <2>1
<1>3. /\ budget' \in [Bounded -> Nat] /\ budget'.made \in 0 .. MaxTasks
      /\ budget'.made = budget.made - 1
  BY <1>1, OnceType DEF Bounded
<1>4. tasks'[budget.made] # None
  BY <1>2, Names
<1>5. items \subseteq Pending(tasks')
  BY <1>2, <1>4, InPending
<1>6. budget'.made < budget.made /\ budget'.made <= budget.made
  BY <1>2, <1>3 DEF TaskIds
<1> QED
  BY <1>1, <1>2, <1>3, <1>4, <1>5, <1>6 DEF GrowsBy

LEMMA EnqueueInv == ASSUME IInv, NEW r \in Runs, Enqueue(r) PROVE IInv'
<1> DEFINE new == ItemsOf[r] \ Pending(tasks)
<1>1. /\ share' = share /\ service' = service /\ disk' = disk /\ due' = due /\ late' = late
      /\ batch' = batch /\ open' = open /\ want' = want /\ failed' = failed
      /\ job' = job /\ todo' = todo /\ dropped' = dropped /\ stuck' = stuck
      /\ discarding' = discarding /\ deferred' = deferred
      /\ raced' = raced
      /\ halves' = halves /\ uncleaned' = uncleaned
      /\ pc[r] = "enqueue" /\ Goto(r, "over")
  BY DEF Enqueue, outer, clock, downloader, worker, runner, At
<1>2. Moves(r, "over")
  BY <1>1 DEF Moves, RunPCs
<1>3. discarding[r] = {} /\ deferred[r] = {}
  BY <1>1 DEF IInv, HandedOver
<1>4. new \in SUBSET Items /\ new \intersect InHand = {}
  <2>1. InHand \subseteq Pending(tasks)
    <3>1. CASE job = None
      BY <3>1 DEF InHand
    <3>2. CASE job # None
      <4>1. job \in TaskIds /\ tasks[job] # None
        BY <3>2 DEF IInv, TypeOK, Working
      <4> QED
        BY <3>2, <4>1, InPending DEF InHand
    <3> QED
      BY <3>1, <3>2
  <2> QED
    BY <2>1, ItemsAssumption
<1>5. PICK taken \in {{}, new} :
        /\ owed' = owed \union taken /\ closed' = closed \ taken
        /\ taken = {} \/ stored' = tasks'
        /\ GrowsBy(taken)
  <2>1. CASE tasks' = tasks /\ stored' = stored /\ owed' = owed /\ closed' = closed
             /\ (budget' = budget \/ Once("unsaved"))
    BY <2>1, NothingNew DEF IInv
  <2>2. CASE tasks' = NewTask(tasks, new, FALSE) /\ SavedWithTask /\ Accept(new)
    <3>1. PICK task \in Tasks : task.items = new /\ tasks' = [tasks EXCEPT ![budget.made] = task]
      <4>1. \E task \in Tasks : /\ task.items = new
                                /\ NewTask(tasks, new, FALSE) = [tasks EXCEPT ![budget.made] = task]
        BY <1>4, NewTaskIs
      <4> QED
        BY <2>2, <4>1
    <3>2. GrowsBy(new)
      <4>1. /\ TypeOK
            /\ tasks \in [TaskIds -> Tasks \union {None}]
            /\ task.items \intersect Pending(tasks) = {}
            /\ tasks' = [tasks EXCEPT ![budget.made] = task]
            /\ SavedWithTask
        BY <2>2, <3>1 DEF IInv, TypeOK
      <4>2. \A t \in TaskIds : /\ tasks[t] = None <=> tasks[t] = None
                               /\ tasks[t] # None => tasks[t].items = tasks[t].items
        OBVIOUS
      <4> HIDE DEF new
      <4>3. GrowsBy(task.items)
        BY ONLY <4>1, <4>2, task \in Tasks, OneMore
      <4> QED
        BY <3>1, <4>3
    <3> QED
      BY <2>2, <3>2 DEF Accept, SavedWithTask
  <2> QED
    BY <2>1, <2>2 DEF Enqueue, RolledBack, Unsaved, queue
<1>6. /\ raced' \subseteq Items /\ discarding' \in [Runs -> SUBSET Items]
      /\ taken \subseteq Pending(tasks') /\ taken \in SUBSET Items
      /\ taken \intersect InHand \subseteq raced'
  BY <1>1, <1>4, <1>5 DEF IInv, TypeOK, GrowsBy
<1> HIDE DEF new
<1> QED
  BY <1>1, <1>2, <1>3, <1>5, <1>6, TakenInv

LEMMA ProtectInv == ASSUME IInv, NEW r \in Runs, Protect(r) PROVE IInv'
<1> DEFINE items == failed[r]
           new == items \ Pending(tasks)
           marked == items \intersect Required(tasks)
<1>1. /\ share' = share /\ service' = service /\ disk' = disk /\ due' = due /\ late' = late
      /\ batch' = batch /\ open' = open /\ want' = want /\ failed' = failed
      /\ job' = job /\ todo' = todo /\ dropped' = dropped /\ stuck' = stuck
      /\ deferred' = deferred
    /\ halves' = halves /\ uncleaned' = uncleaned
      /\ pc[r] = "protect" /\ Goto(r, "discard")
  BY DEF Protect, outer, clock, downloader, worker, At
<1>2. service = "up"
  BY <1>1 DEF IInv, Places
<1>3. Moves(r, "discard")
  BY <1>1, <1>2 DEF Moves, RunPCs
<1>4. deferred[r] = {}
  BY <1>1 DEF IInv, HandedOver
<1>5. /\ items \in SUBSET Items /\ new \in SUBSET Items
      /\ marked \subseteq Pending(tasks) /\ marked \in SUBSET Items
  <2>1. items \in SUBSET Items
    BY Names DEF IInv, TypeOK
  <2> QED
    BY <2>1, RequiredWait DEF IInv
<1>6. PICK taken \in {{}, items}, handed \in {items, marked}, fresh \in {{}, new} :
        /\ owed' = owed \union taken /\ closed' = closed \ taken
        /\ taken = {} \/ (stored' = tasks' /\ handed = items)
        /\ GrowsBy(fresh)
        /\ discarding' = [discarding EXCEPT ![r] = handed]
        /\ raced' = raced \union (handed \intersect InHand)
        /\ handed \subseteq Pending(tasks')
  <2> DEFINE Hands(x) == /\ discarding' = [discarding EXCEPT ![r] = x]
                         /\ raced' = raced \union (x \intersect InHand)
  <2>1. CASE /\ tasks' = tasks /\ stored' = stored /\ owed' = owed /\ closed' = closed
             /\ (budget' = budget \/ Once("unsaved")) /\ Hands(marked)
    <3>1. GrowsBy({})
      BY <2>1, NothingNew DEF IInv
    <3> QED
      BY <1>5, <2>1, <3>1
  <2>2. /\ Upgrade(tasks, items) \in [TaskIds -> Tasks \union {None}]
        /\ \A t \in TaskIds : /\ Upgrade(tasks, items)[t] = None <=> tasks[t] = None
                              /\ tasks[t] # None => Upgrade(tasks, items)[t].items = tasks[t].items
    BY UpgradeKeeps DEF IInv, TypeOK
  <2>3. CASE new = {} /\ tasks' = Upgrade(tasks, items) /\ Saved /\ Accept(items) /\ Hands(items)
    <3>1. stored' = tasks' /\ budget' = budget
      BY <2>3 DEF Saved
    <3>2. GrowsBy({})
      BY <2>2, <2>3, <3>1 DEF GrowsBy, IInv, TypeOK
    <3>3. items \subseteq Pending(tasks')
      <4>1. \A i \in Pending(tasks) : i \in Pending(tasks')
        BY <2>2, <2>3, InPending
      <4> QED
        BY <2>3, <4>1
    <3> QED
      BY <2>3, <3>1, <3>2, <3>3 DEF Accept
  <2>4. CASE /\ tasks' = NewTask(Upgrade(tasks, items), new, TRUE)
             /\ SavedWithTask /\ Accept(items) /\ Hands(items)
    <3>a. PICK task \in Tasks :
            /\ task.items = new
            /\ tasks' = [Upgrade(tasks, items) EXCEPT ![budget.made] = task]
      BY <1>5, <2>4, NewTaskIs
    <3>1. GrowsBy(new)
      BY <2>2, <2>4, <3>a, OneMore DEF IInv
    <3>2. Pending(tasks) \subseteq Pending(tasks') /\ new \subseteq Pending(tasks')
      BY <1>1, <3>1, Grown DEF GrowsBy
    <3>3. items \subseteq Pending(tasks')
      BY <3>2
    <3> QED
      BY <2>4, <3>1, <3>3 DEF Accept, SavedWithTask
  <2> QED
    BY <2>1, <2>3, <2>4 DEF Protect, RolledBack, Unsaved, queue
<1>7. /\ raced \subseteq raced' /\ raced' \subseteq Items
      /\ discarding' \in [Runs -> SUBSET Items]
      /\ discarding'[r] = handed
      /\ \A x \in Runs : x # r => discarding'[x] = discarding[x]
  BY <1>5, <1>6 DEF IInv, TypeOK
<1>8. /\ taken \in SUBSET Items /\ taken \subseteq Pending(tasks')
      /\ taken \intersect InHand \subseteq raced'
      /\ taken = {} \/ stored' = tasks'
  BY <1>5, <1>6
<1>9. \A i \in discarding'[r] : i \in raced' \/ (i \in Pending(tasks') /\ i \notin InHand)
  BY <1>6, <1>7
<1> HIDE DEF items, new, marked
<1> QED
  BY <1>1, <1>3, <1>4, <1>6, <1>7, <1>8, <1>9, TakenInv
------------------------------------------------------------------------------
(* What a run does with the files.                                         *)

LEMMA DiscardInv == ASSUME IInv, NEW r \in Runs, NEW i \in Items, Discard(r, i) PROVE IInv'
<1>1. /\ share' = share /\ service' = service /\ tasks' = tasks /\ stored' = stored
      /\ due' = due /\ late' = late /\ pc' = pc
      /\ batch' = batch /\ open' = open /\ want' = want /\ failed' = failed
      /\ job' = job /\ todo' = todo /\ dropped' = dropped /\ stuck' = stuck
      /\ owed' = owed /\ closed' = closed /\ raced' = raced
      /\ halves' = halves /\ uncleaned' = uncleaned
      /\ budget' = budget \/ Once("uncleaned")
      /\ disk' = [disk EXCEPT ![i] = "none"] \/ disk' = disk
      /\ pc[r] = "discard" /\ i \in discarding[r]
  BY DEF Discard, outer, queue, clock, downloader, worker, history, At
<1>2. /\ discarding' \in [Runs -> SUBSET Items] /\ discarding'[r] \subseteq discarding[r]
      /\ deferred' \in [Runs -> SUBSET Items] /\ deferred'[r] = deferred[r] \union {i}
      /\ \A x \in Runs : x # r => discarding'[x] = discarding[x] /\ deferred'[x] = deferred[x]
  BY DEF Discard, IInv, TypeOK
<1>3. /\ disk' \in [Items -> {"none", "whole", None} \union Users]
      /\ \A x \in Items : disk'[x] = disk[x] \/ (x = i /\ disk'[x] = "none")
  BY <1>1 DEF IInv, TypeOK
<1>12. /\ budget' \in [Bounded -> Nat] /\ budget'.made \in 0 .. MaxTasks
       /\ budget'.made = budget.made
  <2>1. CASE budget' = budget
    BY <2>1 DEF IInv, TypeOK
  <2>2. CASE Once("uncleaned")
    BY <2>2, OnceType DEF IInv, Bounded
  <2> QED
    BY <1>1, <2>1, <2>2
<1>4. TypeOK'
  BY <1>1, <1>2, <1>3, <1>12 DEF IInv, TypeOK
<1>5. OneTask' /\ Unmade' /\ Places' /\ Batches' /\ Working'
  BY <1>1, <1>12 DEF IInv, OneTask, Unmade, Places, Batches, At, Working, InHand
<1>6. Dealt' = Dealt /\ InHand' = InHand /\ Dealt \subseteq InHand
  BY <1>1 DEF Dealt, InHand
<1>7. Owed'
  BY <1>1, <1>6 DEF IInv, Owed
<1>8. i \in raced \/ (i \in Pending(tasks) /\ i \notin InHand)
  BY <1>1 DEF IInv, HandedOver
<1>9. \A x : Kept(x) => Kept(x)' \/ x = i
  BY <1>1, <1>3 DEF Kept, Downloaded
<1>10. HandedOver'
  <2>1. \A x \in Dealt' : Kept(x)'
    BY <1>1, <1>6, <1>8, <1>9 DEF IInv, HandedOver, Kept
  <2>2. ASSUME NEW x \in Runs
        PROVE  /\ discarding'[x] # {} => pc'[x] = "discard"
               /\ deferred'[x] # {} => pc'[x] \in {"discard", "report"}
               /\ \A y \in deferred'[x] : Kept(y)' \/ y \in Pending(tasks')
               /\ \A y \in discarding'[x] : y \in raced' \/ (y \in Pending(tasks') /\ y \notin InHand')
    <3>1. /\ discarding'[x] \subseteq discarding[x] /\ deferred'[x] \subseteq deferred[x] \union {i}
          /\ x # r => deferred'[x] = deferred[x]
      BY <1>2
    <3>2. discarding'[x] # {} => pc'[x] = "discard"
      BY <1>1, <3>1 DEF IInv, HandedOver
    <3>3. deferred'[x] # {} => pc'[x] \in {"discard", "report"}
      BY <1>1, <3>1 DEF IInv, HandedOver
    <3>4. ASSUME NEW y \in deferred'[x] PROVE Kept(y)' \/ y \in Pending(tasks')
      <4>1. CASE y = i
        BY <1>1, <1>8, <4>1 DEF Kept
      <4>2. CASE y # i
        BY <1>1, <1>9, <3>1, <4>2 DEF IInv, HandedOver
      <4> QED
        BY <4>1, <4>2
    <3>5. \A y \in discarding'[x] : y \in raced' \/ (y \in Pending(tasks') /\ y \notin InHand')
      BY <1>1, <1>6, <3>1 DEF IInv, HandedOver
    <3> QED
      BY <3>2, <3>3, <3>4, <3>5
  <2> QED
    BY <2>1, <2>2 DEF HandedOver
<1>11. Halves'
  BY <1>1, <1>3, Names DEF IInv, Halves, OwnHalf, OwnHalvesAreRedone
<1> QED
  BY <1>4, <1>5, <1>7, <1>10, <1>11 DEF IInv

LEMMA HandOverInv == ASSUME IInv, NEW r \in Runs, HandOver(r) PROVE IInv'
<1>1. /\ share' = share /\ service' = service /\ tasks' = tasks /\ stored' = stored
      /\ due' = due /\ late' = late /\ budget' = budget
      /\ batch' = batch /\ open' = open /\ want' = want
      /\ job' = job /\ todo' = todo /\ dropped' = dropped /\ stuck' = stuck
      /\ discarding' = discarding /\ owed' = owed /\ raced' = raced
      /\ halves' = halves /\ uncleaned' = uncleaned
      /\ pc[r] = "report" /\ Goto(r, "over")
      /\ failed' = [failed EXCEPT ![r] = {}] /\ deferred' = [deferred EXCEPT ![r] = {}]
  BY DEF HandOver, outer, queue, clock, worker, At
<1>2. PICK moved \in SUBSET Items :
        /\ disk' = [i \in Items |-> IF i \in moved THEN "none" ELSE disk[i]]
        /\ closed' = closed \union moved
  <2>1. ItemsOf[r] \subseteq Items
    BY ItemsAssumption
  <2> QED
    BY <2>1 DEF HandOver
<1>3. Moves(r, "over")
  BY <1>1 DEF Moves, RunPCs
<1>4. /\ pc' \in [Users -> WorkerPCs \union RunPCs]
      /\ pc'[r] = "over" /\ \A u \in Users : u # r => pc'[u] = pc[u]
      /\ pc'[Worker] = pc[Worker]
      /\ Places'
  BY <1>1, <1>3, MovesTo
<1>5. /\ disk' \in [Items -> {"none", "whole", None} \union Users]
      /\ \A x \in Items : disk'[x] = IF x \in moved THEN "none" ELSE disk[x]
  BY <1>2 DEF IInv, TypeOK
<1>6. /\ failed' \in [Users -> SUBSET Items] /\ failed'[Worker] = failed[Worker]
      /\ deferred' \in [Runs -> SUBSET Items] /\ deferred'[r] = {}
      /\ \A x \in Runs : x # r => deferred'[x] = deferred[x]
  BY <1>1, Names DEF IInv, TypeOK
<1>7. TypeOK'
  BY <1>1, <1>2, <1>4, <1>5, <1>6 DEF IInv, TypeOK
<1>8. OneTask' /\ Unmade'
  BY <1>1 DEF IInv, OneTask, Unmade
<1>9. Batches'
  BY <1>1, <1>4, Names DEF IInv, Batches, At
<1>10. Working'
  BY <1>1, <1>4, <1>6 DEF IInv, Working, InHand
<1>11. Dealt' = Dealt /\ InHand' = InHand
  BY <1>1, <1>4 DEF Dealt, InHand
<1>12. Owed'
  BY <1>1, <1>11 DEF IInv, Owed
<1>13. \A x : Kept(x) => Kept(x)'
  BY <1>1, <1>2, <1>5 DEF Kept, Downloaded
<1>14. HandedOver'
  <2>1. ASSUME NEW x \in Runs
        PROVE  /\ discarding'[x] # {} => pc'[x] = "discard"
               /\ deferred'[x] # {} => pc'[x] \in {"discard", "report"}
    <3>1. CASE x = r
      BY <1>1, <1>6, <3>1 DEF IInv, HandedOver
    <3>2. CASE x # r
      BY <1>1, <1>4, <1>6, <3>2, Names DEF IInv, HandedOver
    <3> QED
      BY <3>1, <3>2
  <2>2. ASSUME NEW x \in Runs
        PROVE  /\ \A y \in deferred'[x] : Kept(y)' \/ y \in Pending(tasks')
               /\ \A y \in discarding'[x] : y \in raced' \/ (y \in Pending(tasks') /\ y \notin InHand')
    <3>1. deferred'[x] \subseteq deferred[x]
      BY <1>6
    <3> QED
      BY <1>1, <1>11, <1>13, <3>1 DEF IInv, HandedOver
  <2> QED
    BY <1>11, <1>13, <2>1, <2>2 DEF IInv, HandedOver
<1>15. Halves'
  BY <1>1, <1>4, <1>5, <1>6, Names DEF IInv, Halves, OwnHalf, OwnHalvesAreRedone
<1> QED
  BY <1>4, <1>7, <1>8, <1>9, <1>10, <1>12, <1>14, <1>15 DEF IInv
------------------------------------------------------------------------------
(* The worker.                                                             *)

\* The worker goes on; no run moves.
LEMMA WorkerTo ==
    ASSUME IInv, NEW label \in WorkerPCs \ {"none", "fetch"}, pc[Worker] \notin {"none", "fetch"},
           Goto(Worker, label), service' = service, batch' = batch, open' = open,
           \A u \in Runs : want'[u] = want[u]
    PROVE  /\ pc' \in [Users -> WorkerPCs \union RunPCs]
           /\ pc'[Worker] = label /\ \A u \in Runs : pc'[u] = pc[u]
           /\ service # "down"
           /\ Places' /\ Batches'
<1>1. /\ pc' \in [Users -> WorkerPCs \union RunPCs]
      /\ pc'[Worker] = label /\ \A u \in Users : u # Worker => pc'[u] = pc[u]
  BY Names DEF Goto, IInv, TypeOK
<1>2. \A u \in Runs : pc'[u] = pc[u]
  BY <1>1, Names
<1>3. service # "down"
  BY DEF IInv, Places
<1>4. Places'
  BY <1>1, <1>2, <1>3 DEF IInv, Places
<1>5. batch # Worker
  BY Names DEF IInv, Batches, At
<1>6. batch # None => batch \in Runs
  BY <1>5 DEF IInv, TypeOK, Users
<1>7. Batches'
  BY <1>1, <1>5, <1>6 DEF IInv, Batches, At
<1> QED
  BY <1>1, <1>2, <1>3, <1>4, <1>7

\* What the worker has in hand still waits in its task.
LEMMA HeldIsPending == ASSUME IInv PROVE InHand \subseteq Pending(tasks)
<1>1. CASE job = None
  BY <1>1 DEF InHand
<1>2. CASE job # None
  <2>1. job \in TaskIds /\ tasks[job] # None
    BY <1>2 DEF IInv, TypeOK, Working
  <2> QED
    BY <1>2, <2>1, InPending DEF InHand
<1> QED
  BY <1>1, <1>2

\* What the worker does to its own lists, with no file of its own half written.
OwnLists ==
    /\ share' = share /\ service' = service /\ disk' = disk /\ tasks' = tasks
    /\ stored' = stored /\ due' = due /\ late' = late /\ budget' = budget
    /\ batch' = batch /\ open' = open /\ failed' = failed
    /\ stuck' = stuck /\ discarding' = discarding /\ deferred' = deferred
    /\ halves' = halves /\ uncleaned' = uncleaned

\* The worker goes on with its own lists and leaves the queue alone.
LEMMA OwnListsInv ==
    ASSUME IInv, OwnLists, \A i \in Items : ~OwnHalf(i),
           NEW label \in WorkerPCs \ {"none", "fetch"}, pc[Worker] \notin {"none", "fetch"},
           Goto(Worker, label), Working',
           job' \in TaskIds, todo' \subseteq Items, dropped' \subseteq Items,
           want' \in [Users -> SUBSET Items], \A u \in Runs : want'[u] = want[u],
           raced \subseteq raced', raced' \subseteq Items,
           owed' \subseteq owed, closed \subseteq closed', closed' \subseteq Items,
           \A i \in Dealt' : i \in Dealt \/ (i \notin owed' /\ i \in closed'),
           \A r \in Runs : discarding[r] \intersect InHand' \subseteq InHand \union raced'
    PROVE  IInv'
<1>1. /\ pc' \in [Users -> WorkerPCs \union RunPCs]
      /\ pc'[Worker] = label /\ \A u \in Runs : pc'[u] = pc[u]
      /\ service # "down"
      /\ Places' /\ Batches'
  BY WorkerTo DEF OwnLists
<1>2. TypeOK'
  BY <1>1 DEF IInv, TypeOK, OwnLists
<1>3. OneTask' /\ Unmade'
  BY DEF IInv, OneTask, Unmade, OwnLists
<1>4. Owed'
  <2>1. Pending(tasks') = Pending(tasks) /\ Pending(stored') = Pending(stored)
    BY DEF OwnLists
  <2>2. Dealt' \intersect owed' \subseteq raced'
    BY DEF IInv, Owed
  <2> QED
    BY <1>1, <2>1, <2>2 DEF IInv, Owed, OwnLists
<1>5. \A i : Kept(i) => Kept(i)'
  BY DEF Kept, Downloaded, OwnLists
<1>6. HandedOver'
  <2>1. \A i \in Dealt' : Kept(i)'
    BY <1>5 DEF IInv, HandedOver, Kept
  <2> QED
    BY <1>1, <1>5, <2>1 DEF IInv, HandedOver, OwnLists
<1>7. Halves'
  BY DEF IInv, Halves, OwnHalf, OwnHalvesAreRedone, OwnLists
<1> QED
  BY <1>1, <1>2, <1>3, <1>4, <1>6, <1>7 DEF IInv

LEMMA TakeInv == ASSUME IInv, NEW t \in TaskIds, Take(t) PROVE IInv'
<1> DEFINE pinned == UNION {discarding[r] : r \in Runs}
<1>1. /\ OwnLists /\ todo' = todo /\ dropped' = dropped /\ want' = want
      /\ owed' = owed /\ closed' = closed
      /\ pc[Worker] = "idle" /\ Goto(Worker, "query")
      /\ tasks[t] # None /\ job' = t
      /\ raced' = raced \union (tasks[t].items \intersect pinned)
  BY DEF Take, OwnLists, outer, queue, clock, downloader, runner, At
<1>2. /\ job = None /\ InHand = {} /\ InHand' = tasks[t].items
  BY <1>1, Names DEF IInv, Working, InHand, OwnLists
<1>3. tasks[t].items \subseteq Items
  BY <1>1 DEF IInv, TypeOK, Tasks
<1>4. pc'[Worker] = "query"
  BY <1>1, Names DEF IInv, TypeOK, Goto
<1>5. Working'
  BY <1>1, <1>2, <1>4, Names DEF IInv, Working, OwnLists
<1>6. \A i \in Items : ~OwnHalf(i)
  BY <1>1 DEF IInv, Halves
<1>7. Dealt' = {}
  BY <1>4 DEF Dealt
<1>8. \A r \in Runs : discarding[r] \intersect InHand' \subseteq raced'
  BY <1>1, <1>2
<1> HIDE DEF pinned
<1>9. /\ "query" \in WorkerPCs \ {"none", "fetch"} /\ raced \subseteq raced' /\ raced' \subseteq Items
      /\ want' \in [Users -> SUBSET Items]
      /\ todo' \subseteq Items /\ dropped' \subseteq Items /\ closed' \subseteq Items
  BY <1>1, <1>3 DEF WorkerPCs, IInv, TypeOK
<1> QED
  BY <1>1, <1>5, <1>6, <1>7, <1>8, <1>9, OwnListsInv

LEMMA QueryInv == ASSUME IInv, Query PROVE IInv'
<1>1. /\ OwnLists /\ job' = job /\ todo' = todo /\ dropped' = dropped /\ want' = want
      /\ owed' = owed /\ closed' = closed /\ raced' = raced
      /\ pc[Worker] = "query"
  BY DEF Query, OwnLists, outer, queue, clock, downloader, worker, runner, history, At
<1>2. PICK label \in {"plan", "finish", "again"} : Goto(Worker, label)
  <2>1. PICK state \in Answers :
          Goto(Worker, CASE state = "normal" -> "plan"
                         [] state = "expired" -> "finish"
                         [] OTHER -> IF job \in late THEN "finish" ELSE "again")
    BY DEF Query
  <2>2. CASE state = "normal"
    BY <2>1, <2>2
  <2>3. CASE state = "expired"
    BY <2>1, <2>3
  <2>4. CASE state # "normal" /\ state # "expired"
    BY <2>1, <2>4
  <2> QED
    BY <2>2, <2>3, <2>4
<1>3. pc'[Worker] = label
  BY <1>2, Names DEF IInv, TypeOK, Goto
<1>4. /\ job \in TaskIds /\ InHand' = InHand
      /\ Working' /\ Dealt' = {}
  BY <1>1, <1>3 DEF IInv, TypeOK, Working, InHand, OwnLists, Dealt
<1>5. \A i \in Items : ~OwnHalf(i)
  BY <1>1 DEF IInv, Halves
<1>6. /\ label \in WorkerPCs \ {"none", "fetch"}
      /\ todo' \subseteq Items /\ dropped' \subseteq Items /\ closed' \subseteq Items
      /\ raced' \subseteq Items /\ want' \in [Users -> SUBSET Items]
  BY <1>1 DEF WorkerPCs, IInv, TypeOK
<1> QED
  BY <1>1, <1>2, <1>4, <1>5, <1>6, OwnListsInv

LEMMA PlanInv == ASSUME IInv, Plan PROVE IInv'
<1> DEFINE items == tasks[job].items
           download == tasks[job].required \union (items \ Downloaded)
<1>1. /\ OwnLists /\ job' = job /\ dropped' = dropped
      /\ owed' = owed /\ closed' = closed /\ raced' = raced
      /\ pc[Worker] = "plan"
      /\ todo' = items /\ want' = [want EXCEPT ![Worker] = download]
  BY DEF Plan, OwnLists, outer, queue, clock, runner, history, At
<1>2. /\ job \in TaskIds /\ InHand = items /\ InHand' = items
      /\ items \subseteq Items /\ download \subseteq items
  <2>1. job \in TaskIds /\ tasks[job] # None
    BY <1>1, Names DEF IInv, TypeOK, Working
  <2>2. tasks[job] \in Tasks
    BY <2>1 DEF IInv, TypeOK
  <2> QED
    BY <1>1, <2>1, <2>2, Names DEF InHand, Tasks, OwnLists
<1>3. PICK label \in {"settle", "download"} :
        Goto(Worker, label) /\ (label = "settle" => download = {})
  BY DEF Plan
<1> HIDE DEF items, download
<1>4. pc'[Worker] = label
  BY <1>3, Names DEF IInv, TypeOK, Goto
<1>5. /\ want' \in [Users -> SUBSET Items] /\ want'[Worker] = download
      /\ \A u \in Runs : want'[u] = want[u]
  BY <1>1, <1>2, Names DEF IInv, TypeOK
<1>6. Working'
  BY <1>1, <1>2, <1>3, <1>4, <1>5, Names DEF IInv, Working, OwnLists
<1>7. Dealt' = {}
  BY <1>1, <1>2, <1>4 DEF Dealt
<1>8. \A i \in Items : ~OwnHalf(i)
  BY <1>1 DEF IInv, Halves
<1>9. /\ label \in WorkerPCs \ {"none", "fetch"}
      /\ todo' \subseteq Items /\ dropped' \subseteq Items /\ closed' \subseteq Items
      /\ raced' \subseteq Items
  BY <1>1, <1>2 DEF WorkerPCs, IInv, TypeOK
<1> QED
  BY <1>1, <1>2, <1>3, <1>5, <1>6, <1>7, <1>8, <1>9, OwnListsInv

LEMMA SettledInv == ASSUME IInv, Settled PROVE IInv'
<1>1. /\ OwnLists /\ job' = job /\ dropped' = dropped /\ todo' = todo /\ want' = want
      /\ owed' = owed /\ closed' = closed /\ raced' = raced
      /\ pc[Worker] = "settle" /\ todo = {}
  BY DEF Settled, OwnLists, outer, queue, clock, downloader, worker, runner, history, At
<1>2. PICK label \in {"ask", "replace", "remove"} :
        Goto(Worker, label) /\ (label = "remove" => dropped = {} /\ stuck = {})
  BY DEF Settled
<1>3. pc'[Worker] = label
  BY <1>2, Names DEF IInv, TypeOK, Goto
<1>4. /\ job \in TaskIds /\ InHand' = InHand
      /\ Working' /\ Dealt' = Dealt
  BY <1>1, <1>2, <1>3 DEF IInv, TypeOK, Working, InHand, OwnLists, Dealt
<1>5. \A i \in Items : ~OwnHalf(i)
  BY <1>1 DEF IInv, Halves
<1>6. /\ label \in WorkerPCs \ {"none", "fetch"}
      /\ todo' \subseteq Items /\ dropped' \subseteq Items /\ closed' \subseteq Items
      /\ raced' \subseteq Items /\ want' \in [Users -> SUBSET Items]
  BY <1>1 DEF WorkerPCs, IInv, TypeOK
<1> QED
  BY <1>1, <1>2, <1>4, <1>5, <1>6, OwnListsInv

\* What is given up is told.
LEMMA AskLatestInv == ASSUME IInv, AskLatest PROVE IInv'
<1>1. /\ OwnLists /\ job' = job /\ todo' = todo /\ want' = want /\ raced' = raced
      /\ pc[Worker] = "ask"
  BY DEF AskLatest, OwnLists, outer, queue, clock, downloader, runner, At
<1>2. PICK label \in {"replace", "remove"} :
        /\ Goto(Worker, label)
        /\ \/ label = "replace" /\ dropped' = dropped /\ owed' = owed /\ closed' = closed
           \/ /\ owed' = owed \ dropped /\ closed' = closed \union dropped /\ dropped' = {}
              /\ label = "remove" => stuck = {}
  BY Zenon DEF AskLatest
<1>3. pc'[Worker] = label
  BY <1>2, Names DEF IInv, TypeOK, Goto
<1>4. job \in TaskIds /\ InHand' = InHand /\ Working'
  BY <1>1, <1>2, <1>3 DEF IInv, TypeOK, Working, InHand, OwnLists
<1>5. \A i \in Dealt' : i \in Dealt \/ (i \notin owed' /\ i \in closed')
  BY <1>1, <1>2, <1>3, <1>4 DEF Dealt, OwnLists
<1>6. \A i \in Items : ~OwnHalf(i)
  BY <1>1 DEF IInv, Halves
<1>7. /\ label \in WorkerPCs \ {"none", "fetch"}
      /\ owed' \subseteq owed /\ closed \subseteq closed'
      /\ todo' \subseteq Items /\ dropped' \subseteq Items /\ closed' \subseteq Items
      /\ raced' \subseteq Items /\ want' \in [Users -> SUBSET Items]
  BY <1>1, <1>2 DEF WorkerPCs, IInv, TypeOK
<1> QED
  BY <1>1, <1>2, <1>4, <1>5, <1>6, <1>7, OwnListsInv
------------------------------------------------------------------------------
(* The worker settles an item.                                             *)

\* A task that need no longer fetch an item keeps its items.
LEMMA UnforceKeeps ==
    ASSUME IInv, job # None, NEW i, Unforce(i)
    PROVE  /\ tasks' \in [TaskIds -> Tasks \union {None}]
           /\ \A t \in TaskIds : /\ tasks'[t] = None <=> tasks[t] = None
                                 /\ tasks[t] # None => tasks'[t].items = tasks[t].items
<1>1. job \in TaskIds /\ tasks[job] # None /\ tasks \in [TaskIds -> Tasks \union {None}]
  BY DEF IInv, TypeOK, Working
<1>2. tasks[job] \in Tasks
  BY <1>1
<1> DEFINE task == [tasks[job] EXCEPT !.required = @ \ {i}]
<1>3. task \in Tasks /\ task.items = tasks[job].items
  BY <1>2 DEF Tasks
<1>4. tasks' = [tasks EXCEPT ![job] = task]
  BY DEF Unforce
<1> HIDE DEF task
<1> QED
  BY <1>1, <1>2, <1>3, <1>4, Names

LEMMA SettleInv == ASSUME IInv, NEW i \in Items, Settle(i) PROVE IInv'
<1>1. /\ share' = share /\ service' = service /\ stored' = stored /\ due' = due /\ late' = late
      /\ pc' = pc /\ batch' = batch /\ open' = open /\ want' = want /\ failed' = failed
      /\ job' = job /\ discarding' = discarding /\ deferred' = deferred /\ raced' = raced
      /\ pc[Worker] = "settle" /\ i \in todo /\ todo' = todo \ {i}
  BY DEF Settle, outer, clock, downloader, runner, At
<1>2. job # None /\ job \in TaskIds
  BY <1>1 DEF IInv, Working, TypeOK
<1>3. disk[i] \in {"none", "whole", None} \union Users
  BY DEF IInv, TypeOK
<1> DEFINE Failed == /\ Remove(i) /\ dropped' = dropped \union {i}
                     /\ tasks' = tasks /\ stuck' = stuck /\ owed' = owed /\ closed' = closed
                     /\ halves' = halves
           Done == /\ ~Fails(i) /\ Unforce(i) /\ Success(i) /\ uncleaned' = uncleaned
                   /\ dropped' = dropped /\ stuck' = stuck /\ budget' = budget
           Refused == /\ ~Fails(i) /\ Unforce(i) /\ Once("refused")
                      /\ stuck' = stuck \union {i} /\ uncleaned' = uncleaned
                      /\ disk' = disk /\ dropped' = dropped /\ owed' = owed
                      /\ closed' = closed /\ halves' = halves
<1>4. Failed \/ Done \/ Refused
  BY DEF Settle
<1>5. /\ tasks' \in [TaskIds -> Tasks \union {None}]
      /\ \A t \in TaskIds : /\ tasks'[t] = None <=> tasks[t] = None
                            /\ tasks[t] # None => tasks'[t].items = tasks[t].items
  <2>1. tasks' = tasks \/ Unforce(i)
    BY <1>4
  <2> QED
    BY <1>2, <2>1, UnforceKeeps DEF IInv, TypeOK
<1>6. Pending(tasks') = Pending(tasks) /\ InHand' = InHand
  <2>1. \A x : x \in Pending(tasks') <=> x \in Pending(tasks)
    BY <1>5, InPending
  <2>2. InHand' = InHand
    BY <1>1, <1>2, <1>5 DEF InHand, IInv, Working
  <2> QED
    BY <2>1, <2>2
<1>7. /\ disk' \in [Items -> {"none", "whole", None} \union Users]
      /\ disk'[i] \in {disk[i], "none"}
      /\ \A x \in Items : x # i => disk'[x] = disk[x]
      /\ uncleaned \subseteq uncleaned' /\ uncleaned' \subseteq Items
  BY <1>3, <1>4 DEF Success, Remove, IInv, TypeOK
<1>8. ~Fails(i) => i \notin failed[Worker] /\ disk[i] # "none" /\ ~OwnHalf(i)
  <2>1. batch # Worker
    BY <1>1, Names DEF IInv, Batches, At
  <2> QED
    BY <2>1 DEF Fails, Downloaded, IInv, Halves
<1>9. /\ halves' \subseteq [item : Items, by : Users \union {None}, growing : BOOLEAN,
                            stays : BOOLEAN]
      /\ OwnHalvesAreRedone'
  <2>1. CASE halves' = halves
    BY <2>1 DEF IInv, TypeOK, Halves, OwnHalf, OwnHalvesAreRedone
  <2>2. CASE halves' # halves
    <3> DEFINE h == [item |-> i, by |-> disk[i], growing |-> open = i,
                     stays |-> i \in uncleaned]
    <3>0. (open = i) \in BOOLEAN /\ (i \in uncleaned) \in BOOLEAN
      OBVIOUS
    <3>3. h \in [item : Items, by : Users \union {None}, growing : BOOLEAN, stays : BOOLEAN]
                \/ disk[i] \in {"none", "whole"}
      BY <1>3, <3>0
    <3>1. ~Fails(i) /\ disk[i] # "whole" /\ halves' = halves \union {h}
      BY <1>4, <2>2 DEF Success
    <3>2. /\ h.by = Worker => h.stays
          /\ h \in [item : Items, by : Users \union {None}, growing : BOOLEAN, stays : BOOLEAN]
      BY <1>8, <3>1, <3>3 DEF OwnHalf
    <3> QED
      BY <3>1, <3>2 DEF IInv, TypeOK, Halves, OwnHalf, OwnHalvesAreRedone
  <2> QED
    BY <2>1, <2>2
<1>10. /\ budget' \in [Bounded -> Nat] /\ budget'.made \in 0 .. MaxTasks
       /\ budget'.made = budget.made
  <2>1. CASE budget' = budget
    BY <2>1 DEF IInv, TypeOK
  <2>2. CASE Once("refused") \/ Once("uncleaned")
    BY <2>2, OnceType DEF IInv, Bounded
  <2> QED
    BY <1>4, <2>1, <2>2 DEF Remove
<1>11. /\ dropped' \subseteq dropped \union {i} /\ stuck' \subseteq stuck \union {i}
       /\ dropped \subseteq dropped' /\ stuck \subseteq stuck'
       /\ owed' \subseteq owed /\ closed \subseteq closed' /\ closed' \subseteq closed \union {i}
  BY <1>4 DEF Success
<1>12. TypeOK'
  BY <1>1, <1>5, <1>7, <1>9, <1>10, <1>11 DEF IInv, TypeOK
<1>13. OneTask' /\ Unmade'
  <2>1. OneTask'
    BY <1>1, <1>5 DEF IInv, OneTask
  <2>2. Unmade'
    BY <1>1, <1>5, <1>10 DEF IInv, Unmade
  <2> QED
    BY <2>1, <2>2
<1>14. Places' /\ Batches'
  BY <1>1 DEF IInv, Places, Batches, At
<1>15. Working'
  BY <1>1, <1>2, <1>5, <1>6, <1>11 DEF IInv, Working
<1>16. \A x \in Dealt' : x \in Dealt \/ (x = i /\ i \notin owed' /\ (disk'[i] # "none" \/ i \in closed'))
  <2>1. \A x \in Dealt' : x \in Dealt \/ (x = i /\ x \notin dropped' \union stuck')
    BY <1>1, <1>6, <1>11 DEF Dealt
  <2>2. Failed \/ Refused => i \in dropped' \union stuck'
    OBVIOUS
  <2>3. Done => i \notin owed' /\ (disk'[i] # "none" \/ i \in closed')
    BY <1>8 DEF Success
  <2> HIDE DEF Failed, Done, Refused
  <2> QED
    BY <1>4, <2>1, <2>2, <2>3
<1> HIDE DEF Failed, Done, Refused
<1>17. Owed'
  BY <1>1, <1>6, <1>11, <1>16 DEF IInv, Owed
<1>18. \A x : Kept(x) => Kept(x)' \/ x = i
  BY <1>1, <1>7, <1>11 DEF Kept, Downloaded
<1>19. i \notin Dealt /\ i \in Pending(tasks)
  BY <1>1, HeldIsPending DEF Dealt, IInv, Working
<1>20. HandedOver'
  <2>1. ASSUME NEW x \in Dealt' PROVE Kept(x)'
    <3>1. CASE x \in Dealt
      BY <1>18, <1>19, <3>1 DEF IInv, HandedOver
    <3>2. CASE x \notin Dealt
      BY <1>16, <3>2 DEF Kept, Downloaded
    <3> QED
      BY <3>1, <3>2
  <2> QED
    BY <1>1, <1>6, <1>18, <1>19, <2>1 DEF IInv, HandedOver
<1>21. \A x \in Items : OwnHalf(x)' => x # i /\ OwnHalf(x)
  <2>1. ~OwnHalf(i)'
    <3>1. CASE Failed
      BY <3>1, Names DEF Failed, Remove, OwnHalf, IInv, TypeOK
    <3>2. CASE ~Fails(i)
      BY <1>7, <1>8, <3>2, Names DEF OwnHalf
    <3> QED
      BY <1>4, <3>1, <3>2 DEF Done, Refused
  <2> QED
    BY <1>7, <2>1 DEF OwnHalf
<1>22. Halves'
  BY <1>1, <1>9, <1>21 DEF IInv, Halves
<1> QED
  BY <1>12, <1>13, <1>14, <1>15, <1>17, <1>20, <1>22 DEF IInv
------------------------------------------------------------------------------
(* The worker lets its task go.                                            *)

\* Of the task stays what its new items are, and nothing else is touched; what is not
\* waiting any more is no longer owed, and kept.
LetsGo ==
    /\ share' = share /\ service' = service /\ disk' = disk /\ late' = late
    /\ discarding' = discarding /\ deferred' = deferred /\ raced' = raced
      /\ halves' = halves /\ uncleaned' = uncleaned
    /\ due' \subseteq TaskIds
    /\ BackToIdle
    /\ tasks' \in [TaskIds -> Tasks \union {None}]
    /\ \A t \in TaskIds : t # job => tasks'[t] = tasks[t]
    /\ tasks[job] = None => tasks'[job] = None
    /\ tasks'[job] # None => tasks'[job].items \subseteq InHand
    /\ owed' \subseteq owed /\ closed \subseteq closed' /\ closed' \subseteq Items
    /\ \A i \in InHand : i \in Pending(tasks') \/ ((i \notin owed' \/ i \in raced) /\ Kept(i)')

\* The worker replaces, keeps or removes the task it has in hand.
LEMMA LetsGoInv ==
    ASSUME IInv, LetsGo, Save, pc[Worker] \in {"replace", "again", "remove", "finish"}
    PROVE  IInv'
<1>1. /\ job \in TaskIds /\ tasks[job] # None /\ InHand = tasks[job].items
      /\ want[Worker] = {}
  BY DEF IInv, TypeOK, Working, InHand
<1>2. /\ job' = None /\ todo' = {} /\ dropped' = {} /\ stuck' = {}
      /\ failed' = [failed EXCEPT ![Worker] = {}]
      /\ Goto(Worker, "idle") /\ batch' = batch /\ open' = open /\ want' = want
  BY DEF LetsGo, BackToIdle
<1>3. /\ pc' \in [Users -> WorkerPCs \union RunPCs]
      /\ pc'[Worker] = "idle" /\ \A u \in Runs : pc'[u] = pc[u]
      /\ service # "down"
      /\ Places' /\ Batches'
  <2>1. "idle" \in WorkerPCs \ {"none", "fetch"}
    BY DEF WorkerPCs
  <2> QED
    BY <1>2, <2>1, WorkerTo DEF LetsGo
<1>4. /\ stored' = tasks' \/ stored' = stored
      /\ budget' \in [Bounded -> Nat] /\ budget'.made \in 0 .. MaxTasks
      /\ budget'.made = budget.made
  BY SaveType DEF IInv
<1>5. failed' \in [Users -> SUBSET Items] /\ failed'[Worker] = {}
  BY <1>2, Names DEF IInv, TypeOK
<1>6. TypeOK'
  BY <1>2, <1>3, <1>4, <1>5 DEF IInv, TypeOK, LetsGo
<1>7. InHand' = {} /\ Dealt' = {}
  BY <1>2, <1>3 DEF InHand, Dealt
<1>8. Working'
  BY <1>1, <1>2, <1>3, <1>5, <1>7 DEF Working
<1>9. \A t \in TaskIds : tasks'[t] # None => tasks[t] # None /\ tasks'[t].items \subseteq tasks[t].items
  BY <1>1 DEF LetsGo
<1>10. OneTask'
  <2>1. ASSUME NEW t \in TaskIds, NEW u \in TaskIds, t # u, tasks'[t] # None, tasks'[u] # None
        PROVE  tasks'[t].items \intersect tasks'[u].items = {}
    <3>1. tasks[t].items \intersect tasks[u].items = {}
      BY <1>9, <2>1 DEF IInv, OneTask
    <3> QED
      BY <1>9, <2>1, <3>1
  <2> QED
    BY <1>4, <2>1 DEF IInv, OneTask
<1>11. Unmade'
  BY <1>4, <1>9 DEF IInv, Unmade
<1>12. \A i \in Pending(tasks) : i \in InHand \/ i \in Pending(tasks')
  <2> SUFFICES ASSUME NEW i \in Pending(tasks), i \notin InHand PROVE i \in Pending(tasks')
    OBVIOUS
  <2>1. PICK t \in TaskIds : tasks[t] # None /\ i \in tasks[t].items
    BY InPending
  <2>2. t # job
    BY <1>1, <2>1
  <2> QED
    BY <2>1, <2>2, InPending DEF LetsGo
<1>13. Owed'
  <2>1. owed' \subseteq Pending(tasks') \union raced'
    BY <1>3, <1>12 DEF IInv, Owed, LetsGo
  <2>2. owed' \subseteq Pending(stored') \union raced'
    <3>1. CASE stored' = tasks'
      BY <2>1, <3>1
    <3>2. CASE stored' = stored
      BY <3>2 DEF IInv, Owed, LetsGo
    <3> QED
      BY <1>4, <3>1, <3>2
  <2> QED
    BY <1>7, <2>1, <2>2 DEF Owed
<1>14. \A i : Kept(i) => Kept(i)'
  BY DEF Kept, Downloaded, LetsGo
<1>15. HandedOver'
  <2>1. ASSUME NEW i, Kept(i) \/ i \in Pending(tasks) PROVE Kept(i)' \/ i \in Pending(tasks')
    BY <1>12, <1>14, <2>1 DEF LetsGo
  <2> QED
    BY <1>3, <1>7, <1>12, <2>1 DEF IInv, HandedOver, LetsGo
<1>16. Halves'
  BY DEF IInv, Halves, OwnHalf, OwnHalvesAreRedone, LetsGo
<1> QED
  BY <1>3, <1>6, <1>8, <1>10, <1>11, <1>13, <1>15, <1>16 DEF IInv

\* What the worker has dealt with goes from its task.
LEMMA ReplaceItemsInv == ASSUME IInv, ReplaceItems PROVE IInv'
<1> DEFINE kept == dropped \union stuck
           task == [items |-> kept, required |-> tasks[job].required \intersect kept]
<1>1. /\ share' = share /\ service' = service /\ disk' = disk /\ late' = late
      /\ discarding' = discarding /\ deferred' = deferred
      /\ owed' = owed /\ closed' = closed /\ raced' = raced
      /\ halves' = halves /\ uncleaned' = uncleaned
      /\ due' \in {due, due \ {job}} /\ pc[Worker] = "replace"
      /\ BackToIdle /\ Save
      /\ tasks' = [tasks EXCEPT ![job] = task]
  BY DEF ReplaceItems, Reschedule, outer, runner, history, At
<1>2. /\ job \in TaskIds /\ tasks[job] \in Tasks /\ tasks[job] # None
      /\ InHand = tasks[job].items /\ todo = {} /\ kept \subseteq InHand
      /\ tasks \in [TaskIds -> Tasks \union {None}]
  BY <1>1 DEF IInv, TypeOK, Working, InHand
<1>3. task \in Tasks /\ task.items = kept
  BY <1>2 DEF Tasks
<1> HIDE DEF task
<1>4. /\ tasks' \in [TaskIds -> Tasks \union {None}]
      /\ tasks'[job] = task /\ tasks'[job] # None
      /\ \A t \in TaskIds : t # job => tasks'[t] = tasks[t]
  BY <1>1, <1>2, <1>3, Names
<1>5. Dealt = InHand \ kept
  BY <1>1, <1>2 DEF Dealt
<1>6. \A i \in InHand : i \in Pending(tasks') \/ ((i \notin owed' \/ i \in raced) /\ Kept(i)')
  <2> SUFFICES ASSUME NEW i \in InHand PROVE i \in Pending(tasks') \/ ((i \notin owed' \/ i \in raced) /\ Kept(i)')
    OBVIOUS
  <2>1. CASE i \in kept
    BY <1>2, <1>3, <1>4, <2>1, InPending
  <2>2. CASE i \notin kept
    <3>1. (i \notin owed \/ i \in raced) /\ Kept(i)
      BY <1>5, <2>2 DEF IInv, Owed, HandedOver
    <3> QED
      BY <1>1, <3>1 DEF Kept, Downloaded
  <2> QED
    BY <2>1, <2>2
<1>7. LetsGo
  BY <1>1, <1>2, <1>3, <1>4, <1>6 DEF LetsGo, IInv, TypeOK
<1> QED
  BY <1>1, <1>7, LetsGoInv

LEMMA AgainInv == ASSUME IInv, Again PROVE IInv'
<1>1. /\ share' = share /\ service' = service /\ disk' = disk /\ late' = late
      /\ discarding' = discarding /\ deferred' = deferred
      /\ owed' = owed /\ closed' = closed /\ raced' = raced
      /\ halves' = halves /\ uncleaned' = uncleaned
      /\ due' \in {due, due \ {job}} /\ pc[Worker] = "again"
      /\ BackToIdle /\ Save /\ tasks' = tasks
  BY DEF Again, Reschedule, outer, runner, history, At
<1>2. InHand = tasks[job].items
  BY <1>1 DEF IInv, Working, InHand
<1>3. \A i \in InHand : i \in Pending(tasks')
  BY <1>1, HeldIsPending
<1>4. LetsGo
  BY <1>1, <1>2, <1>3 DEF LetsGo, IInv, TypeOK
<1> QED
  BY <1>1, <1>4, LetsGoInv

\* A task goes: its items are done, or given up.
LEMMA ForgetInv == ASSUME IInv, RemoveTask \/ FinishTask PROVE IInv'
<1>1. /\ share' = share /\ service' = service /\ disk' = disk /\ late' = late
      /\ discarding' = discarding /\ deferred' = deferred
      /\ raced' = raced
      /\ halves' = halves /\ uncleaned' = uncleaned
      /\ due' = due \ {job} /\ BackToIdle /\ Save
      /\ tasks' = [tasks EXCEPT ![job] = None]
      /\ \/ pc[Worker] = "remove" /\ owed' = owed /\ closed' = closed
         \/ /\ pc[Worker] = "finish" /\ owed' = owed \ tasks[job].items
            /\ closed' = closed \union tasks[job].items
  BY DEF RemoveTask, FinishTask, Forget, outer, runner, history, At
<1>2. /\ job \in TaskIds /\ tasks[job] \in Tasks /\ tasks[job] # None
      /\ InHand = tasks[job].items /\ InHand \subseteq Items
      /\ tasks \in [TaskIds -> Tasks \union {None}]
  BY <1>1 DEF IInv, TypeOK, Working, InHand, Tasks
<1>3. /\ tasks' \in [TaskIds -> Tasks \union {None}] /\ tasks'[job] = None
      /\ \A t \in TaskIds : t # job => tasks'[t] = tasks[t]
  BY <1>1, <1>2
<1>4. \A i \in InHand : (i \notin owed' \/ i \in raced) /\ Kept(i)'
  <2>1. CASE pc[Worker] = "remove" /\ owed' = owed /\ closed' = closed
    <3>1. Dealt = InHand
      BY <2>1 DEF IInv, Working, Dealt
    <3> QED
      BY <1>1, <2>1, <3>1 DEF IInv, Owed, HandedOver, Kept, Downloaded
  <2>2. CASE owed' = owed \ tasks[job].items /\ closed' = closed \union tasks[job].items
    BY <1>2, <2>2 DEF Kept
  <2> QED
    BY <1>1, <2>1, <2>2
<1>5. owed' \subseteq owed /\ closed \subseteq closed' /\ closed' \subseteq Items
  BY <1>1, <1>2 DEF IInv, TypeOK
<1>6. LetsGo
  BY <1>1, <1>2, <1>3, <1>4, <1>5 DEF LetsGo, IInv, TypeOK
<1> QED
  BY <1>1, <1>6, LetsGoInv
------------------------------------------------------------------------------
(* The whole.                                                              *)

LEMMA InitInv == Init => IInv
<1> SUFFICES ASSUME Init PROVE IInv
  OBVIOUS
<1>1. PICK s \in Scenarios :
        /\ budget = [k \in Bounded |-> s[k]]
        /\ pc = [u \in Users |-> IF u = Worker THEN "none"
                                 ELSE IF u \in s.runs THEN "off" ELSE "over"]
  BY DEF Init
<1>2. budget \in [Bounded -> Nat] /\ budget.made \in 0 .. MaxTasks
  <2>1. /\ s.made \in 0 .. MaxTasks /\ s.turns \in Nat /\ s.crashes \in Nat
        /\ s.unsaved \in Nat /\ s.refused \in Nat
    BY BoundAssumption
  <2>2. \A k \in Bounded : s[k] \in Nat
    BY <2>1, BoundAssumption DEF Bounded
  <2> QED
    BY <1>1, <2>1, <2>2 DEF Bounded
<1>3. /\ pc \in [Users -> WorkerPCs \union RunPCs] /\ pc[Worker] = "none"
      /\ \A r \in Runs : pc[r] \in {"off", "over"}
      /\ \A u \in Users : pc[u] # "fetch"
  BY <1>1, Names DEF WorkerPCs, RunPCs
<1>4. /\ share \in {"auditing", "normal"} /\ disk = [i \in Items |-> "none"]
      /\ tasks = [t \in TaskIds |-> None] /\ stored = [t \in TaskIds |-> None]
      /\ due = {} /\ late = {} /\ service = "down" /\ batch = None /\ open = None
      /\ want = [u \in Users |-> {}] /\ failed = [u \in Users |-> {}]
      /\ job = None /\ todo = {} /\ dropped = {} /\ stuck = {}
      /\ discarding = [r \in Runs |-> {}] /\ deferred = [r \in Runs |-> {}]
      /\ owed = {} /\ closed = {} /\ raced = {} /\ uncleaned = {} /\ halves = {}
  BY DEF Init
<1>5. TypeOK
  BY <1>2, <1>3, <1>4 DEF TypeOK
<1>6. OneTask /\ Unmade
  BY <1>4 DEF OneTask, Unmade
<1>7. Places
  BY <1>3, <1>4 DEF Places, WorkerPCs, RunPCs
<1>8. Batches
  BY <1>3, <1>4, Names DEF Batches, At
<1>9. InHand = {} /\ Dealt = {}
  BY <1>3, <1>4 DEF InHand, Dealt
<1>10. Working
  BY <1>3, <1>4, Names DEF Working
<1>11. Owed /\ HandedOver
  BY <1>4, <1>9 DEF Owed, HandedOver
<1>12. Halves
  BY <1>4, Names DEF Halves, OwnHalf, OwnHalvesAreRedone
<1> QED
  BY <1>5, <1>6, <1>7, <1>8, <1>10, <1>11, <1>12 DEF IInv

LEMMA DownloadInv == ASSUME IInv, NEW u \in Users, Download(u) PROVE IInv'
BY AcquireInv, CloseInv, EndBatchInv, MissInv, OpenInv DEF Download

LEMMA NextInv == IInv /\ [Next]_vars => IInv'
<1> SUFFICES ASSUME IInv, [Next]_vars PROVE IInv'
  OBVIOUS
<1>1. CASE Turn \/ (\E t \in TaskIds : RetryTime(t) \/ Deadline(t)) \/ UNCHANGED vars
  BY <1>1, ClockInv
<1>2. CASE Start \/ Stop \/ Crash
  BY <1>2, StartInv, StopInv, CrashInv
<1>3. ASSUME NEW t \in TaskIds, Take(t) PROVE IInv'
  BY <1>3, TakeInv
<1>4. ASSUME NEW r \in Runs, Run(r) \/ RunStep(r) PROVE IInv'
  <2>1. CASE Run(r) \/ Partition(r) \/ AskAgain(r) \/ Discarded(r)
    BY <2>1, RunInv
  <2>2. CASE Enqueue(r) \/ Protect(r) \/ HandOver(r)
    BY <2>2, EnqueueInv, ProtectInv, HandOverInv
  <2>3. CASE Download(r)
    BY <2>3, DownloadInv, Names
  <2>4. ASSUME NEW i \in Items, Discard(r, i) PROVE IInv'
    BY <2>4, DiscardInv
  <2> QED
    BY <1>4, <2>1, <2>2, <2>3, <2>4 DEF RunStep
<1>5. CASE WorkerStep
  <2>1. CASE Query \/ Plan \/ Settled \/ AskLatest
    BY <2>1, QueryInv, PlanInv, SettledInv, AskLatestInv
  <2>2. CASE ReplaceItems \/ Again \/ RemoveTask \/ FinishTask
    BY <2>2, ReplaceItemsInv, AgainInv, ForgetInv
  <2>3. CASE WorkerExit
    BY <2>3, StopInv
  <2>4. CASE Download(Worker)
    BY <2>4, DownloadInv, Names
  <2>5. ASSUME NEW i \in Items, Settle(i) PROVE IInv'
    BY <2>5, SettleInv
  <2> QED
    BY <1>5, <2>1, <2>2, <2>3, <2>4, <2>5 DEF WorkerStep
<1> QED
  BY <1>1, <1>2, <1>3, <1>4, <1>5 DEF Next

\* What the queue took waits in one task or is settled, what the worker dealt with is
\* done with, what a run handed over is kept, and a half file of the worker is open or
\* known to have failed: at every moment, whatever is saved, fails to be, or crashes.
THEOREM Invariance == Spec => []IInv
<1>1. Init => IInv
  BY InitInv
<1>2. IInv /\ [Next]_vars => IInv'
  BY NextInv
<1> QED
  BY <1>1, <1>2, PTL DEF Spec

\* The queue's variables have their types and no item waits in two tasks, in memory or
\* in the file.
THEOREM IsWellFormed == Spec => []WellFormed
<1>1. IInv => WellFormed
  BY DEF IInv, WellFormed
<1> QED
  BY <1>1, Invariance, PTL

\* What the queue took stays in its file until it is settled, and in memory while it
\* runs; a run that hands an item over while the worker has it is the only exception.
THEOREM ForgetsNothing == Spec => []NothingForgotten
<1>1. IInv => NothingForgotten
  BY DEF IInv, Owed, NothingForgotten
<1> QED
  BY <1>1, Invariance, PTL

\* Of what a run is told the queue has taken over, a file that is neither waiting, nor
\* there, nor handed on, is one the worker had when it was handed over.
THEOREM LosesOnlyRaced == Spec => []OnlyRacedAreLost
<1>1. IInv => OnlyRacedAreLost
  <2> SUFFICES ASSUME IInv, NEW r \in Runs, NEW i \in Deferred(r)
               PROVE  i \in Items /\ (Safe(i) \/ i \in raced)
    BY DEF OnlyRacedAreLost
  <2>1. i \in deferred[r]
    BY DEF Deferred
  <2> QED
    BY <2>1 DEF IInv, TypeOK, HandedOver, Kept, Safe
<1> QED
  BY <1>1, Invariance, PTL

\* What the worker failed to download itself it never takes for a whole file.
THEOREM RedoesItsHalves == Spec => []OwnHalvesAreRedone
<1>1. IInv => OwnHalvesAreRedone
  BY DEF IInv, Halves, OwnHalf
<1> QED
  BY <1>1, Invariance, PTL
=============================================================================
