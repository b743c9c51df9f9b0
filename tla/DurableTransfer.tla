--------------------------- MODULE DurableTransfer ---------------------------
(***************************************************************************)
(* helper/transfer/durable.py: a file is organised in the cloud in three   *)
(* steps of one host task - capture what is in the destination folder,     *)
(* materialize the file there (move or copy), rename it.  The host keeps a *)
(* ledger of the steps: a step that raised, or was begun by a process that *)
(* is gone, is in doubt, and before it is repeated the handler observes    *)
(* the cloud.  What the host makes of an observation is taken from         *)
(* tests/integration/batch_transfer_contracts.py.  The steps of several    *)
(* tasks share one cloud request (BatchCoordinator).                       *)
(* While it works on a task the handler holds the locks of the paths it    *)
(* may write (patch/transfer_chain.py).                                    *)
(*                                                                         *)
(* One destination folder; each source file has a folder of its own.       *)
(***************************************************************************)
EXTENDS Naturals, FiniteSets

CONSTANTS
    Tasks,
    Files,          \* source files
    Names, Name,    \* what a source file is called
    Content,        \* its size and SHA1
    Source, Target, \* the file of a task, and the name it is to get
    Mode,           \* "move" or "copy"
    None,
    MaxCopies,      \* bound: copies the cloud makes for one task
    MaxBlind,       \* bound: tasks with an observation that failed
    MaxFailures     \* bound: what goes wrong - requests that failed or are carried out late,
                    \* exceptions, lost leases, crashes, timeouts, files somebody removed

ASSUME TaskAssumption ==
    /\ IsFiniteSet(Tasks) /\ IsFiniteSet(Files)
    /\ Name \in [Files -> Names]
    /\ Source \in [Tasks -> Files]
    /\ Target \in [Tasks -> Names]
    /\ Mode \in [Tasks -> {"move", "copy"}]
    /\ DOMAIN Content = Files
ASSUME SourceAssumption ==  \* the host plans nothing else for a file that is to be moved
    \A t, u \in Tasks : t # u /\ Mode[t] = "move" => Source[t] # Source[u]
ASSUME BoundAssumption ==   \* nothing is copied again unless something goes wrong
    MaxCopies \in Nat /\ MaxBlind \in Nat /\ MaxFailures \in Nat /\ MaxCopies > MaxFailures

Copies == Tasks \X (1 .. MaxCopies)
Ids == Files \union Copies              \* fileid
Items == [id : Ids, name : Names]       \* FileItem

ASSUME NameAssumption == None \notin Items /\ Files \intersect Copies = {}

VARIABLES
    cloud,      \* where each file is, and under which name
    step,       \* the ledger: the step each task is at
    begun,      \* the ledger: this step was begun
    baseline,   \* result of capture: known_ids
    item,       \* result of materialize
    pc,         \* where the handler of each task is
    owned,      \* the host holds the lease of the task
    doubt,      \* the host asks the handler to observe the step
    seen,       \* the listing of the folder an observation goes by
    answer,     \* the future of the submitted operation
    batch,      \* operations of the request in progress
    called,     \* "no", "called" or "listed": how far it is
    floating,   \* requests the cloud has answered and not carried out
    closing,    \* DurableBatchTransfer._closing
    closed,     \* the coordinator is closed
    stopper,    \* where shutdown() is
    reported,   \* it has returned True
    made,       \* history: copies made for each task
    late,       \* history: tasks with a request that floated
    removed,    \* history: files removed by somebody else
    blind,      \* history: tasks an observation of which failed
    failures

ledger == <<step, begun, baseline, item>>
handler == <<pc, owned, doubt, seen, answer>>
coordinator == <<batch, called>>
stop == <<closing, closed, stopper, reported>>
history == <<made, late, removed, blind>>
vars == <<cloud, step, begun, baseline, item, pc, owned, doubt, seen, answer, batch, called,
          floating, closing, closed, stopper, reported, made, late, removed, blind, failures>>

Steps == {"capture", "materialize", "rename", "done", "review"}
Ops == {"move", "copy", "rename"}
PCs == {"out", "entered", "running", "waiting", "batched", "answered", "observing"}

TypeOK ==
    /\ cloud \in [Ids -> [at : {"source", "target", "nowhere"}, name : Names]]
    /\ step \in [Tasks -> Steps] /\ begun \in [Tasks -> BOOLEAN]
    /\ baseline \in [Tasks -> SUBSET Ids] /\ item \in [Tasks -> Items \union {None}]
    /\ pc \in [Tasks -> PCs] /\ owned \in [Tasks -> BOOLEAN] /\ doubt \in [Tasks -> BOOLEAN]
    /\ seen \in [Tasks -> SUBSET Items] /\ answer \in [Tasks -> {"none", "ok", "error"}]
    /\ batch \subseteq Tasks /\ called \in {"no", "called", "listed"}
    /\ floating \subseteq [task : Tasks, op : Ops]
    /\ closing \in BOOLEAN /\ closed \in BOOLEAN /\ reported \in BOOLEAN
    /\ stopper \in {"off", "drain", "join"}
    /\ made \in [Tasks -> 0 .. MaxCopies]
    /\ late \subseteq Tasks /\ removed \subseteq Ids /\ blind \subseteq Tasks
    /\ failures \in 0 .. MaxFailures

Init ==
    /\ cloud = [i \in Ids |->
          IF i \in Files THEN [at |-> "source", name |-> Name[i]]
                         ELSE [at |-> "nowhere", name |-> Name[Source[i[1]]]]]
    /\ step = [t \in Tasks |-> "capture"] /\ begun = [t \in Tasks |-> FALSE]
    /\ baseline = [t \in Tasks |-> {}] /\ item = [t \in Tasks |-> None]
    /\ pc = [t \in Tasks |-> "out"] /\ owned = [t \in Tasks |-> FALSE]
    /\ doubt = [t \in Tasks |-> FALSE]
    /\ seen = [t \in Tasks |-> {}] /\ answer = [t \in Tasks |-> "none"]
    /\ batch = {} /\ called = "no" /\ floating = {}
    /\ closing = FALSE /\ closed = FALSE /\ stopper = "off" /\ reported = FALSE
    /\ made = [t \in Tasks |-> 0] /\ late = {} /\ removed = {} /\ blind = {} /\ failures = 0

------------------------------------------------------------------------------
Ended(t) == step[t] \in {"done", "review"}
Operation(t) == IF step[t] = "materialize" THEN Mode[t] ELSE step[t]
ContentOf(i) == IF i \in Files THEN Content[i] ELSE Content[Source[i[1]]]

\* list() of the destination folder.
Listing == {[id |-> i, name |-> cloud[i].name] : i \in {j \in Ids : cloud[j].at = "target"}}

\* A moved file keeps its id.  A copy is known by name, size and SHA1, among what was
\* not there when the folder was captured.
Matches(t) ==
    IF Mode[t] = "move"
    THEN {x \in seen[t] : x.id = Source[t]}
    ELSE {x \in seen[t] : /\ x.name = Name[Source[t]]
                          /\ x.id \notin baseline[t]
                          /\ ContentOf(x.id) = Content[Source[t]]}

\* _observe_materialize
ObservedMaterialize(t) ==
    CASE Cardinality(Matches(t)) = 1 -> "APPLIED"
      [] Cardinality(Matches(t)) > 1 -> "CONFLICT"
      [] OTHER -> IF cloud[Source[t]].at = "source" THEN "NOT_APPLIED" ELSE "UNKNOWN"

Renamed(t) == {x \in seen[t] : x.id = item[t].id}

\* Mutant: the file is there.
ObservedPresence(t) == IF Renamed(t) = {} THEN "UNKNOWN" ELSE "APPLIED"

\* _observe_rename
ObservedRename(t) ==
    LET Named(n) == \E x \in Renamed(t) : x.name = n IN
    IF Renamed(t) = {} THEN "UNKNOWN"
    ELSE IF Named(Target[t]) THEN "APPLIED"
    ELSE IF Named(item[t].name) THEN "NOT_APPLIED" ELSE "CONFLICT"

Observed(t) == IF step[t] = "rename" THEN ObservedRename(t) ELSE ObservedMaterialize(t)

Spend(n) == failures + n <= MaxFailures /\ failures' = failures + n

\* The handler lets go of its locks and of operation().
Leave(t) ==
    /\ pc' = [pc EXCEPT ![t] = "out"] /\ owned' = [owned EXCEPT ![t] = FALSE]
    /\ doubt' = [doubt EXCEPT ![t] = FALSE]
    /\ seen' = [seen EXCEPT ![t] = {}] /\ answer' = [answer EXCEPT ![t] = "none"]

GoOn(t, label) ==
    /\ pc' = [pc EXCEPT ![t] = label] /\ doubt' = [doubt EXCEPT ![t] = FALSE]
    /\ seen' = [seen EXCEPT ![t] = {}] /\ answer' = [answer EXCEPT ![t] = "none"]
    /\ UNCHANGED owned

\* The host puts the result of a step on record, and the next step follows.
Captured(t) ==
    /\ step[t] = "capture"
    /\ step' = [step EXCEPT ![t] = "materialize"]
    /\ begun' = [begun EXCEPT ![t] = FALSE]
    /\ baseline' = [baseline EXCEPT ![t] = {x.id : x \in seen[t]}]
    /\ GoOn(t, "running") /\ UNCHANGED item

Applied(t) ==
    /\ begun' = [begun EXCEPT ![t] = FALSE]
    /\ UNCHANGED baseline
    /\ \/ /\ step[t] = "materialize"
          /\ step' = [step EXCEPT ![t] = "rename"]
          /\ \E x \in Matches(t) : item' = [item EXCEPT ![t] = x]
          /\ GoOn(t, "running")
       \/ /\ step[t] = "rename"
          /\ step' = [step EXCEPT ![t] = "done"]
          /\ Leave(t) /\ UNCHANGED item

------------------------------------------------------------------------------
\* The host has the lease of a task and calls the handler; operation() counts it.
Begin(t) ==
    /\ pc[t] = "out" /\ ~Ended(t) /\ ~closing
    /\ pc' = [pc EXCEPT ![t] = "entered"] /\ owned' = [owned EXCEPT ![t] = TRUE]
    /\ UNCHANGED <<cloud, ledger, doubt, seen, answer, coordinator, floating, stop, history, failures>>

\* What a task may write: its target, the name it lands under, its source.
Keys(t) == {<<"target", Target[t]>>, <<"target", Name[Source[t]]>>, <<"source", Source[t]>>}
Holding == {t \in Tasks : pc[t] \notin {"out", "entered"}}

\* Mutant: only the target is locked.
LockTargets(t) ==
    /\ pc[t] = "entered"
    /\ \A u \in Holding : Target[u] # Target[t]
    /\ pc' = [pc EXCEPT ![t] = "running"]
    /\ UNCHANGED <<cloud, ledger, owned, doubt, seen, answer, coordinator, floating, stop, history, failures>>

\* _lock_paths
Lock(t) ==
    /\ pc[t] = "entered"
    /\ \A u \in Holding : Keys(u) \intersect Keys(t) = {}
    /\ pc' = [pc EXCEPT ![t] = "running"]
    /\ UNCHANGED <<cloud, ledger, owned, doubt, seen, answer, coordinator, floating, stop, history, failures>>

\* A file that already has its name is not renamed.
NameFits(t) == step[t] = "rename" /\ item[t].name = Target[t]

\* The step is begun in the ledger, and its operation submitted.
Start(t) ==
    /\ pc[t] = "running" /\ ~begun[t] /\ ~NameFits(t)
    /\ begun' = [begun EXCEPT ![t] = TRUE]
    /\ GoOn(t, "waiting")
    /\ UNCHANGED <<cloud, step, baseline, item, coordinator, floating, stop, history, failures>>

KeepName(t) ==
    /\ pc[t] = "running" /\ ~begun[t] /\ NameFits(t)
    /\ begun' = [begun EXCEPT ![t] = TRUE]
    /\ pc' = [pc EXCEPT ![t] = "answered"] /\ answer' = [answer EXCEPT ![t] = "ok"]
    /\ UNCHANGED <<cloud, step, baseline, item, owned, doubt, seen, coordinator, floating,
                   stop, history, failures>>

\* Mutant: a step in doubt is repeated as it is.
RecoverBlindly(t) ==
    /\ pc[t] = "running" /\ begun[t]
    /\ GoOn(t, "waiting")
    /\ UNCHANGED <<cloud, ledger, coordinator, floating, stop, history, failures>>

\* A step in doubt is observed; to observe a capture is to capture again.
Recover(t) ==
    /\ pc[t] = "running" /\ begun[t]
    /\ doubt' = [doubt EXCEPT ![t] = TRUE]
    /\ \/ /\ step[t] = "capture"
          /\ pc' = [pc EXCEPT ![t] = "waiting"] /\ UNCHANGED seen
       \/ /\ step[t] # "capture"
          /\ pc' = [pc EXCEPT ![t] = "observing"]
          /\ seen' = [seen EXCEPT ![t] = Listing]
    /\ UNCHANGED <<cloud, ledger, owned, answer, coordinator, floating, stop, history, failures>>

\* Somebody has to decide.
Review(t) ==
    /\ step' = [step EXCEPT ![t] = "review"]
    /\ Leave(t) /\ UNCHANGED <<begun, baseline, item>>

\* _observe_recovery, and what the host makes of it: the step is on record, or has
\* failed and will be tried again, or somebody has to look.
Conclude(t) ==
    /\ pc[t] = "observing" /\ owned[t]
    /\ \/ Observed(t) = "APPLIED" /\ Applied(t)
       \/ /\ Observed(t) = "NOT_APPLIED"
          /\ begun' = [begun EXCEPT ![t] = FALSE]
          /\ Leave(t) /\ UNCHANGED <<step, baseline, item>>
       \/ Observed(t) \in {"CONFLICT", "UNKNOWN"} /\ Review(t)
    /\ UNCHANGED <<cloud, coordinator, floating, stop, history, failures>>

------------------------------------------------------------------------------
\* _execute_batch: operations that can share a request, those without a lease left out.
Execute(T) ==
    /\ batch = {} /\ T # {}
    /\ \A t \in T : pc[t] = "waiting"
    /\ \A t, u \in T : Operation(t) = Operation(u)
    /\ batch' = {t \in T : owned[t]}
    /\ pc' = [t \in Tasks |-> IF t \notin T THEN pc[t]
                              ELSE IF owned[t] THEN "batched" ELSE "answered"]
    /\ answer' = [t \in Tasks |-> IF t \in T /\ ~owned[t] THEN "error" ELSE answer[t]]
    /\ UNCHANGED <<cloud, ledger, owned, doubt, seen, called, floating, stop, history, failures>>

\* The cloud carries out the operation op of the tasks in A, as far as it can.
NextCopy(t) == <<t, made[t] + 1>>
Copied(A) == {t \in A : cloud[Source[t]].at = "source" /\ made[t] < MaxCopies}

Carry(A, op) ==
    \/ /\ op = "move"
       /\ cloud' = [i \in Ids |->
             IF cloud[i].at = "source" /\ \E t \in A : Source[t] = i
             THEN [cloud[i] EXCEPT !.at = "target"] ELSE cloud[i]]
       /\ UNCHANGED made
    \/ /\ op = "copy"
       /\ cloud' = [i \in Ids |->
             IF \E t \in Copied(A) : i = NextCopy(t)
             THEN [cloud[i] EXCEPT !.at = "target"] ELSE cloud[i]]
       /\ made' = [t \in Tasks |-> IF t \in Copied(A) THEN made[t] + 1 ELSE made[t]]
    \/ /\ op = "rename"
       /\ cloud' = [i \in Ids |->
             IF \E t \in A : item[t].id = i
             THEN [cloud[i] EXCEPT !.name = Target[CHOOSE t \in A : item[t].id = i]]
             ELSE cloud[i]]
       /\ UNCHANGED made

\* _execute_operations sends the request.  Whatever the answer, an operation was
\* carried out, or not, or will be later.
Call ==
    /\ batch # {} /\ called = "no"
    /\ LET op == Operation(CHOOSE t \in batch : TRUE) IN
       \E F, U \in SUBSET batch :
          /\ F \intersect U = {} /\ (op = "capture" => F = {} /\ U = {})
          /\ Spend(Cardinality(F \union U))
          /\ late' = late \union F
          /\ floating' = floating \union {[task |-> t, op |-> op] : t \in F}
          /\ \/ op = "capture" /\ UNCHANGED <<cloud, made>>
             \/ Carry(batch \ (F \union U), op)
    /\ called' = "called"
    /\ UNCHANGED <<ledger, handler, batch, stop, removed, blind>>

\* One listing serves the whole batch.
List ==
    /\ batch # {} /\ called = "called"
    /\ seen' = [t \in Tasks |-> IF t \in batch THEN Listing ELSE seen[t]]
    /\ called' = "listed"
    /\ UNCHANGED <<cloud, ledger, pc, owned, doubt, answer, batch, floating, stop, history, failures>>

Confirmed(t) ==
    IF step[t] = "capture" THEN cloud[Source[t]].at = "source" ELSE Observed(t) = "APPLIED"

\* Each operation is confirmed by itself; what is not confirmed is an error.
Answer(t) ==
    /\ called = "listed" /\ t \in batch
    /\ answer' = [answer EXCEPT ![t] = IF Confirmed(t) THEN "ok" ELSE "error"]
    /\ pc' = [pc EXCEPT ![t] = "answered"]
    /\ batch' = batch \ {t}
    /\ called' = IF batch = {t} THEN "no" ELSE called
    /\ UNCHANGED <<cloud, ledger, owned, doubt, seen, floating, stop, history, failures>>

\* Mutant: nobody is told.
BatchFailsSilently ==
    /\ batch # {} /\ Spend(1)
    /\ batch' = {} /\ called' = "no"
    /\ UNCHANGED <<cloud, ledger, handler, floating, stop, history>>

\* An exception in the batch: who has no answer gets it.
BatchFails ==
    /\ batch # {} /\ Spend(1)
    /\ answer' = [t \in Tasks |-> IF t \in batch THEN "error" ELSE answer[t]]
    /\ pc' = [t \in Tasks |-> IF t \in batch THEN "answered" ELSE pc[t]]
    /\ batch' = {} /\ called' = "no"
    /\ UNCHANGED <<cloud, ledger, owned, doubt, seen, floating, stop, history>>

\* submit() returns or raises: a result is put on record, an exception leaves the step
\* in doubt; if it was the observation that raised, somebody has to look.
Record(t) ==
    /\ pc[t] = "answered" /\ owned[t]
    /\ \/ answer[t] = "ok" /\ (Captured(t) \/ Applied(t)) /\ UNCHANGED blind
       \/ answer[t] = "error" /\ ~doubt[t] /\ GoOn(t, "running") /\ UNCHANGED <<ledger, blind>>
       \/ answer[t] = "error" /\ doubt[t] /\ Review(t) /\ blind' = blind \union {t}
    /\ UNCHANGED <<cloud, coordinator, floating, stop, made, late, removed, failures>>

\* _observe_recovery raises.
ObservationFails(t) ==
    /\ pc[t] = "observing" /\ owned[t] /\ Cardinality(blind) < MaxBlind
    /\ Review(t) /\ blind' = blind \union {t}
    /\ UNCHANGED <<cloud, coordinator, floating, stop, made, late, removed, failures>>

\* Nothing is put on record for a task whose lease is lost.
Disown(t) ==
    /\ pc[t] \in {"answered", "observing"} /\ ~owned[t]
    /\ Leave(t)
    /\ UNCHANGED <<cloud, ledger, coordinator, floating, stop, history, failures>>

------------------------------------------------------------------------------
\* The cloud carries out a request late.
Land(f) ==
    /\ floating' = floating \ {f}
    /\ Carry({f.task}, f.op)
    /\ UNCHANGED <<ledger, handler, coordinator, stop, late, removed, blind, failures>>

\* Somebody removes a file from the cloud.
Remove(i) ==
    /\ cloud[i].at # "nowhere" /\ Spend(1)
    /\ cloud' = [cloud EXCEPT ![i].at = "nowhere"]
    /\ removed' = removed \union {i}
    /\ UNCHANGED <<ledger, handler, coordinator, floating, stop, made, late, blind>>

LeaseLost(t) ==
    /\ owned[t] /\ pc[t] \in {"waiting", "batched", "observing"} /\ Spend(1)
    /\ owned' = [owned EXCEPT ![t] = FALSE]
    /\ UNCHANGED <<cloud, ledger, pc, doubt, seen, answer, coordinator, floating, stop, history>>

\* What is in memory is gone; a new process, or a new instance of the plugin, begins.
Fresh ==
    /\ pc' = [t \in Tasks |-> "out"] /\ owned' = [t \in Tasks |-> FALSE]
    /\ doubt' = [t \in Tasks |-> FALSE]
    /\ seen' = [t \in Tasks |-> {}] /\ answer' = [t \in Tasks |-> "none"]
    /\ batch' = {} /\ called' = "no"
    /\ closing' = FALSE /\ closed' = FALSE /\ stopper' = "off" /\ reported' = FALSE
    /\ UNCHANGED <<cloud, ledger, floating, history>>

Crash == Spend(1) /\ Fresh

Reload == reported /\ Fresh /\ UNCHANGED failures

------------------------------------------------------------------------------
\* shutdown(): no task is let in any more, ...
Shutdown ==
    /\ stopper = "off" /\ ~reported
    /\ closing' = TRUE /\ stopper' = "drain"
    /\ UNCHANGED <<cloud, ledger, handler, coordinator, floating, closed, reported, history,
                   failures>>

\* ... those that are in come to their end, then the coordinator is closed, ...
CloseCoordinator ==
    /\ stopper = "drain"
    /\ \A t \in Tasks : pc[t] = "out"
    /\ closed' = TRUE /\ stopper' = "join"
    /\ UNCHANGED <<cloud, ledger, handler, coordinator, floating, closing, reported, history,
                   failures>>

\* ... and its worker ends.
ReportStopped ==
    /\ stopper = "join" /\ batch = {}
    /\ reported' = TRUE /\ stopper' = "off"
    /\ UNCHANGED <<cloud, ledger, handler, coordinator, floating, closing, closed, history,
                   failures>>

\* Each of them for a limited time.
GiveUp ==
    /\ stopper # "off" /\ Spend(1)
    /\ stopper' = "off"
    /\ UNCHANGED <<cloud, ledger, handler, coordinator, floating, closing, closed, reported,
                   history>>

------------------------------------------------------------------------------
Handle(t) ==
    Lock(t) \/ Start(t) \/ KeepName(t) \/ Recover(t) \/ Conclude(t) \/ Record(t)
    \/ Disown(t)

Batch == Call \/ List \/ (\E T \in SUBSET Tasks : Execute(T)) \/ \E t \in Tasks : Answer(t)

Next ==
    \/ \E t \in Tasks : Begin(t) \/ Handle(t) \/ LeaseLost(t) \/ ObservationFails(t)
    \/ Batch \/ BatchFails \/ Crash \/ Reload
    \/ \E f \in floating : Land(f)
    \/ \E i \in Ids : Remove(i)
    \/ Shutdown \/ CloseCoordinator \/ ReportStopped \/ GiveUp

Spec == Init /\ [][Next]_vars

\* The host takes a task up again until it has ended; threads run.  The cloud, the
\* user and the administrator owe nothing.
FairSpec ==
    /\ Spec /\ WF_vars(Batch)
    /\ \A t \in Tasks : WF_vars(Begin(t)) /\ WF_vars(Handle(t))
------------------------------------------------------------------------------
\* What u puts into the folder, under either of its names, t cannot tell from its copy.
Twins(t, u) ==
    /\ t # u /\ Mode[t] = "copy"
    /\ Name[Source[t]] \in {Name[Source[u]], Target[u]}
    /\ Content[Source[t]] = Content[Source[u]]

HasTwin(t) == \E u \in Tasks : Twins(t, u) \/ Twins(u, t)

\* A task has found the file i and believes it is its own.
Claims(u, i) == item[u] # None /\ item[u].id = i

\* "分别确认落地和重命名结果": a task that is done has a file with the content of its source
\* under its target name - however requests and handlers failed - unless somebody
\* removed it or a twin claims it too.
DoneIsInPlace ==
    \A t \in Tasks : step[t] = "done" =>
        LET i == item[t].id IN
        /\ ContentOf(i) = Content[Source[t]]
        /\ \/ cloud[i] = [at |-> "target", name |-> Target[t]]
           \/ i \in removed
           \/ \E u \in Tasks \ {t} : Claims(u, i)

\* No copy is repeated that was made, unless it came late, was removed, or was claimed
\* by a twin.
OneCopy ==
    \A t \in Tasks : made[t] > 1 =>
        \/ t \in late
        \/ \E n \in 1 .. MaxCopies :
              <<t, n>> \in removed \/ \E u \in Tasks \ {t} : Claims(u, <<t, n>>)

\* Failures of requests, lost leases and crashes alone never need a human: what is left
\* to review had an observation that failed, a late request, a removed file or, after a
\* failure, a twin.
ReviewIsJustified ==
    \A t \in Tasks : step[t] = "review" =>
        failures > 0 /\ (t \in blind \union late \/ removed # {} \/ HasTwin(t))

\* Whoever was let in by operation() finds the coordinator open until it has left; once
\* a shutdown has returned True, this process asks nothing more of the cloud.
ShutdownIsBarrier ==
    /\ closed => \A t \in Tasks : pc[t] = "out"
    /\ reported => closed /\ batch = {}

\* Nobody outlives the coordinator, and nobody is asked without a reason; with the types.
Orderly == TypeOK /\ ReviewIsJustified /\ ShutdownIsBarrier

\* Every task ends, unless the plugin is shut down or a source is removed.
TasksEnd == \A t \in Tasks : []<>(Ended(t) \/ closing \/ removed \intersect Files # {})
=============================================================================
