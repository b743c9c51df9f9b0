# TLA+ models of the MoviePilot V3 plugins

This directory holds a formal model of the parts of `plugins.v3/` whose
correctness depends on the order in which things happen: threads that share a
queue, work that survives a crash, events that are delivered twice or too late,
and two writers of one directory. It is meant to be read beside the code. Paths
below are relative to `src/plugins.v3/`; `p115` stands for `p115strmhelper`.

- [1. The system](#1-the-system)
- [2. The modules](#2-the-modules)
- [3. The runs](#3-the-runs)
- [4. The proofs](#4-the-proofs)
- [5. What was found](#5-what-was-found)
- [6. What is not modelled](#6-what-is-not-modelled)
- [7. Plan](#7-plan)

To check a run: `tlc -workers 2 -config MCWorkerQueue.cfg MCWorkerQueue.tla`;
to check the proofs of a module: `tlapm WorkerQueueProofs.tla`.

## 1. The system

The repository is a collection of eighteen plugins for MoviePilot, a media
library manager. One of them, `p115strmhelper`, is by far the largest (48,000
lines of Python); it keeps a local library of `.strm` files in step with a 115
cloud drive. The others are mostly periodic jobs over HTTP. `PROJECT.json` lists
every component; these are the ones that keep state worth a model.

| Component | State | Operations | Works with |
|---|---|---|---|
| Stoppable worker queue (`p115/core/worker_queue.py`) | `_queue`, `_worker_thread`, `_stopping`, `Queue.unfinished_tasks` | `start`, `_enqueue_task`, `stop`, the worker loop | subclasses for sync-deletion webhooks, directory upload and Emby media info; plugin start and stop |
| Batch coordinator (`p115/helper/transfer/batch.py`) | `_pending`, `_deadline`, `_worker`, `_closing`, one future per operation | `submit`, `shutdown`, `_run` | host worker threads that submit and block; the durable executor |
| Durable transfer steps (`p115/helper/transfer/durable.py`, `recovery.py`, `planning.py`; path locks in `p115/patch/transfer_chain.py`) | baseline snapshot and lease of each task, kept by the host | snapshot, materialise, rename, recover, shutdown | the cloud, the host's task store, the coordinator |
| Host workers (`p115/helper/transfer/workers.py`) | helper threads, retiring flags | `ensure`, the replaced `get`, `shutdown` | the host's transfer queue |
| Transfer postprocess (`p115/helper/strm/transfer/`) | plan and state of each event, owner of each library path (database); staged `.part` files; the library itself | `run`, `retry_postprocess` | the cloud; host event delivery; the sync jobs and the user as other writers |
| Share audit queue (`p115/helper/strm/share/audit_download_queue.py`) | `_tasks`, its JSON file, `next_retry_at` and `deadline_at` of each task | `partition_downloads`, `enqueue_failed_auditing_downloads`, worker, `start`, `stop` | share runs (`create.py`), `MediaInfoDownloader`, MoviePilot's transfer |
| Service lifecycle (`p115/service/__init__.py`) | running sync operations, pending full sync, schedulers | `init_service`, `stop`, `sync_operation`, full and incremental sync | all of the above |
| Life event monitor (`p115/helper/life/`, `p115/service/life/`) | cursor of the event stream, its process and guard | `once_pull`, start modes, stop | the cloud's event API, the database |
| Directory upload (`p115/helper/monitor/`) | pending files with signatures, in-flight locks, processed cache | file events, stability ticks, upload | its worker queue |
| Idle queues (`p115/helper/strm/share/create.py` 697-952, `p115/helper/share/`) | queue, worker that leaves after a minute | `enqueue`, worker, `stop` | interactive commands |
| Message merger (`messagemerge/`) | groups with a timer and a token | add, fire, `flush_all` | timers of the plugin process |
| Link forwarding (`ed2kfolderwatcher/__init__.py`) | queue of files, batches and their groups, `records.json` with what was sent and deleted | event, scan, retry, worker, `_flush_group`, `delete_source` | cloud, Telegram targets, a reload that hands over to a new instance |
| Confirmations and 115 jobs (`emetools/__init__.py`, `emetools/p115_tasks.py`) | tokens, their status and messages; waiting jobs, the running one, closed flag | preview, confirm and cancel on page and Telegram, `submit`, `run`, `close`, reload | manual and scheduled jobs, the message that shows the outcome |

What makes these hard, and what correctness means:

- **Concurrency.** Producers, workers and stoppers meet without a common lock at
  exactly one place in each queue (the join of the worker). Correct: nothing that
  was accepted is lost, one worker at a time, and a stop that says "stopped" is true.
- **Crashes.** Postprocess and audit tasks survive the process. Correct: whatever is
  found after a restart is accounted for, and nothing is done twice that must not be.
- **Redelivery and order.** The host delivers an event until it is acknowledged, in any
  order. Correct: the library ends up mirroring the cloud whichever order it was.
- **Stale decisions.** A lease, a fingerprint, a cloud listing or an audit state is read
  and used later. Correct: what is acted on is what was looked at, or the loss is
  confined to a window that can be named.
- **Limits.** Batch size, deadlines, retries, timeouts. Correct: work that does not fit
  is done later, not dropped, and everything comes to an end.

`PROJECT.json` lists the hazards one by one, each at its line, with the properties
that are about it or the module that is planned for it.

## 2. The modules

```
DrainBarrier  <--- implemented by ---  WorkerQueue      <- MCWorkerQueue,      WorkerQueueProofs
     ^-----------  implemented by ---  BatchCoordinator <- MCBatchCoordinator, TransferProofs
     ^-----------  implemented by ---  SyncService      <- MCSyncService,      ServiceProofs
LifeMonitor  <- MCLifeMonitor, LifeMonitorProofs
DurableTransfer      <- MCDurableTransfer,  DurableTransferProofs  (uses what BatchCoordinator promises)
TransferPostprocess  <- MCTransferPostprocess, TransferProofs
ShareAuditQueue      <- MCShareAuditQueue,  ShareAuditQueueProofs
DirectoryUpload      <- MCDirectoryUpload,  ServiceProofs          (uses what WorkerQueue promises)
LinkForwarding       <- MCLinkForwarding,   LinkForwardingProofs
ToolConfirmation     <- MCToolConfirmation, ToolConfirmationProofs
```

`TransferProofs` and `ServiceProofs` each extend two models; therefore the specifications of
`TransferPostprocess` and `DirectoryUpload` have names of their own (`PostSpec`, `UploadSpec`,
`postVars`, `uploadVars` and so on) where the others have `Init`, `Next`, `Spec` and `vars`.

Every definition that stands for code has its file and lines in `PROJECT.json`
(`map`). Definitions whose comment begins with "Mutant" are never part of a
specification: each is a plausible mistake in the code, and putting it in place of
the definition that follows it makes the property it belongs to fail. A `history`
variable records something for a property and influences no step.

### DrainBarrier - what a queue promises

Tasks are `accepted` and `settled`; the phase is `fresh`, `open`, `draining` or
`stopped`. `Close` forgets nothing, `ReportStopped` and a new `Open` need everything
accepted to be settled. `FairSpec` adds that every accepted task is settled. The
plugin is torn down on the word of `stop()` and `shutdown()`, so this is the contract
its callers rely on; no code corresponds to it.

### WorkerQueue - core/worker_queue.py and its three subclasses

One action is one `_lock` block. `stop()` is three of them (`StopRequest`,
`StopJoined`, `StopSettle`) and holds `_lifecycle_lock`, which is the variable
`lifecycle`; a join may time out at any time. `StopFromWorker` is a task that stops its
own queue. A `Queue` and the `Thread` made with it carry a generation number, so that a
worker may keep draining a queue the object no longer names (`mine` is the worker's
local `q`, read without the lock in `WorkerBegins`). `EnqueueLazily` is admission with
`lazy_start`, and has the outcomes of `Thread.start()`. The subclasses differ in `Lazy`
and in Emby's second flag `discoveryStop`. `MayDie` lets a task end its thread with
something that is not an `Exception`.

### BatchCoordinator - helper/transfer/batch.py

`Submit` is the locked block of `submit()` with its three outcomes (a worker runs, one
is started, `Thread.start()` raises and the operation stays queued); `Answered` is
`future.result()`. The worker's turn is `Retire` or `Take`, then `Validate` for each
operation, `ExecuteGroup` for each key, `AnswerOne` and `AnswerRest` as the executor
answers or leaves operations open, and `BatchEnds`. `LeaseLost` is the host taking a
task away, which the executor notices when it validates its group once more
(`durable.py` 169-181). A thread is named after the operation whose submit created it,
so that the number of threads needs no bound. Time is one flag: `due` says the deadline
of what is pending has passed. A `BaseException` in the executor, which would end the
worker with futures open, is not modelled.

### DurableTransfer - helper/transfer/durable.py

What the operations of the coordinator are for: a task of the host captures what is in the
destination folder, moves or copies its file there and renames it. `step`, `begun`,
`baseline` and `item` are the host's ledger and survive a crash; everything else of a task
is in memory. The handler enters (`Begin`: `operation()`), takes the locks of the paths it
may write (`Lock`), and runs each step: `Start` or `KeepName`, then the shared request of
`_execute_batch` (`Execute`, `Call`, `List`, one `Answer` per operation, or `BatchFails`),
then `Record`. A step that raised, or that a process which is gone had begun, is observed:
`Recover` takes the listing, `Conclude` compares it and looks for the source. The cloud may
carry out any part of a request, answer wrongly, or carry out the rest later (`Land`);
somebody may remove files (`Remove`). `Shutdown`, `CloseCoordinator`, `ReportStopped`,
`GiveUp` are `shutdown()`, `Reload` the new instance after it.

The coordinator appears here only through what `BatchCoordinator` promises of it: it answers
every operation, one batch at a time. Outside the repository, and modelled from
`p115/tests/integration/batch_transfer_contracts.py`: an exception makes the host observe
(503-511), applied is recorded (591-614), not applied is tried again later (467-501,
616-645), an observation that raises or does not know goes to manual review (513-526), a
task without its lease records nothing (1012-1029). The host's limit on retries is left out,
and so is a second process that takes a task while the first is still in a request.

### TransferPostprocess - helper/strm/transfer

An event is a file the host has organised in the cloud: it has a target path and perhaps
a path it was moved from. `run()` is modelled system call by system call: `Begin` freezes
or resumes the plan, `Size` settles a size that was rounded for display, `RequireCurrent`
is the check against the cloud before each kind of work, `Found` to `Published` is
`_write` with staging, the second look and `os.replace`, `Delete` to `Unlinked` is
`_delete`, then the effects and `Finish`. Each checkpoint is one database transaction
(`Checkpoint`, `CompleteFile`). `Fail` is an exception or the end of the process at any
point: memory is lost, the database, the library and the staged file stay.
`RetrySuperseded` is the administrator's retry.

The environment acts between any two steps: `Transfer` changes the cloud and emits an
event, `CloudRemove` and `CloudRestore` take a file away and bring it back, `OutsideWrite`
is the full or incremental sync or the user, who do not take `lock_libraries`. A file is
known by its fingerprint: who wrote it, and which of that writer's files it is. That the
host delivers an event again until `run()` returns normally is shown by
`p115/tests/test_v3_transfer_strm.py` 262-289.

### ShareAuditQueue - helper/strm/share/audit_download_queue.py

Files of a share that 115 still audits wait in tasks (`tasks`), whose JSON file is `stored`;
`Save` may fail (`Unsaved`), and which functions then roll back and which do not is as in the
code: `_enqueue_items` does, `_remove_task` and the reschedules do not. A run is `Partition`, then
either `Enqueue` or a download, then `AskAgain`, `Protect`, `Discard` (outside the lock of the
queue) and `HandOver`, the tail of `create.py` (585-635). The worker is `Take`, `Query`, `Plan`,
the download, `Settle` for each item, `AskLatest`, and one of `ReplaceItems`, `Again`,
`RemoveTask`, `FinishTask`. Runs and worker download one batch at a time (`Acquire`) into the same
paths (`Open`, `Close`); a file that is not whole is known by who wrote it. Files of at most 100
bytes are no files, as `_is_downloaded` has it. A file that is to be removed may stay (`Remove`,
`Discard`: `_remove_invalid_download` logs the `OSError` and goes on). `Start`, `Stop`,
`WorkerExit` and `Crash` are the lifecycle; a run is admitted by `sync_operation` only while the
service is up.

### SyncService - p115strmhelper/service/__init__.py

Every command, job and page call enters `sync_operation()`, which is counted by call in
`ops`; `Enter` is its outermost entry, `Reenter` an inner one. `AskFull` and `AskInc` are
the locked blocks that set `_full_sync_running` and `_increment_sync_running`, or leave the
note `_full_sync_pending`; `IncEnds` is the `finally` that takes the note, `RunNoted` what it
starts, also when the sync raised. `StartBackground` and `BackgroundEnds` are the
threads a call leaves behind, which `stop()` awaits too (`StopBegins`, `StopEnds`);
`StopFromCall` is a call that stops the service itself. `InitBegins` and `InitEnds` are the two
ends of `init_service`, which closes admission, refuses beside anyone registered, and opens
admission last. Any number of threads reconfigure at once, since no lock makes them wait for one
another; a `stop()` during whose run another thread opened admission is `overtaken`.

### LifeMonitor - helper/life/client.py, service/life/__init__.py

The account's `log` grows by what the user and the host do to files in the cloud. The thread pulls
everything behind its cursor (`Pull`), handles one event after the other (`Handle`) and moves the
cursor when the whole batch is through (`BatchEnds`); a handler that raises (`Raises`) drops the
batch. A handler writes the cache, the row and the STRM one after the other: `Halves` are what may
be left when it raises or the process is killed (`Crash`) between two of these, `Flaws` what may
be left when it swallows the error of a file and the event counts as handled (`HandleBadly`): a
removal whose row is gone and whose STRM stays (1515, 1562, 1626), a rename whose row has the new
path and whose STRM was not moved, or was and kept its text (1157, 1388). `torn` is history: the
files left so that handling the event again does not mend it (`Lost`). `Stops` alone saves the
cursor; after `Crash` a start goes by `options.mode`. `HandleCreate`, `HandleMove`, `HandleRename`
and `Remove` are the handlers with the classes of paths they tell apart (library, waiting for the
host, others). They look at the cloud, the rows and the library as these are when the event is
handled, not when it happened: `Late` says when that is too late.

### DirectoryUpload - helper/monitor/, and its start and stop in service/__init__.py

A file is reported by the watcher (`Put`), waits in the queue, is handed by the worker to
the tracker (`CheckDir`, `Check` send it there when it is not known to be stable), which looks
at what it has (`Look`, without the lock) and applies what it saw (`Compare`, with it), scans
new folders the same way (`List`, `Apply`), and gives stable files back to the queue (`Hand`;
`Restore` when the queue refuses). The worker looks once more, uploads, removes the source
and an empty folder, and records the file (`Check` ... `Clear`). Whether an upload succeeded is
not what `upload_file` answers but whether the cloud has a file of that name afterwards
(943-975): `Upload` has all four cases. A source or folder that cannot be deleted (`Unlink`, `Sweep`)
and a file that cannot be read (`Look`, `Check`, `Restore`) are failures too. `Stop`, `WatcherEnds`,
`StopTracker`, `StopQueue`, `Stopped` follow the order of `ServiceHelper.stop`. The program
that writes the files acts between any two of these.

### LinkForwarding - ed2kfolderwatcher/__init__.py

`Discover` queues files for a new sealed batch; `Take` is the worker taking a file, followed by
the outcomes of `_process_cloud_file` as one action each, from `Skip` to `Hashed`; `HandOver`
marks its result and makes ready groups flush. `Send`, `Checkpoint` and `EndSend` are the sending
part of `_flush_group`, a message per target and a mark per link; `PutOff`, `Prepare`, `Block`,
`Ask`, `Answer` the deletions; `EndGroup` requeues what was not sent, `Retried` merges it into the
batches. A message that is not answered may have been delivered (`SendFails`); a `records.json`
that cannot be read passes for empty and is saved so (`FlushBlind`). `PageReads` and `PageWrites`
are the two ends of `delete_source`. `SaveFails`, `Stop`, `Restart` and `Crash` act wherever the
code lets them.

### ToolConfirmation - emetools/__init__.py and p115_tasks.py

A token is in `_pending` and has a status; a click is a request with a program counter that
follows `action()` (the page) or the Telegram handlers, lock by lock: `Claim`, `BotLooks`,
`BotClaims`, `Cancel` with `Drop` (two locks) and `BotWithdraws` with `BotCancels` (the same
two in the other order). `Pick`, `HandOver` and `Reserve` find a coordinator, `Spawn` starts
its thread; the job of a request is a second program counter from `StartJob` to `EndJob`.
`Close`, `Stop`, `Reopen` and `Reset` are the reload: the new coordinator and the new tables
appear in two steps, and running jobs go on with the old one. `told` is what the user last
saw in the message; a status that is refused is not shown.

## 3. The runs

| Run | What it shows | Bounds |
|---|---|---|
| `wq` | Lazy starts, dying workers, failed thread starts, stops from outside and from within a task lose no task, leave one worker, and never report a stop that is none: the queue implements `DrainBarrier`. A worker that was asked to stop ends. | 3 tasks, 2 callers, 3 generations |
| `batch` | With lost leases, failed thread starts and a stop no operation is forgotten, executed twice, or executed after its submitter was answered; every submitter returns; a shutdown that reports True is a barrier. | 3 operations in 2 keys, batches of 2, 1 stopper |
| `durable` | Two copies nobody can tell apart and a move: what is done is in place, no copy is made twice, a human is asked only with a reason, every task ends, a shutdown waits for tasks between two steps. | 3 tasks, 3 files, 2 copies per task; 1 thing that goes wrong, 1 failed observation |
| `postprocess` | Records, staged files, owners and effects agree at every step; the library mirrors the cloud once every event has ended; files of others are lost in two named windows only; every event ends. | put, replace and move over 2 paths and 2 files; 1 failure, 1 outside write, removal and restoration at one path |
| `audit` | The queue keeps every item it took, in one task, until its end; files are lost only in the overlap `audit_deferred` shows; a half the worker made passes for whole only when it could not be removed; everything ends. | one run: 2 items, 1 task, 3 turns of the share, 1 refusal; or one run: 1 item, 1 half that cannot be removed; or two runs: 1 item, 2 tasks, 1 turn, with 1 crash or 1 failed save |
| `audit_deferred` | (violation) What a run was told the queue has taken over is always kept. | two runs, 1 item, 2 tasks, 1 turn, nothing fails |
| `sync` | Full and incremental sync exclude each other, a noted full sync runs, a stop that reports True and was not overtaken has waited for calls and their threads, admission implements `DrainBarrier` with its liveness. | 3 calls, 2 reconfiguring threads, nesting up to 3 |
| `life` | With the "remove" mode on, a monitor that has caught up, with nothing handled late, leaves a library that mirrors the cloud but for torn files; the cursor passes no event that was not handled. | 2 files, 2 library paths, 1 waiting, 1 other; 4 events, 2 of a raise, a swallowed error, a stop, a crash; two configurations |
| `life_stuck` | (violation) Every event comes to be handled. | 2 files, 2 library paths, 4 events, nothing goes wrong, mode "remove" off |
| `upload` | No file is forgotten, uploaded half or twice, or deleted un-uploaded, apart from named windows; uploads begin with stable files; every file ends. | 2 files of a new folder, 2 writes each, 2 looks; 1 failed upload (an older cloud file of the name or none), failed deletion, unreadable file, removal, expired record or stop |
| `links` | But for unanswered messages and records that were undone, no link goes twice to a target and no deletion is asked for twice; sources go only when all targets were told; a queued file is forgotten only in three named ways. | 2 files in 1 or 2 groups, 2 targets, 1 retry, 2 requests, 2 versions, 2 finds; 2 faults with one group, 1 with two |
| `tool` | An operation is begun once; the message ends with what was done but for two named races; what is called begun is answered but for a job that was cancelled or forgotten. | 1 token of each kind, 1 waiting job; 3 clicks; or 2 clicks and a reload or a thread that does not start; or 1 click, 2 scheduled tasks; or 1 click, 1 scheduled task, 1 reload |

Why these bounds are enough. A queue needs one task in the worker's hand, one waiting and
one that comes after the stop, a second caller to find the lifecycle lock taken, and a
second generation to confuse with the first; a third lets a restart happen twice. The
coordinator needs two operations that merge, one that does not, and a batch that does not
hold all three. `postprocess` has every pair of events that matters: two that write one
path, one that moves away what another wrote; `MaxFailures = 1` lets a run be broken off
at each of its steps while others overtake it, and the same event may also be rounded,
removed, restored and retried by the administrator. In the audit queue two runs are what
it takes to race with the worker, and two items what it takes to cut a task in two. In
`durable` the two copies hold common locks and the move can share their requests; the one
thing that goes wrong may be a request (refused, carried out with an error for an answer, or
late), an exception, a lease, a crash, a timeout or a removed file, at any moment. `sync` needs
an incremental sync with a noted full one and a third call that slips in between them, and a
second thread to overtake a stop. `life`
has every pair of events of two files, so that one may take the other's path, and two faults:
a crash in a replay after a crash, or an event that is broken off and meets an error when it is
handled again. `upload` writes a file once more at every moment of its way.
In `links` the two files share a group, where one can hold up the other, or do not, where they
share a batch. In `tool` a third click is a press that comes after two others raced (for the
cleanup, which has the most steps, two clicks with a reload; each kind has both clients).

Deadlock is checked where the system never stops (`wq`, `batch`: a start or a stop is always
possible). Elsewhere it may really stop: the events have ended, the queue is empty, the last
click is answered. Sets are declared symmetric only in runs without liveness (`life`, `links`).

Fairness, and why the code justifies it:

- `WorkerQueue`: a thread that can run does; a `stop()` that has begun goes on (its join
  has a timeout). Nobody has to call `start`, `stop` or `enqueue`. A worker may die in a task,
  after which nothing settles the rest: therefore `StopEndsWorker` is about the worker, and
  `ImplementsBarrier` is the safety part of the contract.
- `BatchCoordinator`: the clock runs, the worker runs, a resolved future wakes its submitter.
- `DurableTransfer`: the host takes up a task that has not ended, handlers and the batch
  worker go on. The cloud owes nothing; a task need not end while the plugin is closing or
  its source is gone.
- `TransferPostprocess`: the host redelivers, and a `run()` that has begun goes on. It is
  fairness of all events together; which one goes first is left open.
- `ShareAuditQueue`: threads go on, deadlines pass, a plugin that was stopped is
  initialised again. `Take` is strongly fair because the worker always takes the task
  whose `next_retry_at` is smallest, so that a task that is put off does not keep another
  from its turn. That is so only while refusals by MoviePilot are finite (`refused` of a scenario):
  an overdue task that is refused again and again stays the smallest and starves the rest.
- `SyncService`: a sync that runs ends, its call leaves, threads that were started end, and a
  waiting `stop()` returns once nobody is registered. Nobody has to call anything.
- `LifeMonitor` (`life_stuck`): the thread goes on (the guard starts it again), the host
  transfers what it has queued.
- `DirectoryUpload`: the watcher delivers, tracker and worker go on; nobody has to write a
  file, stop or start.
- `ToolConfirmation`: threads and requests go on and `init_plugin` ends. Every thread has
  finitely many steps, so one weak fairness for all is enough. Nobody has to click.
- `LinkForwarding` has no liveness: retries may be used up, and strays wait for ever.

## 4. The proofs

Eight modules prove for every value of the constants that satisfies the assumptions in the
modules what TLC checks on the instances above. They are named after the model they are about
(`WorkerQueueProofs` and so on), except `TransferProofs` (`BatchCoordinator` and
`TransferPostprocess`) and `ServiceProofs` (`SyncService` and `DirectoryUpload`). Each proof has the
same plan: an inductive invariant (`IInv`, `PostInv`, `UploadInv`), one lemma for each
action or group of actions that preserves it, the invariant as a theorem of the specification, and
the properties as its consequences; action properties follow from the invariant and one step.
Everything that can go wrong in a model (a crash, a failed save, a lost lease, a request that is
carried out late) is a step of the next-state relation, so that the theorems hold for any number
of such faults in any order.

**WorkerQueue.** The inductive invariant `IInv` has, beside the properties themselves, the
four facts the code relies on silently: `Generations` (the object names the newest queue or
none, and what it no longer names is empty and dead), `Counting` (`unfinished_tasks` is
what waits plus what is in hand), `Working` (a worker drains the queue it was made with; the
read without the lock is harmless because a queue is not replaced under a live worker)
and `Stoppers` (what a stopper captured is still current when it looks at it, because it
holds `_lifecycle_lock`). `SentinelLast` is needed to see that a worker that settles the
sentinel leaves an empty queue behind. `Invariance` has one step per action; from it follow
`TypeCorrect`, `TasksAreKept`, `WorkerIsCurrent`, `StopIsBarrier`, the action property
`ReopeningIsClean`, and `QueueImplementsBarrier`, which maps every step to a step of
`DrainBarrier` or to a stutter. Lemmas: what `Append` and `Tail` do to the range of a queue.

**BatchCoordinator.** `IInv` adds `Threads` (only the worker the object names, and only while
it works, has anything in hand), `Joining` (while somebody joins, no other worker is created:
the coordinator is closing, so `submit` refuses) and `Returning`. `OnePlace` is needed for
`AnswerIsFinal`: that the cloud is called only for submitters who still wait rests on an
operation in a group having no answer yet. `TypeCorrect`, `NobodyIsForgotten`,
`StopIsBarrier`, `CallsAreAwaited` and `CoordinatorImplementsBarrier` follow.

**SyncService.** `Nested` ties where a call is to how deep its entries are nested, so that an
inner `Leave` never removes the registration; `Flags` and `Noted` make the two flags and the
note say what runs; `Closed` keeps admission shut, with nobody left, after a reported stop.
`Stopping` is about the threads that reconfigure: while one is under way admission is closed, unless
another one has opened it since, which `overtaken` records. `SyncsExclude`, `NoteIsRead`,
`StopLeavesNothing` and `AdmissionImplementsBarrier` follow for any number of threads that
reconfigure at once. For the barrier, an `init_service` that found nobody left counts as open
already: it may open admission at any moment.

**DurableTransfer.** `IInv` has two parts. `General` holds whatever goes wrong: what is in the
folder was brought by a task of this host (`Folder`); a listing a handler looks at is one of the
folder as it was or still is (`Shown`); what a task has recorded is there, with its content, under
one of its two names, unless somebody removed it or it has a twin (`Claimed`); what was there when
the baseline was taken is nobody's copy (`Strangers`); how many copies a task has made is known
from its step unless a request came late or an observation was blind (`Copying`, `Moving`). From
it follow `IsOrderly` and `DoneMeansInPlace`. `Smooth` is what holds as long as nothing has gone
wrong: only with it can one say that a listing after the request shows exactly the entry of the
task, so that a step is never tried twice (`CopiesOnce`). It needs the locks: two tasks with a path
in common are never in requests together (`SmoothApart`). Three things the attempt to
prove these brought to light, and the model has now: a task whose file already has its final name
is told apart by the order of the tests in `recovery.py` (`ObservedRename`); tasks are twins also
when the target name of one is the source name of the other, so that `DoneIsInPlace` excuses both;
and nothing holds unless the host plans nothing else for a file that is to be moved
(`SourceAssumption`), which the host sees to, not the plugin.

**TransferPostprocess.** `PostInv` has five parts. `Sane`: a plan agrees with itself (`Coherent`:
nothing is cleaned before it was written, no effect noted before), the plan in memory is the one
in the store but for the effect that has just run (`Loaded`), and both agree with the place in
`run()` (`Placed`). This is what makes a crash harmless: whatever `Fail` throws away can be read
again. `Accounts`: files and owners in the library are on record, and what is about to be replaced
is not the event's own. `Effective`: an effect that is noted has run. `Careful`: in the two
windows (`Guarded`) the file about to go is the one the plan saw, or was written too late to be
seen. From these follow `PostRecordsAgree`, `PostEffectsFollowFile` and `PostLosesLateWritesOnly`.
`PostMirrorsCloud` needs `Faithful`, which says what is going to happen to every path (`Fate`):
the event that made the cloud what it is there is still to be handled (`Fresh`), or the library
already has what the cloud has (`Served`), or an open event is on its way to write it (`Coming`)
or to delete what is there (`Leaving`). `Checked` and `Held` are why an event that acts on an old
look at the cloud does no lasting harm: by the time the look is wrong a fresh event is out, which
will be handled after it. The attempt showed one part of the property to be false as it was first
stated. An event that is done need not leave its old path empty of what it moved away, when
another event that moved a file away from there was superseded together with its cleanup. It takes
four events to see (put, replace and move over two paths, and a move to a third).
`NothingLeftBehind` now says that a library file without one in the cloud is left only where an
event that moved a file away from there is open or superseded.

**DirectoryUpload.** `UploadInv` follows a content from its write to its end. `Aged`: no stamp
anybody has noted is newer than the last write, so that what is written next is unknown to
everybody. `Standing`, `Tick`, `Job`: what is in the hands of the two threads at each of their
steps; for one, nothing waits to be handed over while the tracker looks, and the file whose
record `Hand` has taken back is no longer noted as queued under that stamp. `Known` is the reason
behind the two tables of stamps: a content noted in `directory_upload_processed` has ended, and one
noted in `_queued` has ended, or is ready, in the queue or in the worker's hand. With it
every refused submission (`_submit_file_locked` returns because a table has the stamp) is one of a
file somebody still has, and `UploadNothingForgotten` goes through step by step. `Sent` says
where a content can be that was uploaded and has no other mark: noted as handled, or with the
worker that is about to note it; therefore no second upload begins with it unless its deletion
failed, and what `unlink` and the removal of the folder delete was sent, mistaken for an older
cloud file, or written too late (`UploadNothingWrong`). `Quiet`: a
count of unchanged looks never exceeds the looks since the last write, also while `_tick` holds
looks it has not applied; from it follows the action property `UploadsAreStable`. The
assumptions are that `DIRECTORY_STABLE_CHECKS` is positive and that `None` is no stamp and no record.

**ShareAuditQueue.** A file waits in one task only (`OneTask`), what the worker has dealt with is
not owed to anybody and is there or handed on (`Dealt`), what a run is about to discard still
waits or was raced for, and nobody downloads outside a batch. That the saved queue may lag behind
the one in memory, and by what, is part of it. `IsWellFormed`, `ForgetsNothing`,
`LosesOnlyRaced` and `RedoesItsHalves` follow: the overlap named in section 5 is the only way to
lose a file, for any number of files, runs, crashes, failed saves and halves that stay. A half of
the worker is at a path only while the worker has the file open or knows that it failed
(`Halves`), or could not be removed (`uncleaned`).

**LinkForwarding.** What `records.json` says was sent was sent, and what was told a target is
marked there but for the excused windows (`Sound`, `Remembered`); the copy of the records the
worker or the page has read is as good, with what it may lack named (`HasCopy`, `Untouchable`); a
deletion that was asked for is on record before it is asked (`OnRecord`). `SendsOnce`,
`DeletesOnce` and `DeletesWhatWasTold` follow, a flush that cannot read the records included
(`Undone` says what it takes away, as it does for `delete_source`). They need nothing of the queue
in memory: whichever file, group or batch is taken up in whichever order, a link does not go
twice. `ForgetsOnlyStrays` is about that queue, and needs a second invariant (`QInv`, which uses
the first): a batch and its id determine each other and what a batch flushes is in it (`Sane`), a
file a batch still expects is queued for it or in the worker's hand (`Members`), the worker holds
what its batch expects and nothing else (`Job`), every copy of the records says of a file that it
was deleted only if it was sent (`Honest`), and each file seen has a place from which it goes on:
queued, in hand, done, or waiting with a batch that will flush its group (`Fate`, `Listed`). The
operations of the queue are folds over sets of files. What such a fold leaves is not computed but
bounded: `FoldExists` gives the sequence of intermediate memories, and `FoldMoves` carries `Sane`
and `Onward` (what waited still waits, a batch expects nothing new but what has just been queued
for it) along it, one file at a time.

**ToolConfirmation.** A token is in `_pending` or held by one who claimed it, never both
(claims are unique although page and Telegram race); a job in the coordinator belongs to one token;
a status that is final is not said over, and a message with a result tells of a job that ended
so, but for `overruled` and `doubted`. `StateIsWellFormed`, `GoodOnce` and `MessageIsTrue` follow.

**LifeMonitor.** `Position` says that what precedes `next` in the batch is done and that the batch
begins right behind the cursor, `SavedBehind` that nothing lies forgotten behind the cursor that
was saved. `NothingIsForgotten` and `SavedCursorKeeps` follow for any number of files, paths,
events and faults. `LibraryMirrors` is about what the handlers do, under all twelve combinations
of options that have the "remove" mode (`life` checks two), and needs more than that. It rests on
a condition, `Hope`: what is not the last event of its file is done and behind the thread, and no
start has left out what was never done. A monitor that catches up in time has had hope in every
state before (`HopeHandle`, `HopeThread`, `HopeLogs`: no step brings it back, for which `Turn`
says what a batch, a saved cursor and a start can skip), so the library has to be right only while
it holds. Then every path has one row, and of a file that is not torn (`Kept`) the STRM is where
its row or the cloud has it (`Within`), and its last event, which is still to be handled or
handled again, finds what it needs to mend the rest (`Found`); `Faithful` says so of all files. A
row that is behind the cloud waits for an event that comes before that of whoever is at its path
now. From this order `ClearAtHome` shows that nobody else's STRM is in the way when an event is
handled in time, and `Tame` that what a handler writes, finished, broken off or with an error
swallowed, belongs to its file and nothing else; therefore the others stay kept (`KeptByTame`). Of
the file itself, a finished handler leaves it at `Home` (one lemma each), and a half of one leaves
it kept or torn (`HalfKept`), which is where `Lost` comes from: each of its three clauses is a
state from which the attempted proof found no way back.

The assumptions are the named ASSUMEs of the modules: names are distinct, sizes are
positive, functions have their domains, and what is said of each module above. TLC evaluates
them in every run. Four theorems
(`TasksAreKept`, `NobodyIsForgotten`, `NoteIsRead`, `SavedCursorKeeps`) state properties that
no run lists: they follow from invariants that runs check, or from the others here.

Only model-checked: the liveness properties (`SubmitterReturns`, `EventsEnd`, `TasksEnd`,
`EveryFileEnds`, `NotedFullRuns`, `EverythingEnds`, `EveryClaimIsAnswered`, `StopEndsWorker` and the
fairness of `DrainBarrier` in `ImplementsFairBarrier`), which need ENABLED and are beyond the
prover. Every invariant and every action property of a passing run is proved, and so is the safety
part of each of the three refinements. Two excuses are in reach of the proofs only, not of the
bounds of the runs: a deletion asked for again after `FlushBlind` (it takes three finds of a
file), and a rename that takes a torn file's STRM for its own (`Misled`).

## 5. What was found

Most of what the models say of the code is that it is right. Two statements of comments and
docstrings do not hold; each has a run whose counterexample shows how.

1. `audit_deferred`: the paths returned as "已转入等待队列" (`audit_download_queue.py` 259) may
   be neither waiting nor there. A run marks an item while the worker is settling it, then
   deletes the file after the lock was released. `OnlyRacedAreLost` shows that this overlap is
   the only way.
2. `life_stuck`: without the "remove" mode the row of a deleted file stays, and a later rename
   onto its path is refused by the database; the batch is pulled and raises again for ever.

Other departures are named in the properties that hold up to them:

- `OnlyLateWritesAreLost`: a writer without the lock can put a file between the second look and
  `os.replace`, or between the look and `unlink`; "操作只能作用于规划时的版本" (`plan.py` 49) fails
  there and nowhere else. `MirrorsCloud`: a file moved away and back while its first event is
  pending is published under the plan of the last, which is then superseded together with
  its cleanup, and the stale file stays.
- `OwnHalvesAreRedone`: a half of the worker itself is downloaded again, unless it could not be
  removed (`audit_download_queue.py` 706-711 swallow the `OSError`; 489 then takes it for the file);
  the half another run left passes for a file.
- `StoppedMeansIdle`, `ImplementsFairBarrier` (service): of two threads that reconfigure at once
  (two `save_config` calls, or one and a plugin reload), one may open admission while the other
  is in `stop()`, which then tears down, and may report True, beside new calls (`overtaken`).
- `DoneIsInPlace` (durable.py): of two tasks that bring files of the same size and SHA1 into one
  folder, and have the same name before or after the rename, one interrupted after its snapshot
  may take the other's file for its own.
- `NothingWrong`, `NothingForgotten` (directory upload): the result of `upload_file` is ignored
  (monitor 943), so that after a failed upload an older cloud file of the same name counts as the
  new one (945-975): the source is deleted or noted as handled, and its content never arrives
  (`mistaken`); a deletion that fails after the upload (1023, 1036) leads to a second upload; a
  file that cannot be read for a moment is given up, by `_restore_pending_after_enqueue_failure`
  and by the worker's last look. Further, a source written while it is uploaded is deleted
  un-uploaded (monitor 1023), and the removal of the folder takes a file made meanwhile
  (1027-1030); a scan that raises after files were judged stable loses them (656-666); a failed
  upload and an event that the queue refuses at a stop are not tried again, and nothing is scanned
  at a start; the tracker's look may be stale when it is applied (565).
- `OnlyStraysAreForgotten` (ed2k): a file found again while in the worker's hand leaves its old batch
  behind ("strays": sealed batches never expire), a stale result lets a group flush without
  a file that is queued again ("late"); and what is undone in the records (next) is forgotten
  with them. `SentOnce` excuses messages that no answer came to, which may have been delivered and
  are sent again (`user_account.py` 125, 139; the plugin's README 250), and the window between a
  message and its mark (README 275). Both it and `DeleteOnce` excuse records that are undone
  (`erased`): `delete_source` writes back what it read before the worker's saves, which do not take
  its lock (after a reload the lock is another one), and a flush that cannot read `records.json`
  takes it for empty, sends nothing, and saves that over everything (708-722).
- `OutcomeIsTrue` (emetools): the page's job ignores that its mark was refused (2453, 1648) and
  carries out a cleanup that was cancelled or failed a moment before (`overruled`); a late press
  in Telegram settles a running cleanup as failed, which is final (`doubted`).
  `EveryClaimIsAnswered`: a claimed operation whose job is cancelled by `close()` or whose thread
  does not start stays "in progress" for ever, and a reload forgets the tokens in work
  (`abandoned`). After a reload a running job of the old coordinator overlaps those of the new
  one.
- `Mirror` (life): an event is handled against the cloud as it is by then, so that paths that are
  reused within one batch leave an old STRM behind (`late`). And row and STRM of a file may be
  parted for good (`torn`): a removal deletes the row first (`client.py` 1515) and swallows every
  error of the STRM (1562, 1626-1627), a rename records the new path (1157) before it moves the
  STRM (1388), whose errors are logged (1349-1355, 1428-1434). When that fails, or the process
  ends in between, the replay finds no row and returns (1478-1482), or no STRM at the path of the
  row. Other files are not touched by it.

## 6. What is not modelled

`PROJECT.json` gives the reason for each component. In short: request handlers, clients
and caches with a time to live (no protocol between steps), periodic jobs of one thread,
data processing (tree comparison, path and title matching, Rust scanners), user interfaces,
build scripts. They are most of the repository's lines, and have no order of steps that a
model could explore. Within the modelled modules:

- `TransferPostprocess`: related files of the same stem, the removal of empty directories,
  several stores, sizes of storages other than 115, the timeout of the library lock.
- `ShareAuditQueue`: several shares, hand-made JSON, a file that cannot be read (it is
  replaced by an empty list, 734), an answer that changes inside one batch.
- `SyncService`: the order in which `init_service` and `stop` treat the other components (an
  `init_service` that reports False is ignored by `init_plugin`), the guard that may revive the
  life thread after a stop, `update_config` failing after a stop.
- `LifeMonitor`: a STRM that is half written (`open("w")` truncates it first), folders as such,
  related files, scraping, downloads, notifications; a start in mode
  "last" without a cursor skips what it has missed.
- `DirectoryUpload`: which files are candidates, several folders; a
  file to be copied without a destination, which is deleted without a copy.
- `LinkForwarding`: local files and their watcher, merging or Telegram switched off, files
  without a key, batches that are not sealed, output TXT, the reload loop.
- `ToolConfirmation`: confirmations of the media cleaner, failed edits of a message, the pruning
  of statuses after an hour, the per-section locks, rights in detail.
- Between modules: `workers.py` 96 (the replaced `get` of the host's queue) and `recovery.py`;
  half a file handed over at the end of a share run (`create.py` 632) is in
  `ShareAuditQueue` only as far as the queue sees it.

## 7. Plan

All that the runs say about safety is proved. What is left is to model more:

1. `IdleQueue` (`create.py` 697-952, `helper/share/__init__.py` 57-170): a worker that leaves
   after a minute of idleness against a caller that finds it alive. `enqueue` puts its task
   before `Thread.start()`, and a start that fails leaves it counted, so that `stop` waits in vain.
2. `PendingCleanup` (`cleaner.py` 26-226): batches of files to be removed, claimed, cancelled
   and appended by API calls that load and save the whole store without a lock.
3. `MessageMerge` (`messagemerge/`), the reload hand-over of `ed2kfolderwatcher` (425), the host
   workers and the claims of `recovery.py`.
