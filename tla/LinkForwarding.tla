--------------------------- MODULE LinkForwarding ---------------------------
(***************************************************************************)
(* Links of cloud files: computed, sent to every target, and only then the *)
(* source deleted (ed2kfolderwatcher/__init__.py, with Telegram sending,   *)
(* merging of messages and deletion of cloud sources switched on).         *)
(*                                                                         *)
(* One worker thread takes files from _pending, hashes them under _lock    *)
(* and writes records.json; a file then waits in a batch until every file  *)
(* of its group has a result and the window of the group has passed.       *)
(* _flush_group sends the links of the group to one target after the other *)
(* with a save after each, deletes the sources and requeues what was not   *)
(* sent, all of it without _lock.  The poll of the life events and the     *)
(* scan queue files, the page's delete_source rewrites records.json under  *)
(* _lock, the cloud changes, and the process may be stopped or crash.      *)
(*                                                                         *)
(* A version stands for cloud_storage.fingerprint(); delays are left to    *)
(* the order of steps; every file has a series key, and a scan ends in the *)
(* step in which it began, so that a batch is sealed where it is made:     *)
(* none is left unsealed, and none ever expires.                           *)
(***************************************************************************)
EXTENDS Naturals, Sequences, FiniteSets, FiniteSetsExt, Functions, SequencesExt, TLC

CONSTANTS Files, Groups,
          TargetCount,      \* targets, in the order of _telegram_targets
          RetryLimit,       \* _retry_limit
          DeleteLimit,      \* 3: requests, and failed checks, per record
          MaxVersion, MaxTrouble, MaxFinds     \* bounds

ASSUME Parameters ==
    /\ IsFiniteSet(Files)
    /\ {TargetCount, DeleteLimit, MaxVersion} \subseteq Nat \ {0}
    /\ {RetryLimit, MaxTrouble, MaxFinds} \subseteq Nat

Targets == 1..TargetCount
Versions == 0..MaxVersion      \* 0: no such file, nothing queued, no context

VARIABLES
    group,      \* the series key of each file, from its name
    cloud,      \* the version of each file in the cloud
    records,    \* records.json
    mem,        \* _pending, _pending_batches, _batches, _retry_failures; and
                \* history, `late`: files handed over after their group was flushed
    worker,     \* the worker thread: where it is and what it has read
    page,       \* the thread of delete_source: its copy of the records
    stopping,   \* _stopping
    trouble,    \* faults so far, at most MaxTrouble
    finds,      \* polls and scans that found something, at most MaxFinds
    told,       \* history: messages sent
    unmarked,   \* history: those whose mark a fault kept from the disk
    asked,      \* history: files whose deletion was requested and not refused
    erased,     \* history: files whose record was undone or lost
    seen        \* history: files the current instance has queued

vars == <<group, cloud, records, mem, worker, page, stopping, trouble, finds,
          told, unmarked, asked, erased, seen>>
excuses == <<unmarked, erased>>
history == <<finds, told, asked, seen, excuses>>

NoRecord == [ver |-> 0, sent |-> {}, done |-> FALSE, state |-> "", asks |-> 0, checks |-> 0]
NoRetry == [ver |-> 0, attempts |-> 0]
Free == [pc |-> "idle", mode |-> "", batch |-> 0, group |-> "", items |-> <<>>,
         chunk |-> {}, target |-> 1, left |-> {}, file |-> {}, answer |-> "",
         copy |-> <<>>]
Away == [on |-> FALSE, excludes |-> FALSE, copy |-> <<>>]

Init ==
    /\ group \in [Files -> Groups]
    /\ cloud = [f \in Files |-> 1]
    /\ records = [f \in Files |-> NoRecord]
    /\ mem = [pending |-> [f \in Files |-> 0], home |-> [f \in Files |-> 0],
              batches |-> <<>>, retry |-> [f \in Files |-> NoRetry],
              late |-> {}]
    /\ worker = Free /\ page = Away
    /\ stopping = FALSE /\ trouble = 0 /\ finds = 0
    /\ told = {} /\ unmarked = {} /\ asked = {} /\ erased = {} /\ seen = {}

Trouble == trouble < MaxTrouble /\ trouble' = trouble + 1

\* What was saved for these files is undone: the excuses of what follows from it.
Undone(files) ==
    /\ erased' = erased \cup files /\ seen' = seen \ files
    /\ unmarked' = unmarked \cup {m \in told : m[1] \in files}
------------------------------------------------------------------------------
(* Batches: a sequence, oldest first, of what _new_batch makes.  `strays`  *)
(* is history: files the batch waits for that were queued under another.   *)

Ids(m) == {m.batches[i].id : i \in DOMAIN m.batches}
NewId(m) == Min((1 .. Len(m.batches) + 1) \ Ids(m))
Batch(m, id) == m.batches[CHOOSE i \in DOMAIN m.batches : m.batches[i].id = id]
Put(m, b) == [m EXCEPT !.batches =
    [i \in DOMAIN @ |-> IF @[i].id = b.id THEN b ELSE @[i]]]

GroupsOf(b) == {group[f] : f \in b.expected}
Expected(b, g) == {f \in b.expected : group[f] = g}

\* _new_batch
Open(m, id) == [m EXCEPT !.batches = Append(@,
    [id |-> id, expected |-> {}, results |-> {}, context |-> [f \in Files |-> 0],
     due |-> {}, flushing |-> {}, flushed |-> {}, strays |-> {}])]

\* The batch leaves _batches; the keys that name it then name nothing.
Drop(m, id) == [m EXCEPT
    !.batches = RemoveAt(@, CHOOSE i \in DOMAIN @ : @[i].id = id),
    !.home = [f \in Files |-> IF @[f] = id THEN 0 ELSE @[f]]]

\* _seal_batch, and the end of _flush_group: a batch with nothing left to flush goes.
Seal(m, id) ==
    IF id \in Ids(m) /\ GroupsOf(Batch(m, id)) \subseteq Batch(m, id).flushed
    THEN Drop(m, id) ELSE m

\* _merge_batch_for_group: the youngest other batch whose window is open.
Merged(m, id, g) ==
    LET open == {i \in DOMAIN m.batches :
                    LET b == m.batches[i] IN
                    /\ b.id # id /\ g \in GroupsOf(b)
                    /\ g \notin b.flushing \cup b.flushed \cup b.due}
    IN IF open = {} THEN id ELSE m.batches[Max(open)].id

\* _register_batch_item, and the entry of _pending_batches that follows it
Register(m, f, id) ==
    IF id \notin Ids(m) THEN [m EXCEPT !.home[f] = 0]
    ELSE LET b == Batch(m, Merged(m, id, group[f]))
         IN [Put(m, [b EXCEPT !.expected = @ \cup {f},
                              !.due = @ \ {group[f]},
                              !.flushed = @ \ {group[f]}]) EXCEPT !.home[f] = b.id]

\* _queue_cloud_file with a batch id: refused when the retries of this version
\* are used up, ignored when the file is queued already.
Enqueue(m, f, v, id) ==
    LET r == m.retry[f]
        kept == IF r.ver = v THEN m ELSE [m EXCEPT !.retry[f] = NoRetry]
    IN IF r.ver = v /\ r.attempts > RetryLimit THEN m
       ELSE IF m.pending[f] # 0 THEN kept
       ELSE [Register(kept, f, id) EXCEPT !.pending[f] = v, !.late = @ \ {f}]

\* An instance that stops queues nothing.
Queue(m, f, v, id) == IF stopping THEN m ELSE Enqueue(m, f, v, id)

\* _retry_failure
CountFailure(m, f, v) == [m EXCEPT !.retry[f] =
    [ver |-> v, attempts |-> (IF @.ver = v THEN @.attempts ELSE 0) + 1]]

\* A failure is counted, and the file queued again unless it is exhausted.
Failed(m, f, v, id) ==
    LET c == CountFailure(m, f, v)
    IN IF c.retry[f].attempts > RetryLimit THEN c ELSE Queue(c, f, v, id)

\* _clear_retry_failure
Cleared(m, f) == [m EXCEPT !.retry[f] = NoRetry]

\* Groups of the batch that may be flushed now.
Ready(b) == {g \in GroupsOf(b) :
    /\ g \in b.due /\ g \notin b.flushing \cup b.flushed
    /\ Expected(b, g) \subseteq b.results}
------------------------------------------------------------------------------
(* What the worker does next.                                              *)

All(r) == r.sent = Targets

\* _flush_group begins: the contexts of the group, and records.json as it is now.
Flushing(m, id, g, rs) ==
    LET c == Batch(m, id).context
        items == Restrict(c, {f \in Files : c[f] # 0 /\ group[f] = g /\ rs[f].ver # 0})
    IN [Free EXCEPT !.pc = IF \A f \in Files : group[f] = g => c[f] = 0
                           THEN "close" ELSE "send",
                    !.mode = "flush", !.batch = id, !.group = g, !.items = items,
                    !.chunk = {f \in DOMAIN items : ~rs[f].done}, !.copy = rs]

\* _maybe_flush_batch, and _flush_batch: every ready group is marked, one is begun.
Flush(m, id, rs) ==
    LET b == Batch(m, id)
        marked == Put(m, [b EXCEPT !.flushing = @ \cup Ready(b)])
    IN /\ mem' = marked
       /\ \E g \in Ready(b) : worker' = Flushing(marked, id, g, rs)

\* _mark_batch_item_result
Mark(m, f, id) ==
    LET b == Batch(m, id) IN Put(m, [b EXCEPT !.results = @ \cup {f}])

\* A file at hand was queued for another batch meanwhile.
Stray(m, f, id) ==
    IF id \in Ids(m) /\ m.home[f] # id
    THEN LET b == Batch(m, id) IN Put(m, [b EXCEPT !.strays = @ \cup {f}])
    ELSE m

\* The end of a file in _work: its result counts unless it is queued again,
\* and its batch is flushed if it was the last.
Finish(m, f, rs) ==
    LET id == worker.batch
        counts == id \in Ids(m) /\ m.pending[f] = 0
        n == IF counts THEN Mark(m, f, id) ELSE Stray(m, f, id)
    IN IF counts /\ Ready(Batch(n, id)) # {} THEN Flush(n, id, rs)
       ELSE mem' = n /\ worker' = Free

\* _maybe_delete_cloud_source: the guards on the record.
MayDelete(r) ==
    /\ r.done /\ r.state \in {"", "check_retry", "failed"}
    /\ r.asks < DeleteLimit /\ r.checks < DeleteLimit

\* The worker goes on to the deletions, with `rs` as its copy of the records.
Deleting(rs) ==
    [worker EXCEPT !.pc = "delete", !.copy = rs, !.chunk = {}, !.target = 1,
                   !.left = {f \in DOMAIN worker.items : MayDelete(rs[f])}]
------------------------------------------------------------------------------
(* The worker thread, outside a file.                                      *)

\* The aggregation window of a group passes.
Window ==
    /\ \E i \in DOMAIN mem.batches : \E g \in GroupsOf(mem.batches[i]) :
         LET b == mem.batches[i] IN
         /\ g \notin b.due \cup b.flushing \cup b.flushed
         /\ mem' = Put(mem, [b EXCEPT !.due = @ \cup {g}])
    /\ UNCHANGED <<group, cloud, records, worker, page, stopping, trouble, history>>

SomeReady == \E i \in DOMAIN mem.batches : Ready(mem.batches[i]) # {}

\* _work finds a batch with a group to flush.
FlushReady ==
    /\ worker = Free /\ ~stopping
    /\ \E i \in DOMAIN mem.batches :
         /\ Ready(mem.batches[i]) # {}
         /\ Flush(mem, mem.batches[i].id, records)
    /\ UNCHANGED <<group, cloud, records, page, stopping, trouble, history>>

\* The one file at hand, as it was queued.
Item(f, v) == [g \in {f} |-> v]

\* _work takes a file whose time has come; batches come first.
Take(f) ==
    /\ worker = Free /\ ~stopping /\ ~SomeReady
    /\ mem.pending[f] # 0
    /\ worker' = [Free EXCEPT !.pc = "look", !.mode = "file", !.batch = mem.home[f],
                              !.items = Item(f, mem.pending[f])]
    /\ mem' = [mem EXCEPT !.pending[f] = 0, !.home[f] = 0]
    /\ UNCHANGED <<group, cloud, records, page, stopping, trouble, history>>
------------------------------------------------------------------------------
(* The worker thread, at a file (_process_cloud_file).                     *)

At(f, v) == worker.mode = "file" /\ worker.items = Item(f, v)

Unchanged(f, v) == records[f].ver = v
Untouchable(f) == records[f].state \in {"deleted", "inflight", "uncertain"}

\* delete_source holds _lock, the one of this instance.
Locked == page.on /\ page.excludes

\* The result goes into the context of the batch; without the batch the links
\* of the group are sent at once, or, when nothing else of the group is recent,
\* the file waits and is tried again (_aggregate_candidates).
HandOver(f, v, rs) ==
    IF worker.batch \in Ids(mem)
    THEN LET b == Batch(mem, worker.batch)
             m == [Put(mem, [b EXCEPT !.context[f] = v]) EXCEPT
                     !.late = IF group[f] \in b.flushed THEN @ \cup {f} ELSE @]
         IN Finish(m, f, rs)
    ELSE /\ UNCHANGED mem
         /\ \E others \in SUBSET {e \in Files \ {f} :
                    group[e] = group[f] /\ rs[e].ver # 0 /\ ~rs[e].done} :
            \E late \in BOOLEAN :
              worker' = [worker EXCEPT !.pc = "send", !.copy = rs,
                            !.chunk = IF others = {} /\ ~late THEN {}
                                      ELSE {f} \cup others]

\* Nothing to do: the instance stops, or the source was, or may have been, deleted.
Skip(f, v) ==
    /\ worker.pc = "look" /\ At(f, v) /\ ~Locked
    /\ stopping \/ Untouchable(f)
    /\ Finish(mem, f, records)
    /\ UNCHANGED <<group, cloud, records, page, stopping, trouble, history>>

\* Computed and sent before: only the deletion is left.
SentBefore(f, v) ==
    /\ worker.pc = "look" /\ At(f, v) /\ ~Locked
    /\ ~stopping /\ ~Untouchable(f)
    /\ Unchanged(f, v) /\ records[f].done
    /\ mem' = Cleared(mem, f)
    /\ worker' = Deleting(records)
    /\ UNCHANGED <<group, cloud, records, page, stopping, trouble, history>>

Looks(f, v) ==
    /\ worker.pc = "look" /\ At(f, v) /\ ~Locked
    /\ ~stopping /\ ~Untouchable(f)
    /\ ~(Unchanged(f, v) /\ records[f].done)

\* The file is younger than _min_age: it is queued again, within its batch.
TooYoung(f, v) ==
    /\ worker.pc = "look" /\ At(f, v) /\ ~stopping /\ Trouble
    /\ Finish(Queue(mem, f, v, worker.batch), f, records)
    /\ UNCHANGED <<group, cloud, records, page, stopping, history>>

\* The file has changed since it was queued: so is what it is now.
Changed(f, v) ==
    /\ Looks(f, v) /\ cloud[f] \notin {0, v}
    /\ Finish(Queue(mem, f, cloud[f], worker.batch), f, records)
    /\ UNCHANGED <<group, cloud, records, page, stopping, trouble, history>>

\* The file is gone, or changes while it is read (_work_item's handler).
ReadFails(f, v) ==
    /\ \/ Looks(f, v) /\ cloud[f] = 0
       \/ worker.pc = "hash" /\ At(f, v) /\ cloud[f] # v
    /\ Finish(Failed(mem, f, v, worker.batch), f, records)
    /\ UNCHANGED <<group, cloud, records, page, stopping, trouble, history>>

\* The records, the file or its state cannot be read, or the record cannot be saved.
ReadBreaks(f, v) ==
    /\ At(f, v) /\ Trouble
    /\ worker.pc = "hash" \/ (worker.pc = "look" /\ ~Locked /\ ~stopping)
    /\ Finish(Failed(mem, f, v, worker.batch), f, records)
    /\ UNCHANGED <<group, cloud, records, page, stopping, history>>

\* The link is known already and only has to be sent.
KeepLink(f, v) ==
    /\ Looks(f, v) /\ cloud[f] = v /\ Unchanged(f, v)
    /\ HandOver(f, v, records)
    /\ UNCHANGED <<group, cloud, records, page, stopping, trouble, history>>

\* The records are read, and the long computation begins, under _lock.
StartHash(f, v) ==
    /\ Looks(f, v) /\ cloud[f] = v /\ ~Unchanged(f, v)
    /\ worker' = [worker EXCEPT !.pc = "hash", !.copy = records]
    /\ UNCHANGED <<group, cloud, records, mem, page, stopping, trouble, history>>

\* The file did not change meanwhile: its new record is written.  Without the
\* SHA1 or the account the record is "unproven" and its source stays.
Hashed(f, v) ==
    /\ worker.pc = "hash" /\ At(f, v) /\ cloud[f] = v /\ ~stopping
    /\ \E state \in {"", "unproven"} :
         /\ IF state = "" THEN UNCHANGED trouble ELSE Trouble
         /\ records' = [worker.copy EXCEPT ![f] =
                           [NoRecord EXCEPT !.ver = v, !.state = state]]
    /\ HandOver(f, v, records')
    /\ UNCHANGED <<group, cloud, page, stopping, history>>

HashStops(f, v) ==
    /\ worker.pc = "hash" /\ At(f, v) /\ stopping
    /\ Finish(mem, f, records)
    /\ UNCHANGED <<group, cloud, records, page, stopping, trouble, history>>
------------------------------------------------------------------------------
(* Sending (_notify_records).                                              *)

Unsent(t) == {f \in worker.chunk : t \notin worker.copy[f].sent}
TargetsLeft == {t \in worker.target..TargetCount : Unsent(t) # {}}
Message(t) == {<<f, worker.copy[f].ver, t>> : f \in Unsent(t)}

\* One message with the links the next target has not had yet.
Send ==
    /\ worker.pc = "send" /\ TargetsLeft # {} /\ ~stopping
    /\ worker' = [worker EXCEPT !.pc = "sent", !.target = Min(TargetsLeft)]
    /\ told' = told \cup Message(Min(TargetsLeft))
    /\ UNCHANGED <<group, cloud, records, mem, page, stopping, trouble, finds, asked, seen, excuses>>

\* It is refused, or no answer comes to a message that may have been delivered, or
\* the instance stops and sends nothing: the next target is tried.
SendFails ==
    /\ worker.pc = "send" /\ TargetsLeft # {}
    /\ IF stopping THEN UNCHANGED trouble ELSE Trouble
    /\ \E delivered \in {{}} \cup (IF stopping THEN {} ELSE {Message(Min(TargetsLeft))}) :
         told' = told \cup delivered /\ unmarked' = unmarked \cup delivered
    /\ worker' = [worker EXCEPT !.target = Min(TargetsLeft) + 1]
    /\ UNCHANGED <<group, cloud, records, mem, page, stopping, finds, asked, erased, seen>>

\* The mark of one link of the message, in the copy.
Marked(f) == [worker.copy EXCEPT ![f].sent = @ \cup {worker.target}]
AfterMark(f) ==
    IF Unsent(worker.target) = {f}
    THEN [worker EXCEPT !.pc = "send", !.target = @ + 1, !.copy = Marked(f)]
    ELSE [worker EXCEPT !.copy = Marked(f)]

\* Mutant: the marks are made in memory, and saved when all targets are done.
CheckpointLater(f) ==
    /\ worker.pc = "sent" /\ f \in Unsent(worker.target)
    /\ worker' = AfterMark(f)
    /\ UNCHANGED <<group, cloud, records, mem, page, stopping, trouble, history>>

\* After a message the links are marked one by one, with a save for each
\* (`checkpoint`).
Checkpoint(f) ==
    /\ worker.pc = "sent" /\ f \in Unsent(worker.target)
    /\ records' = Marked(f)
    /\ worker' = AfterMark(f)
    /\ UNCHANGED <<group, cloud, mem, page, stopping, trouble, history>>

\* Mutant: one target is enough.
ToldOne == [f \in Files |-> IF f \in worker.chunk
    THEN [worker.copy[f] EXCEPT !.done = worker.copy[f].sent # {}] ELSE worker.copy[f]]

\* telegram_sent of what was to be sent
Told == [f \in Files |-> IF f \in worker.chunk
    THEN [worker.copy[f] EXCEPT !.done = All(worker.copy[f])] ELSE worker.copy[f]]

\* Every target was tried and the records are saved.  A group goes on to its
\* deletions; a file by itself as well, unless it has to be tried again.
EndSend ==
    /\ worker.pc = "send" /\ TargetsLeft = {}
    /\ records' = Told
    /\ \/ /\ worker.mode = "flush"
          /\ worker' = Deleting(Told) /\ UNCHANGED mem
       \/ \E f \in Files, v \in Versions :
            /\ At(f, v)
            /\ IF Told[f].done
               THEN mem' = Cleared(mem, f) /\ worker' = Deleting(Told)
               ELSE Finish(Failed(mem, f, v, worker.batch), f, Told)
    /\ UNCHANGED <<group, cloud, page, stopping, trouble, history>>

\* At its beginning _flush_group could not read records.json, which then passes for
\* empty: no file of the group is eligible, nothing is sent, and the empty records
\* are saved over everything.
FlushBlind ==
    /\ worker.pc = "send" /\ worker.mode = "flush" /\ worker.target = 1 /\ Trouble
    /\ records' = [f \in Files |-> NoRecord]
    /\ worker' = [worker EXCEPT !.pc = "delete", !.items = <<>>, !.chunk = {}, !.left = {},
                                !.copy = [f \in Files |-> NoRecord]]
    /\ Undone({f \in Files : records[f] # NoRecord})
    /\ UNCHANGED <<group, cloud, mem, page, stopping, finds, told, asked>>
------------------------------------------------------------------------------
(* Deleting the source (_maybe_delete_cloud_source, CloudStorage).         *)

Turn(f) == worker.pc = "delete" /\ f \in worker.left
Then(f, rs) == [worker EXCEPT !.pc = "delete", !.left = @ \ {f}, !.file = {}, !.copy = rs]
State(f, state) == [worker.copy EXCEPT ![f].state = state]

\* _queue_cloud_file without a batch id: the batch at work, or a new one.
EnqueueAnew(m, f, v) ==
    IF m.pending[f] # 0 THEN Enqueue(m, f, v, 0)
    ELSE LET n == NewId(m) IN Seal(Enqueue(Open(m, n), f, v, n), n)

QueueAnew(m, f, v) == IF stopping THEN m ELSE EnqueueAnew(m, f, v)

QueueAgain(m, f) ==
    LET v == worker.items[f]
    IN IF worker.mode = "file" THEN Queue(m, f, v, worker.batch) ELSE QueueAnew(m, f, v)

\* The instance stops, or the time of the next try has not come.
PutOff(f) ==
    /\ Turn(f)
    /\ \/ stopping /\ UNCHANGED mem
       \/ /\ ~stopping /\ worker.copy[f].state \in {"check_retry", "failed"}
          /\ mem' = QueueAgain(mem, f)
    /\ worker' = Then(f, worker.copy)
    /\ UNCHANGED <<group, cloud, records, page, stopping, trouble, history>>

\* Mutant: the request is put on record only with its outcome.
PrepareQuietly(f) ==
    /\ Turn(f) /\ ~stopping /\ cloud[f] = worker.items[f]
    /\ worker' = [worker EXCEPT !.pc = "ask", !.file = {f},
                                !.copy = State(f, "inflight")]
    /\ UNCHANGED <<group, cloud, records, mem, page, stopping, trouble, history>>

\* prepare_delete finds account, path, identity and SHA1 as they were: the
\* request is put on record before it is made.
Prepare(f) ==
    /\ Turn(f) /\ ~stopping /\ cloud[f] = worker.items[f]
    /\ LET rs == [worker.copy EXCEPT ![f].state = "inflight", ![f].asks = @ + 1,
                                     ![f].checks = 0]
       IN /\ records' = rs
          /\ worker' = [worker EXCEPT !.pc = "ask", !.file = {f}, !.copy = rs]
    /\ UNCHANGED <<group, cloud, mem, page, stopping, trouble, history>>

\* Anything else than a network error keeps the source for good.
Block(f) ==
    /\ Turn(f) /\ ~stopping
    /\ IF cloud[f] # worker.items[f] THEN UNCHANGED trouble ELSE Trouble
    /\ records' = State(f, "blocked")
    /\ worker' = Then(f, State(f, "blocked"))
    /\ UNCHANGED <<group, cloud, mem, page, stopping, history>>

\* A network error: nothing was requested, the check is tried again later.
CheckFails(f) ==
    /\ Turn(f) /\ ~stopping /\ Trouble
    /\ LET rs == [worker.copy EXCEPT ![f].state = "check_retry", ![f].checks = @ + 1]
       IN /\ records' = rs /\ worker' = Then(f, rs)
          /\ IF rs[f].checks < DeleteLimit THEN mem' = QueueAgain(mem, f) ELSE UNCHANGED mem
    /\ UNCHANGED <<group, cloud, page, stopping, history>>

\* delete_prepared gives up before the request: stopped, or no longer there.
AskNothing(f) ==
    /\ worker.pc = "ask" /\ worker.file = {f}
    /\ stopping \/ cloud[f] = 0
    /\ worker' = [worker EXCEPT !.pc = "asked", !.answer = "uncertain"]
    /\ UNCHANGED <<group, cloud, records, mem, page, stopping, trouble, history>>

\* The request: done, refused, or its outcome unknown.
Ask(f) ==
    /\ worker.pc = "ask" /\ worker.file = {f} /\ ~stopping /\ cloud[f] # 0
    /\ \E answer \in {"deleted", "failed", "uncertain"} :
         /\ IF answer = "deleted" THEN UNCHANGED trouble ELSE Trouble
         /\ worker' = [worker EXCEPT !.pc = "asked", !.answer = answer]
         /\ asked' = IF answer = "failed" THEN asked ELSE asked \cup {f}
         /\ \/ answer # "failed" /\ cloud' = [cloud EXCEPT ![f] = 0]
            \/ answer # "deleted" /\ UNCHANGED cloud
    /\ UNCHANGED <<group, records, mem, page, stopping, finds, told, seen, excuses>>

\* The outcome is saved; a refused request is made again later, DeleteLimit
\* times in all.
Answer(f) ==
    /\ worker.pc = "asked" /\ worker.file = {f}
    /\ LET rs == State(f, worker.answer)
       IN /\ records' = rs
          /\ worker' = [Then(f, rs) EXCEPT !.answer = ""]
          /\ IF worker.answer = "failed" /\ rs[f].asks < DeleteLimit
             THEN mem' = QueueAgain(mem, f) ELSE UNCHANGED mem
    /\ UNCHANGED <<group, cloud, page, stopping, trouble, history>>

\* The deletion of a single file was the last step for it.
EndFile(f, v) ==
    /\ worker.pc = "delete" /\ worker.left = {} /\ At(f, v)
    /\ Finish(mem, f, records)
    /\ UNCHANGED <<group, cloud, records, page, stopping, trouble, history>>

\* Mutant: what was not sent is not queued again.
RetriedNever(m) == m

\* The end of _flush_group: what was not sent to every target goes into a new batch.
Retried(m) ==
    LET n == NewId(m)
        late == {f \in DOMAIN worker.items : ~worker.copy[f].done}
    IN IF late = {} THEN m
       ELSE Seal(FoldSet(LAMBDA f, q : Failed(q, f, worker.items[f], n), Open(m, n), late), n)

\* The group is flushed.  Nothing joins a group being flushed, so the second look
\* at group_expected finds no change.
EndGroup ==
    /\ \/ worker.pc = "close"
       \/ worker.pc = "delete" /\ worker.left = {} /\ worker.mode = "flush"
    /\ LET m == Retried(mem)
           b == Batch(m, worker.batch)
           n == Put(m, [b EXCEPT !.flushing = @ \ {worker.group},
                                 !.flushed = @ \cup {worker.group}])
           more == b.flushing \ {worker.group}
       IN /\ mem' = Seal(n, worker.batch)
          /\ \/ more = {} /\ worker' = Free
             \/ \E g \in more : worker' = Flushing(n, worker.batch, g, records)
    /\ UNCHANGED <<group, cloud, records, page, stopping, trouble, history>>
------------------------------------------------------------------------------
(* Faults and surroundings.                                                *)

\* Messages gone out whose mark is not on disk.
InGap == IF worker.pc = "sent" THEN Message(worker.target) ELSE {}

\* A save fails: the flush is left and its groups come again in 60 seconds; a
\* file by itself counts as failed.
SaveFails ==
    /\ \/ worker.pc \in {"sent", "asked"}
       \/ worker.pc = "send" /\ TargetsLeft = {}
       \/ worker.pc = "delete" /\ worker.left # {}
    /\ Trouble
    /\ unmarked' = unmarked \cup InGap
    /\ \/ /\ worker.mode = "flush"
          /\ mem' = LET b == Batch(mem, worker.batch)
                    IN Put(mem, [b EXCEPT !.due = @ \ b.flushing, !.flushing = {}])
          /\ worker' = Free
       \/ \E f \in Files, v \in Versions :
            At(f, v) /\ Finish(Failed(mem, f, v, worker.batch), f, records)
    /\ UNCHANGED <<group, cloud, records, page, stopping, finds, told, asked, erased, seen>>

\* A poll, or a scan, finds files and queues them in a batch of its own.
Discover(found) ==
    /\ ~stopping /\ \A f \in found : cloud[f] # 0
    /\ finds < MaxFinds /\ finds' = finds + 1
    /\ LET n == NewId(mem)
           m == FoldSet(LAMBDA f, q : Queue(q, f, cloud[f], n), Open(mem, n), found)
       IN mem' = Seal(m, n)
    /\ seen' = seen \cup found
    /\ UNCHANGED <<group, cloud, records, worker, page, stopping, trouble, told, asked, excuses>>

\* A file is touched or deleted by someone else, after something was found.
Change(f) ==
    /\ finds > 0 /\ cloud[f] # 0 /\ Trouble
    /\ \E v \in {0} \cup {cloud[f] + 1} :
         v <= MaxVersion /\ cloud' = [cloud EXCEPT ![f] = v]
    /\ seen' = seen \ {f}
    /\ UNCHANGED <<group, records, mem, worker, page, stopping, finds, told, asked, excuses>>

\* init_plugin: nothing is left in memory; failed checks are queued again, if the
\* records can be read (_restore_cloud_delete_checks).
Restored ==
    LET empty == [pending |-> [f \in Files |-> 0], home |-> [f \in Files |-> 0],
                  batches |-> <<>>, retry |-> mem.retry, late |-> {}]
        again == {f \in Files : records[f].state = "check_retry" /\
                    records[f].checks < DeleteLimit /\ records[f].asks < DeleteLimit}
    IN {empty, FoldSet(LAMBDA f, q : EnqueueAnew(q, f, records[f].ver), empty, again)}

\* stop_service, begun by a change of the settings.  With an idle worker a stop
\* leaves what a crash leaves, and is not modelled twice.
Stop ==
    /\ ~stopping /\ worker # Free /\ Trouble
    /\ stopping' = TRUE
    /\ UNCHANGED <<group, cloud, records, mem, worker, page, history>>

\* The worker has ended; a new instance starts, with a new _lock.
Restart ==
    /\ stopping /\ worker = Free
    /\ stopping' = FALSE
    /\ mem' \in Restored /\ seen' = {}
    /\ page' = [page EXCEPT !.excludes = FALSE]
    /\ UNCHANGED <<group, cloud, records, worker, trouble, finds, told, asked, excuses>>

\* The process dies and is started again.
Crash ==
    /\ Trouble /\ stopping' = FALSE
    /\ worker' = Free /\ page' = Away
    /\ mem' \in Restored /\ seen' = {} /\ unmarked' = unmarked \cup InGap
    /\ UNCHANGED <<group, cloud, records, finds, told, asked, erased>>

\* delete_source, for a record of a local file: it reads all records under
\* _lock and computes the link anew ...  (While the worker rests, it reads what it
\* would read when the next flush begins: only that is modelled.)
PageReads ==
    /\ ~page.on /\ Trouble
    /\ worker.mode = "flush"
    /\ page' = [on |-> TRUE, excludes |-> TRUE, copy |-> records]
    /\ UNCHANGED <<group, cloud, records, mem, worker, stopping, history>>

\* ... and writes them all back, before and after the source is removed.  What
\* the worker saved for other files in between, without _lock, is undone.
PageWrites ==
    /\ page.on
    /\ records' = page.copy /\ page' \in {page, Away}
    /\ Undone({f \in Files : records[f] # page.copy[f]})
    /\ UNCHANGED <<group, cloud, mem, worker, stopping, trouble, finds, told, asked>>
------------------------------------------------------------------------------
Next ==
    \/ Window \/ FlushReady \/ Send \/ SendFails \/ EndSend
    \/ FlushBlind \/ EndGroup \/ SaveFails \/ Stop \/ Restart \/ Crash
    \/ PageReads \/ PageWrites
    \/ \E f \in Files :
        \/ Take(f) \/ Checkpoint(f) \/ PutOff(f) \/ Prepare(f) \/ Block(f) \/ CheckFails(f)
        \/ AskNothing(f) \/ Ask(f) \/ Answer(f) \/ Change(f)
    \/ \E f \in Files, v \in Versions \ {0} :
        \/ Skip(f, v) \/ SentBefore(f, v) \/ TooYoung(f, v) \/ Changed(f, v)
        \/ ReadFails(f, v) \/ ReadBreaks(f, v) \/ KeepLink(f, v) \/ StartHash(f, v)
        \/ Hashed(f, v) \/ HashStops(f, v) \/ EndFile(f, v)
    \/ \E found \in (SUBSET Files) \ {{}} : Discover(found)

Spec == Init /\ [][Next]_vars
------------------------------------------------------------------------------
\* "不触发重复投递": a link goes to a target once, whatever fails, stops or
\* crashes; but for messages that no answer came to and for the window between a
\* message and its mark, which the README admits, and for records undone by
\* delete_source or by a flush that could not read them.
SentOnce == [][worker.pc = "send" /\ worker'.pc = "sent"
                 => told \cap Message(worker'.target) \subseteq unmarked]_vars

\* "不自动重删": a deletion that was done, or whose outcome is not known, is never
\* requested again, by no retry, batch or later instance; but for records undone by
\* delete_source or by a flush that could not read them.
DeleteOnce == [][\A f \in asked \ erased :
    worker.pc = "ask" /\ worker.file = {f} => worker'.pc # "asked"]_vars

\* "全部目标发送成功后才允许删源": when a deletion is requested, every target has had
\* the link of the version that was computed.
DeletedMeansTold == [][\A f \in Files : f \in asked' \ asked =>
    {<<f, worker.copy[f].ver, t>> : t \in Targets} \subseteq told]_vars

\* What keeps a group from being flushed will come to an end: it is queued for
\* this batch, or the worker has it in hand.  A stray never does: it was queued
\* for another batch while it was in hand for this one, by an event or a merge,
\* and the group stays behind with it.
WillFlush(b, g) ==
    /\ g \notin b.flushed
    /\ \A f \in Expected(b, g) \ (b.results \cup b.strays) :
        \/ mem.pending[f] # 0 /\ mem.home[f] = b.id
        \/ worker.mode = "file" /\ worker.batch = b.id /\ f \in DOMAIN worker.items

\* "单文件失败会转移到后续重试批次": a file this instance has queued is not lost
\* sight of: its link is sent, or it is gone, or its retries are used up, or it
\* is queued, in hand, or waits in a batch that will be flushed.  Three ways to be
\* forgotten are known: to wait with a stray; to be late, queued again for a batch
\* whose stale result let the group be flushed before; and to lose the record to
\* delete_source or to a flush that could not read it (it is then not `seen`).
OnlyStraysAreForgotten == ~stopping => \A f \in seen :
    \/ cloud[f] = 0 \/ records[f].done \/ mem.retry[f].attempts > RetryLimit
    \/ mem.pending[f] # 0 \/ f \in DOMAIN worker.items
    \/ f \in mem.late
    \/ \E i \in DOMAIN mem.batches :
         mem.batches[i].context[f] # 0 /\ WillFlush(mem.batches[i], group[f])
=============================================================================
