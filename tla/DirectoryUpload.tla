-------------------------- MODULE DirectoryUpload --------------------------
(***************************************************************************)
(* Directory upload of p115strmhelper: the watcher of a monitored folder   *)
(* (service/__init__.py, start_directory_upload), the stability tracker    *)
(* and the upload worker (helper/monitor).                                 *)
(*                                                                         *)
(* The watcher reports what was added.  The worker hands a reported file   *)
(* to the tracker, which looks at it every two seconds and gives it back,  *)
(* as stable, after StableChecks looks that found it unchanged; a reported *)
(* folder is scanned until it is stable, because the watcher may miss what *)
(* is created in it before it takes the folder over.  The worker looks     *)
(* once more, uploads (or copies), and may delete the source.              *)
(*                                                                         *)
(* Tracker, worker, watcher, the programs that write the files, and stop   *)
(* and start of the service run concurrently.  One subfolder of the        *)
(* monitored folder is modelled; the signature of a file is a stamp that   *)
(* every write renews.  The queue is what WorkerQueue promises: it accepts *)
(* until it is closed, and a stop drains it.                               *)
(***************************************************************************)
EXTENDS Naturals, Sequences, FiniteSets

CONSTANTS Files, Dir,   \* files of the subfolder, and the subfolder
          None,
          StableChecks, \* DIRECTORY_STABLE_CHECKS
          MaxWrites,    \* bound: how often a file is created or written
          MaxTrouble    \* bound: failures, removals, expired records, stops of the service

ASSUME BoundsAreCounts ==
    /\ StableChecks \in Nat \ {0} /\ MaxWrites \in Nat /\ MaxTrouble \in Nat
    /\ Dir \notin Files /\ None \notin Files

VARIABLES
    disk,       \* the stamp of each file, 0 when there is none
    dir,        \* the subfolder: "none", "new" or "watched" by the recursive watcher
    events,     \* what the watcher has seen added and not yet put into the queue
    watching,   \* the watcher runs
    service,    \* "up", "stopping" or "down"
    admits,     \* directory_upload_queue is open
    deletes,    \* the option "delete" of the monitored folder
    queue,      \* directory_upload_queue: [path, sig], sig 0 for a reported path
    pending,    \* _pending: [sig, count] of the files that are looked at
    scan,       \* _pending_directories of the subfolder: [seen, count, found]
    queued,     \* _queued: the stamp under which a file was given to the queue
    processed,  \* directory_upload_processed
    tracking,   \* the tracker's thread: "run", "stop" (it was asked to) or "off"
    tick,       \* where _tick() is
    looked,     \* what _tick() saw of each file, None where it did not look
    failed,     \* the scan could not read everything
    ready,      \* stable files _tick() still has to put into the queue
    worker,     \* where the worker is, and its task
    written, trouble,           \* counters of the bounds
    quiet,      \* history: looks of the tracker since the file was written, capped
    marks,      \* history: what has become of the present content of each file
    wrong       \* history: what must never happen to a content

tree == <<disk, dir, written, quiet>>
watcher == <<events, watching>>
lifecycle == <<service, admits, deletes>>
tracker == <<pending, scan, queued>>
ticking == <<tracking, tick, looked, failed, ready>>
history == <<marks, wrong>>
uploadVars == <<tree, watcher, lifecycle, queue, tracker, processed, ticking, worker,
                trouble, history>>

Stamps == 1 .. MaxWrites
Sigs == 0 .. MaxWrites
Paths == Files \union {Dir}
Listings == [Files -> Sigs]
Tasks == [path : Paths, sig : Sigs]
Pendings == [sig : Stamps, count : 0 .. StableChecks]
Scans == [seen : Listings \union {None}, count : 0 .. StableChecks, found : BOOLEAN]
Jobs == [at : {"idle", "check", "upload", "unlink", "empty", "sweep", "mark", "clear"},
         path : Paths, sig : Sigs]
Idle == [at |-> "idle", path |-> Dir, sig |-> 0]

\* Absent is told from everything that can be there.
ASSUME AbsentAssumption == None \notin Nat \union Listings \union Pendings \union Scans

\* A content was uploaded; an older file in the cloud passed for it, whose own upload had
\* failed; it may be uploaded again (a failed upload or deletion, an expired record);
\* nobody was going to look when it was written; it was given up (not reported, refused,
\* failed, unreadable).
Marks == {"sent", "mistaken", "forgiven", "raced", "lapsed"}

FolderOK ==
    /\ disk \in Listings /\ dir \in {"none", "new", "watched"}
    /\ written \in 0 .. MaxWrites /\ quiet \in [Files -> 0 .. StableChecks]

ServiceOK ==
    /\ events \subseteq Paths /\ watching \in BOOLEAN
    /\ service \in {"up", "stopping", "down"} /\ admits \in BOOLEAN /\ deletes \in BOOLEAN
    /\ tracking \in {"run", "stop", "off"} /\ trouble \in 0 .. MaxTrouble

QueueOK == queue \in Seq(Tasks) /\ worker \in Jobs

TrackerOK ==
    /\ pending \in [Files -> Pendings \union {None}] /\ scan \in Scans \union {None}
    /\ queued \in Listings /\ processed \in Listings

TickOK ==
    /\ tick \in {"idle", "compare", "list", "apply", "hand", "restore"}
    /\ looked \in [Files -> Sigs \union {None}] /\ failed \in BOOLEAN
    /\ ready \subseteq Files \X Stamps

HistoryOK ==
    /\ marks \in [Files -> SUBSET Marks] /\ wrong \subseteq {"lost", "uploaded twice"}

UploadTypeOK == FolderOK /\ ServiceOK /\ QueueOK /\ TrackerOK /\ TickOK /\ HistoryOK

Nothing == [f \in Files |-> 0]
Unseen == [f \in Files |-> None]

UploadInit ==
    /\ disk = Nothing /\ dir = "none" /\ events = {} /\ watching = TRUE
    /\ service = "up" /\ admits = TRUE /\ deletes \in BOOLEAN
    /\ queue = <<>> /\ pending = [f \in Files |-> None] /\ scan = None
    /\ queued = Nothing /\ processed = Nothing
    /\ tracking = "run" /\ tick = "idle" /\ looked = Unseen /\ failed = FALSE /\ ready = {}
    /\ worker = Idle
    /\ written = 0 /\ trouble = 0 /\ quiet = Nothing
    /\ marks = [f \in Files |-> {}] /\ wrong = {}

\* Something goes wrong, or somebody interferes.
Trouble == trouble < MaxTrouble /\ trouble' = trouble + 1

Listing == {f \in Files : disk[f] # 0}

\* Files that are there are given up.
GivesUp(some) ==
    marks' = [f \in Files |-> IF f \in some \intersect Listing
                             THEN marks[f] \union {"lapsed"} ELSE marks[f]]

\* The worker deletes files.
Loses(some) ==
    /\ disk' = [f \in Files |-> IF f \in some THEN 0 ELSE disk[f]]
    /\ marks' = [f \in Files |-> IF f \in some THEN {} ELSE marks[f]]
    /\ wrong' = IF \E f \in some \intersect Listing :
                          marks[f] \intersect {"sent", "mistaken", "raced"} = {}
                THEN wrong \union {"lost"} ELSE wrong

\* Somebody is going to look at f, and will see what is written to it now.
Awaited(f) ==
    \/ {f, Dir} \intersect events # {}
    \/ \E i \in DOMAIN queue : queue[i].path \in {f, Dir}
    \/ worker.at = "check" /\ worker.path \in {f, Dir}
    \/ pending[f] # None
    \/ \E s \in Stamps : <<f, s>> \in ready
    \/ scan # None /\ (tick = "apply" => failed)

\* The worker has looked at f for the last time, or is about to sweep the folder.
InHand(f) ==
    \/ worker.at = "sweep"
    \/ worker.path = f /\ worker.at \in {"upload", "unlink"}
------------------------------------------------------------------------------
(* The programs that write the folder, and the watcher.                    *)

\* A folder is made: the watcher reports it, and takes it over a moment later.
MakeDir ==
    /\ dir = "none" /\ written < MaxWrites
    /\ dir' = "new"
    /\ events' = IF watching THEN events \union {Dir} ELSE events
    /\ UNCHANGED <<disk, written, quiet, watching, lifecycle, queue, tracker, processed,
                   ticking, worker, trouble, history>>

TakeOver ==
    /\ dir = "new" /\ watching
    /\ dir' = "watched"
    /\ UNCHANGED <<disk, written, quiet, watcher, lifecycle, queue, tracker, processed,
                   ticking, worker, trouble, history>>

\* A file is created or written.  Only additions are reported, and those in a folder
\* that was taken over: what is written into a file that was uploaded, or while nobody
\* is going to look, is not noticed.
Write(f) ==
    /\ dir # "none" /\ written < MaxWrites
    /\ written' = written + 1
    /\ disk' = [disk EXCEPT ![f] = written + 1]
    /\ quiet' = [quiet EXCEPT ![f] = 0]
    /\ LET reported == disk[f] = 0 /\ dir = "watched" /\ watching IN
          /\ events' = IF reported THEN events \union {f} ELSE events
          /\ marks' = [marks EXCEPT ![f] =
                IF \/ InHand(f) \/ "sent" \in marks[f]
                   \/ ~reported /\ ~Awaited(f)
                THEN {"raced"} ELSE {}]
    /\ UNCHANGED <<dir, watching, lifecycle, queue, tracker, processed, ticking, worker,
                   trouble, wrong>>

\* A file is removed or moved away by somebody else.
Remove(f) ==
    /\ disk[f] # 0 /\ Trouble
    /\ disk' = [disk EXCEPT ![f] = 0] /\ marks' = [marks EXCEPT ![f] = {}]
    /\ UNCHANGED <<dir, written, quiet, watcher, lifecycle, queue, tracker, processed,
                   ticking, worker, wrong>>

\* The watcher puts what it saw into the queue; nobody looks whether it was accepted.
Put(p) ==
    /\ p \in events
    /\ events' = events \ {p}
    /\ queue' = IF admits THEN Append(queue, [path |-> p, sig |-> 0]) ELSE queue
    /\ IF admits THEN UNCHANGED marks ELSE GivesUp(IF p = Dir THEN Files ELSE {p})
    /\ UNCHANGED <<tree, watching, lifecycle, tracker, processed, ticking, worker, trouble,
                   wrong>>
------------------------------------------------------------------------------
(* What tracker and worker share: the tracker's collections.               *)

\* _submit_file_locked(): a file that is not there, was handled or handed over with
\* this stamp, or is being looked at, is not taken up.
Submits(f, sig) ==
    /\ sig # 0 /\ disk[f] # 0
    /\ processed[f] # sig /\ queued[f] # sig /\ pending[f] = None

Fresh(sig) == [sig |-> sig, count |-> 0]

\* submit() by the worker
Submit(f) ==
    pending' = IF Submits(f, disk[f])
               THEN [pending EXCEPT ![f] = Fresh(disk[f])] ELSE pending

\* A record of _queued or of directory_upload_processed expires (600 seconds) or is
\* pushed out (4096 records).
Expire(f) ==
    /\ Trouble
    /\ \/ queued[f] # 0 /\ queued' = [queued EXCEPT ![f] = 0] /\ UNCHANGED processed
       \/ processed[f] # 0 /\ processed' = [processed EXCEPT ![f] = 0] /\ UNCHANGED queued
    /\ marks' = [marks EXCEPT ![f] = IF disk[f] = 0 THEN {} ELSE @ \union {"forgiven"}]
    /\ UNCHANGED <<tree, watcher, lifecycle, queue, pending, scan, ticking, worker, wrong>>
------------------------------------------------------------------------------
(* The tracker's thread: _tick(), every two seconds.                       *)

\* _tick() ends when nothing is left to hand over.
OrIdle(left) == IF left = {} THEN "idle" ELSE "hand"

\* The pending files are looked at, without the lock; one that cannot be read for a
\* moment looks as if it were gone.  By now the watcher has taken over a folder it has
\* reported.
Look ==
    /\ tick = "idle" /\ tracking = "run" /\ (watching => dir # "new")
    /\ scan # None \/ \E f \in Files : pending[f] # None
    /\ \E unread \in SUBSET Files :
          /\ looked' = [f \in Files |-> IF pending[f] = None THEN None
                                       ELSE IF f \in unread THEN 0 ELSE disk[f]]
          /\ IF unread = {} THEN UNCHANGED trouble ELSE Trouble
    /\ quiet' = [f \in Files |-> IF looked'[f] \notin {None, 0} /\ quiet[f] < StableChecks
                                 THEN quiet[f] + 1 ELSE quiet[f]]
    /\ tick' = "compare"
    /\ UNCHANGED <<disk, dir, written, watcher, lifecycle, queue, tracker, processed,
                   tracking, failed, ready, worker, history>>

\* Mutant: the count goes on when a file has changed.
SeenOnce(f) == [sig |-> looked[f], count |-> pending[f].count + 1]

\* Mutant: the count starts again at every look.
SeenAnew(f) == Fresh(looked[f])

\* The count of a file that has changed starts again.
Seen(f) == IF looked[f] = pending[f].sig
           THEN [pending[f] EXCEPT !.count = @ + 1] ELSE Fresh(looked[f])

\* Files that are gone or handled are dropped; what was unchanged often enough is noted
\* as queued and taken out.  The looks may be stale by now: a file that was made again
\* since, and submitted in vain because it was still pending, is dropped with them.
Compare ==
    /\ tick = "compare"
    /\ LET checked == {f \in Files : looked[f] # None /\ pending[f] # None}
           gone == {f \in checked : looked[f] \in {0, processed[f]}}
           stable == {f \in checked \ gone : Seen(f).count >= StableChecks}
       IN  /\ pending' = [f \in Files |->
                 CASE f \in gone \union stable -> None
                   [] f \in checked \ (gone \union stable) -> Seen(f)
                   [] OTHER -> pending[f]]
           /\ queued' = [f \in Files |-> IF f \in stable THEN looked[f] ELSE queued[f]]
           /\ ready' = {<<f, looked[f]>> : f \in stable}
           /\ tick' = IF scan # None THEN "list" ELSE OrIdle(ready')
           /\ GivesUp({f \in gone : disk[f] # looked[f]})
    /\ looked' = Unseen
    /\ UNCHANGED <<tree, watcher, lifecycle, queue, scan, processed, tracking, failed,
                   worker, trouble, wrong>>

\* _scan_directory(), without the lock: the folder is gone, is listed, or can be read
\* only in part.
List ==
    /\ tick = "list"
    /\ \/ /\ dir = "none"
          /\ looked' = Unseen /\ failed' = FALSE /\ UNCHANGED trouble
       \/ /\ dir # "none"
          /\ looked' = disk /\ failed' = FALSE /\ UNCHANGED trouble
       \/ /\ dir # "none" /\ Trouble
          /\ \E unread \in SUBSET Files :
                looked' = [f \in Files |-> IF f \in unread THEN 0 ELSE disk[f]]
          /\ failed' = TRUE
    /\ tick' = "apply"
    /\ UNCHANGED <<tree, watcher, lifecycle, queue, tracker, processed, tracking, ready,
                   worker, history>>

\* The files found are submitted; the scan ends when it was unchanged often enough and
\* has found a file, or none for DIRECTORY_EMPTY_SCAN_TTL.
Apply ==
    /\ tick = "apply"
    /\ IF looked = Unseen
       THEN scan' = None /\ UNCHANGED pending
       ELSE LET found == {f \in Files : looked[f] # 0}
                count == IF failed \/ looked # scan.seen THEN 0 ELSE scan.count + 1
                next == [seen |-> IF failed THEN scan.seen ELSE looked,
                         count |-> count, found |-> scan.found \/ found # {}]
            IN  /\ pending' = [f \in Files |-> IF f \in found /\ Submits(f, looked[f])
                                              THEN Fresh(looked[f]) ELSE pending[f]]
                /\ \/ count < StableChecks /\ scan' = next
                   \/ count >= StableChecks /\ next.found /\ scan' = None
                   \/ /\ count >= StableChecks /\ ~next.found
                      /\ scan' \in {None, [next EXCEPT !.count = StableChecks]}
    /\ looked' = Unseen /\ failed' = FALSE /\ tick' = OrIdle(ready)
    /\ UNCHANGED <<tree, watcher, lifecycle, queue, queued, processed, tracking, ready,
                   worker, trouble, history>>

\* _tick() raises (the folder, or a file, cannot be reached): what it found to be stable
\* is neither pending any more nor put into the queue.
TickRaises ==
    /\ tick \in {"list", "apply", "restore"} /\ Trouble
    /\ GivesUp({r[1] : r \in ready})
    /\ ready' = {} /\ looked' = Unseen /\ failed' = FALSE /\ tick' = "idle"
    /\ UNCHANGED <<tree, watcher, lifecycle, queue, tracker, processed, tracking, worker,
                   wrong>>

\* Mutant: what a closed queue refuses is dropped.
HandOrDrop ==
    /\ tick = "hand" /\ ready # {}
    /\ \E r \in ready :
          /\ queue' = IF admits THEN Append(queue, [path |-> r[1], sig |-> r[2]]) ELSE queue
          /\ ready' = ready \ {r} /\ tick' = OrIdle(ready')
    /\ UNCHANGED <<tree, watcher, lifecycle, tracker, processed, tracking, looked, failed,
                   worker, trouble, history>>

\* Stable files go into the queue one by one.  When it is closed, the record is taken
\* back, and the file is looked at again.
Hand ==
    /\ tick = "hand" /\ ready # {}
    /\ \E r \in ready :
          IF admits
          THEN /\ queue' = Append(queue, [path |-> r[1], sig |-> r[2]])
               /\ ready' = ready \ {r} /\ tick' = OrIdle(ready')
               /\ UNCHANGED <<queued, looked>>
          ELSE /\ queued' = [queued EXCEPT ![r[1]] = IF @ = r[2] THEN 0 ELSE @]
               /\ looked' = [Unseen EXCEPT ![r[1]] = r[2]]
               /\ tick' = "restore"
               /\ UNCHANGED <<queue, ready>>
    /\ UNCHANGED <<tree, watcher, lifecycle, pending, scan, processed, tracking, failed,
                   worker, trouble, history>>

\* _restore_pending_after_enqueue_failure(): a file that cannot be read is not put back.
Restore ==
    /\ tick = "restore"
    /\ \E f \in Files :
          /\ looked[f] # None
          /\ \/ /\ pending' = IF disk[f] # 0 /\ processed[f] # disk[f] /\ pending[f] = None
                              THEN [pending EXCEPT ![f] = Fresh(disk[f])] ELSE pending
                /\ UNCHANGED <<trouble, marks>>
             \/ Trouble /\ GivesUp({f}) /\ UNCHANGED pending
          /\ ready' = {r \in ready : r[1] # f}
    /\ looked' = Unseen /\ tick' = OrIdle(ready')
    /\ UNCHANGED <<tree, watcher, lifecycle, queue, scan, queued, processed, tracking,
                   failed, worker, wrong>>

TrackerLeaves ==
    /\ tick = "idle" /\ tracking = "stop"
    /\ tracking' = "off"
    /\ UNCHANGED <<tree, watcher, lifecycle, queue, tracker, processed, tick, looked, failed,
                   ready, worker, trouble, history>>

Tracker == Look \/ Compare \/ List \/ Apply \/ Hand \/ Restore \/ TrackerLeaves
------------------------------------------------------------------------------
(* The worker of the queue: process_file_change() and handle_file().       *)

\* The worker is at a step of handle_file() with the file f.
At(step, f) == worker.at = step /\ worker.path = f
Reaches(step) == worker' = [worker EXCEPT !.at = step]

Take ==
    /\ worker.at = "idle" /\ queue # <<>>
    /\ worker' = [at |-> "check", path |-> Head(queue).path, sig |-> Head(queue).sig]
    /\ queue' = Tail(queue)
    /\ UNCHANGED <<tree, watcher, lifecycle, tracker, processed, ticking, trouble, history>>

\* A reported folder is scanned from now on.  One that is being scanned already is left
\* to that scan, also when it was removed and made again after the scan has listed it.
CheckDir ==
    /\ At("check", Dir)
    /\ scan' = IF dir # "none" /\ scan = None
               THEN [seen |-> None, count |-> 0, found |-> FALSE] ELSE scan
    /\ worker' = Idle
    /\ GivesUp({f \in Files : scan # None /\ tick = "apply" /\ looked[f] # disk[f]})
    /\ UNCHANGED <<tree, watcher, lifecycle, queue, pending, queued, processed, ticking,
                   trouble, wrong>>

\* A reported file is given to the tracker; so is a stable one that changed after all.
\* One that was handled with this stamp is left alone, and so is one that cannot be read.
Check(f) ==
    /\ At("check", f)
    /\ \/ /\ worker.sig = 0
          /\ Submit(f) /\ worker' = Idle /\ UNCHANGED <<trouble, marks>>
       \/ /\ worker.sig # 0 /\ disk[f] # worker.sig
          /\ Submit(f) /\ Reaches("clear") /\ UNCHANGED <<trouble, marks>>
       \/ /\ worker.sig # 0 /\ disk[f] = worker.sig
          /\ Reaches(IF processed[f] = worker.sig THEN "clear" ELSE "upload")
          /\ UNCHANGED <<pending, trouble, marks>>
       \/ /\ Trouble /\ GivesUp({f})
          /\ IF worker.sig = 0 THEN worker' = Idle ELSE Reaches("clear")
          /\ UNCHANGED pending
    /\ UNCHANGED <<tree, watcher, lifecycle, queue, scan, queued, processed, ticking, wrong>>

\* What is gone by now is not uploaded.  Else the file is uploaded, or copied, with the
\* content it has by now.  What the upload answers is not looked at, but whether the
\* cloud holds a file of this name: what is not found counts as failed, also when it did
\* arrive, and an older file that is found, by whom ever it was put there, counts as
\* this one, also when the upload has failed.
Upload(f) ==
    /\ At("upload", f)
    /\ \/ /\ disk[f] = 0
          /\ Reaches("clear") /\ UNCHANGED <<trouble, marks>>
       \/ /\ disk[f] # 0
          /\ \E arrived, found \in BOOLEAN :
                /\ IF arrived /\ found THEN UNCHANGED trouble ELSE Trouble
                /\ Reaches(IF ~found THEN "clear" ELSE IF deletes THEN "unlink" ELSE "mark")
                /\ marks' = [marks EXCEPT ![f] = @
                      \union (IF arrived THEN {"sent"} ELSE {})
                      \union (IF ~found THEN {"forgiven", "lapsed"}
                              ELSE IF arrived THEN {} ELSE {"mistaken"})]
    /\ wrong' = IF disk[f] # 0 /\ marks[f] = {"sent"}
                THEN wrong \union {"uploaded twice"} ELSE wrong
    /\ UNCHANGED <<tree, watcher, lifecycle, queue, tracker, processed, ticking>>

\* The source is deleted, whatever it is by now.  If it cannot be deleted, handle_file()
\* ends here: the file stays and is not noted as handled.
Unlink(f) ==
    /\ At("unlink", f)
    /\ \/ Loses({f}) /\ Reaches("empty") /\ UNCHANGED trouble
       \/ /\ disk[f] # 0 /\ Trouble
          /\ marks' = [marks EXCEPT ![f] = @ \union {"forgiven"}]
          /\ Reaches("clear") /\ UNCHANGED <<disk, wrong>>
    /\ UNCHANGED <<dir, written, quiet, watcher, lifecycle, queue, tracker, processed,
                   ticking>>

\* A folder that holds no file is to be removed; it may not be readable.
LooksEmpty(f) ==
    /\ At("empty", f)
    /\ \/ Reaches(IF Listing = {} THEN "sweep" ELSE "mark") /\ UNCHANGED trouble
       \/ Trouble /\ Reaches("clear")
    /\ UNCHANGED <<tree, watcher, lifecycle, queue, tracker, processed, ticking, history>>

\* It goes with what has come into it since; what cannot be removed stays.
Sweep(f) ==
    /\ At("sweep", f)
    /\ \/ Loses(Files) /\ dir' = "none" /\ UNCHANGED trouble
       \/ /\ Trouble
          /\ \E left \in SUBSET Files : Loses(Files \ left)
          /\ UNCHANGED dir
    /\ Reaches("mark")
    /\ UNCHANGED <<written, quiet, watcher, lifecycle, queue, tracker, processed, ticking>>

\* Mutant: only what was deleted is noted as handled.
MarkDeleted(f) ==
    /\ At("mark", f)
    /\ processed' = [processed EXCEPT ![f] = IF deletes THEN worker.sig ELSE @]
    /\ Reaches("clear")
    /\ UNCHANGED <<tree, watcher, lifecycle, queue, tracker, ticking, trouble, history>>

\* The stamp handle_file() began with is noted as handled.
Mark(f) ==
    /\ At("mark", f)
    /\ processed' = [processed EXCEPT ![f] = worker.sig]
    /\ Reaches("clear")
    /\ UNCHANGED <<tree, watcher, lifecycle, queue, tracker, ticking, trouble, history>>

\* The `finally` of process_file_change(): its own record of _queued is taken back.
Clear(f) ==
    /\ At("clear", f)
    /\ queued' = [queued EXCEPT ![f] = IF @ = worker.sig THEN 0 ELSE @]
    /\ worker' = Idle
    /\ UNCHANGED <<tree, watcher, lifecycle, queue, pending, scan, processed, ticking,
                   trouble, history>>

Worker ==
    \/ Take \/ CheckDir
    \/ \E f \in Files : \/ Check(f) \/ Upload(f) \/ Unlink(f) \/ LooksEmpty(f) \/ Sweep(f)
                        \/ Mark(f) \/ Clear(f)
------------------------------------------------------------------------------
(* Stop and start of the service.                                          *)

\* stop() ends the watcher first; it may still put what it has in hand.
Stop ==
    /\ service = "up" /\ Trouble
    /\ service' = "stopping" /\ watching' = FALSE
    /\ UNCHANGED <<tree, events, admits, deletes, queue, tracker, processed, ticking, worker,
                   history>>

\* What the watcher has not yet delivered is dropped.
WatcherEnds ==
    /\ ~watching /\ events # {}
    /\ GivesUp(IF Dir \in events THEN Files ELSE events)
    /\ events' = {}
    /\ UNCHANGED <<tree, watching, lifecycle, queue, tracker, processed, ticking, worker,
                   trouble, wrong>>

StopTracker ==
    /\ service = "stopping" /\ tracking = "run"
    /\ tracking' = "stop"
    /\ UNCHANGED <<tree, watcher, lifecycle, queue, tracker, processed, tick, looked, failed,
                   ready, worker, trouble, history>>

\* ... then the queue, also when the tracker has not ended within ten seconds.
StopQueue ==
    /\ service = "stopping" /\ admits /\ tracking # "run"
    /\ admits' = FALSE
    /\ UNCHANGED <<tree, watcher, service, deletes, queue, tracker, processed, ticking, worker,
                   trouble, history>>

\* A stop() that found everybody gone; until then it is False, and is repeated.
Stopped ==
    /\ service = "stopping" /\ events = {} /\ tracking = "off" /\ ~admits
    /\ queue = <<>> /\ worker.at = "idle"
    /\ service' = "down"
    /\ UNCHANGED <<tree, watcher, admits, deletes, queue, tracker, processed, ticking,
                   worker, trouble, history>>

\* start_directory_upload(): what was pending is kept where it still exists.
Start ==
    /\ service = "down"
    /\ service' = "up" /\ admits' = TRUE /\ watching' = TRUE /\ tracking' = "run"
    /\ dir' = IF dir = "none" THEN "none" ELSE "watched"
    /\ pending' = [f \in Files |-> IF disk[f] = 0 THEN None ELSE pending[f]]
    /\ scan' = IF dir = "none" THEN None ELSE scan
    /\ UNCHANGED <<disk, written, quiet, events, deletes, queue, queued, processed,
                   tick, looked, failed, ready, worker, trouble, history>>

Lifecycle == WatcherEnds \/ StopTracker \/ StopQueue \/ Stopped
------------------------------------------------------------------------------
UploadNext ==
    \/ MakeDir \/ TakeOver \/ \E f \in Files : Write(f) \/ Remove(f) \/ Expire(f)
    \/ \E p \in Paths : Put(p)
    \/ Tracker \/ TickRaises \/ Worker
    \/ Lifecycle \/ Stop \/ Start

UploadSpec == UploadInit /\ [][UploadNext]_uploadVars

\* The watcher delivers and the two threads go on; nobody has to write, and nobody has
\* to stop or start the service.
UploadFairSpec ==
    /\ UploadSpec
    /\ WF_uploadVars(TakeOver \/ \E p \in Paths : Put(p))
    /\ WF_uploadVars(Tracker) /\ WF_uploadVars(Worker)
------------------------------------------------------------------------------
Ended(f) == disk[f] = 0 \/ marks[f] \intersect {"sent", "mistaken", "raced", "lapsed"} # {}

\* A file that is there has been uploaded, or somebody is still going to look at it -
\* whatever the order of events, scans, looks and uploads, and over a stop and a start -
\* unless it was given up, written when nobody was going to look at it, or an older file
\* in the cloud was taken for it when its upload failed.
NothingForgotten ==
    \A f \in Files :
        \/ Ended(f)
        \/ Awaited(f)
        \/ tick = "apply" /\ looked[f] = disk[f]
        \/ worker.path = f /\ worker.at = "upload" /\ worker.sig = disk[f]

\* "避免上传仍在写入的半文件" (helper/monitor/__init__.py, DirectoryStabilityTracker): an
\* upload begins only with a file the tracker has looked at StableChecks times since it
\* was last written.
UploadStartsStable ==
    [][\A f \in Files : At("check", f) /\ worker'.at = "upload"
                              => quiet[f] >= StableChecks]_uploadVars

\* What the worker deletes without having uploaded it was written after its last look, or
\* its upload failed over an older file of the same name.  Scans, events and
\* resubmissions of a file do not upload it twice, unless a record had expired, the upload
\* counted as failed, the source could not be deleted, or it was written while in hand.
NothingWrong == UploadTypeOK /\ wrong = {}

\* Whatever is there gets uploaded, or is taken for uploaded or given up, while the
\* service is up.
EveryFileEnds == []<>(service # "up" \/ \A f \in Files : Ended(f))
=============================================================================
