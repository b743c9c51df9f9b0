------------------------ MODULE TransferPostprocess ------------------------
(***************************************************************************)
(* helper/strm/transfer: what happens in the local library after a file    *)
(* was organised in the cloud.  An event writes one file (a STRM, a        *)
(* subtitle), may delete the file of the path the cloud file was moved     *)
(* away from, and then produces effects (index, scrape, refresh).  run()   *)
(* first persists a plan with what it saw, then works it off with          *)
(* checkpoints, under a lock of the library volume; after an exception or  *)
(* a crash the host delivers the event again and run() resumes the plan.   *)
(* The cloud, and writers of the library that do not take the lock (the    *)
(* full and incremental sync, the user), act between any two steps.        *)
(*                                                                         *)
(* A cloud path and the library path it maps to have one name; each path   *)
(* has a directory of its own, so that deleting looks at no siblings.      *)
(***************************************************************************)
EXTENDS Naturals

CONSTANTS
    Events,         \* event keys
    Paths,          \* cloud paths and the library paths they map to
    Files,          \* identities of cloud files (fileid, pickcode)
    File, Target,   \* what an event's transfer put where
    Source,         \* the path it moved the file from, or None
    Display,        \* events that carry a size rounded for display
    Effects,        \* names of the plan's effects
    None, Outside,
    MaxOutside,     \* bound: writes of the library from outside the lock
    MaxFailures,    \* bound: exceptions and crashes
    Removable       \* bound: cloud paths whose file somebody may remove, once

ASSUME EventAssumption ==
    /\ File \in [Events -> Files]
    /\ Target \in [Events -> Paths]
    /\ Source \in [Events -> Paths \union {None}]
    /\ \A e \in Events : Source[e] # Target[e]
    /\ Display \subseteq Events
ASSUME NoneAssumption == None \notin Paths \union Files \union Events
ASSUME OutsideAssumption == Outside \notin Events
ASSUME BoundAssumption ==
    MaxOutside \in Nat /\ MaxFailures \in Nat /\ Removable \subseteq Paths

VARIABLES
    cloud,      \* the file at each cloud path
    happened,   \* events whose transfer took place
    file,       \* the file at each library path
    staged,     \* the .part file of each event
    made,       \* how many files each event staged
    owner,      \* TransferResource: the event that last handled a path
    store,      \* TransferPostprocess: state and plan of each event
    lock,       \* the event that holds lock_libraries
    step,       \* where its run() is
    mem,        \* its plan in memory
    seen,       \* _delete's local variable actual
    ran,        \* history: effects produced
    outside,    \* history: writes from outside
    touched,    \* history: library paths written from outside
    late,       \* history: outside files written between last check and use
    lost,       \* history: files replaced or deleted that no plan saw
    failures,
    removed,    \* history: cloud paths whose file was removed
    bin         \* the recycle bin of the cloud: what was removed from a path

disk == <<file, staged, made>>
db == <<owner, store>>
local == <<lock, step, mem, seen>>
outer == <<cloud, happened, outside, touched, removed, bin>>
postVars == <<cloud, happened, file, staged, made, owner, store, lock, step, mem, seen, ran,
          outside, touched, late, lost, failures, removed, bin>>

Stamps == [by : Events \union {Outside}, n : Nat]       \* fingerprint()
Owners == [event : Events, file : Stamps \union {None}]
Plans == [sized : BOOLEAN,                              \* size_source = "storage"
          before : Stamps \union {None}, owner : Owners \union {None},
          prepared : Stamps \union {None}, written : BOOLEAN,
          cleans : BOOLEAN,                             \* there is a delete operation
          oldBefore : Stamps \union {None}, oldOwner : Owners \union {None},
          cleaned : BOOLEAN,
          effects : SUBSET Effects]
States == {"pending", "superseded", "done"}
Entries == [state : States, plan : Plans]
PCs == {"free", "size", "check", "next", "write", "stage", "confirm", "recheck", "rejected", "publish",
        "published", "output", "delete", "gone", "still", "reread", "unlink", "unlinked",
        "directories", "effects", "effectOutput", "effect", "effectDone"}

\* Absent is told from everything that can be there.
ASSUME RecordAssumption == None \notin Stamps \union Owners \union Plans \union Entries

\* The cloud, the library, and what is remembered of them.
WorldTypeOK ==
    /\ cloud \in [Paths -> Files \union {None}]
    /\ bin \in [Paths -> Files \union {None}]
    /\ happened \subseteq Events
    /\ file \in [Paths -> Stamps \union {None}]
    /\ staged \in [Events -> Stamps \union {None}]
    /\ made \in [Events -> Nat]
    /\ owner \in [Paths -> Owners \union {None}]
    /\ ran \in [Events -> SUBSET Effects]
    /\ outside \in Nat /\ failures \in Nat
    /\ late \subseteq Stamps /\ lost \subseteq Stamps
    /\ touched \subseteq Paths /\ removed \subseteq Paths

\* The events on record, and the one that runs.
RunTypeOK ==
    /\ store \in [Events -> Entries \union {None}]
    /\ lock \in Events \union {None} /\ step \in PCs
    /\ mem \in Plans \union {None} /\ seen \in Stamps \union {None}

PostTypeOK == WorldTypeOK /\ RunTypeOK

PostInit ==
    /\ cloud = [p \in Paths |-> None] /\ happened = {}
    /\ file = [p \in Paths |-> None]
    /\ staged = [e \in Events |-> None] /\ made = [e \in Events |-> 0]
    /\ owner = [p \in Paths |-> None] /\ store = [e \in Events |-> None]
    /\ lock = None /\ step = "free" /\ mem = None /\ seen = None
    /\ ran = [e \in Events |-> {}]
    /\ outside = 0 /\ failures = 0
    /\ touched = {} /\ late = {} /\ lost = {} /\ removed = {}
    /\ bin = [p \in Paths |-> None]

------------------------------------------------------------------------------
\* Mutant: any file at the path will do.
MatchesByPath(e) == cloud[Target[e]] # None

\* matches_file: the cloud path holds the event's file.
Matches(e) == cloud[Target[e]] = File[e]

\* is_current compares the size too, which a plan with a rounded size fails.
IsCurrent(e) == Matches(e) /\ (mem.sized \/ e \notin Display)

Started(plan) == plan.prepared # None \/ plan.written \/ plan.cleaned \/ plan.effects # {}

\* What the plan freezes of the path the event writes is still so.
AsPlanned(e, plan) == file[Target[e]] = plan.before /\ owner[Target[e]] = plan.owner

At(e, label) == lock = e /\ step = label

Goto(label) == step' = label /\ UNCHANGED lock

Release ==
    lock' = None /\ step' = "free" /\ mem' = None /\ seen' = None

\* store.save(key, plan, state)
Save(e, plan, state) == store' = [store EXCEPT ![e] = [state |-> state, plan |-> plan]]

Checkpoint(e, plan) == mem' = plan /\ Save(e, plan, "pending")

\* _supersede ends run().
Supersede(e) == Save(e, mem, "superseded") /\ Release

\* complete_file: the ownership and the checkpoint are one transaction.
CompleteFile(e, path, stamp, plan) ==
    /\ owner' = [owner EXCEPT ![path] = [event |-> e, file |-> stamp]]
    /\ Checkpoint(e, plan)

------------------------------------------------------------------------------
\* The transfer of an event takes place in the cloud; the event is out.
Transfer(e) ==
    /\ e \notin happened
    /\ Source[e] # None => cloud[Source[e]] = File[e]
    /\ cloud' = [p \in Paths |-> IF p = Target[e] THEN File[e]
                                 ELSE IF p = Source[e] THEN None ELSE cloud[p]]
    /\ happened' = happened \union {e}
    /\ UNCHANGED <<disk, db, local, ran, outside, touched, late, lost, failures, removed, bin>>

\* Somebody removes a file from the cloud, and may restore it.
CloudRemove(p) ==
    /\ cloud[p] # None /\ p \in Removable \ removed
    /\ cloud' = [cloud EXCEPT ![p] = None]
    /\ bin' = [bin EXCEPT ![p] = cloud[p]]
    /\ removed' = removed \union {p}
    /\ UNCHANGED <<happened, disk, db, local, ran, outside, touched, late, lost, failures>>

CloudRestore(p) ==
    /\ cloud[p] = None /\ bin[p] # None
    /\ cloud' = [cloud EXCEPT ![p] = bin[p]]
    /\ bin' = [bin EXCEPT ![p] = None]
    /\ UNCHANGED <<happened, disk, db, local, ran, outside, touched, late, lost, failures, removed>>

\* A writer that does not take the lock puts a file at a library path or deletes
\* the one there.
InWindow(p) == \/ step = "publish" /\ p = Target[lock]
               \/ step = "unlink" /\ p = Source[lock]

OutsideWrite(p) ==
    /\ outside < MaxOutside
    /\ outside' = outside + 1
    /\ touched' = touched \union {p}
    /\ \/ file' = [file EXCEPT ![p] = None] /\ file[p] # None /\ UNCHANGED late
       \/ LET new == [by |-> Outside, n |-> outside + 1] IN
             /\ file' = [file EXCEPT ![p] = new]
             /\ late' = IF InWindow(p) THEN late \union {new} ELSE late
    /\ UNCHANGED <<cloud, happened, staged, made, db, local, ran, lost, failures, removed, bin>>

------------------------------------------------------------------------------
\* What every step of run() between taking and releasing the lock leaves alone.
Running == UNCHANGED <<outer, late, failures>>

\* build(): the plan freezes the file at the output path and, if there is one, the
\* file at the path the cloud file was moved from, with their owners.
Build(e) ==
    LET old == Source[e]
        cleans == old # None /\ file[old] # None
    IN  [sized |-> FALSE,
         before |-> file[Target[e]], owner |-> owner[Target[e]],
         prepared |-> None, written |-> FALSE,
         cleans |-> cleans,
         oldBefore |-> IF cleans THEN file[old] ELSE None,
         oldOwner |-> IF cleans THEN owner[old] ELSE None,
         cleaned |-> FALSE,
         effects |-> {}]

\* The size is settled before the plan starts to do anything.
Resume(plan) == IF plan.sized \/ Started(plan) THEN "check" ELSE "size"

\* The event is delivered, for the first time or again, and has the lock.  An event
\* that is done or superseded is acknowledged without a step.
Begin(e) ==
    /\ e \in happened /\ lock = None
    /\ lock' = e
    /\ \/ /\ store[e] = None
          /\ Checkpoint(e, Build(e))
          /\ step' = Resume(Build(e))
       \/ /\ store[e] # None /\ store[e].state = "pending"
          /\ mem' = store[e].plan
          /\ step' = Resume(store[e].plan)
          /\ UNCHANGED store
    /\ UNCHANGED <<disk, owner, seen, ran, lost>> /\ Running

\* retry_postprocess(): an administrator revives a superseded plan that did nothing
\* yet and was rejected for its rounded size (_recover_size_mismatch).
RetrySuperseded(e) ==
    /\ lock = None /\ store[e] # None /\ store[e].state = "superseded"
    /\ LET plan == store[e].plan IN
          /\ ~plan.sized /\ ~Started(plan)
          /\ Matches(e) /\ e \in Display
          /\ AsPlanned(e, plan)
          /\ Checkpoint(e, [plan EXCEPT !.sized = TRUE])
    /\ lock' = e /\ step' = "check"
    /\ UNCHANGED <<disk, owner, seen, ran, lost>> /\ Running

\* freeze_size: the size of the event gives way to the one the cloud tells.
Size(e) ==
    /\ At(e, "size")
    /\ \/ /\ Matches(e)
          /\ Checkpoint(e, [mem EXCEPT !.sized = TRUE])
          /\ Goto("check") /\ UNCHANGED seen
       \/ /\ ~Matches(e)
          /\ Supersede(e)
    /\ UNCHANGED <<disk, owner, ran, lost>> /\ Running

\* Mutant: a stale event is left to the next delivery.
RequireOrWait(e, label, next) ==
    /\ At(e, label)
    /\ \/ IsCurrent(e) /\ Goto(next) /\ UNCHANGED <<mem, seen, store>>
       \/ ~IsCurrent(e) /\ Release /\ UNCHANGED store
    /\ UNCHANGED <<disk, owner, ran, lost>> /\ Running

\* "if not is_current: _supersede": the check in front of every kind of work.
RequireCurrent(e, label, next) ==
    /\ At(e, label)
    /\ \/ IsCurrent(e) /\ Goto(next) /\ UNCHANGED <<mem, seen, store>>
       \/ ~IsCurrent(e) /\ Supersede(e)
    /\ UNCHANGED <<disk, owner, ran, lost>> /\ Running

Check(e) == RequireCurrent(e, "check", "next")

\* The next operation of the plan that is not done, or the directories after them.
NextWrite(e) == At(e, "next") /\ ~mem.written /\ RequireCurrent(e, "next", "write")

NextDelete(e) ==
    /\ At(e, "next")
    /\ mem.written /\ mem.cleans /\ ~mem.cleaned
    /\ RequireCurrent(e, "next", "output")

NoOperationLeft(e) ==
    /\ At(e, "next")
    /\ mem.written /\ (mem.cleans => mem.cleaned)
    /\ Goto("directories")
    /\ UNCHANGED <<mem, seen, disk, db, ran, lost>> /\ Running

------------------------------------------------------------------------------
\* _write: what it finds at the path.  Its own file, published before a crash,
\* is put on record; anything but the planned file ends the event.
Found(e) ==
    /\ At(e, "write")
    /\ LET actual == file[Target[e]]
           mine == /\ mem.prepared # None /\ actual = mem.prepared
                   /\ owner[Target[e]] = mem.owner
       IN  \/ /\ mine
              /\ CompleteFile(e, Target[e], actual, [mem EXCEPT !.written = TRUE])
              /\ Goto("next") /\ UNCHANGED seen
           \/ /\ ~mine /\ AsPlanned(e, mem)
              /\ Goto(IF mem.prepared = None \/ staged[e] # mem.prepared
                      THEN "stage" ELSE "confirm")
              /\ UNCHANGED <<mem, seen, db>>
           \/ /\ ~mine /\ ~AsPlanned(e, mem)
              /\ Supersede(e) /\ UNCHANGED owner
    /\ UNCHANGED <<disk, ran, lost>> /\ Running

\* Mutant: the fingerprint of the staged file is not saved.
StageUnsaved(e) ==
    /\ At(e, "stage")
    /\ LET new == [by |-> e, n |-> made[e] + 1] IN
          /\ staged' = [staged EXCEPT ![e] = new]
          /\ mem' = [mem EXCEPT !.prepared = new]
    /\ made' = [made EXCEPT ![e] = @ + 1]
    /\ Goto("confirm")
    /\ UNCHANGED <<file, store, owner, seen, ran, lost>> /\ Running

\* prepare(): a new .part file, and its fingerprint in the plan before it is
\* published.
Stage(e) ==
    /\ At(e, "stage")
    /\ LET new == [by |-> e, n |-> made[e] + 1] IN
          /\ staged' = [staged EXCEPT ![e] = new]
          /\ Checkpoint(e, [mem EXCEPT !.prepared = new])
    /\ made' = [made EXCEPT ![e] = @ + 1]
    /\ Goto("confirm")
    /\ UNCHANGED <<file, owner, seen, ran, lost>> /\ Running

\* The .part file is removed before the event is given up.
Discard(e) ==
    /\ staged' = [staged EXCEPT ![e] = None]
    /\ Goto("rejected")
    /\ UNCHANGED <<file, made>>

\* The last look at the cloud and the last look at the path.
Confirm(e) ==
    /\ At(e, "confirm")
    /\ \/ IsCurrent(e) /\ Goto("recheck") /\ UNCHANGED disk
       \/ ~IsCurrent(e) /\ Discard(e)
    /\ UNCHANGED <<mem, seen, db, ran, lost>> /\ Running

\* Mutant: no second look at the path.
RecheckNothing(e) ==
    /\ At(e, "recheck")
    /\ Goto("publish")
    /\ UNCHANGED <<mem, seen, disk, db, ran, lost>> /\ Running

Recheck(e) ==
    /\ At(e, "recheck")
    /\ \/ /\ file[Target[e]] = mem.before
          /\ Goto("publish") /\ UNCHANGED disk
       \/ file[Target[e]] # mem.before /\ Discard(e)
    /\ UNCHANGED <<mem, seen, db, ran, lost>> /\ Running

Rejected(e) ==
    /\ At(e, "rejected")
    /\ Supersede(e)
    /\ UNCHANGED <<disk, owner, ran, lost>> /\ Running

\* What a step takes away at a path, if it is not what the plan saw there.
Losing(p, planned) == lost' = lost \union ({file[p]} \ {planned, None})

\* os.replace
Publish(e) ==
    /\ At(e, "publish")
    /\ file' = [file EXCEPT ![Target[e]] = staged[e]]
    /\ staged' = [staged EXCEPT ![e] = None]
    /\ Losing(Target[e], mem.before)
    /\ Goto("published")
    /\ UNCHANGED <<made, db, mem, seen, ran>> /\ Running

Published(e) ==
    /\ At(e, "published")
    /\ \/ /\ file[Target[e]] = mem.prepared
          /\ CompleteFile(e, Target[e], mem.prepared, [mem EXCEPT !.written = TRUE])
          /\ Goto("next") /\ UNCHANGED seen
       \/ /\ file[Target[e]] # mem.prepared
          /\ Supersede(e) /\ UNCHANGED owner
    /\ UNCHANGED <<disk, ran, lost>> /\ Running

------------------------------------------------------------------------------
\* The rest of the plan goes on only while the written file is in place.
RequireOutput(e, label, next) ==
    /\ At(e, label)
    /\ \/ /\ file[Target[e]] = mem.prepared
          /\ Goto(next) /\ UNCHANGED <<mem, seen, store>>
       \/ /\ file[Target[e]] # mem.prepared
          /\ Supersede(e)
    /\ UNCHANGED <<disk, owner, ran, lost>> /\ Running

Output(e) == RequireOutput(e, "output", "delete")

\* An operation is dropped, the file stays.
Skip(e) ==
    Checkpoint(e, [mem EXCEPT !.cleaned = TRUE]) /\ seen' = None /\ Goto("next")

\* _delete: the old file is deleted if it is the planned one (or gone), ...
Delete(e) ==
    /\ At(e, "delete")
    /\ LET actual == file[Source[e]]
           same == /\ actual \in {None, mem.oldBefore}
                   /\ owner[Source[e]] = mem.oldOwner
       IN  \/ same /\ seen' = actual /\ Goto("gone") /\ UNCHANGED <<mem, store>>
           \/ ~same /\ Skip(e)
    /\ UNCHANGED <<disk, owner, ran, lost>> /\ Running

\* ... the cloud has nothing left at its path, ...
Gone(e) ==
    /\ At(e, "gone")
    /\ \/ cloud[Source[e]] = None /\ Goto("still") /\ UNCHANGED <<mem, seen, store>>
       \/ cloud[Source[e]] # None /\ Skip(e)
    /\ UNCHANGED <<disk, owner, ran, lost>> /\ Running

\* ... the event is still current (else it raises), ...
Still(e) ==
    /\ At(e, "still")
    /\ \/ IsCurrent(e) /\ Goto("reread") /\ UNCHANGED <<mem, seen>>
       \/ ~IsCurrent(e) /\ Release
    /\ UNCHANGED <<disk, db, ran, lost>> /\ Running

\* ... and nothing happened to the file meanwhile.
Reread(e) ==
    /\ At(e, "reread")
    /\ \/ /\ file[Source[e]] = seen /\ owner[Source[e]] = mem.oldOwner
          /\ Goto(IF seen = None THEN "unlinked" ELSE "unlink")
          /\ UNCHANGED <<mem, seen, store>>
       \/ /\ ~(file[Source[e]] = seen /\ owner[Source[e]] = mem.oldOwner)
          /\ Skip(e)
    /\ UNCHANGED <<disk, owner, ran, lost>> /\ Running

\* path.unlink() raises when the file is gone.
Unlink(e) ==
    /\ At(e, "unlink")
    /\ \/ /\ file[Source[e]] # None
          /\ file' = [file EXCEPT ![Source[e]] = None]
          /\ Losing(Source[e], mem.oldBefore)
          /\ Goto("unlinked") /\ UNCHANGED <<mem, seen>>
       \/ /\ file[Source[e]] = None
          /\ Release /\ UNCHANGED <<file, lost>>
    /\ UNCHANGED <<staged, made, db, ran>> /\ Running

Unlinked(e) ==
    /\ At(e, "unlinked")
    /\ CompleteFile(e, Source[e], None, [mem EXCEPT !.cleaned = TRUE])
    /\ seen' = None
    /\ Goto("next")
    /\ UNCHANGED <<disk, ran, lost>> /\ Running

\* Empty directories are removed for an event that cleans up; the model has none.
Directories(e) ==
    /\ At(e, "directories")
    /\ \/ mem.cleans /\ RequireCurrent(e, "directories", "effects")
       \/ /\ ~mem.cleans /\ Goto("effects")
          /\ UNCHANGED <<mem, seen, disk, db, ran, lost>> /\ Running

------------------------------------------------------------------------------
EffectCheck(e) ==
    /\ At(e, "effects")
    /\ mem.effects # Effects
    /\ RequireCurrent(e, "effects", "effectOutput")

EffectOutput(e) == RequireOutput(e, "effectOutput", "effect")

\* An effect is produced, then noted.
Effect(e) ==
    /\ At(e, "effect")
    /\ \E x \in Effects \ mem.effects :
          /\ ran' = [ran EXCEPT ![e] = @ \union {x}]
          /\ mem' = [mem EXCEPT !.effects = @ \union {x}]
    /\ Goto("effectDone")
    /\ UNCHANGED <<seen, disk, db, lost>> /\ Running

EffectDone(e) ==
    /\ At(e, "effectDone")
    /\ Checkpoint(e, mem)
    /\ Goto("effects")
    /\ UNCHANGED <<seen, disk, owner, ran, lost>> /\ Running

\* Mutant: the event is done while effects are outstanding.
FinishEarly(e) ==
    /\ At(e, "effects")
    /\ Save(e, mem, "done")
    /\ Release
    /\ UNCHANGED <<disk, owner, ran, lost>> /\ Running

Finish(e) ==
    /\ At(e, "effects") /\ mem.effects = Effects
    /\ Save(e, mem, "done")
    /\ Release
    /\ UNCHANGED <<disk, owner, ran, lost>> /\ Running

\* An exception anywhere in run(), or the process dies: what is in memory is gone.
Fail ==
    /\ lock # None /\ failures < MaxFailures
    /\ failures' = failures + 1
    /\ Release
    /\ UNCHANGED <<outer, disk, db, ran, late, lost>>

------------------------------------------------------------------------------
Write(e) == \/ Found(e) \/ Stage(e) \/ Confirm(e) \/ Recheck(e) \/ Rejected(e)
            \/ Publish(e) \/ Published(e)

Cleanup(e) ==
    Output(e) \/ Delete(e) \/ Gone(e) \/ Still(e) \/ Reread(e) \/ Unlink(e) \/ Unlinked(e)

RunEvent(e) ==
    \/ Begin(e) \/ Size(e) \/ Check(e)
    \/ NextWrite(e) \/ NextDelete(e) \/ NoOperationLeft(e)
    \/ Write(e) \/ Cleanup(e) \/ Directories(e)
    \/ EffectCheck(e) \/ EffectOutput(e) \/ Effect(e) \/ EffectDone(e) \/ Finish(e)

PostNext ==
    \/ \E e \in Events : Transfer(e) \/ RunEvent(e) \/ RetrySuperseded(e)
    \/ \E p \in Paths : CloudRemove(p) \/ CloudRestore(p) \/ OutsideWrite(p)
    \/ Fail

PostSpec == PostInit /\ [][PostNext]_postVars

\* The host delivers an event until it is acknowledged, and a started run() goes on;
\* transfers, failures, administrators and outside writers owe nothing.
PostFairSpec == PostSpec /\ WF_postVars(\E e \in Events : RunEvent(e))
------------------------------------------------------------------------------
Done(e) == store[e] # None /\ store[e].state = "done"
Ended(e) == store[e] # None /\ store[e].state \in {"done", "superseded"}
AtRest == lock = None /\ \A e \in happened : Ended(e)

\* What the cloud holds, the library holds: when every event has ended, the library file
\* of a path was written by an event for the very file that is in the cloud there -
\* whatever order the events were delivered in and wherever run() failed.
NothingMissing ==
    AtRest => \A p \in Paths \ (touched \union removed) : cloud[p] # None =>
                 file[p] # None /\ file[p].by # Outside /\ File[file[p].by] = cloud[p]

\* What the cloud took away, the library loses: where a library file is left that has
\* none in the cloud, one of the events that moved a file away from there is still open,
\* or was superseded.
NothingLeftBehind ==
    \A p \in Paths \ (touched \union removed) : cloud[p] = None /\ file[p] # None =>
        \E e \in happened : Source[e] = p /\ ~Done(e)

\* The library follows the cloud, unless somebody else wrote the library or emptied the
\* path in the cloud.
MirrorsCloud == NothingMissing /\ NothingLeftBehind

\* "固定文件指纹及旧归属，使操作只能作用于规划时的版本" (plan.py 49): what run() replaces
\* or deletes is what its plan saw. What does get lost was written, without the lock,
\* between the last look at the path and the next system call.
OnlyLateWritesAreLost == lost \subseteq late

\* Whatever run() puts into the library is on record before it is there, so that a
\* crash cannot leave a file that the next run() takes for somebody else's.
NothingUnaccounted ==
    \A p \in Paths : file[p] # None /\ file[p].by # Outside =>
        LET e == file[p].by IN
        /\ p = Target[e]
        /\ store[e] # None /\ store[e].plan.prepared = file[p]

\* The ownership of a path and the checkpoint of the event it names agree: the
\* event wrote the path, or deleted what was there.
OwnerIsOnRecord ==
    \A p \in Paths : owner[p] # None =>
        LET o == owner[p]
            plan == store[o.event].plan
        IN  /\ store[o.event] # None
            /\ \/ p = Target[o.event] /\ plan.written /\ o.file = plan.prepared
               \/ p = Source[o.event] /\ plan.cleaned /\ o.file = None

\* The store, the owners and the library tell one story: the variables have their types,
\* the library's files are on record, and owners agree with checkpoints.
RecordsAgree == PostTypeOK /\ NothingUnaccounted /\ OwnerIsOnRecord

\* Effects (index, scrape, refresh) are produced only for a file that was written
\* and recorded; an event that is done has produced each of them.
EffectsFollowFile ==
    \A e \in Events :
        /\ ran[e] # {} => store[e] # None /\ store[e].plan.written
        /\ store[e] # None /\ store[e].state = "done" => ran[e] = Effects
        /\ store[e] # None => store[e].plan.effects \subseteq ran[e]

\* Every event comes to an end: again and again, none that happened is open.
EventsEnd == []<>(\A e \in happened : Ended(e))
=============================================================================
