---------------------------- MODULE SyncService ----------------------------
(***************************************************************************)
(* Admission, mutual exclusion and shutdown of the STRM syncs              *)
(* (p115strmhelper/service/__init__.py, ServiceHelper).                    *)
(*                                                                         *)
(* Every scheduled job, remote command and API call that touches the       *)
(* instance runs inside sync_operation(), which registers its thread in    *)
(* _sync_operations; nested entries of the same thread are counted.  Full  *)
(* and incremental sync exclude each other by two flags; a full sync that  *)
(* meets a running incremental one leaves a note, and the thread of the    *)
(* incremental one runs it in its `finally`.  stop() closes admission and  *)
(* waits; init_service() opens it again.                                   *)
(*                                                                         *)
(* A call stands for the thread it runs on: pool threads are reused, but   *)
(* the registration is deleted when the outermost entry ends, so nothing   *)
(* of an earlier call is left.                                             *)
(***************************************************************************)
EXTENDS Naturals, FiniteSets

CONSTANTS Calls,        \* job runs, commands and requests, each entering once
          Stoppers      \* threads that reconfigure the plugin: stop, then init

Deepest == 3            \* a command's own entry, the sync's, the noted full sync's

VARIABLES
    stopping,           \* _sync_stopping
    ops,                \* _sync_operations: entries per registered call
    background,         \* the thread a call started: "none", "on" or "off"
    fullRunning,        \* _full_sync_running
    incRunning,         \* _increment_sync_running
    fullPending,        \* _full_sync_pending
    pc,                 \* where each call is
    stopper,            \* where each reconfiguration is
    initialized,        \* init_service has succeeded before
    overtaken,          \* history: reconfigurations during whose run another one opened
    reported            \* history: a stop() not overtaken has returned True, and
                        \* nobody has opened admission since

flags == <<fullRunning, incRunning, fullPending>>
admission == <<stopping, ops, background>>
vars == <<stopping, ops, background, flags, pc, stopper, initialized,
          overtaken, reported>>
host == <<stopper, initialized, overtaken, reported>>

Places == {"new", "refused", "body", "askFull", "full", "askInc", "inc",
           "noted", "leave", "done"}

\* The reconfigurations: each stops, and goes on to initialise after a stop that
\* returned True.
HostOK ==
    /\ stopper \in [Stoppers -> {"out", "waiting", "stopped", "starting"}]
    /\ initialized \in BOOLEAN
    /\ overtaken \subseteq Stoppers
    /\ reported \in BOOLEAN

TypeOK ==
    /\ stopping \in BOOLEAN
    /\ ops \in [Calls -> 0..Deepest]
    /\ background \in [Calls -> {"none", "on", "off"}]
    /\ fullRunning \in BOOLEAN /\ incRunning \in BOOLEAN /\ fullPending \in BOOLEAN
    /\ pc \in [Calls -> Places]
    /\ HostOK

Init ==
    /\ stopping = FALSE
    /\ ops = [c \in Calls |-> 0]
    /\ background = [c \in Calls |-> "none"]
    /\ fullRunning = FALSE /\ incRunning = FALSE /\ fullPending = FALSE
    /\ pc = [c \in Calls |-> "new"]
    /\ stopper = [s \in Stoppers |-> "out"]
    /\ initialized = FALSE /\ overtaken = {} /\ reported = FALSE

Goes(c, place) == pc' = [pc EXCEPT ![c] = place]

\* Nobody is registered in _sync_operations.
Drained == \A c \in Calls : ops[c] = 0 /\ background[c] # "on"
------------------------------------------------------------------------------
\* Mutant: the admission check is left out.
EnterAnyway(c, first) ==
    /\ pc[c] = "new"
    /\ ops' = [ops EXCEPT ![c] = 1]
    /\ Goes(c, first)
    /\ UNCHANGED <<stopping, background, flags, host>>

\* The outermost sync_operation(): refused once stop() has begun.
Enter(c, first) ==
    /\ pc[c] = "new"
    /\ IF stopping
       THEN Goes(c, "refused") /\ UNCHANGED ops
       ELSE Goes(c, first) /\ ops' = [ops EXCEPT ![c] = 1]
    /\ UNCHANGED <<stopping, background, flags, host>>

\* Mutant: a registered thread is turned away as well once stop() has begun.
ReenterRefused(c, from, first) ==
    /\ pc[c] = from
    /\ IF stopping
       THEN Goes(c, "leave") /\ UNCHANGED ops
       ELSE Goes(c, first) /\ ops' = [ops EXCEPT ![c] = @ + 1]
    /\ UNCHANGED <<stopping, background, flags, host>>

\* sync_operation() entered by a thread that is registered already: never refused.
Reenter(c, from, first) ==
    /\ pc[c] = from
    /\ ops' = [ops EXCEPT ![c] = @ + 1]
    /\ Goes(c, first)
    /\ UNCHANGED <<stopping, background, flags, host>>

\* A remote command calls the sync inside its own sync_operation().
Command(c) == Reenter(c, "body", "askFull") \/ Reenter(c, "body", "askInc")

\* Mutant: leaving drops the registration, entries further out included.
LeaveAll(c) ==
    /\ pc[c] = "leave"
    /\ ops' = [ops EXCEPT ![c] = 0]
    /\ Goes(c, IF ops[c] > 1 THEN "body" ELSE "done")
    /\ UNCHANGED <<stopping, background, flags, host>>

\* The `finally` of sync_operation(), innermost entry first.
Leave(c) ==
    /\ pc[c] \in {"body", "leave"}
    /\ ops' = [ops EXCEPT ![c] = @ - 1]
    /\ Goes(c, IF ops[c] = 1 THEN "done" ELSE "leave")
    /\ UNCHANGED <<stopping, background, flags, host>>

\* start_background_sync(): the thread is registered before it starts, under
\* the same lock, and also while stop() waits - its caller is registered.  A
\* thread that cannot be started is taken out again.
StartBackground(c) ==
    /\ pc[c] = "body" /\ background[c] = "none"
    /\ \E outcome \in {"on", "off"} : background' = [background EXCEPT ![c] = outcome]
    /\ Goes(c, "leave")
    /\ UNCHANGED <<stopping, ops, flags, host>>

BackgroundEnds(c) ==
    /\ background[c] = "on"
    /\ background' = [background EXCEPT ![c] = "off"]
    /\ UNCHANGED <<stopping, ops, flags, pc, host>>
------------------------------------------------------------------------------
\* Mutant: a full sync looks only for another full sync.
AskFullOnly(c) ==
    /\ pc[c] = "askFull"
    /\ IF fullRunning
       THEN Goes(c, "leave") /\ UNCHANGED fullRunning
       ELSE Goes(c, "full") /\ fullRunning' = TRUE
    /\ UNCHANGED <<admission, incRunning, fullPending, host>>

\* full_sync_strm_files() under _sync_state_lock: dropped beside another full
\* sync, noted beside an incremental one.
AskFull(c) ==
    /\ pc[c] = "askFull"
    /\ \/ /\ fullRunning
          /\ Goes(c, "leave")
          /\ UNCHANGED flags
       \/ /\ ~fullRunning /\ incRunning
          /\ fullPending' = TRUE
          /\ Goes(c, "leave")
          /\ UNCHANGED <<fullRunning, incRunning>>
       \/ /\ ~fullRunning /\ ~incRunning
          /\ fullRunning' = TRUE
          /\ Goes(c, "full")
          /\ UNCHANGED <<incRunning, fullPending>>
    /\ UNCHANGED <<admission, host>>

\* _run_full_sync() returns or raises; the `finally` takes the flag back.
FullEnds(c) ==
    /\ pc[c] = "full"
    /\ fullRunning' = FALSE
    /\ Goes(c, "leave")
    /\ UNCHANGED <<admission, incRunning, fullPending, host>>

\* increment_sync_strm_files(): dropped beside any running sync.
AskInc(c) ==
    /\ pc[c] = "askInc"
    /\ IF fullRunning \/ incRunning
       THEN Goes(c, "leave") /\ UNCHANGED incRunning
       ELSE Goes(c, "inc") /\ incRunning' = TRUE
    /\ UNCHANGED <<admission, fullRunning, fullPending, host>>

\* _run_increment_sync() returns or raises; the `finally` gives the flag back and
\* takes the note in one critical section.
IncEnds(c) ==
    /\ pc[c] = "inc"
    /\ incRunning' = FALSE
    /\ fullPending' = FALSE
    /\ Goes(c, IF fullPending THEN "noted" ELSE "leave")
    /\ UNCHANGED <<admission, fullRunning, host>>

\* The noted full sync, called after the lock was released: another incremental
\* sync may have begun by then, which leaves the note a second time.
RunNoted(c) == Reenter(c, "noted", "askFull")
------------------------------------------------------------------------------
\* stop(): admission is closed first.
StopBegins(s) ==
    /\ stopper[s] = "out"
    /\ stopping' = TRUE
    /\ stopper' = [stopper EXCEPT ![s] = "waiting"]
    /\ overtaken' = overtaken \ {s}
    /\ UNCHANGED <<ops, background, flags, pc, initialized, reported>>

\* Mutant: only the calls are waited for, not the threads they left behind.
StopEndsEarly(s) ==
    /\ stopper[s] = "waiting"
    /\ \E result \in IF \A c \in Calls : ops[c] = 0 THEN {"stopped", "out"} ELSE {"out"} :
          /\ stopper' = [stopper EXCEPT ![s] = result]
          /\ reported' = (reported \/ (result = "stopped" /\ s \notin overtaken))
    /\ UNCHANGED <<admission, flags, pc, initialized, overtaken>>

\* The wait ends when nobody is registered, or after 25 seconds.  The parts
\* stopped after it may fail as well (stop() is then False, to be retried).
StopEnds(s) ==
    /\ stopper[s] = "waiting"
    /\ \E result \in IF Drained THEN {"stopped", "out"} ELSE {"out"} :
          /\ stopper' = [stopper EXCEPT ![s] = result]
          /\ reported' = (reported \/ (result = "stopped" /\ s \notin overtaken))
    /\ UNCHANGED <<admission, flags, pc, initialized, overtaken>>

\* stop() called from inside a registered call: False, but admission is closed.
StopFromCall(c) ==
    /\ pc[c] = "body"
    /\ stopping' = TRUE
    /\ UNCHANGED <<ops, background, flags, pc, host>>

\* init_plugin() goes on only after a stop() that returned True.  init_service()
\* closes admission once more and refuses beside anyone registered.
InitBegins(s) ==
    /\ stopper[s] = "stopped"
    /\ stopping' = TRUE
    /\ \E result \in IF Drained THEN {"starting", "out"} ELSE {"out"} :
          stopper' = [stopper EXCEPT ![s] = result]
    /\ UNCHANGED <<ops, background, flags, pc, initialized, overtaken, reported>>

\* It opens admission last, when everything before it succeeded, whoever has come
\* or is stopping meanwhile: no lock makes reconfigurations wait for one another.
InitEnds(s) ==
    /\ stopper[s] = "starting"
    /\ stopper' = [stopper EXCEPT ![s] = "out"]
    /\ \/ /\ stopping' = FALSE /\ initialized' = TRUE /\ reported' = FALSE
          /\ overtaken' = {t \in Stoppers \ {s} : stopper[t] # "out"}
       \/ UNCHANGED <<stopping, initialized, overtaken, reported>>
    /\ UNCHANGED <<ops, background, flags, pc>>
------------------------------------------------------------------------------
Sync(c) == \/ AskFull(c) \/ FullEnds(c) \/ AskInc(c) \/ IncEnds(c) \/ RunNoted(c)

Call(c) == \/ \E first \in {"body", "askFull", "askInc"} : Enter(c, first)
           \/ Command(c) \/ StartBackground(c) \/ BackgroundEnds(c) \/ StopFromCall(c)
           \/ Sync(c) \/ Leave(c)

Next == \/ \E c \in Calls : Call(c)
        \/ \E s \in Stoppers : \/ StopBegins(s) \/ StopEnds(s)
                              \/ InitBegins(s) \/ InitEnds(s)

Spec == Init /\ [][Next]_vars

\* A call that has entered runs to its end, and so does its background thread;
\* stop() returns.  Nobody has to call anything.
Fairness == /\ \A c \in Calls : /\ WF_vars(Sync(c) \/ Leave(c))
                                /\ WF_vars(BackgroundEnds(c))
            /\ \A s \in Stoppers : WF_vars(StopEnds(s))

FairSpec == Spec /\ Fairness
------------------------------------------------------------------------------
\* "带并发互斥": at most one thread is inside a full or an incremental sync.
OneSync == \A c, d \in Calls :
    pc[c] \in {"full", "inc"} /\ pc[d] \in {"full", "inc"} => c = d

\* The note is never left where nobody will read it: while it stands, an
\* incremental sync runs whose registered thread takes it when it ends.
NoteHasReader ==
    fullPending => \E c \in Calls : pc[c] = "inc" /\ ops[c] > 0

\* stop() that returned True, and that no other reconfiguration overtook by opening
\* admission while it waited: no call and no thread of a call is left, no sync runs,
\* and no full sync was noted and then forgotten, until somebody opens admission.
StoppedMeansIdle ==
    reported =>
        /\ stopping /\ Drained
        /\ ~fullRunning /\ ~incRunning /\ ~fullPending
        /\ \A c \in Calls : pc[c] \in {"new", "refused", "done"}

\* "已登记待执行全量同步": a full sync that was noted runs, also when the
\* incremental sync raised, when others were triggered meanwhile, and when
\* stop() began in between.
NotedFullRuns == fullPending ~> fullRunning

Accepted == {c \in Calls : pc[c] \notin {"new", "refused"}}
Settled == {c \in Calls : pc[c] = "done" /\ background[c] # "on"}

\* An initialisation that found nobody left may open admission at any moment,
\* also when another reconfiguration has closed it since: it counts as open.
Phase == IF \E s \in Stoppers : stopper[s] = "starting" THEN "open"
         ELSE IF reported THEN "stopped"
         ELSE IF stopping THEN "draining"
         ELSE IF initialized \/ Accepted # {} THEN "open" ELSE "fresh"

Barrier == INSTANCE DrainBarrier
    WITH Tasks <- Calls, accepted <- Accepted, settled <- Settled, phase <- Phase

\* Admission and shutdown keep the promise of a drain barrier, a call counting
\* until the thread it started has ended as well, however many threads reconfigure
\* the plugin at once: what is not promised is the report of an overtaken stop().
ImplementsFairBarrier == Barrier!FairSpec
=============================================================================
