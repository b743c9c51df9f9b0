---------------------------- MODULE LifeMonitor ----------------------------
(***************************************************************************)
(* The life event monitor of p115strmhelper: the thread of                 *)
(* service/life/__init__.py, which pulls the account's event log from a    *)
(* cursor, and the handlers of helper/life/client.py, which bring the      *)
(* local STRM library and the table of file paths after it.                *)
(*                                                                         *)
(* The log is read behind the cloud: an upload or a move tells where the   *)
(* file was put, a rename and a delete name the file only, and the handler *)
(* asks the table, or the cloud as it is by then.  A handler writes the    *)
(* table and the STRM files one after the other.  It may raise in between, *)
(* and the whole batch is pulled again; it may swallow the error of a      *)
(* file, and the event counts as handled; the process may be killed at any *)
(* moment.  The cursor is saved by a clean stop only.                      *)
(*                                                                         *)
(* Files are looked at one by one (the folder branches of the handlers     *)
(* list the folder and do the same for each file in it), with all event    *)
(* modes but "transfer" and "remove" on and STRM removal enabled.  A path  *)
(* holds at most one file at a time; a STRM is written whole or not.       *)
(***************************************************************************)
EXTENDS Naturals, Sequences, FiniteSets

CONSTANTS Files,
          Media,        \* paths of the monitored library (monitor_life_paths)
          Waiting,      \* paths the host is to sort in (pan_transfer_paths)
          Other,        \* any other path of the cloud
          Nowhere,      \* no path, no file, no cursor
          Options,      \* configurations: first_pull_mode, move_media_mode is
                        \* local_move, which of "transfer" and "remove" are event modes
          MaxEvents,    \* bound: length of the log
          MaxTrouble    \* bound: handlers that fail, stops and crashes together

Paths == Media \union Waiting \union Other

ASSUME PathsDiffer == /\ Media \cap Waiting = {} /\ Media \cap Other = {}
                      /\ Waiting \cap Other = {} /\ Nowhere \notin Paths \union Files
ASSUME OptionsType == Options \subseteq
    [mode : {"all", "last", "latest"}, localMove : BOOLEAN, transfer : BOOLEAN,
     remove : BOOLEAN]
ASSUME BoundsType == MaxEvents \in Nat /\ MaxTrouble \in Nat /\ Nowhere \notin 0..MaxEvents

VARIABLES
    loc,        \* the cloud: where each file is
    log,        \* the account's events, oldest first
    strm,       \* the library: which file the STRM of a media path plays
    db,         \* FileDbHelper: the path on record for each file
    arriving,   \* pantransfercacher.creata_pan_transfer_list
    queued,     \* files handed to the host's transfer queue
    thread,     \* "down", "loop" (between pulls) or "batch"
    stop,       \* stop_event is set
    cursor,     \* from_id: events before it are not pulled again
    batch,      \* end of the batch in hand
    next,       \* the event of the batch that is handled next
    saved,      \* plugin data "monitor_life_strm_files"
    options,    \* the configuration, fixed while the model runs
    done,       \* history: events that were handled to the end, and not broken off since
    skipped,    \* history: events a start left out
    late,       \* history: an event was handled after the world had gone on
    torn,       \* history: files whose row and STRM an error or a crash parted for good
    trouble     \* failed handlers, stops and crashes so far

cloud == <<loc, log, queued>>
library == <<strm, db, arriving>>
position == <<cursor, batch, next>>
history == <<done, skipped, late, torn>>
vars == <<cloud, library, thread, stop, position, saved, options, history, trouble>>

Event == [kind : {"create", "move", "rename", "delete"}, file : Files,
          path : Paths \union {Nowhere}, host : BOOLEAN]

TypeOK ==
    /\ loc \in [Files -> Paths \union {Nowhere}]
    /\ log \in Seq(Event) /\ Len(log) <= MaxEvents
    /\ strm \in [Media -> Files \union {Nowhere}]
    /\ db \in [Files -> Paths \union {Nowhere}]
    /\ arriving \subseteq Files /\ queued \subseteq Files
    /\ thread \in {"down", "loop", "batch"} /\ stop \in BOOLEAN
    /\ cursor \in 0..MaxEvents /\ batch \in 0..MaxEvents /\ next \in 1..MaxEvents+1
    /\ saved \in (0..MaxEvents) \union {Nowhere}
    /\ done \subseteq 1..MaxEvents /\ skipped \subseteq 1..MaxEvents /\ late \in BOOLEAN
    /\ torn \subseteq Files
    /\ trouble \in 0..MaxTrouble

Init ==
    /\ loc = [f \in Files |-> Nowhere] /\ log = <<>> /\ queued = {}
    /\ strm = [p \in Media |-> Nowhere]
    /\ db = [f \in Files |-> Nowhere]
    /\ arriving = {}
    /\ thread = "loop" /\ stop = FALSE
    /\ cursor = 0 /\ batch = 0 /\ next = 1
    /\ saved = Nowhere
    /\ options \in Options
    /\ done = {} /\ skipped = {} /\ late = FALSE /\ torn = {} /\ trouble = 0

\* Rows are keyed by file, and paths are unique among them (replace_rows).
Record(table, f, p) ==
    [g \in Files |-> IF g = f THEN p ELSE IF table[g] = p THEN Nowhere ELSE table[g]]
Unrecord(table, p) == [g \in Files |-> IF table[g] = p THEN Nowhere ELSE table[g]]

Free(p) == \A f \in Files : loc[f] # p
Trouble == trouble < MaxTrouble /\ trouble' = trouble + 1
------------------------------------------------------------------------------
\* The account, seen from here: a user or the host acts and 115 logs it.
Logs(f, kind, to, byHost) ==
    /\ Len(log) < MaxEvents
    /\ to # Nowhere => Free(to)
    /\ loc' = [loc EXCEPT ![f] = to]
    /\ log' = Append(log, [kind |-> kind, file |-> f, host |-> byHost,
                           path |-> IF kind \in {"create", "move"} THEN to ELSE Nowhere])

UserDoes(f, kind, to) ==
    /\ Logs(f, kind, to, FALSE)
    /\ UNCHANGED <<library, queued, thread, stop, position, saved, options, history,
                   trouble>>

Upload(f) == /\ \A i \in DOMAIN log : log[i].file # f
             /\ \E to \in Paths : UserDoes(f, "create", to)

Move(f) == /\ loc[f] # Nowhere
           /\ \E to \in Paths \ {loc[f]} : UserDoes(f, "move", to)

Rename(f) == /\ loc[f] \in Media
             /\ \E to \in Media \ {loc[f]} : UserDoes(f, "rename", to)

Delete(f) == /\ loc[f] # Nowhere
             /\ UserDoes(f, "delete", Nowhere)

User == \E f \in Files : Upload(f) \/ Move(f) \/ Rename(f) \/ Delete(f)

\* The host sorts a waiting file into the library, or fails to; unless the
\* "transfer" mode leaves that to the monitor, the transfer writes STRM and row.
HostTransfers(f) ==
    /\ f \in queued
    /\ queued' = queued \ {f}
    /\ \/ /\ loc[f] \in Waiting
          /\ \E to \in Media :
                /\ Logs(f, "move", to, TRUE)
                /\ strm' = IF options.transfer THEN strm ELSE [strm EXCEPT ![to] = f]
                /\ db' = IF options.transfer THEN db ELSE Record(db, f, to)
       \/ UNCHANGED <<loc, log, strm, db>>
    /\ UNCHANGED <<arriving, thread, stop, position, saved, options, history, trouble>>
------------------------------------------------------------------------------
\* The handlers.  Each takes and returns the library as a record.
Library == [strm |-> strm, db |-> db, arriving |-> arriving, queued |-> queued]

\* _create: outside the library nothing happens; inside, first the row, then the STRM.
CreateRow(lib, f, p) ==
    IF p \in Media THEN [lib EXCEPT !.db = Record(@, f, p)] ELSE lib
\* Mutant: the path is not looked up in monitor_life_paths.
CreateAnywhere(lib, f, p) ==
    [CreateRow(lib, f, p) EXCEPT
        !.strm = [q \in Media \union {p} |-> IF q = p THEN f ELSE lib.strm[q]]]

Create(lib, f, p) ==
    IF p \in Media
    THEN [CreateRow(lib, f, p) EXCEPT !.strm[p] = f]
    ELSE lib

\* _create_with_transfer_cache_guard
GuardedCreate(lib, f, p) ==
    IF f \in lib.arriving
    THEN LET seen == [lib EXCEPT !.arriving = @ \ {f}]
         IN IF options.transfer THEN Create(seen, f, p) ELSE seen
    ELSE Create(lib, f, p)

\* media_transfer: the row goes, the file is remembered and handed to the host.
MediaTransfer(lib, f) ==
    [lib EXCEPT !.db[f] = Nowhere, !.arriving = @ \union {f}, !.queued = @ \union {f}]

\* remove: the path is the one on record; without one, or outside the library,
\* nothing is deleted.  A file that is at that path by now keeps its STRM and
\* gets the row.
Remove(lib, f) ==
    LET p == lib.db[f]
        there == {g \in Files : loc[g] = p}
    IN IF p \notin Media THEN lib
       ELSE IF there # {}
       THEN [lib EXCEPT !.db = Record(Unrecord(@, p), CHOOSE g \in there : TRUE, p)]
       ELSE [lib EXCEPT !.db = Unrecord(@, p), !.strm[p] = Nowhere]

\* create
HandleCreate(lib, f, p) ==
    IF p \in Waiting THEN MediaTransfer(lib, f) ELSE GuardedCreate(lib, f, p)

\* _move_local_media_assets and _sync_move_event_db_records
LocallyMoved(lib, f, old, new) ==
    [lib EXCEPT
        !.strm = IF @[old] # Nowhere \/ @[new] # Nowhere
                 THEN [@ EXCEPT ![old] = IF old = new THEN f ELSE Nowhere, ![new] = f]
                 ELSE @,
        !.db = Record(@, f, new)]

\* Mutant: the new path is recorded before the old one is looked up.
HandleMoveLate(lib, f, p) ==
    IF p \in Waiting THEN MediaTransfer(lib, f)
    ELSE Remove(GuardedCreate(lib, f, p), f)

\* move: where to, and whether the path on record was in the library.  `gone` is
\* what remove() leaves: lib itself for a file without a row in the library.
MoveAfter(lib, gone, f, p) ==
    LET old == lib.db[f]
    IN CASE p \in Waiting -> MediaTransfer(gone, f)
         [] p \notin Waiting /\ old \notin Media -> GuardedCreate(lib, f, p)
         [] p \in Media /\ old \in Media ->
               IF options.localMove THEN LocallyMoved(lib, f, old, p)
               ELSE GuardedCreate(gone, f, p)
         [] OTHER -> gone

HandleMove(lib, f, p) == MoveAfter(lib, Remove(lib, f), f, p)

\* _sync_rename_path_records: the row follows, by an UPDATE of the old path, which
\* the database refuses while another row has the new one.
FollowRow(lib, f, old, new) ==
    IF old = Nowhere THEN lib ELSE [lib EXCEPT !.db[f] = new]
Refused(e) ==
    /\ e.kind = "rename" /\ db[e.file] # Nowhere /\ loc[e.file] # Nowhere
    /\ \E g \in Files \ {e.file} : db[g] = loc[e.file]

\* rename: the new path is the one the cloud knows now.  The library follows
\* only when it is a library path.
HandleRename(lib, f) ==
    LET old == lib.db[f]
        new == loc[f]
        named == FollowRow(lib, f, old, new)
    IN CASE new = Nowhere -> lib
         [] new \in Waiting -> MediaTransfer(named, f)
         [] new \in Other -> named
         [] OTHER ->
               IF old \in Media /\ lib.strm[old] # Nowhere
               THEN [named EXCEPT !.strm = [[@ EXCEPT ![old] = Nowhere] EXCEPT ![new] = f]]
               ELSE IF lib.strm[new] = Nowhere THEN Create(named, f, new)
               ELSE named

After(lib, e) ==
    CASE e.kind = "create" -> HandleCreate(lib, e.file, e.path)
      [] e.kind = "move"   -> HandleMove(lib, e.file, e.path)
      [] e.kind = "rename" -> HandleRename(lib, e.file)
      [] e.kind = "delete" -> IF options.remove THEN Remove(lib, e.file) ELSE lib

------------------------------------------------------------------------------
\* The handlers, broken off or with an error they swallow.

\* _create is left between the row and the STRM, its guard after the cache.
CreateHalves(lib, f, p) ==
    LET seen == [lib EXCEPT !.arriving = @ \ {f}]
    IN {lib, seen} \union (IF f \in lib.arriving /\ ~options.transfer THEN {}
                           ELSE {CreateRow(seen, f, p)})

\* media_transfer is left after the row, or after the cache.
TransferHalves(lib, f) ==
    LET unrecorded == [lib EXCEPT !.db[f] = Nowhere]
    IN {unrecorded, [unrecorded EXCEPT !.arriving = @ \union {f}]}

\* remove deletes the row and only then asks the cloud and deletes the STRM.
RowRemoved(lib, f) ==
    IF lib.db[f] \in Media THEN [lib EXCEPT !.db = Unrecord(@, lib.db[f])] ELSE lib

\* With a STRM to delete it returns as if it had, also when that fails.
Removals(lib, f) ==
    {Remove(lib, f)} \union
    (IF lib.db[f] \in Media /\ Free(lib.db[f]) THEN {RowRemoved(lib, f)} ELSE {})

\* A STRM that is not moved, or is copied and not deleted at the old path.
Unmoved(files, old, new) ==
    {files} \union (IF files[new] = Nowhere THEN {[files EXCEPT ![new] = files[old]]} ELSE {})

\* A STRM that is moved and keeps its text, or one at the new path that keeps its
\* text, or gets it while the one at the old path cannot be deleted.
Unsynced(files, f, old, new) ==
    IF files[new] = Nowhere THEN {[files EXCEPT ![new] = files[old], ![old] = Nowhere]}
    ELSE {files, [files EXCEPT ![new] = f]}

\* What may be left of a handler that raises, or of a process that is killed in it.
MoveHalves(lib, f, p) ==
    LET old == lib.db[f]
    IN CASE p \in Waiting ->
              {RowRemoved(lib, f)} \union
              UNION {{gone} \union TransferHalves(gone, f) : gone \in Removals(lib, f)}
         [] p \in Media /\ old \in Media /\ options.localMove ->
              {[lib EXCEPT !.strm = files] : files \in
                  Unmoved(lib.strm, old, p) \union Unsynced(lib.strm, f, old, p)
                  \union {LocallyMoved(lib, f, old, p).strm}}
         [] p \in Other /\ old \in Media -> {RowRemoved(lib, f)}
         [] OTHER ->
              {RowRemoved(lib, f)} \union
              UNION {CreateHalves(gone, f, p) : gone \in Removals(lib, f)}

RenameHalves(lib, f) ==
    LET old == lib.db[f]
        new == loc[f]
        named == FollowRow(lib, f, old, new)
    IN CASE new = Nowhere -> {}
         [] new \in Waiting -> {named} \union TransferHalves(named, f)
         [] new \in Other -> {named}
         [] OTHER ->
               IF old \in Media /\ lib.strm[old] # Nowhere
               THEN {[named EXCEPT !.strm = files] :
                        files \in Unmoved(lib.strm, old, new)
                                  \union Unsynced(lib.strm, f, old, new)}
               ELSE {named} \union
                    (IF lib.strm[new] = Nowhere THEN {CreateRow(named, f, new)} ELSE {})

Halves(lib, e) ==
    CASE e.kind = "create" -> IF e.path \in Waiting THEN TransferHalves(lib, e.file)
                              ELSE CreateHalves(lib, e.file, e.path)
      [] e.kind = "move"   -> MoveHalves(lib, e.file, e.path)
      [] e.kind = "rename" -> RenameHalves(lib, e.file)
      [] e.kind = "delete" -> IF options.remove THEN {RowRemoved(lib, e.file)} ELSE {}

\* What may be left of one that swallowed the error of a file.
MoveFlaws(lib, f, p) ==
    LET old == lib.db[f]
    IN IF p \in Media /\ old \in Media /\ options.localMove
       THEN {[LocallyMoved(lib, f, old, p) EXCEPT !.strm = files] :
                files \in Unsynced(lib.strm, f, old, p)}
       ELSE {MoveAfter(lib, gone, f, p) : gone \in Removals(lib, f)}

RenameFlaws(lib, f) ==
    LET old == lib.db[f]
        new == loc[f]
    IN IF new \in Media /\ old \in Media /\ lib.strm[old] # Nowhere
       THEN {[FollowRow(lib, f, old, new) EXCEPT !.strm = files] :
                files \in Unmoved(lib.strm, old, new) \union Unsynced(lib.strm, f, old, new)}
       ELSE {}

Flaws(lib, e) ==
    (CASE e.kind = "create" -> {}
       [] e.kind = "move"   -> MoveFlaws(lib, e.file, e.path)
       [] e.kind = "rename" -> RenameFlaws(lib, e.file)
       [] e.kind = "delete" -> IF options.remove THEN Removals(lib, e.file) ELSE {})
    \ {After(lib, e)}

\* The event handled again does not mend it: a STRM of the file is where neither
\* its row nor the cloud has it; the local move of a row that is at the new path
\* already finds no STRM; or the row is gone, and the note of a transfer that the
\* host writes itself stops the monitor from writing it.
Lost(lib, e) ==
    LET f == e.file
    IN \/ \E q \in Media \ {lib.db[f], loc[f]} : lib.strm[q] = f
       \/ /\ e.kind = "move" /\ options.localMove
          /\ lib.db[f] \in Media /\ lib.db[f] = loc[f] /\ lib.strm[loc[f]] # f
       \/ /\ e.host /\ ~options.transfer /\ f \in lib.arriving
          /\ lib.db[f] # loc[f]
------------------------------------------------------------------------------
Becomes(lib) == /\ strm' = lib.strm /\ db' = lib.db
                /\ arriving' = lib.arriving /\ queued' = lib.queued

\* once_pull up to the request: it waits for the host's transfers, unless they
\* stall, and takes everything the log holds after the cursor.
Pull ==
    /\ thread = "loop" /\ ~stop
    /\ cursor < Len(log)
    /\ IF queued = {} THEN UNCHANGED trouble ELSE Trouble
    /\ thread' = "batch" /\ batch' = Len(log) /\ next' = cursor + 1
    /\ UNCHANGED <<cloud, library, stop, cursor, saved, options, history>>

\* The file went on, another one took its path, or the note that the host would
\* move it is still there when a user does.
Late(e) == \/ \E j \in next+1..Len(log) : log[j].file = e.file
           \/ \E g \in Files \ {e.file} : loc[g] \in {db[e.file], e.path} \cap Paths
           \/ e.file \in arriving /\ ~e.host /\ e.path \notin Waiting

\* A rename without a row takes any STRM at the new path for its own (the row of
\* that one may be gone).
Misled(e) == {f \in {e.file} : /\ e.kind = "rename" /\ db[f] = Nowhere
                               /\ loc[f] \in Media /\ strm[loc[f]] \in torn}

Handle ==
    /\ thread = "batch" /\ next <= batch
    /\ ~Refused(log[next])
    /\ Becomes(After(Library, log[next]))
    /\ done' = done \union {next}
    /\ late' = (late \/ Late(log[next]))
    /\ torn' = torn \union Misled(log[next])
    /\ next' = next + 1
    /\ UNCHANGED <<loc, log, thread, stop, cursor, batch, saved, options, skipped, trouble>>

\* The STRM cannot be moved, written or deleted; the error is logged, the row stays
\* as it is written and the event counts as handled.
HandleBadly ==
    /\ Trouble
    /\ thread = "batch" /\ next <= batch
    /\ ~Refused(log[next])
    /\ \E lib \in Flaws(Library, log[next]) : Becomes(lib)
    /\ done' = done \union {next}
    /\ late' = (late \/ Late(log[next]))
    /\ torn' = torn \union {log[next].file}
    /\ next' = next + 1
    /\ UNCHANGED <<loc, log, thread, stop, cursor, batch, saved, options, skipped>>

BatchEnds ==
    /\ thread = "batch" /\ next > batch
    /\ thread' = "loop"
    /\ cursor' = batch /\ batch' = 0 /\ next' = 1
    /\ UNCHANGED <<cloud, library, stop, saved, options, history, trouble>>

\* Mutant: the cursor follows the events one by one, also past one that raised.
RaisesPastEvent ==
    /\ thread = "batch" /\ next <= batch
    /\ IF Refused(log[next]) THEN UNCHANGED trouble ELSE Trouble
    /\ thread' = IF stop THEN "down" ELSE "loop"
    /\ cursor' = next /\ batch' = 0 /\ next' = 1
    /\ UNCHANGED <<cloud, library, stop, saved, options, history>>

Underway == IF thread = "batch" /\ next <= batch /\ ~Refused(log[next])
            THEN Halves(Library, log[next]) ELSE {}

\* What is left when the handler is broken off.
Leaves(lib) ==
    IF lib.strm = strm /\ lib.db = db THEN UNCHANGED <<done, late, torn>>
    ELSE /\ done' = done \ {next}
         /\ late' = (late \/ Late(log[next]))
         /\ torn' = IF Lost(lib, log[next]) THEN torn \union {log[next].file} ELSE torn

\* A handler raises before it did anything, or between two of its writes.  The
\* batch is dropped with the cursor where it was; a thread that was asked to stop
\* returns without saving.
Raises ==
    /\ thread = "batch" /\ next <= batch
    /\ IF Refused(log[next]) THEN UNCHANGED trouble ELSE Trouble
    /\ \E lib \in {Library} \union Underway : Becomes(lib) /\ Leaves(lib)
    /\ thread' = IF stop THEN "down" ELSE "loop"
    /\ cursor' = IF stop THEN 0 ELSE cursor
    /\ batch' = 0 /\ next' = 1
    /\ UNCHANGED <<loc, log, stop, saved, options, skipped>>

StopRequested ==
    /\ Trouble
    /\ thread # "down" /\ ~stop
    /\ stop' = TRUE
    /\ UNCHANGED <<cloud, library, thread, position, saved, options, history>>

\* The stop is seen between two pulls; only this saves the cursor.
Stops ==
    /\ thread = "loop" /\ stop
    /\ saved' = cursor
    /\ thread' = "down"
    /\ cursor' = 0
    /\ UNCHANGED <<cloud, library, stop, batch, next, options, history, trouble>>

\* The process is killed, maybe inside a handler: plugin data, rows and STRM files
\* stay as they are.
Crash ==
    /\ Trouble
    /\ thread # "down"
    /\ \E lib \in {Library} \union Underway :
          /\ strm' = lib.strm /\ db' = lib.db
          /\ Leaves([lib EXCEPT !.arriving = {}])
    /\ thread' = "down" /\ stop' = FALSE
    /\ cursor' = 0 /\ batch' = 0 /\ next' = 1
    /\ arriving' = {} /\ queued' = {}
    /\ UNCHANGED <<loc, log, saved, options, skipped>>

From == CASE options.mode = "all" -> 0
          [] options.mode = "last" /\ saved # Nowhere -> saved
          [] OTHER -> Len(log)

\* The thread is started again, by init_plugin or by the guard.
Starts ==
    /\ thread = "down"
    /\ thread' = "loop" /\ stop' = FALSE
    /\ cursor' = From
    /\ skipped' = skipped \union ((1..From) \ done)
    /\ UNCHANGED <<cloud, library, batch, next, saved, options, done, late, torn, trouble>>

\* A refused event raises again and again, so a thread stays fair by raising.
Monitor == Pull \/ Handle \/ HandleBadly \/ BatchEnds \/ Stops \/ Starts \/ Raises
Host == \E f \in Files : HostTransfers(f)

Next == User \/ Host \/ Monitor \/ StopRequested \/ Crash

Spec == Init /\ [][Next]_vars

FairSpec == Spec /\ WF_vars(Monitor) /\ WF_vars(Host)
------------------------------------------------------------------------------
\* Everything in the log has been handled and nothing was handled too late.
CaughtUp == /\ thread = "loop" /\ cursor = Len(log) /\ queued = {}
            /\ DOMAIN log \subseteq done /\ ~late

\* However events are handled twice - after a crash, a stop, a handler that
\* raised - and whatever the host moves in between, a monitor that has caught up
\* leaves a library in which a file has its STRM where it is in the cloud, and only
\* there.  `late` (see Late) and, file by file, `torn` name the only excuses: a
\* handler broken off where handling again does not mend it (see Lost), or one that
\* swallowed the error of a STRM.  Without the "remove" mode the STRM of deleted
\* files are meant to stay.
Mirror == CaughtUp /\ options.remove =>
    \A f \in Files \ torn, p \in Media : strm[p] = f <=> loc[f] = p

\* The cursor never passes an event that was not handled to the end, except those
\* a start leaves out on purpose.
NothingForgotten == thread # "down" => 1..cursor \subseteq done \union skipped

\* "last 模式，从上次停止时间拉取后续数据": once a stop has saved the cursor, no later
\* start leaves anything out, also after stops that did not save and crashes.
KnownCursorKeeps ==
    [][saved # Nowhere /\ options.mode = "last" => skipped' = skipped]_vars

\* "重命名本地文件/生成新STRM;更新数据库": a rename is handled in the end, and so is
\* what comes after it.
EveryEventEnds ==
    \A i \in 1..MaxEvents : Len(log) >= i ~> i \in done \union skipped
=============================================================================
