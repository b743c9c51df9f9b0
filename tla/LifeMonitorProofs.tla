------------------------- MODULE LifeMonitorProofs -------------------------
(***************************************************************************)
(* For every number of files, paths, events and faults, and every          *)
(* combination of options: the cursor never passes an event that was not   *)
(* handled, nothing lies forgotten behind a cursor that was saved, and a   *)
(* monitor that has caught up in time leaves a library that mirrors the    *)
(* cloud, file by file, but for those that an error or a crash tore.       *)
(*                                                                         *)
(* The last rests on a condition (Hope) that holds in every state from     *)
(* which the monitor may still catch up in time, and that no step brings   *)
(* back once it is lost.  While it holds, each path has one row, the STRM  *)
(* of a file that is not torn is where its row or the cloud has the file,  *)
(* its last event finds what it has to mend (Kept), and a row that is      *)
(* behind the cloud waits for an event that is handled before that of      *)
(* whoever took the path.  A handler, broken off or not, then writes what  *)
(* belongs to its file only (Tame).                                        *)
(***************************************************************************)
EXTENDS LifeMonitor, TLAPS

\* What is behind a position was handled to the end, or left out by a start.
Behind(n) == 1..n \subseteq done \union skipped

\* The events of the batch in hand come right after the cursor, and those before
\* `next` are done.
Position ==
    /\ cursor \in Nat /\ batch \in Nat /\ next \in Nat
    /\ thread \in {"down", "loop", "batch"}
    /\ thread = "batch" => /\ cursor < next /\ next <= batch + 1
                           /\ cursor+1..next-1 \subseteq done

\* A saved cursor counts in the "last" mode only.
SavedBehind == options.mode = "last" /\ saved # Nowhere => saved \in Nat /\ Behind(saved)
SavedEarlier == options.mode = "last" /\ saved # Nowhere /\ thread # "down" => saved <= cursor

LogOfEvents == log \in Seq(Event)

IInv == LogOfEvents /\ Position /\ NothingForgotten /\ SavedBehind /\ SavedEarlier
------------------------------------------------------------------------------
LEMMA InitInv == Init => IInv
<1> SUFFICES ASSUME Init PROVE IInv
  OBVIOUS
<1>1. 1..0 = {} /\ <<>> \in Seq(Event)
  OBVIOUS
<1> QED
  BY <1>1 DEF Init, IInv, LogOfEvents, Position, NothingForgotten, SavedBehind, SavedEarlier

\* The account and the host only append to the log.
LEMMA LogsInv ==
    ASSUME IInv, NEW f \in Files, NEW kind \in {"create", "move", "rename", "delete"},
           NEW to \in Paths \union {Nowhere}, NEW byHost \in BOOLEAN,
           Logs(f, kind, to, byHost)
    PROVE  LogOfEvents'
<1> DEFINE e == [kind |-> kind, file |-> f, host |-> byHost,
                 path |-> IF kind \in {"create", "move"} THEN to ELSE Nowhere]
<1>1. e \in Event
  BY DEF Event
<1>2. log' = Append(log, e) /\ log \in Seq(Event)
  BY DEF Logs, IInv, LogOfEvents
<1> HIDE DEF e
<1> QED
  BY <1>1, <1>2 DEF LogOfEvents

\* Steps that leave the thread, its position and what it has done alone.
LEMMA OutsideInv ==
    ASSUME IInv, LogOfEvents', UNCHANGED <<thread, position, saved, options, done, skipped>>
    PROVE  IInv'
BY DEF IInv, Position, NothingForgotten, SavedBehind, SavedEarlier, Behind, position

LEMMA UserInv == ASSUME IInv, User PROVE IInv'
<1>1. PICK f \in Files : Upload(f) \/ Move(f) \/ Rename(f) \/ Delete(f)
  BY DEF User
<1>2. PICK kind \in {"create", "move", "rename", "delete"}, to \in Paths \union {Nowhere} :
        UserDoes(f, kind, to)
  BY <1>1 DEF Upload, Move, Rename, Delete, Paths
<1>3. Logs(f, kind, to, FALSE) /\ UNCHANGED <<thread, position, saved, options, done, skipped>>
  BY <1>2 DEF UserDoes, history
<1>4. LogOfEvents'
  BY <1>3, LogsInv
<1> QED
  BY <1>3, <1>4, OutsideInv

LEMMA HostInv == ASSUME IInv, Host PROVE IInv'
<1>1. PICK f \in Files : HostTransfers(f)
  BY DEF Host
<1>2. UNCHANGED <<thread, position, saved, options, done, skipped>>
  BY <1>1 DEF HostTransfers, history
<1>3. LogOfEvents'
  <2>1. CASE log' = log
    BY <2>1 DEF IInv, LogOfEvents
  <2>2. CASE \E to \in Media : Logs(f, "move", to, TRUE)
    BY <2>2, LogsInv DEF Paths
  <2> QED
    BY <1>1, <2>1, <2>2 DEF HostTransfers
<1> QED
  BY <1>2, <1>3, OutsideInv

\* What the steps that handle an event have in common, with and without an error.
LEMMA HandlesDo ==
    ASSUME Handle \/ HandleBadly
    PROVE  /\ thread = "batch" /\ next <= batch /\ ~Refused(log[next])
           /\ thread' = thread /\ log' = log /\ loc' = loc /\ cursor' = cursor /\ batch' = batch
           /\ saved' = saved /\ stop' = stop /\ options' = options /\ skipped' = skipped
           /\ done' = done \union {next} /\ next' = next + 1
           /\ late' = (late \/ Late(log[next])) /\ (trouble' = trouble \/ Trouble)
BY DEF Handle, HandleBadly

\* A handler that is broken off leaves its event to be handled again.
LEMMA BreaksOff ==
    ASSUME Raises \/ Crash
    PROVE  /\ thread # "down" /\ log' = log /\ loc' = loc /\ options' = options
           /\ saved' = saved /\ skipped' = skipped
           /\ thread' = "down" \/ (thread' = "loop" /\ cursor' = cursor)
           /\ \/ done' = done /\ late' = late
              \/ /\ thread = "batch" /\ next <= batch /\ done' = done \ {next}
                 /\ late' = (late \/ Late(log[next]))
<1>1. PICK lib : /\ lib \in {Library} \union Underway
                 /\ Leaves(lib) \/ Leaves([lib EXCEPT !.arriving = {}])
  BY DEF Raises, Crash
<1>2. /\ Library.strm = strm /\ Library.db = db
      /\ [Library EXCEPT !.arriving = {}].strm = strm /\ [Library EXCEPT !.arriving = {}].db = db
  BY DEF Library
<1>3. /\ lib = Library => UNCHANGED <<done, late>>
      /\ UNCHANGED <<done, late>> \/ (done' = done \ {next} /\ late' = (late \/ Late(log[next])))
  BY <1>1, <1>2 DEF Leaves
<1>4. lib # Library => thread = "batch" /\ next <= batch
  BY <1>1 DEF Underway
<1>5. /\ thread # "down" /\ log' = log /\ loc' = loc /\ options' = options
      /\ saved' = saved /\ skipped' = skipped
      /\ thread' = "down" \/ (thread' = "loop" /\ cursor' = cursor)
  <2>1. CASE Raises
    BY <2>1 DEF Raises
  <2>2. CASE Crash
    BY <2>2 DEF Crash
  <2> QED
    BY <2>1, <2>2
<1> QED
  BY <1>3, <1>4, <1>5

\* The batch begins right after the cursor.
LEMMA PullInv == ASSUME IInv, Pull PROVE IInv'
<1> USE DEF Pull, IInv
<1>1. Len(log) \in Nat /\ cursor \in Nat /\ cursor+1..(cursor+1)-1 = {}
  BY DEF LogOfEvents, Position
<1>2. Position'
  BY <1>1 DEF Position
<1>3. LogOfEvents' /\ NothingForgotten' /\ SavedBehind' /\ SavedEarlier'
  BY DEF LogOfEvents, NothingForgotten, SavedBehind, SavedEarlier, Behind, history, cloud
<1> QED
  BY <1>2, <1>3

LEMMA HandleInv == ASSUME IInv, Handle \/ HandleBadly PROVE IInv'
<1> USE DEF IInv
<1>1. /\ cursor \in Nat /\ next \in Nat /\ batch \in Nat /\ cursor < next /\ next <= batch
      /\ cursor+1..next-1 \subseteq done
  BY HandlesDo DEF Position
<1>2. \A i \in cursor+1..(next+1)-1 : i = next \/ i \in cursor+1..next-1
  BY <1>1
<1>3. Position'
  BY <1>1, <1>2, HandlesDo DEF Position
<1>4. LogOfEvents' /\ NothingForgotten' /\ SavedBehind' /\ SavedEarlier'
  BY <1>1, HandlesDo DEF LogOfEvents, NothingForgotten, SavedBehind, SavedEarlier, Behind
<1> QED
  BY <1>3, <1>4

\* The cursor goes over the batch only when all of it is done.
LEMMA BatchEndsInv == ASSUME IInv, BatchEnds PROVE IInv'
<1> USE DEF BatchEnds, IInv
<1>1. /\ cursor \in Nat /\ batch \in Nat /\ next = batch + 1 /\ cursor <= batch
      /\ cursor+1..next-1 \subseteq done /\ 1..cursor \subseteq done \union skipped
  BY DEF Position, NothingForgotten
<1>2. \A i \in 1..batch : i \in 1..cursor \/ i \in cursor+1..next-1
  BY <1>1
<1>3. Position' /\ NothingForgotten'
  BY <1>1, <1>2 DEF Position, NothingForgotten, history
<1>4. LogOfEvents' /\ SavedBehind' /\ SavedEarlier'
  BY <1>1 DEF LogOfEvents, SavedBehind, SavedEarlier, Behind, history, cloud
<1> QED
  BY <1>3, <1>4

\* A batch that is broken off is forgotten; its event is after the cursor, and after
\* a cursor that was saved.
LEMMA BreaksInv == ASSUME IInv, Raises \/ Crash PROVE IInv'
<1> USE DEF IInv
<1>1. /\ thread # "down" /\ log' = log /\ options' = options /\ saved' = saved /\ skipped' = skipped
      /\ thread' = "down" \/ (thread' = "loop" /\ cursor' = cursor)
      /\ done' = done \/ (thread = "batch" /\ next <= batch /\ done' = done \ {next})
  BY BreaksOff
<1>2. cursor' \in Nat /\ batch' \in Nat /\ next' \in Nat /\ cursor \in Nat /\ next \in Nat
      /\ (thread = "batch" => cursor < next)
  BY DEF Raises, Crash, Position
<1>3. Position'
  BY <1>1, <1>2 DEF Position
<1>4. NothingForgotten'
  <2>1. thread = "batch" => next \notin 1..cursor
    BY <1>2
  <2> QED
    BY <1>1, <2>1 DEF NothingForgotten
<1>5. SavedBehind' /\ SavedEarlier' /\ LogOfEvents'
  <2>1. options.mode = "last" /\ saved # Nowhere => saved \in Nat /\ saved <= cursor /\ Behind(saved)
    BY <1>1 DEF SavedBehind, SavedEarlier
  <2>2. thread = "batch" /\ options.mode = "last" /\ saved # Nowhere => next \notin 1..saved
    BY <1>2, <2>1
  <2> QED
    BY <1>1, <2>1, <2>2 DEF SavedBehind, SavedEarlier, Behind, LogOfEvents
<1> QED
  BY <1>3, <1>4, <1>5

LEMMA StopsInv == ASSUME IInv, Stops \/ StopRequested PROVE IInv'
<1> USE DEF Stops, StopRequested, IInv
<1>1. Position' /\ NothingForgotten'
  BY DEF Position, NothingForgotten, position, history
<1>2. LogOfEvents'
  BY DEF LogOfEvents, cloud
<1>3. SavedBehind' /\ SavedEarlier'
  BY DEF Position, NothingForgotten, SavedBehind, SavedEarlier, Behind, history, position
<1> QED
  BY <1>1, <1>2, <1>3

LEMMA StartsInv == ASSUME IInv, Starts PROVE IInv'
<1> USE DEF Starts, IInv
<1>1. Len(log) \in Nat
  BY DEF LogOfEvents
<1>2. From \in Nat /\ (options.mode = "last" /\ saved # Nowhere => From = saved)
  BY <1>1 DEF From, SavedBehind
<1>3. Position' /\ NothingForgotten'
  BY <1>2 DEF Position, NothingForgotten
<1>4. LogOfEvents' /\ SavedBehind' /\ SavedEarlier'
  BY <1>2 DEF LogOfEvents, SavedBehind, SavedEarlier, Behind, cloud
<1> QED
  BY <1>3, <1>4

LEMMA StepInv == IInv /\ [Next]_vars => IInv'
<1> SUFFICES ASSUME IInv, [Next]_vars PROVE IInv'
  OBVIOUS
<1>1. CASE UNCHANGED vars
  BY <1>1, OutsideInv DEF vars, cloud, history, IInv, LogOfEvents
<1> QED
  BY <1>1, UserInv, HostInv, PullInv, HandleInv, BatchEndsInv, BreaksInv, StopsInv, StartsInv
     DEF Next, Monitor

\* Every step of the monitor, the cloud and its user keeps what the parts of IInv
\* say of cursor, batch and progress.
THEOREM Invariance == Spec => []IInv
<1> QED
  BY InitInv, StepInv, PTL DEF Spec

\* The cursor never passes an event that was not handled to the end, except those
\* a start leaves out: whatever raises, stops, crashes and starts there are.
THEOREM NothingIsForgotten == Spec => []NothingForgotten
<1>1. IInv => NothingForgotten
  BY DEF IInv
<1> QED
  BY <1>1, Invariance, PTL

\* From a saved cursor a start in the "last" mode leaves nothing out.
THEOREM SavedCursorKeeps == Spec => KnownCursorKeeps
<1> DEFINE Keeps == saved # Nowhere /\ options.mode = "last" => skipped' = skipped
<1>1. IInv /\ [Next]_vars => [Keeps]_vars
  <2> SUFFICES ASSUME IInv, Next, saved # Nowhere, options.mode = "last"
               PROVE  skipped' = skipped
    BY DEF Keeps
  <2>1. CASE Starts
    <3>1. From = saved /\ 1..saved \subseteq done \union skipped
      BY DEF From, IInv, SavedBehind, Behind
    <3> QED
      BY <2>1, <3>1 DEF Starts
  <2>2. CASE User
    BY <2>2 DEF User, Upload, Move, Rename, Delete, UserDoes, history
  <2>3. CASE Host
    BY <2>3 DEF Host, HostTransfers, history
  <2>4. CASE Pull \/ Handle \/ HandleBadly \/ BatchEnds \/ Stops \/ Raises \/ StopRequested \/ Crash
    BY <2>4 DEF Pull, Handle, HandleBadly, BatchEnds, Stops, Raises, StopRequested, Crash, history
  <2> QED
    BY <2>1, <2>2, <2>3, <2>4 DEF Next, Monitor
<1> QED
  BY <1>1, Invariance, PTL DEF Spec, KnownCursorKeeps, Keeps

------------------------------------------------------------------------------
(* The types.                                                              *)

\* What the thread counts are positions of the log.
InLog ==
    /\ cursor <= Len(log) /\ batch <= Len(log) /\ (thread = "batch" => next <= batch + 1)
    /\ saved \in (0..Len(log)) \union {Nowhere}
    /\ done \subseteq 1..Len(log) /\ skipped \subseteq 1..Len(log)

TInv == TypeOK /\ InLog

Table == [Files -> Paths \union {Nowhere}]
Strms == [Media -> Files \union {Nowhere}]
Libraries == [strm : Strms, db : Table, arriving : SUBSET Files, queued : SUBSET Files]

\* A row is keyed by its file, and takes its path from any other.
LEMMA RecordType ==
    ASSUME NEW d \in Table, NEW f \in Files, NEW p \in Paths \union {Nowhere}
    PROVE  Record(d, f, p) \in Table /\ Unrecord(d, p) \in Table
BY DEF Record, Unrecord, Table

\* A library is a record of STRM files, rows and lists, and what is written in one of them
\* keeps it so.
LEMMA LibraryParts ==
    ASSUME NEW lib \in Libraries
    PROVE  /\ lib.strm \in Strms /\ lib.db \in Table
           /\ \A d \in Table : [lib EXCEPT !.db = d] \in Libraries
           /\ \A s \in Strms : [lib EXCEPT !.strm = s] \in Libraries
           /\ \A a \in SUBSET Files : [lib EXCEPT !.arriving = a] \in Libraries
BY DEF Libraries

\* _create, with the cache of the host's transfers, and media_transfer.
LEMMA CreateType ==
    ASSUME NEW lib \in Libraries, NEW f \in Files, NEW p \in Paths \union {Nowhere}
    PROVE  /\ CreateRow(lib, f, p) \in Libraries /\ Create(lib, f, p) \in Libraries
           /\ GuardedCreate(lib, f, p) \in Libraries /\ MediaTransfer(lib, f) \in Libraries
<1>1. ASSUME NEW l \in Libraries PROVE CreateRow(l, f, p) \in Libraries /\ Create(l, f, p) \in Libraries
  <2>1. CreateRow(l, f, p) \in Libraries
    BY RecordType, LibraryParts DEF CreateRow
  <2>2. CASE p \in Media
    <3> DEFINE row == CreateRow(l, f, p)
    <3>1. Create(l, f, p) = [row EXCEPT !.strm = [row.strm EXCEPT ![p] = f]]
      BY <2>1, <2>2 DEF Create, Libraries
    <3>2. [row.strm EXCEPT ![p] = f] \in Strms
      BY <2>1 DEF Libraries, Strms
    <3> QED
      BY <2>1, <3>1, <3>2, LibraryParts
  <2> QED
    BY <2>1, <2>2 DEF Create
<1>2. [lib EXCEPT !.arriving = @ \ {f}] \in Libraries
  BY DEF Libraries
<1>3. GuardedCreate(lib, f, p) \in Libraries
  BY <1>1, <1>2 DEF GuardedCreate
<1>4. MediaTransfer(lib, f) \in Libraries
  BY DEF MediaTransfer, Libraries, Table
<1> QED
  BY <1>1, <1>3, <1>4

\* remove.
LEMMA RemoveType ==
    ASSUME NEW lib \in Libraries, NEW f \in Files
    PROVE  Remove(lib, f) \in Libraries
<1> DEFINE p == lib.db[f]
           there == {x \in Files : loc[x] = p}
           g == CHOOSE x \in there : TRUE
<1>1. lib.db \in Table /\ lib.strm \in Strms /\ p \in Paths \union {Nowhere}
  BY DEF Libraries, Table
<1>2. Remove(lib, f) = IF p \notin Media THEN lib
                       ELSE IF there # {} THEN [lib EXCEPT !.db = Record(Unrecord(lib.db, p), g, p)]
                       ELSE [lib EXCEPT !.db = Unrecord(lib.db, p), !.strm[p] = Nowhere]
  BY Zenon DEF Remove
<1>3. there # {} => Record(Unrecord(lib.db, p), g, p) \in Table
  BY <1>1, RecordType
<1>4. Unrecord(lib.db, p) \in Table /\ (p \in Media => [lib.strm EXCEPT ![p] = Nowhere] \in Strms)
  BY <1>1, RecordType DEF Strms
<1> HIDE DEF there, g, p
<1>5. CASE p \in Media /\ there # {}
  BY <1>2, <1>3, <1>5, LibraryParts
<1>6. CASE p \in Media /\ there = {}
  BY <1>2, <1>4, <1>6 DEF Libraries
<1>7. CASE p \notin Media
  BY <1>2, <1>7
<1> QED
  BY <1>5, <1>6, <1>7

\* The local move of a file within the library.
LEMMA LocallyMovedType ==
    ASSUME NEW lib \in Libraries, NEW f \in Files, NEW old \in Media, NEW new \in Media
    PROVE  LocallyMoved(lib, f, old, new) \in Libraries
<1>1. /\ [lib.strm EXCEPT ![old] = IF old = new THEN f ELSE Nowhere, ![new] = f] \in Strms
      /\ Record(lib.db, f, new) \in Table
  BY RecordType DEF Libraries, Strms, Paths
<1> QED
  BY <1>1 DEF LocallyMoved, Libraries

\* A library whose cache of the host's transfers holds no more than a.
Noting(a) == {l \in Libraries : l.arriving \subseteq a}

\* Broken off, the parts of the handlers leave libraries too.
LEMMA PartsType ==
    ASSUME NEW lib \in Libraries, NEW f \in Files, NEW p \in Paths \union {Nowhere}
    PROVE  /\ RowRemoved(lib, f) \in Noting(lib.arriving)
           /\ Removals(lib, f) \subseteq Noting(lib.arriving)
           /\ CreateRow(lib, f, p) \in Noting(lib.arriving)
           /\ CreateHalves(lib, f, p) \subseteq Noting(lib.arriving)
           /\ TransferHalves(lib, f) \subseteq Noting(lib.arriving \union {f})
<1>1. lib.db \in Table /\ lib.strm \in Strms /\ lib.db[f] \in Paths \union {Nowhere}
      /\ lib.arriving \subseteq Files
  BY DEF Libraries, Table
<1>2. /\ \A d \in Table : [lib EXCEPT !.db = d] \in Noting(lib.arriving)
      /\ lib \in Noting(lib.arriving)
  BY DEF Libraries, Noting
<1>3. RowRemoved(lib, f) \in Noting(lib.arriving)
  <2>1. Unrecord(lib.db, lib.db[f]) \in Table
    BY <1>1, RecordType
  <2> QED
    BY <1>2, <2>1 DEF RowRemoved
<1>4. Remove(lib, f) \in Noting(lib.arriving)
  <2> DEFINE there == {x \in Files : loc[x] = lib.db[f]}
             g == CHOOSE x \in there : TRUE
  <2>1. Remove(lib, f) = IF lib.db[f] \notin Media THEN lib
                         ELSE IF there # {}
                         THEN [lib EXCEPT !.db = Record(Unrecord(lib.db, lib.db[f]), g, lib.db[f])]
                         ELSE [lib EXCEPT !.db = Unrecord(lib.db, lib.db[f]), !.strm[lib.db[f]] = Nowhere]
    BY Zenon DEF Remove
  <2>2. Remove(lib, f) \in Libraries
    BY RemoveType
  <2> HIDE DEF there, g
  <2>3. Remove(lib, f).arriving = lib.arriving
    BY <2>1 DEF Libraries
  <2> QED
    BY <2>2, <2>3 DEF Noting
<1>5. Removals(lib, f) \subseteq Noting(lib.arriving)
  BY <1>3, <1>4 DEF Removals
<1>6. ASSUME NEW l \in Noting(lib.arriving) PROVE CreateRow(l, f, p) \in Noting(lib.arriving)
  <2>1. l \in Libraries /\ l.arriving \subseteq lib.arriving
    BY DEF Noting
  <2>2. CreateRow(l, f, p) \in Libraries
    BY <2>1, CreateType
  <2>3. CreateRow(l, f, p).arriving = l.arriving
    BY <2>1 DEF CreateRow, Libraries
  <2> QED
    BY <2>1, <2>2, <2>3 DEF Noting
<1>7. CreateHalves(lib, f, p) \subseteq Noting(lib.arriving)
  <2>1. [lib EXCEPT !.arriving = @ \ {f}] \in Noting(lib.arriving)
    BY DEF Libraries, Noting
  <2> QED
    BY <1>2, <1>6, <2>1 DEF CreateHalves
<1>8. TransferHalves(lib, f) \subseteq Noting(lib.arriving \union {f})
  <2>1. /\ [lib EXCEPT !.db[f] = Nowhere] \in Libraries
        /\ [lib EXCEPT !.db[f] = Nowhere].arriving = lib.arriving
    BY DEF Libraries, Table
  <2>2. [[lib EXCEPT !.db[f] = Nowhere] EXCEPT !.arriving = @ \union {f}]
          \in Noting(lib.arriving \union {f})
    BY <2>1 DEF Libraries, Noting
  <2> QED
    BY <2>1, <2>2 DEF TransferHalves, Noting
<1> QED
  BY <1>2, <1>3, <1>5, <1>6, <1>7, <1>8

\* STRM files that an error left behind.
LEMMA StrmsType ==
    ASSUME NEW files \in Strms, NEW f \in Files, NEW old \in Media, NEW new \in Media
    PROVE  Unmoved(files, old, new) \subseteq Strms /\ Unsynced(files, f, old, new) \subseteq Strms
BY DEF Unmoved, Unsynced, Strms

\* The row of a file that is renamed.
LEMMA FollowRowType ==
    ASSUME NEW lib \in Libraries, NEW f \in Files, NEW old, NEW new \in Paths \union {Nowhere}
    PROVE  /\ FollowRow(lib, f, old, new) \in Libraries
           /\ FollowRow(lib, f, old, new).strm = lib.strm
           /\ FollowRow(lib, f, old, new).arriving = lib.arriving
BY DEF FollowRow, Libraries, Table

\* The cache of transfers after an event: a file is noted when it waits for the host.
Noted(lib, e) ==
    IF loc[e.file] \in Media /\ (e.kind \in {"create", "move"} => e.path = loc[e.file])
    THEN lib.arriving ELSE lib.arriving \union {e.file}

\* Where a move may be broken off.
LEMMA MoveHalvesAre ==
    ASSUME NEW lib, NEW f, NEW p, NEW l \in MoveHalves(lib, f, p)
    PROVE  \/ /\ p \in Waiting
              /\ \/ l = RowRemoved(lib, f)
                 \/ \E gone \in Removals(lib, f) : l = gone \/ l \in TransferHalves(gone, f)
           \/ /\ p \in Media /\ lib.db[f] \in Media /\ options.localMove
              /\ \E s \in Unmoved(lib.strm, lib.db[f], p) \union Unsynced(lib.strm, f, lib.db[f], p)
                          \union {LocallyMoved(lib, f, lib.db[f], p).strm} :
                    l = [lib EXCEPT !.strm = s]
           \/ /\ p \notin Waiting /\ ~(p \in Media /\ lib.db[f] \in Media /\ options.localMove)
              /\ \/ l = RowRemoved(lib, f)
                 \/ \E gone \in Removals(lib, f) : l \in CreateHalves(gone, f, p)
<1> DEFINE old == lib.db[f]
<1>1. CASE p \in Waiting
  <2>1. MoveHalves(lib, f, p) =
          {RowRemoved(lib, f)} \union
          UNION {{gone} \union TransferHalves(gone, f) : gone \in Removals(lib, f)}
    BY <1>1, PathsDiffer DEF MoveHalves
  <2> QED
    BY <1>1, <2>1, Zenon
<1>2. CASE p \in Media /\ old \in Media /\ options.localMove
  <2>1. MoveHalves(lib, f, p) =
          {[lib EXCEPT !.strm = s] :
              s \in Unmoved(lib.strm, old, p) \union Unsynced(lib.strm, f, old, p)
                    \union {LocallyMoved(lib, f, old, p).strm}}
    BY <1>2, PathsDiffer DEF MoveHalves
  <2> QED
    BY <1>2, <2>1, Zenon
<1>3. CASE p \notin Waiting /\ ~(p \in Media /\ old \in Media /\ options.localMove)
  <2>1. \/ MoveHalves(lib, f, p) = {RowRemoved(lib, f)}
        \/ MoveHalves(lib, f, p) =
             {RowRemoved(lib, f)} \union
             UNION {CreateHalves(gone, f, p) : gone \in Removals(lib, f)}
    BY <1>3, PathsDiffer DEF MoveHalves
  <2> QED
    BY <1>3, <2>1, Zenon
<1> QED
  BY <1>1, <1>2, <1>3

\* What a handler leaves when it is broken off.
LEMMA HalvesType ==
    ASSUME TypeOK, NEW lib \in Libraries, NEW e \in Event
    PROVE  Halves(lib, e) \subseteq Noting(Noted(lib, e))
<1> DEFINE f == e.file
           p == e.path
           old == lib.db[f]
           new == loc[f]
           named == FollowRow(lib, f, old, new)
           N == Noting(Noted(lib, e))
<1>1. /\ f \in Files /\ p \in Paths \union {Nowhere} /\ old \in Paths \union {Nowhere}
      /\ new \in Paths \union {Nowhere} /\ lib.strm \in Strms
      /\ Paths = Media \union Waiting \union Other
  BY DEF Event, TypeOK, Libraries, Table, Paths
<1>2. /\ \A l \in Noting(lib.arriving) : l \in N
      /\ e.kind \in {"create", "move"} /\ p \in Waiting =>
            \A l \in Noting(lib.arriving \union {f}) : l \in N
      /\ new \in Waiting => \A l \in Noting(lib.arriving \union {f}) : l \in N
  BY PathsDiffer DEF Noting, Noted
<1>3. \A s \in Strms : /\ [lib EXCEPT !.strm = s] \in Noting(lib.arriving)
                       /\ [named EXCEPT !.strm = s] \in Noting(lib.arriving)
  BY <1>1, FollowRowType DEF Libraries, Noting
<1>4. /\ RowRemoved(lib, f) \in Noting(lib.arriving)
      /\ CreateHalves(lib, f, p) \subseteq Noting(lib.arriving)
      /\ TransferHalves(lib, f) \subseteq Noting(lib.arriving \union {f})
  BY <1>1, PartsType
<1>10. ASSUME NEW gone \in Removals(lib, f)
       PROVE  /\ gone \in Noting(lib.arriving)
              /\ CreateHalves(gone, f, p) \subseteq Noting(lib.arriving)
              /\ TransferHalves(gone, f) \subseteq Noting(lib.arriving \union {f})
  <2>1. gone \in Noting(lib.arriving)
    BY <1>1, PartsType
  <2>2. gone \in Libraries /\ gone.arriving \subseteq lib.arriving
    BY <2>1 DEF Noting
  <2>3. /\ CreateHalves(gone, f, p) \subseteq Noting(gone.arriving)
        /\ TransferHalves(gone, f) \subseteq Noting(gone.arriving \union {f})
    BY <1>1, <2>2, PartsType
  <2>4. /\ Noting(gone.arriving) \subseteq Noting(lib.arriving)
        /\ Noting(gone.arriving \union {f}) \subseteq Noting(lib.arriving \union {f})
    BY <2>2 DEF Noting
  <2> QED
    BY <2>1, <2>3, <2>4
<1> HIDE DEF N, named, f, p, old, new
<1>5. e.kind = "move" => MoveHalves(lib, f, p) \subseteq N
  <2> SUFFICES ASSUME e.kind = "move", NEW l \in MoveHalves(lib, f, p) PROVE l \in N
    OBVIOUS
  <2>1. ASSUME p \in Waiting,
               \/ l = RowRemoved(lib, f)
               \/ \E gone \in Removals(lib, f) : l = gone \/ l \in TransferHalves(gone, f)
        PROVE  l \in N
    <3>1. l \in Noting(lib.arriving) \/ l \in Noting(lib.arriving \union {f})
      BY <1>4, <1>10, <2>1
    <3> QED
      BY <1>2, <2>1, <3>1
  <2>2. ASSUME p \in Media, old \in Media,
               NEW s \in Unmoved(lib.strm, old, p) \union Unsynced(lib.strm, f, old, p)
                         \union {LocallyMoved(lib, f, old, p).strm},
               l = [lib EXCEPT !.strm = s]
        PROVE  l \in N
    <3>1. LocallyMoved(lib, f, old, p).strm \in Strms
      BY <1>1, <2>2, LocallyMovedType DEF Libraries
    <3>2. s \in Strms
      BY <1>1, <2>2, <3>1, StrmsType
    <3> QED
      BY <1>2, <1>3, <2>2, <3>2
  <2>3. ASSUME \/ l = RowRemoved(lib, f)
               \/ \E gone \in Removals(lib, f) : l \in CreateHalves(gone, f, p)
        PROVE  l \in N
    BY <1>2, <1>4, <1>10, <2>3
  <2> QED
    BY <2>1, <2>2, <2>3, MoveHalvesAre DEF old
<1>6. RenameHalves(lib, f) \subseteq N
  <2>1. /\ named \in Noting(lib.arriving) /\ TransferHalves(named, f) \subseteq Noting(lib.arriving \union {f})
        /\ CreateRow(named, f, new) \in Noting(lib.arriving)
    BY <1>1, FollowRowType, PartsType DEF Noting, named
  <2>2. old \in Media /\ new \in Media =>
          \A s \in Unmoved(lib.strm, old, new) \union Unsynced(lib.strm, f, old, new) : s \in Strms
    BY <1>1, StrmsType
  <2> QED
    BY <1>1, <1>2, <1>3, <2>1, <2>2 DEF RenameHalves, named, old, new
<1>7. e.kind \in {"create", "move", "rename", "delete"}
  BY DEF Event
<1>8. e.kind = "create" => Halves(lib, e) \subseteq N
  BY <1>2, <1>4 DEF Halves, f, p
<1>9. e.kind \in {"move", "rename", "delete"} => Halves(lib, e) \subseteq N
  BY <1>2, <1>4, <1>5, <1>6 DEF Halves, f, p
<1> QED
  BY <1>7, <1>8, <1>9 DEF N

\* move, after whatever remove() left.
LEMMA MoveAfterType ==
    ASSUME NEW lib \in Libraries, NEW gone \in Libraries, NEW f \in Files,
           NEW p \in Paths \union {Nowhere}
    PROVE  MoveAfter(lib, gone, f, p) \in Libraries
<1>1. MediaTransfer(gone, f) \in Libraries /\ GuardedCreate(lib, f, p) \in Libraries
      /\ GuardedCreate(gone, f, p) \in Libraries
  BY CreateType
<1>2. lib.db[f] \in Media /\ p \in Media => LocallyMoved(lib, f, lib.db[f], p) \in Libraries
  BY LocallyMovedType
<1> QED
  BY <1>1, <1>2 DEF MoveAfter

\* Every handler returns a library.
LEMMA AfterType ==
    ASSUME TypeOK, NEW lib \in Libraries, NEW e \in Event
    PROVE  After(lib, e) \in Libraries
<1> DEFINE f == e.file
           p == e.path
           old == lib.db[f]
           new == loc[f]
<1>1. /\ f \in Files /\ p \in Paths \union {Nowhere} /\ old \in Paths \union {Nowhere}
      /\ new \in Paths \union {Nowhere} /\ lib.db \in Table /\ lib.strm \in Strms
      /\ Paths = Media \union Waiting \union Other
  BY DEF Event, TypeOK, Libraries, Table, Paths
<1>2. HandleCreate(lib, f, p) \in Libraries
  BY <1>1, CreateType DEF HandleCreate
<1>3. Remove(lib, f) \in Libraries
  BY <1>1, RemoveType
<1>4. HandleMove(lib, f, p) \in Libraries
  BY <1>1, <1>3, MoveAfterType DEF HandleMove
<1>5. HandleRename(lib, f) \in Libraries
  <2> DEFINE named == FollowRow(lib, f, old, new)
  <2>1. named \in Libraries
    BY <1>1 DEF FollowRow, Libraries, Table
  <2>2. named.strm = lib.strm
    BY <1>1 DEF FollowRow, Libraries
  <2>3. MediaTransfer(named, f) \in Libraries /\ Create(named, f, new) \in Libraries
    BY <1>1, <2>1, CreateType
  <2>4. old \in Media /\ new \in Media =>
          [named EXCEPT !.strm = [[@ EXCEPT ![old] = Nowhere] EXCEPT ![new] = f]] \in Libraries
    BY <1>1, <2>1 DEF Libraries, Strms
  <2>5. new \in {Nowhere} \union Waiting \union Other \union Media
    BY <1>1
  <2> QED
    BY <2>1, <2>3, <2>4, <2>5 DEF HandleRename
<1> QED
  BY <1>2, <1>3, <1>4, <1>5 DEF After, Event

\* So does one that swallows an error.
LEMMA FlawsType ==
    ASSUME TypeOK, NEW lib \in Libraries, NEW e \in Event
    PROVE  Flaws(lib, e) \subseteq Libraries
<1> DEFINE f == e.file
           p == e.path
           old == lib.db[f]
           new == loc[f]
           named == FollowRow(lib, f, old, new)
<1>1. /\ f \in Files /\ p \in Paths \union {Nowhere} /\ new \in Paths \union {Nowhere}
      /\ lib.strm \in Strms /\ e.kind \in {"create", "move", "rename", "delete"}
  BY DEF Event, TypeOK, Libraries
<1>2. \A gone \in Removals(lib, f) : gone \in Libraries /\ MoveAfter(lib, gone, f, p) \in Libraries
  BY <1>1, PartsType, MoveAfterType DEF Noting
<1>3. MoveFlaws(lib, f, p) \subseteq Libraries
  <2>1. CASE p \in Media /\ old \in Media /\ options.localMove
    <3>1. Unsynced(lib.strm, f, old, p) \subseteq Strms
      BY <1>1, <2>1, StrmsType
    <3>2. \A s \in Strms : [LocallyMoved(lib, f, old, p) EXCEPT !.strm = s] \in Libraries
      BY <1>1, <2>1, LocallyMovedType, LibraryParts
    <3> QED
      BY <2>1, <3>1, <3>2 DEF MoveFlaws
  <2>2. CASE ~(p \in Media /\ old \in Media /\ options.localMove)
    BY <1>2, <2>2 DEF MoveFlaws
  <2> QED
    BY <2>1, <2>2
<1>4. RenameFlaws(lib, f) \subseteq Libraries
  <2>1. \A s \in Strms : [named EXCEPT !.strm = s] \in Libraries
    BY <1>1, FollowRowType, LibraryParts
  <2>2. old \in Media /\ new \in Media =>
          Unmoved(lib.strm, old, new) \union Unsynced(lib.strm, f, old, new) \subseteq Strms
    BY <1>1, StrmsType
  <2> HIDE DEF named
  <2> QED
    BY <2>1, <2>2 DEF RenameFlaws, named
<1> QED
  BY <1>1, <1>2, <1>3, <1>4 DEF Flaws

\* An event more in the log leaves every position in it.
LEMMA LogGrows ==
    ASSUME IInv, TInv, NEW f \in Files, NEW kind \in {"create", "move", "rename", "delete"},
           NEW to \in Paths \union {Nowhere}, NEW byHost \in BOOLEAN,
           Logs(f, kind, to, byHost), UNCHANGED <<thread, position, saved, done, skipped>>
    PROVE  /\ loc' \in Table /\ log' \in Seq(Event) /\ Len(log') <= MaxEvents /\ InLog'
<1>1. log' \in Seq(Event)
  BY LogsInv DEF LogOfEvents
<1>2. Len(log) \in Nat /\ Len(log') = Len(log) + 1 /\ Len(log) < MaxEvents
  BY DEF Logs, TInv, TypeOK
<1>3. loc' \in Table
  BY DEF Logs, TInv, TypeOK, Table
<1>4. InLog'
  BY <1>2, BoundsType DEF TInv, TypeOK, InLog, position
<1> QED
  BY <1>1, <1>2, <1>3, <1>4, BoundsType

\* The types, one group of steps after the other.
LEMMA UserTypes == ASSUME IInv, TInv, User PROVE TInv'
<1>1. PICK f \in Files : Upload(f) \/ Move(f) \/ Rename(f) \/ Delete(f)
  BY DEF User
<1>2. PICK kind \in {"create", "move", "rename", "delete"}, to \in Paths \union {Nowhere} :
        UserDoes(f, kind, to)
  BY <1>1 DEF Upload, Move, Rename, Delete, Paths
<1>3. Logs(f, kind, to, FALSE) /\ UNCHANGED <<thread, position, saved, done, skipped>>
  BY <1>2 DEF UserDoes, history
<1>4. UNCHANGED <<strm, db, arriving, queued, stop, late, torn, trouble>>
  BY <1>2 DEF UserDoes, library, history
<1> QED
  BY <1>3, <1>4, LogGrows DEF TInv, TypeOK, Table, position

LEMMA HostTypes == ASSUME IInv, TInv, Host PROVE TInv'
<1>1. PICK f \in Files : HostTransfers(f)
  BY DEF Host
<1>2. /\ UNCHANGED <<thread, position, saved, done, skipped, stop, late, torn, trouble, arriving>>
      /\ queued' \subseteq Files
  BY <1>1 DEF HostTransfers, history, TInv, TypeOK
<1>3. CASE UNCHANGED <<loc, log, strm, db>>
  BY <1>2, <1>3 DEF TInv, TypeOK, InLog, position
<1>4. ASSUME NEW to \in Media, Logs(f, "move", to, TRUE),
             strm' = IF options.transfer THEN strm ELSE [strm EXCEPT ![to] = f],
             db' = IF options.transfer THEN db ELSE Record(db, f, to)
      PROVE  TInv'
  <2>1. strm' \in Strms /\ db' \in Table
    BY <1>4, RecordType DEF TInv, TypeOK, Table, Strms, Paths
  <2>2. /\ loc' \in Table /\ log' \in Seq(Event) /\ Len(log') <= MaxEvents /\ InLog'
    BY <1>2, <1>4, LogGrows DEF Paths
  <2> QED
    BY <1>2, <2>1, <2>2 DEF TInv, TypeOK, Table, Strms, position
<1> QED
  BY <1>1, <1>3, <1>4 DEF HostTransfers

\* What is left of the library.
LEMMA LeftType ==
    ASSUME TInv, thread = "batch" /\ next <= batch => log[next] \in Event,
           Handle \/ HandleBadly \/ Raises \/ Crash
    PROVE  /\ strm' \in Strms /\ db' \in Table /\ arriving' \subseteq Files /\ queued' \subseteq Files
           /\ thread = "batch" /\ next <= batch => torn' \subseteq torn \union {log[next].file}
           /\ thread # "batch" \/ batch < next => torn' = torn
<1>1. Library \in Libraries /\ TypeOK
  BY DEF Library, Libraries, Strms, Table, TInv, TypeOK
<1>2. \A lib \in Libraries : Becomes(lib) => /\ strm' \in Strms /\ db' \in Table
                                            /\ arriving' \subseteq Files /\ queued' \subseteq Files
  BY DEF Becomes, Libraries
<1>3. CASE Handle \/ HandleBadly
  <2>1. thread = "batch" /\ next <= batch /\ log[next] \in Event
    BY <1>3, HandlesDo
  <2>2. After(Library, log[next]) \in Libraries /\ Flaws(Library, log[next]) \subseteq Libraries
    BY <1>1, <2>1, AfterType, FlawsType
  <2>3. \E lib \in Libraries : Becomes(lib)
    BY <1>3, <2>2 DEF Handle, HandleBadly
  <2> QED
    <3>1. torn' \subseteq torn \union {log[next].file}
      BY <1>3 DEF Handle, HandleBadly, Misled
    <3>2. next \in Nat /\ batch \in Nat
      BY <1>1 DEF TypeOK
    <3> QED
      BY <1>2, <2>1, <2>3, <3>1, <3>2
<1>4. CASE Raises \/ Crash
  <2>1. Underway \subseteq Libraries
    <3>1. CASE thread = "batch" /\ next <= batch
      BY <1>1, <3>1, HalvesType DEF Underway, Noting
    <3>2. CASE ~(thread = "batch" /\ next <= batch)
      BY <3>2 DEF Underway
    <3> QED
      BY <3>1, <3>2
  <2>2. PICK lib \in Libraries :
          /\ lib \in {Library} \union Underway
          /\ Becomes(lib) \/ (/\ strm' = lib.strm /\ db' = lib.db
                              /\ arriving' = {} /\ queued' = {})
          /\ Leaves(lib) \/ Leaves([lib EXCEPT !.arriving = {}])
    BY <1>1, <1>4, <2>1 DEF Raises, Crash
  <2>3. torn' = torn \/ torn' = torn \union {log[next].file}
    BY <2>2 DEF Leaves
  <2>4. lib = Library => torn' = torn
    BY <1>1, <2>2 DEF Leaves, Library
  <2>5. lib # Library => thread = "batch" /\ next <= batch
    BY <2>2 DEF Underway
  <2>6. next \in Nat /\ batch \in Nat
    BY <1>1 DEF TypeOK
  <2> QED
    BY <1>2, <2>2, <2>3, <2>4, <2>5, <2>6 DEF Libraries
<1> QED
  BY <1>3, <1>4

LEMMA HandlerTypes == ASSUME IInv, TInv, Handle \/ HandleBadly PROVE TInv'
<1>1. TypeOK /\ InLog
  BY DEF TInv
<1>2. /\ cursor \in Nat /\ next \in Nat /\ batch \in Nat /\ Len(log) \in Nat
      /\ cursor < next /\ next <= batch /\ batch <= Len(log) /\ Len(log) <= MaxEvents /\ thread = "batch"
  BY <1>1, HandlesDo, BoundsType DEF IInv, Position, TypeOK, InLog
<1>3. log[next] \in Event /\ log[next].file \in Files
  <2>1. log[next] \in Event
    BY <1>1, <1>2 DEF TypeOK
  <2> QED
    BY <2>1 DEF Event
<1>4. /\ strm' \in Strms /\ db' \in Table /\ arriving' \subseteq Files /\ queued' \subseteq Files
      /\ torn' \subseteq Files
  BY <1>1, <1>2, <1>3, LeftType DEF TypeOK
<1>5. /\ thread' = thread /\ log' = log /\ loc' = loc /\ cursor' = cursor /\ batch' = batch
      /\ saved' = saved /\ stop' = stop /\ skipped' = skipped
      /\ done' = done \union {next} /\ next' = next + 1
      /\ late' = (late \/ Late(log[next])) /\ (trouble' = trouble \/ Trouble)
  BY HandlesDo
<1>6. /\ trouble' \in 0..MaxTrouble /\ next' \in 1..MaxEvents+1 /\ next' <= batch' + 1
  BY <1>1, <1>2, <1>5, BoundsType DEF Trouble, TypeOK
<1>7. late' \in BOOLEAN
  BY <1>1, <1>5 DEF Late, TypeOK
<1>8. done' \subseteq 1..Len(log) /\ done' \subseteq 1..MaxEvents
  <2>1. next \in 1..Len(log) /\ 1..Len(log) \subseteq 1..MaxEvents
    BY <1>2, BoundsType
  <2> QED
    BY <1>1, <1>5, <2>1 DEF InLog
<1>9. InLog'
  BY <1>1, <1>5, <1>6, <1>8 DEF InLog
<1>10. TypeOK'
  BY <1>1, <1>4, <1>5, <1>6, <1>7, <1>8 DEF TypeOK, Strms, Table
<1> QED
  BY <1>9, <1>10 DEF TInv

LEMMA BreaksTypes == ASSUME IInv, TInv, Raises \/ Crash PROVE TInv'
<1>1. /\ TypeOK /\ InLog /\ Len(log) \in Nat /\ cursor \in 0..MaxEvents /\ next \in Nat
      /\ batch \in Nat
  BY DEF TInv, TypeOK
<1>2. thread = "batch" /\ next <= batch => log[next] \in Event /\ log[next].file \in Files
  <2>1. thread = "batch" /\ next <= batch => log[next] \in Event
    BY <1>1 DEF TypeOK, InLog
  <2> QED
    BY <2>1 DEF Event
<1>3. /\ strm' \in Strms /\ db' \in Table /\ arriving' \subseteq Files /\ queued' \subseteq Files
      /\ torn' \subseteq Files
  <2>1. CASE thread = "batch" /\ next <= batch
    BY <1>1, <1>2, <2>1, LeftType DEF TypeOK
  <2>2. CASE ~(thread = "batch" /\ next <= batch)
    BY <1>1, <1>2, <2>2, LeftType DEF TypeOK
  <2> QED
    BY <2>1, <2>2
<1>4. /\ log' = log /\ loc' = loc /\ saved' = saved /\ skipped' = skipped
      /\ done' \subseteq done /\ late' \in BOOLEAN
  BY <1>1, BreaksOff DEF Late, TypeOK
<1>5. /\ batch' = 0 /\ next' = 1 /\ thread' \in {"down", "loop"} /\ (cursor' = 0 \/ cursor' = cursor)
      /\ trouble' = trouble \/ Trouble
      /\ stop' \in BOOLEAN
  BY <1>1 DEF Raises, Crash, TypeOK
<1>6. /\ trouble' \in 0..MaxTrouble /\ cursor' \in 0..MaxEvents /\ batch' \in 0..MaxEvents
      /\ next' \in 1..MaxEvents+1 /\ cursor' <= Len(log) /\ batch' <= Len(log)
  BY <1>1, <1>5, BoundsType DEF Trouble, TypeOK, InLog
<1>7. InLog'
  BY <1>1, <1>4, <1>5, <1>6 DEF InLog
<1>8. TypeOK'
  BY <1>1, <1>3, <1>4, <1>5, <1>6 DEF TypeOK, Strms, Table
<1> QED
  BY <1>7, <1>8 DEF TInv

LEMMA ThreadTypes ==
    ASSUME IInv, TInv, Pull \/ BatchEnds \/ StopRequested \/ Stops \/ Starts
    PROVE  TInv'
<1>1. TypeOK /\ InLog /\ Position /\ Len(log) \in Nat /\ Len(log) <= MaxEvents
  BY DEF TInv, TypeOK, IInv
<1>2. trouble' = trouble \/ Trouble
  BY DEF Pull, BatchEnds, StopRequested, Stops, Starts
<1>3. trouble' \in 0..MaxTrouble
  BY <1>1, <1>2, BoundsType DEF Trouble, TypeOK
<1>4. From \in 0..Len(log)
  BY <1>1 DEF From, InLog
<1>5. /\ loc' = loc /\ log' = log /\ strm' = strm /\ db' = db /\ done' = done /\ late' = late
      /\ arriving' = arriving /\ queued' = queued /\ torn' = torn
  BY DEF Pull, BatchEnds, StopRequested, Stops, Starts, cloud, library, history
<1>6. /\ thread' \in {"down", "loop", "batch"} /\ stop' \in BOOLEAN
      /\ cursor' = cursor \/ cursor' = 0 \/ cursor' = batch \/ cursor' = From
      /\ batch' = batch \/ batch' = 0 \/ batch' = Len(log)
      /\ next' = next \/ next' = 1 \/ (next' = cursor + 1 /\ batch' = Len(log))
      /\ thread' = "batch" => \/ thread = "batch" /\ next' = next /\ batch' = batch
                              \/ next' = cursor + 1 /\ batch' = Len(log)
      /\ saved' = saved \/ saved' = cursor
      /\ skipped' = skipped \/ skipped' = skipped \union ((1..From) \ done)
  BY <1>1 DEF Pull, BatchEnds, StopRequested, Stops, Starts, position, history, TypeOK
<1>7. /\ cursor' \in 0..MaxEvents /\ batch' \in 0..MaxEvents /\ next' \in 1..MaxEvents+1
      /\ cursor' <= Len(log) /\ batch' <= Len(log) /\ (thread' = "batch" => next' <= batch' + 1)
      /\ saved' \in (0..Len(log)) \union {Nowhere} /\ saved' \in (0..MaxEvents) \union {Nowhere}
  BY <1>1, <1>4, <1>6, BoundsType DEF TypeOK, InLog
<1>8. skipped' \subseteq 1..Len(log) /\ skipped' \subseteq 1..MaxEvents
  <2>1. 1..From \subseteq 1..Len(log) /\ 1..Len(log) \subseteq 1..MaxEvents
    BY <1>1, <1>4, BoundsType
  <2>2. skipped \subseteq 1..Len(log)
    BY <1>1 DEF InLog
  <2> QED
    BY <1>6, <2>1, <2>2
<1>9. InLog'
  BY <1>1, <1>5, <1>7, <1>8 DEF InLog
<1>10. TypeOK'
  BY <1>1, <1>3, <1>5, <1>6, <1>7, <1>8 DEF TypeOK
<1> QED
  BY <1>9, <1>10 DEF TInv

LEMMA TypesInit == Init => TInv
<1> SUFFICES ASSUME Init PROVE TInv
  OBVIOUS
<1>1. log = <<>> /\ log \in Seq(Event) /\ Len(log) = 0 /\ cursor = 0 /\ batch = 0 /\ next = 1
  BY DEF Init
<1>2. /\ 0 \in 0..MaxEvents /\ 1 \in 1..MaxEvents+1 /\ 0 \in 0..MaxTrouble /\ 0 <= MaxEvents
      /\ 0 \in 0..Len(log)
  BY <1>1, BoundsType
<1>3. TypeOK
  BY <1>1, <1>2 DEF Init, TypeOK
<1>4. InLog
  BY <1>1, <1>2 DEF Init, InLog
<1> QED
  BY <1>3, <1>4 DEF TInv

LEMMA TypesNext == IInv /\ TInv /\ [Next]_vars => TInv'
<1>1. ASSUME IInv, TInv, UNCHANGED vars PROVE TInv'
  BY <1>1 DEF TInv, TypeOK, InLog, vars, cloud, library, position, history
<1> QED
  BY <1>1, UserTypes, HostTypes, HandlerTypes, BreaksTypes, ThreadTypes DEF Next, Monitor

\* The types of the library, the log and the thread: no handler writes a path or a file that
\* there is not, whatever the log says, and no position leaves the log.
THEOREM TypeCorrect == Spec => []TypeOK
<1>1. TInv => TypeOK
  BY DEF TInv
<1> QED
  BY <1>1, TypesInit, TypesNext, Invariance, PTL DEF Spec
------------------------------------------------------------------------------
(* The order of events.                                                    *)

\* Up to here events are behind the thread.
Reach == IF thread = "down" THEN From ELSE IF thread = "batch" THEN next - 1 ELSE cursor

Earlier(i, j) == i \in DOMAIN log /\ j \in DOMAIN log /\ i < j /\ log[i].file = log[j].file

\* As long as this holds the monitor may still catch up without being late: what is
\* not the last event of its file is done and behind it, and nothing was left out.
Hope ==
    /\ ~late /\ skipped \subseteq done
    /\ 1..Reach \subseteq done
    /\ \A i, j \in DOMAIN log : Earlier(i, j) => i <= Reach

\* A start does not look back.
Jumps == options.mode # "all" /\ (options.mode = "last" => saved = Nowhere)

\* What a start left out stays behind.
LeftOut ==
    /\ options.mode = "all" => skipped = {}
    /\ options.mode = "last" /\ saved # Nowhere => skipped \subseteq 1..saved
    /\ thread # "down" => skipped \subseteq 1..cursor

\* Of the events of a batch that are done without being late, none has a later one
\* of its file in the batch; a start that does not look back leaves none to come.
InOrder ==
    /\ thread = "batch" => done \subseteq 1..batch
    /\ ~late /\ thread = "batch" => \A i \in cursor+1..next-1, j \in DOMAIN log :
            Earlier(i, j) => j > batch
    /\ ~late /\ Jumps /\ thread # "down" => \A i, j \in DOMAIN log :
            Earlier(i, j) /\ j \in done => i <= Reach

Turn == LeftOut /\ InOrder

\* What the counters are, from the types.
LEMMA Counters ==
    ASSUME IInv, TInv
    PROVE  /\ Len(log) \in Nat /\ DOMAIN log = 1..Len(log) /\ cursor \in Nat /\ batch \in Nat /\ next \in Nat
           /\ cursor <= Len(log) /\ batch <= Len(log)
           /\ done \subseteq 1..Len(log) /\ skipped \subseteq 1..Len(log)
           /\ saved # Nowhere => saved \in Nat /\ saved <= Len(log)
           /\ thread \in {"down", "loop", "batch"}
           /\ thread # "down" => 1..cursor \subseteq done \union skipped
           /\ thread = "batch" => /\ cursor < next /\ next <= batch + 1
                                  /\ cursor+1..next-1 \subseteq done
<1>1. log \in Seq(Event) /\ InLog /\ Position /\ NothingForgotten
  BY DEF IInv, LogOfEvents, TInv
<1> QED
  BY <1>1 DEF InLog, Position, NothingForgotten

LEMMA FromIs ==
    ASSUME IInv, TInv
    PROVE  /\ From \in Nat /\ From <= Len(log)
           /\ Jumps => From = Len(log)
           /\ ~Jumps => From = 0 \/ (options.mode = "last" /\ saved # Nowhere /\ From = saved)
<1>1. /\ options.mode = "all" => From = 0
      /\ options.mode = "last" /\ saved # Nowhere => From = saved
      /\ Jumps => From = Len(log)
  BY DEF From, Jumps
<1> QED
  BY <1>1, Counters DEF Jumps

\* Thread and positions change by Monitor only, the log by the account and the host.
LEMMA TurnLogs ==
    ASSUME IInv, TInv, Turn, NEW f \in Files, NEW kind, NEW to, NEW byHost,
           Logs(f, kind, to, byHost),
           UNCHANGED <<thread, position, saved, options, done, skipped, late>>
    PROVE  Turn'
<1>1. /\ Len(log') = Len(log) + 1 /\ DOMAIN log' = 1..Len(log)+1
      /\ \A i \in DOMAIN log : log'[i] = log[i]
  <2>1. log \in Seq(Event) /\ \E e : log' = Append(log, e)
    BY DEF Logs, IInv, LogOfEvents
  <2> QED
    BY <2>1, Counters
<1>2. \A i, j : Earlier(i, j)' => Earlier(i, j) \/ (j = Len(log) + 1 /\ i \in DOMAIN log)
  BY <1>1, Counters DEF Earlier
<1>3. /\ thread' = thread /\ cursor' = cursor /\ batch' = batch /\ next' = next /\ saved' = saved
      /\ options' = options /\ done' = done /\ skipped' = skipped /\ late' = late
  BY DEF position
<1>4. LeftOut'
  BY <1>3 DEF Turn, LeftOut
<1>5. (Jumps' <=> Jumps) /\ (thread # "down" => Reach' = Reach)
  BY <1>3 DEF Jumps, Reach
<1>6. InOrder'
  <2>1. ASSUME ~late, thread = "batch", NEW i \in cursor+1..next-1, NEW j, Earlier(i, j)'
        PROVE  j > batch
    BY <1>2, <2>1, Counters DEF Turn, InOrder, Earlier
  <2>2. ASSUME ~late, Jumps, thread # "down", NEW i, NEW j, Earlier(i, j)', j \in done
        PROVE  i <= Reach
    BY <1>2, <2>2, Counters DEF Turn, InOrder, Earlier
  <2> QED
    BY <1>3, <1>5, <2>1, <2>2 DEF Turn, InOrder
<1> QED
  BY <1>4, <1>6 DEF Turn

LEMMA TurnSame ==
    ASSUME IInv, TInv, Turn,
           UNCHANGED <<log, thread, position, saved, options, done, skipped, late>>
    PROVE  Turn'
<1>1. /\ thread' = thread /\ cursor' = cursor /\ batch' = batch /\ next' = next /\ saved' = saved
      /\ options' = options /\ done' = done /\ skipped' = skipped /\ late' = late /\ log' = log
  BY DEF position
<1> QED
  BY <1>1 DEF Turn, LeftOut, InOrder, Jumps, Reach, From, Earlier

LEMMA UserTurn == ASSUME IInv, TInv, Turn, User \/ Host PROVE Turn'
<1>1. CASE User
  <2>1. PICK f \in Files : Upload(f) \/ Move(f) \/ Rename(f) \/ Delete(f)
    BY <1>1 DEF User
  <2>2. PICK kind, to : UserDoes(f, kind, to)
    BY <2>1 DEF Upload, Move, Rename, Delete
  <2> QED
    BY <2>2, TurnLogs DEF UserDoes, history
<1>2. CASE Host
  <2>1. PICK f \in Files : HostTransfers(f)
    BY <1>2 DEF Host
  <2>2. UNCHANGED <<thread, position, saved, options, done, skipped, late>>
    BY <2>1 DEF HostTransfers, history
  <2>3. log' = log \/ \E to \in Media : Logs(f, "move", to, TRUE)
    BY <2>1 DEF HostTransfers
  <2> QED
    BY <2>2, <2>3, TurnLogs, TurnSame
<1> QED
  BY <1>1, <1>2

LEMMA PullTurn == ASSUME IInv, TInv, Turn, Pull PROVE Turn'
<1>1. /\ log' = log /\ cursor' = cursor /\ saved' = saved /\ options' = options /\ done' = done
      /\ skipped' = skipped /\ late' = late /\ thread = "loop" /\ thread' = "batch"
      /\ batch' = Len(log) /\ next' = cursor + 1
  BY DEF Pull, cloud, history
<1>2. LeftOut'
  BY <1>1 DEF Turn, LeftOut
<1>3. Reach = cursor /\ Reach' = cursor /\ (Jumps' <=> Jumps) /\ cursor+1..next'-1 = {}
  BY <1>1, Counters DEF Reach, Jumps
<1>4. \A i, j : Earlier(i, j)' <=> Earlier(i, j)
  BY <1>1 DEF Earlier
<1>5. InOrder'
  BY <1>1, <1>3, <1>4, Counters DEF Turn, InOrder
<1> QED
  BY <1>2, <1>5 DEF Turn

LEMMA HandleTurn == ASSUME IInv, TInv, Turn, Handle \/ HandleBadly PROVE Turn'
<1>1. /\ log' = log /\ cursor' = cursor /\ saved' = saved /\ options' = options
      /\ batch' = batch /\ skipped' = skipped /\ thread = "batch" /\ thread' = "batch"
      /\ done' = done \union {next} /\ next' = next + 1 /\ next <= batch
      /\ late' = (late \/ Late(log[next]))
  BY HandlesDo
<1>2. LeftOut'
  BY <1>1 DEF Turn, LeftOut
<1>3. Reach = next - 1 /\ Reach' = next /\ (Jumps' <=> Jumps)
      /\ \A i \in cursor+1..next'-1 : i = next \/ i \in cursor+1..next-1
  <2>1. next \in Nat /\ cursor \in Nat
    BY Counters
  <2>2. Reach = next - 1 /\ Reach' = next
    BY <1>1, <2>1 DEF Reach
  <2>3. \A i \in cursor+1..next'-1 : i = next \/ i \in cursor+1..next-1
    BY <1>1, <2>1
  <2> QED
    BY <1>1, <2>2, <2>3 DEF Jumps
<1>4. \A i, j : Earlier(i, j)' <=> Earlier(i, j)
  BY <1>1 DEF Earlier
<1>5. ~late' => ~late /\ \A j \in DOMAIN log : ~Earlier(next, j)
  <2>1. ~late' => ~late /\ ~Late(log[next])
    BY <1>1, Zenon
  <2>2. ~Late(log[next]) => \A j \in next+1..Len(log) : log[j].file # log[next].file
    BY DEF Late
  <2>3. \A j : Earlier(next, j) => j \in next+1..Len(log) /\ log[j].file = log[next].file
    BY Counters DEF Earlier
  <2> QED
    BY <2>1, <2>2, <2>3
<1>6. next \in 1..batch
  BY <1>1, Counters
<1>7. InOrder'
  <2>1. thread' = "batch" => done' \subseteq 1..batch'
    BY <1>1, <1>6 DEF Turn, InOrder
  <2>2. ASSUME ~late', NEW i \in cursor+1..next'-1, NEW j \in DOMAIN log, Earlier(i, j)
        PROVE  j > batch
    BY <1>1, <1>3, <1>5, <2>2 DEF Turn, InOrder
  <2>3. ASSUME ~late', Jumps, NEW i \in DOMAIN log, NEW j \in DOMAIN log, Earlier(i, j), j \in done'
        PROVE  i <= next
    <3>1. j = next \/ i <= next - 1
      BY <1>1, <1>3, <1>5, <2>3 DEF Turn, InOrder
    <3> QED
      BY <2>3, <3>1, Counters DEF Earlier
  <2> QED
    BY <1>1, <1>3, <1>4, <2>1, <2>2, <2>3 DEF InOrder
<1> QED
  BY <1>2, <1>7 DEF Turn

LEMMA BatchEndsTurn == ASSUME IInv, TInv, Turn, BatchEnds PROVE Turn'
<1>1. /\ log' = log /\ saved' = saved /\ options' = options /\ done' = done /\ late' = late
      /\ skipped' = skipped /\ thread = "batch" /\ thread' = "loop" /\ cursor' = batch
      /\ next = batch + 1 /\ cursor <= batch
  BY Counters DEF BatchEnds, cloud, history
<1>2. LeftOut'
  <2>1. 1..cursor \subseteq 1..batch
    BY <1>1, Counters
  <2> QED
    BY <1>1, <2>1, Counters DEF Turn, LeftOut
<1>3. Reach = batch /\ Reach' = batch /\ (Jumps' <=> Jumps)
  BY <1>1, Counters DEF Reach, Jumps
<1>4. \A i, j : Earlier(i, j)' <=> Earlier(i, j)
  BY <1>1 DEF Earlier
<1>5. InOrder'
  BY <1>1, <1>3, <1>4 DEF Turn, InOrder
<1> QED
  BY <1>2, <1>5 DEF Turn

LEMMA BreaksTurn == ASSUME IInv, TInv, Turn, Raises \/ Crash PROVE Turn'
<1>1. /\ log' = log /\ saved' = saved /\ options' = options /\ done' \subseteq done /\ (~late' => ~late)
      /\ skipped' = skipped /\ thread # "down" /\ thread' \in {"down", "loop"}
      /\ thread' # "down" => thread' = "loop" /\ cursor' = cursor
  <2>1. late' = late \/ late' = (late \/ Late(log[next]))
    BY BreaksOff
  <2>2. ~late' => ~late
    BY <2>1
  <2> QED
    BY <2>2, BreaksOff
<1>2. LeftOut'
  BY <1>1 DEF Turn, LeftOut
<1>3. /\ thread = "batch" => Reach = next - 1
      /\ thread # "batch" => Reach = cursor
      /\ thread' # "down" => Reach' = cursor
      /\ Jumps' <=> Jumps
  BY <1>1, Counters DEF Reach, Jumps
<1>4. \A i, j : Earlier(i, j)' <=> Earlier(i, j)
  BY <1>1 DEF Earlier
<1>5. ASSUME ~late, Jumps, NEW i \in DOMAIN log, NEW j \in DOMAIN log, Earlier(i, j), j \in done
      PROVE  i <= cursor
  <2>1. i <= Reach
    BY <1>1, <1>5 DEF Turn, InOrder
  <2>2. CASE thread = "batch"
    <3>1. i <= next - 1 /\ j <= batch
      BY <1>3, <1>5, <2>1, <2>2 DEF Turn, InOrder
    <3>2. i \notin cursor+1..next-1
      BY <1>5, <2>2, <3>1, Counters DEF Turn, InOrder
    <3> QED
      BY <3>1, <3>2, Counters
  <2> QED
    BY <1>3, <2>1, <2>2
<1>6. InOrder'
  BY <1>1, <1>3, <1>4, <1>5 DEF InOrder
<1> QED
  BY <1>2, <1>6 DEF Turn

LEMMA StopsTurn == ASSUME IInv, TInv, Turn, Stops \/ StopRequested PROVE Turn'
<1>1. CASE StopRequested
  BY <1>1, TurnSame DEF StopRequested, cloud, history
<1>2. CASE Stops
  <2>1. /\ log' = log /\ options' = options /\ done' = done /\ late' = late
        /\ skipped' = skipped /\ thread' = "down" /\ thread # "down" /\ saved' = cursor
    BY <1>2 DEF Stops, cloud, history
  <2>2. LeftOut'
    BY <2>1 DEF Turn, LeftOut
  <2> QED
    BY <2>1, <2>2 DEF Turn, InOrder
<1> QED
  BY <1>1, <1>2

LEMMA StartsTurn == ASSUME IInv, TInv, Turn, Starts PROVE Turn'
<1>1. /\ log' = log /\ options' = options /\ done' = done /\ late' = late /\ saved' = saved
      /\ skipped' = skipped \union ((1..From) \ done) /\ thread' = "loop" /\ cursor' = From
  BY DEF Starts, cloud
<1>2. 1..0 = {} /\ 1..Len(log) = DOMAIN log
  BY Counters
<1>3. LeftOut'
  <2>1. CASE options.mode = "all"
    <3>1. skipped = {} /\ From = 0
      BY <2>1 DEF From, Turn, LeftOut
    <3> QED
      BY <1>1, <1>2, <2>1, <3>1 DEF LeftOut
  <2>2. CASE options.mode = "last" /\ saved # Nowhere
    <3>1. From = saved /\ skipped' \subseteq skipped \union 1..saved /\ skipped \subseteq 1..saved
      BY <1>1, <2>2 DEF From, Turn, LeftOut
    <3> QED
      BY <1>1, <2>2, <3>1 DEF LeftOut
  <2>3. CASE Jumps
    <3>1. From = Len(log) /\ skipped' \subseteq 1..Len(log)
      BY <1>1, <2>3, FromIs, Counters
    <3> QED
      BY <1>1, <2>3, <3>1 DEF LeftOut, Jumps
  <2> QED
    BY <2>1, <2>2, <2>3 DEF Jumps
<1>5. (Jumps' <=> Jumps) /\ Reach' = From
  BY <1>1 DEF Jumps, Reach
<1>6. InOrder'
  BY <1>1, <1>5, FromIs, Counters DEF InOrder, Earlier
<1> QED
  BY <1>3, <1>6 DEF Turn
------------------------------------------------------------------------------
(* Without hope nothing is caught up in time.                              *)

LEMMA ReachIs == ASSUME IInv, TInv PROVE Reach \in Nat
BY FromIs, Counters DEF Reach

LEMMA HopeSame ==
    ASSUME Hope', log' = log, done' = done, late' = late, skipped \subseteq skipped', Reach' = Reach
    PROVE  Hope
BY DEF Hope, Earlier

LEMMA HopeLogs ==
    ASSUME IInv, TInv, NEW f \in Files, NEW kind, NEW to, NEW byHost,
           Logs(f, kind, to, byHost),
           UNCHANGED <<thread, position, saved, options, done, skipped, late>>, Hope'
    PROVE  Hope /\ \A i \in DOMAIN log : log[i].file = f => i \in done
<1>1. /\ Len(log') = Len(log) + 1 /\ DOMAIN log' = 1..Len(log)+1
      /\ \A i \in DOMAIN log : log'[i] = log[i]
  <2>1. log \in Seq(Event) /\ \E e : log' = Append(log, e)
    BY DEF Logs, IInv, LogOfEvents
  <2> QED
    BY <2>1, Counters
<1>2. \A i, j : Earlier(i, j) => Earlier(i, j)'
  BY <1>1, Counters DEF Earlier
<1>3. /\ thread' = thread /\ cursor' = cursor /\ batch' = batch /\ next' = next /\ saved' = saved
      /\ options' = options /\ done' = done /\ skipped' = skipped /\ late' = late
  BY DEF position
<1>4. Reach' = Reach
  <2>1. CASE thread = "down" /\ Jumps
    <3>1. Reach' = Len(log) + 1
      BY <1>1, <1>3, <2>1 DEF Reach, From, Jumps
    <3>2. Len(log) + 1 \in 1..Reach' /\ Len(log) + 1 \notin done
      BY <3>1, Counters
    <3> QED
      BY <1>3, <3>2 DEF Hope
  <2>2. CASE thread = "down" /\ ~Jumps
    BY <1>3, <2>2 DEF Reach, From, Jumps
  <2>3. CASE thread # "down"
    BY <1>3, <2>3 DEF Reach
  <2> QED
    BY <2>1, <2>2, <2>3
<1>5. Hope
  BY <1>1, <1>2, <1>3, <1>4 DEF Hope
<1>6. ASSUME NEW i \in DOMAIN log, log[i].file = f PROVE i \in done
  <2>1. PICK n \in Nat : n = Len(log) + 1
    BY Counters
  <2>2. log'[n].file = f
    BY <2>1, Counters DEF Logs, TInv, TypeOK
  <2>3. i \in 1..n /\ n \in 1..n /\ i < n /\ log'[i].file = f
    BY <1>1, <1>6, <2>1, Counters
  <2>4. Earlier(i, n)'
    BY <1>1, <2>1, <2>2, <2>3 DEF Earlier
  <2>5. i <= Reach /\ i \in Nat \ {0}
    BY <1>4, <2>3, <2>4, Counters DEF Hope, Earlier
  <2> QED
    BY <1>5, <2>5, ReachIs DEF Hope
<1> QED
  BY <1>5, <1>6

\* The thread loses its batch, or ends.
LEMMA HopeBroken ==
    ASSUME IInv, TInv, Turn, thread # "down",
           log' = log, done' \subseteq done, ~late' => ~late, skipped' = skipped, options' = options,
           saved' = saved \/ saved' = cursor,
           thread' = "down" \/ (thread' = "loop" /\ cursor' = cursor), Hope'
    PROVE  Hope
<1>1. Reach \in Nat /\ cursor <= Reach /\ \A i \in 1..Reach : i \in 1..cursor \/ i \in cursor+1..Reach
  BY Counters DEF Reach
<1>2. skipped \subseteq done /\ ~late
  BY DEF Hope
<1>3. 1..Reach \subseteq done
  <2>1. cursor+1..Reach \subseteq done
    BY Counters DEF Reach
  <2> QED
    BY <1>1, <1>2, <2>1, Counters
<1>4. ASSUME NEW i \in DOMAIN log, NEW j \in DOMAIN log, Earlier(i, j)
      PROVE  i <= Reach
  <2>1. i <= Reach' /\ i \in 1..Len(log) /\ 1..Reach' \subseteq done
    <3>1. Earlier(i, j)'
      BY <1>4 DEF Earlier
    <3> QED
      BY <1>4, <3>1, Counters DEF Hope
  <2>2. CASE thread' # "down"
    BY <1>1, <2>1, <2>2, Counters DEF Reach
  <2>3. CASE thread' = "down" /\ options.mode = "all"
    BY <2>1, <2>3, Counters DEF Reach, From
  <2>4. CASE thread' = "down" /\ options.mode = "last" /\ saved' # Nowhere
    <3>1. Reach' = saved'
      BY <2>4 DEF Reach, From
    <3>2. saved' \in Nat /\ saved' <= cursor
      BY <2>4, Counters DEF IInv, SavedEarlier
    <3> QED
      BY <1>1, <2>1, <3>1, <3>2, Counters
  <2>5. CASE thread' = "down" /\ Jumps'
    <3>1. Jumps
      BY <2>5, BoundsType, PathsDiffer DEF Jumps, TInv, TypeOK
    <3>2. Reach' = Len(log)
      BY <2>5 DEF Reach, From, Jumps
    <3>3. j \in done
      BY <2>1, <3>2, Counters
    <3> QED
      BY <1>2, <1>4, <3>1, <3>3 DEF Turn, InOrder
  <2> QED
    BY <2>2, <2>3, <2>4, <2>5 DEF Jumps
<1> QED
  BY <1>2, <1>3, <1>4 DEF Hope

LEMMA HopeHandle ==
    ASSUME IInv, TInv, Turn, Handle \/ HandleBadly, Hope'
    PROVE  Hope /\ ~Late(log[next])
<1>1. /\ log' = log /\ cursor' = cursor /\ batch' = batch /\ skipped' = skipped
      /\ thread = "batch" /\ thread' = "batch" /\ next <= batch
      /\ done' = done \union {next} /\ next' = next + 1
      /\ late' = (late \/ Late(log[next]))
  BY HandlesDo
<1>2. ~late /\ ~Late(log[next])
  BY <1>1, Zenon DEF Hope
<1>3. Reach = next - 1 /\ Reach' = next /\ next \notin 1..next-1
  BY <1>1, Counters DEF Reach
<1>4. skipped \subseteq done
  <2>1. next \notin skipped
    BY <1>1, Counters DEF Turn, LeftOut
  <2> QED
    BY <1>1, <2>1 DEF Hope
<1>5. 1..Reach \subseteq done
  BY <1>1, <1>3, Counters DEF Hope
<1>6. ASSUME NEW i \in DOMAIN log, NEW j \in DOMAIN log, Earlier(i, j)
      PROVE  i <= Reach
  <2>1. i <= next
    BY <1>1, <1>3, <1>6 DEF Hope, Earlier
  <2>2. i # next
    <3>1. \A k \in next+1..Len(log) : log[k].file # log[next].file
      BY <1>2 DEF Late
    <3> QED
      BY <1>6, <3>1, Counters DEF Earlier
  <2> QED
    BY <1>3, <2>1, <2>2, Counters
<1> QED
  BY <1>2, <1>4, <1>5, <1>6 DEF Hope

LEMMA HopeThread ==
    ASSUME IInv, TInv, Turn, Hope',
           Pull \/ BatchEnds \/ Raises \/ StopRequested \/ Stops \/ Crash \/ Starts
    PROVE  Hope
<1>1. CASE Pull \/ BatchEnds \/ StopRequested
  <2>1. log' = log /\ done' = done /\ late' = late /\ skipped' = skipped
    BY <1>1 DEF Pull, BatchEnds, StopRequested, cloud, history
  <2>2. Reach' = Reach
    BY <1>1, Counters DEF Pull, BatchEnds, StopRequested, Reach, From, cloud, position
  <2> QED
    BY <2>1, <2>2, HopeSame
<1>2. CASE Stops
  <2>1. /\ thread # "down" /\ log' = log /\ done' = done /\ late' = late /\ skipped' = skipped
        /\ options' = options /\ saved' = cursor /\ thread' = "down"
    BY <1>2 DEF Stops, cloud, history
  <2> QED
    BY <2>1, HopeBroken
<1>3. CASE Raises \/ Crash
  <2>1. (late' = late \/ late' = (late \/ Late(log[next]))) /\ done' \subseteq done
    BY <1>3, BreaksOff
  <2>2. ~late' => ~late
    BY <2>1
  <2> QED
    BY <1>3, <2>1, <2>2, BreaksOff, HopeBroken
<1>4. CASE Starts
  <2>1. log' = log /\ done' = done /\ late' = late /\ skipped \subseteq skipped' /\ Reach' = Reach
    BY <1>4 DEF Starts, Reach, cloud
  <2> QED
    BY <2>1, HopeSame
<1> QED
  BY <1>1, <1>2, <1>3, <1>4
------------------------------------------------------------------------------
(* Where files are, and what the log says of it.                           *)

IsLast(f, k) == /\ k \in DOMAIN log /\ log[k].file = f
                /\ \A j \in k+1..Len(log) : log[j].file # f

Known(f) == \E k \in DOMAIN log : IsLast(f, k)
Settled(f) == \E k \in done : IsLast(f, k)
Lately(f, kind) == \E k \in DOMAIN log : IsLast(f, k) /\ log[k].kind = kind
Hosted(f) == \E k \in DOMAIN log : IsLast(f, k) /\ log[k].host

\* The last event of a file says where it is.
Told(f) == \A k \in DOMAIN log : IsLast(f, k) =>
    /\ log[k].kind \in {"create", "move"} => loc[f] = log[k].path
    /\ log[k].kind = "rename" => loc[f] \in Media
    /\ log[k].kind = "delete" => loc[f] = Nowhere
    /\ log[k].host => log[k].kind = "move" /\ loc[f] \in Media

Apart == \A f, g \in Files : loc[f] = loc[g] /\ loc[f] # Nowhere => f = g

Cloud == Apart /\ \A f \in Files : Told(f) /\ (loc[f] # Nowhere => Known(f))

LEMMA LastIs ==
    ASSUME TInv, NEW f, NEW j, NEW k, IsLast(f, j), IsLast(f, k)
    PROVE  j = k
<1>1. j \in 1..Len(log) /\ k \in 1..Len(log) /\ Len(log) \in Nat
  BY DEF IsLast, TInv, TypeOK
<1> QED
  BY <1>1 DEF IsLast

\* An event more is the last one of its file, and of no other.
LEMMA LogsLast ==
    ASSUME TInv, NEW f \in Files, NEW kind, NEW to, NEW byHost, Logs(f, kind, to, byHost)
    PROVE  /\ Len(log) \in Nat /\ DOMAIN log = 1..Len(log) /\ DOMAIN log' = 1..Len(log)+1
           /\ \A i \in DOMAIN log : log'[i] = log[i]
           /\ log'[Len(log)+1].kind = kind /\ log'[Len(log)+1].host = byHost
           /\ log'[Len(log)+1].path = IF kind \in {"create", "move"} THEN to ELSE Nowhere
           /\ \A k : IsLast(f, k)' <=> k = Len(log) + 1
           /\ \A x \in Files \ {f} : \A k : IsLast(x, k)' <=> IsLast(x, k)
           /\ loc'[f] = to /\ \A x \in Files \ {f} : loc'[x] = loc[x]
<1> DEFINE e == [kind |-> kind, file |-> f, host |-> byHost,
                 path |-> IF kind \in {"create", "move"} THEN to ELSE Nowhere]
           n == Len(log) + 1
<1>1. log' = Append(log, e) /\ log \in Seq(Event) /\ loc' = [loc EXCEPT ![f] = to]
      /\ loc \in [Files -> Paths \union {Nowhere}]
  BY DEF Logs, TInv, TypeOK
<1>2. /\ e.file = f /\ e.kind = kind /\ e.host = byHost
      /\ e.path = IF kind \in {"create", "move"} THEN to ELSE Nowhere
  OBVIOUS
<1> HIDE DEF e
<1>3. /\ Len(log) \in Nat /\ DOMAIN log = 1..Len(log) /\ DOMAIN log' = 1..n /\ Len(log') = n
      /\ log'[n] = e /\ \A i \in DOMAIN log : log'[i] = log[i]
  BY <1>1
<1>4. \A k : IsLast(f, k)' <=> k = n
  BY <1>2, <1>3 DEF IsLast
<1>5. ASSUME NEW x \in Files \ {f}, NEW k PROVE IsLast(x, k)' <=> IsLast(x, k)
  <2>1. \A j \in k+1..n : j = n \/ j \in k+1..Len(log)
    BY <1>3
  <2>2. k = n => ~IsLast(x, k)'
    BY <1>2, <1>3 DEF IsLast
  <2>3. ASSUME k \in 1..Len(log) PROVE IsLast(x, k)' <=> IsLast(x, k)
    <3>1. k+1..Len(log) \subseteq 1..Len(log) /\ n \in k+1..n /\ k+1..Len(log) \subseteq k+1..n
      BY <1>3, <2>3
    <3>2. \A j \in k+1..Len(log) : log'[j] = log[j]
      BY <1>3, <3>1
    <3> QED
      BY <1>2, <1>3, <2>1, <2>3, <3>1, <3>2 DEF IsLast
  <2> QED
    BY <1>3, <2>2, <2>3 DEF IsLast
<1> QED
  BY <1>1, <1>2, <1>3, <1>4, <1>5

\* What changes by it: the file is known and not settled, others are as they were.
LEMMA LogsFile ==
    ASSUME TInv, NEW f \in Files, NEW kind, NEW to, NEW byHost, Logs(f, kind, to, byHost), done' = done
    PROVE  /\ Known(f)' /\ ~Settled(f)' /\ \A c : Lately(f, c)' <=> kind = c
           /\ \A x \in Files \ {f} :
                 /\ Known(x)' <=> Known(x)
                 /\ Settled(x)' <=> Settled(x)
                 /\ Hosted(x)' <=> Hosted(x)
                 /\ \A c : Lately(x, c)' <=> Lately(x, c)
<1>1. \A x, k : IsLast(x, k) => k \in DOMAIN log
  BY DEF IsLast
<1>2. done \subseteq 1..Len(log) /\ Len(log) + 1 \notin 1..Len(log)
  BY LogsLast DEF TInv, InLog
<1>3. Known(f)' /\ ~Settled(f)' /\ \A c : Lately(f, c)' <=> kind = c
  BY <1>2, LogsLast DEF Known, Settled, Lately
<1>4. ASSUME NEW x \in Files \ {f}
      PROVE  /\ Known(x)' <=> Known(x)
             /\ Settled(x)' <=> Settled(x)
             /\ Hosted(x)' <=> Hosted(x)
             /\ \A c : Lately(x, c)' <=> Lately(x, c)
  <2>1. \A k : IsLast(x, k)' => k \in DOMAIN log /\ log'[k] = log[k]
    BY <1>1, LogsLast
  <2>2. DOMAIN log \subseteq DOMAIN log'
    BY LogsLast
  <2>3. /\ Known(x)' <=> Known(x)
        /\ Settled(x)' <=> Settled(x)
        /\ Hosted(x)' <=> Hosted(x)
    BY <1>1, <2>1, <2>2, LogsLast DEF Known, Settled, Hosted
  <2>4. \A c : Lately(x, c)' <=> Lately(x, c)
    BY <1>1, <2>1, <2>2, LogsLast DEF Lately
  <2> QED
    BY <2>3, <2>4
<1> QED
  BY <1>3, <1>4

LEMMA LogsByUser ==
    ASSUME TInv, NEW f \in Files, NEW kind, NEW to, Logs(f, kind, to, FALSE)
    PROVE  ~Hosted(f)'
BY LogsLast DEF Hosted

LEMMA LogsCloud ==
    ASSUME TInv, Cloud, NEW f \in Files, NEW kind, NEW to, NEW byHost \in BOOLEAN,
           Logs(f, kind, to, byHost), kind = "rename" => to \in Media,
           kind = "delete" => to = Nowhere, byHost => kind = "move" /\ to \in Media,
           done' = done
    PROVE  Cloud'
<1>1. Apart'
  BY LogsLast DEF Cloud, Apart, Logs, Free
<1>2. ASSUME NEW x \in Files PROVE Told(x)' /\ (loc'[x] # Nowhere => Known(x)')
  <2>1. CASE x = f
    BY <2>1, LogsLast, LogsFile DEF Told
  <2>2. CASE x # f
    <3>1. x \in Files \ {f} /\ loc'[x] = loc[x] /\ (Known(x)' <=> Known(x)) /\ Told(x)
          /\ (loc[x] # Nowhere => Known(x))
      BY <2>2, LogsLast, LogsFile DEF Cloud
    <3>2. \A k : IsLast(x, k)' => k \in DOMAIN log /\ IsLast(x, k) /\ log'[k] = log[k]
      BY <3>1, LogsLast DEF IsLast
    <3> QED
      BY <3>1, <3>2 DEF Told
  <2> QED
    BY <2>1, <2>2
<1> QED
  BY <1>1, <1>2 DEF Cloud

\* What a user does.
LEMMA UserIs ==
    ASSUME User
    PROVE  \E f \in Files, kind \in {"create", "move", "rename", "delete"},
              to \in Paths \union {Nowhere} :
             /\ UserDoes(f, kind, to)
             /\ kind = "rename" => to \in Media
             /\ kind = "delete" => to = Nowhere
             /\ kind = "create" => ~Known(f)
             /\ kind # "create" => loc[f] # Nowhere /\ to # loc[f]
<1>1. PICK f \in Files : Upload(f) \/ Move(f) \/ Rename(f) \/ Delete(f)
  BY DEF User
<1>2. CASE Upload(f)
  BY <1>2 DEF Upload, Known, IsLast
<1>3. CASE Move(f)
  BY <1>3 DEF Move
<1>4. CASE Rename(f)
  <2>1. Nowhere \notin Media /\ Media \subseteq Paths
    BY PathsDiffer DEF Paths
  <2> QED
    BY <1>4, <2>1 DEF Rename
<1>5. CASE Delete(f)
  BY <1>5 DEF Delete
<1> QED
  BY <1>1, <1>2, <1>3, <1>4, <1>5

LEMMA CloudSame == ASSUME Cloud, loc' = loc, log' = log PROVE Cloud'
BY DEF Cloud, Apart, Told, Known, IsLast

LEMMA CloudInv == ASSUME IInv, TInv, Cloud, Next PROVE Cloud'
<1>1. CASE User
  <2>1. PICK f \in Files, kind \in {"create", "move", "rename", "delete"},
             to \in Paths \union {Nowhere} :
               /\ UserDoes(f, kind, to)
               /\ kind = "rename" => to \in Media
               /\ kind = "delete" => to = Nowhere
    BY <1>1, UserIs
  <2> QED
    BY <2>1, LogsCloud DEF UserDoes, history
<1>2. CASE Host
  <2>1. PICK f \in Files : HostTransfers(f)
    BY <1>2 DEF Host
  <2>2. done' = done
    BY <2>1 DEF HostTransfers, history
  <2>3. CASE UNCHANGED <<loc, log, strm, db>>
    BY <2>3, CloudSame
  <2>4. CASE \E to \in Media : Logs(f, "move", to, TRUE)
    BY <2>2, <2>4, LogsCloud
  <2> QED
    BY <2>1, <2>3, <2>4 DEF HostTransfers
<1>3. CASE Monitor \/ StopRequested \/ Crash
  BY <1>3, CloudSame DEF Monitor, Pull, Handle, HandleBadly, BatchEnds, Raises, StopRequested, Stops,
                         Crash, Starts, cloud
<1> QED
  BY <1>1, <1>2, <1>3 DEF Next
------------------------------------------------------------------------------
(* The library while there is hope.                                        *)

\* The STRM of f is at p, if that is a path, and nowhere else.
Plays(f, p) == \A q \in Media : strm[q] = f <=> q = p

\* A STRM of f is where its row or the cloud has f.
Within(f) == \A q \in Media : strm[q] = f => q \in {db[f], loc[f]}

\* What the last event of f finds: a rename brings a STRM from the path on record if it did
\* not bring it already, a local move finds one at either end.
Found(f) ==
    /\ Lately(f, "rename") =>
          \/ db[f] = loc[f]
          \/ (loc[f] \in Media => strm[loc[f]] # f) /\ (db[f] \in Media => strm[db[f]] = f)
    /\ Lately(f, "move") /\ options.localMove /\ db[f] \in Media /\ loc[f] \in Media =>
          strm[db[f]] = f \/ strm[loc[f]] = f

\* The row of a file whose last event was handled names the path of its STRM.  A row
\* that is behind the cloud waits for an event of its file which comes before that of
\* whoever is there now.  What the host wrote, the monitor need not write.
Kept(f) ==
    /\ db[f] \in Media \union {Nowhere}
    /\ db[f] # Nowhere => Known(f)
    /\ Within(f) /\ Found(f)
    /\ Settled(f) \/ ~Known(f) => Plays(f, db[f])
    /\ db[f] \notin {loc[f], Nowhere} =>
          /\ ~Settled(f) /\ ~Lately(f, "create")
          /\ \A g \in Files, j, k \in DOMAIN log :
                loc[g] = db[f] /\ IsLast(f, j) /\ IsLast(g, k) => j < k
    /\ Settled(f) /\ loc[f] \in Media => db[f] = loc[f]
    /\ ~options.transfer /\ Hosted(f) /\ f \in arriving => db[f] = loc[f] /\ Plays(f, loc[f])

\* No two rows of a table are of one path.
Unique(d) == \A f, g \in Files : d[f] = d[g] /\ d[f] # Nowhere => f = g

AllKept == Unique(db) /\ \A f \in Files \ torn : Kept(f)

Faithful == Hope /\ options.remove => AllKept

LInv == IInv /\ TInv /\ Turn /\ Cloud /\ Faithful

LEMMA PlacesDiffer == /\ Media \subseteq Paths /\ Nowhere \notin Paths /\ Nowhere \notin Files
                      /\ Media \cap Waiting = {} /\ Media \cap Other = {} /\ Waiting \cap Other = {}
                      /\ Paths = Media \union Waiting \union Other
BY PathsDiffer DEF Paths
------------------------------------------------------------------------------
(* The account and the host.                                               *)

\* The STRM of x and its row are as they were.
Untouched(x) == db'[x] = db[x] /\ \A q \in Media : strm'[q] = x <=> strm[q] = x

LEMMA UntouchedIs ==
    ASSUME NEW x, Untouched(x), loc'[x] = loc[x], options' = options,
           \A c : Lately(x, c)' <=> Lately(x, c)
    PROVE  /\ \A p : Plays(x, p)' <=> Plays(x, p)
           /\ Plays(x, db[x])' <=> Plays(x, db[x])
           /\ Plays(x, loc[x])' <=> Plays(x, loc[x])
           /\ (Within(x) => Within(x)') /\ (Found(x) => Found(x)')
<1>1. \A p : Plays(x, p)' <=> Plays(x, p)
  BY DEF Plays, Untouched
<1>2. /\ Plays(x, db[x])' <=> Plays(x, db[x])
      /\ Plays(x, loc[x])' <=> Plays(x, loc[x])
  BY DEF Plays, Untouched
<1>3. Within(x) => Within(x)'
  BY DEF Within, Untouched
<1>4. Found(x) => Found(x)'
  BY DEF Found, Untouched
<1> QED
  BY <1>1, <1>2, <1>3, <1>4

\* Nothing happens to x, if only the file at hand is written or settled.
LEMMA KeptBeside ==
    ASSUME NEW x \in Files, Kept(x), loc' = loc, log' = log, options' = options,
           Settled(x)' <=> Settled(x), Untouched(x),
           x \in arriving' /\ Hosted(x) => x \in arriving
    PROVE  Kept(x)'
<1>1. (Known(x)' <=> Known(x)) /\ (Hosted(x)' <=> Hosted(x)) /\ \A c : Lately(x, c)' <=> Lately(x, c)
  BY DEF Known, Lately, Hosted, IsLast
<1>2. \A g, k : IsLast(g, k)' <=> IsLast(g, k)
  BY DEF IsLast
<1>3. db'[x] = db[x]
  BY DEF Untouched
<1>4. /\ Plays(x, db[x])' <=> Plays(x, db[x])
      /\ Plays(x, loc[x])' <=> Plays(x, loc[x])
      /\ Within(x)' /\ Found(x)'
  BY <1>1, UntouchedIs DEF Kept
<1> QED
  BY <1>1, <1>2, <1>3, <1>4 DEF Kept

LEMMA KeptSame ==
    ASSUME AllKept, UNCHANGED <<loc, log, strm, db, done, options>>, torn \subseteq torn',
           \A x \in Files : x \in arriving' /\ Hosted(x) => x \in arriving
    PROVE  AllKept'
<1>1. ASSUME NEW x \in Files \ torn' PROVE Kept(x)'
  <2>1. Kept(x)
    BY DEF AllKept
  <2>2. (Settled(x)' <=> Settled(x)) /\ Untouched(x)
    BY DEF Settled, IsLast, Untouched
  <2> QED
    BY <2>1, <2>2, KeptBeside
<1> QED
  BY <1>1 DEF AllKept, Unique

\* An event of another file.
LEMMA KeptOther ==
    ASSUME TInv, NEW f \in Files, NEW kind, NEW to, NEW byHost, Logs(f, kind, to, byHost),
           done' = done, options' = options, arriving' = arriving,
           NEW x \in Files \ {f}, Kept(x), Untouched(x)
    PROVE  Kept(x)'
<1>1. /\ Known(x)' <=> Known(x)
      /\ Settled(x)' <=> Settled(x)
      /\ Hosted(x)' <=> Hosted(x)
      /\ \A c : Lately(x, c)' <=> Lately(x, c)
      /\ loc'[x] = loc[x] /\ db'[x] = db[x]
  BY LogsLast, LogsFile DEF Untouched
<1>2. ASSUME NEW g \in Files, NEW j \in DOMAIN log', NEW k \in DOMAIN log',
             loc'[g] = db[x], IsLast(x, j)', IsLast(g, k)', db[x] \notin {loc[x], Nowhere}
      PROVE  j < k
  <2>1. IsLast(x, j) /\ j \in 1..Len(log) /\ Len(log) \in Nat
    BY <1>2, LogsLast DEF IsLast
  <2>2. CASE g = f
    BY <1>2, <2>1, <2>2, LogsLast
  <2>3. CASE g # f
    <3>1. IsLast(g, k) /\ loc[g] = db[x] /\ k \in DOMAIN log
      BY <1>2, <2>3, LogsLast DEF IsLast
    <3> QED
      BY <1>2, <2>1, <3>1, LogsLast DEF Kept
  <2> QED
    BY <2>2, <2>3
<1>3. /\ Plays(x, db[x])' <=> Plays(x, db[x])
      /\ Plays(x, loc[x])' <=> Plays(x, loc[x])
      /\ Within(x)' /\ Found(x)'
  BY <1>1, UntouchedIs DEF Kept
<1> QED
  BY <1>1, <1>2, <1>3 DEF Kept

\* A file whose last event was handled is where its row says, if that is in the library.
LEMMA RowOfSettled ==
    ASSUME AllKept, NEW f \in Files \ torn, \A k \in DOMAIN log : log[k].file = f => k \in done
    PROVE  /\ db[f] \in {loc[f], Nowhere} /\ db[f] \in Media \union {Nowhere}
           /\ Plays(f, db[f])
           /\ ~Known(f) => db[f] = Nowhere
<1>1. Known(f) => Settled(f)
  BY DEF Known, Settled, IsLast
<1>2. Kept(f)
  BY DEF AllKept
<1>3. db[f] # Nowhere => Known(f)
  BY <1>2 DEF Kept
<1>4. db[f] \notin {loc[f], Nowhere} => ~Settled(f)
  BY <1>2 DEF Kept
<1>5. Plays(f, db[f])
  BY <1>1, <1>2 DEF Kept
<1> QED
  BY <1>1, <1>2, <1>3, <1>4, <1>5 DEF Kept

LEMMA UserKept ==
    ASSUME IInv, TInv, Turn, Cloud, Faithful, User, Hope', options.remove
    PROVE  Hope /\ AllKept'
<1>1. PICK f \in Files, kind \in {"create", "move", "rename", "delete"},
             to \in Paths \union {Nowhere} :
               /\ UserDoes(f, kind, to)
               /\ kind = "create" => ~Known(f)
               /\ kind # "create" => loc[f] # Nowhere /\ to # loc[f]
  BY UserIs
<1>2. /\ Logs(f, kind, to, FALSE) /\ strm' = strm /\ db' = db /\ options' = options /\ done' = done
      /\ arriving' = arriving /\ torn' = torn
      /\ UNCHANGED <<thread, position, saved, options, done, skipped, late>>
  BY <1>1 DEF UserDoes, library, history
<1>3. Hope /\ \A i \in DOMAIN log : log[i].file = f => i \in done
  BY <1>2, HopeLogs
<1>4. AllKept
  BY <1>3 DEF Faithful
<1>5. ASSUME f \notin torn PROVE Kept(f)'
  <2>1. /\ db[f] \in {loc[f], Nowhere} /\ db[f] \in Media \union {Nowhere} /\ Plays(f, db[f])
        /\ ~Known(f) => db[f] = Nowhere
    BY <1>3, <1>4, <1>5, RowOfSettled
  <2>2. /\ Known(f)' /\ ~Settled(f)' /\ ~Hosted(f)' /\ (Lately(f, "create")' => ~Known(f))
        /\ loc'[f] = to
    BY <1>1, <1>2, LogsFile, LogsLast, LogsByUser
  <2>3. db'[f] = db[f] /\ Plays(f, db[f])'
    BY <1>2, <2>1 DEF Plays
  <2>4. db[f] # Nowhere => \A g \in Files : loc'[g] # db[f]
    <3>1. db[f] # Nowhere => db[f] = loc[f] /\ Known(f)
      BY <2>1
    <3>2. db[f] # Nowhere => loc'[f] # db[f]
      BY <1>1, <2>2, <3>1
    <3>3. \A g \in Files \ {f} : loc'[g] = loc[g]
      BY <1>2, LogsLast
    <3>4. \A g \in Files : loc[g] = loc[f] /\ loc[f] # Nowhere => g = f
      BY DEF Cloud, Apart
    <3> QED
      BY <3>1, <3>2, <3>3, <3>4
  <2>5. Within(f)' /\ (db'[f] \in Media => strm'[db'[f]] = f)
    BY <2>1, <2>3 DEF Within, Plays
  <2>6. Found(f)'
    <3>1. loc'[f] \in Media => strm'[loc'[f]] # f \/ db'[f] = loc'[f]
      BY <2>3 DEF Plays
    <3> QED
      BY <1>2, <2>5, <3>1 DEF Found
  <2> QED
    BY <2>1, <2>2, <2>3, <2>4, <2>5, <2>6 DEF Kept
<1>6. ASSUME NEW x \in Files \ (torn \union {f}) PROVE Kept(x)'
  <2>1. Kept(x) /\ Untouched(x)
    BY <1>2, <1>4 DEF AllKept, Untouched
  <2> QED
    BY <1>2, <2>1, KeptOther
<1> QED
  BY <1>2, <1>3, <1>4, <1>5, <1>6 DEF AllKept, Unique

\* The host's transfer writes STRM and row itself, over what was left at the path.
LEMMA HostKept ==
    ASSUME IInv, TInv, Turn, Cloud, Faithful, Host, Hope', options.remove
    PROVE  Hope /\ AllKept'
<1>1. PICK f \in Files : HostTransfers(f)
  BY DEF Host
<1>2. /\ options' = options /\ done' = done /\ arriving' = arriving /\ torn' = torn
      /\ UNCHANGED <<thread, position, saved, options, done, skipped, late>>
  BY <1>1 DEF HostTransfers, history
<1>3. CASE UNCHANGED <<loc, log, strm, db>>
  <2>1. Hope
    BY <1>2, <1>3, HopeSame DEF Reach, From, position
  <2>2. AllKept
    BY <2>1 DEF Faithful
  <2> QED
    BY <1>2, <1>3, <2>1, <2>2, KeptSame
<1>4. ASSUME NEW to \in Media, Logs(f, "move", to, TRUE), loc[f] \in Waiting,
             strm' = IF options.transfer THEN strm ELSE [strm EXCEPT ![to] = f],
             db' = IF options.transfer THEN db ELSE Record(db, f, to)
      PROVE  Hope /\ AllKept'
  <2>1. Hope /\ \A i \in DOMAIN log : log[i].file = f => i \in done
    BY <1>2, <1>4, HopeLogs
  <2>2. AllKept
    BY <2>1 DEF Faithful
  <2>3. f \notin torn => db[f] = Nowhere /\ Plays(f, Nowhere)
    BY <1>4, <2>1, <2>2, RowOfSettled, PlacesDiffer
  <2>4. /\ Known(f)' /\ ~Settled(f)' /\ ~Lately(f, "create")' /\ ~Lately(f, "rename")'
        /\ loc'[f] = to
    <3>1. loc'[f] = to
      BY <1>4, LogsLast
    <3> QED
      BY <1>2, <1>4, <3>1, LogsFile
  <2>5. \A x \in Files : loc[x] # to
    BY <1>4, PlacesDiffer DEF Logs, Free
  <2>6. CASE options.transfer
    <3>1. f \notin torn => Kept(f)'
      <4> SUFFICES ASSUME f \notin torn PROVE Kept(f)'
        OBVIOUS
      <4>1. db'[f] = Nowhere /\ Plays(f, Nowhere)' /\ Plays(f, db[f])'
        BY <1>4, <2>3, <2>6 DEF Plays
      <4>2. Within(f)' /\ Found(f)'
        BY <1>2, <2>4, <4>1, PlacesDiffer DEF Within, Found, Plays
      <4> QED
        BY <1>2, <2>4, <2>6, <4>1, <4>2 DEF Kept
    <3>2. ASSUME NEW x \in Files \ (torn \union {f}) PROVE Kept(x)'
      <4>1. Kept(x) /\ Untouched(x)
        BY <1>4, <2>2, <2>6 DEF AllKept, Untouched
      <4> QED
        BY <1>2, <1>4, <4>1, KeptOther
    <3> QED
      BY <1>2, <1>4, <2>1, <2>2, <2>6, <3>1, <3>2 DEF AllKept, Unique
  <2>7. CASE ~options.transfer
    <3>1. /\ \A q \in Media : strm'[q] = IF q = to THEN f ELSE strm[q]
          /\ db'[f] = to /\ \A x \in Files \ {f} : db'[x] = IF db[x] = to THEN Nowhere ELSE db[x]
      BY <1>4, <2>7 DEF Record, TInv, TypeOK
    <3>2. f \notin torn => Kept(f)'
      <4> SUFFICES ASSUME f \notin torn PROVE Kept(f)'
        OBVIOUS
      <4>1. Plays(f, to)'
        BY <2>3, <3>1, PlacesDiffer DEF Plays
      <4>2. Plays(f, db[f])' /\ Plays(f, loc[f])'
        BY <2>4, <3>1, <4>1 DEF Plays
      <4>3. Within(f)' /\ Found(f)'
        BY <1>2, <2>4, <3>1, <4>1 DEF Within, Found, Plays
      <4> QED
        BY <2>4, <3>1, <4>2, <4>3 DEF Kept
    <3>3. ASSUME NEW x \in Files \ (torn \union {f}), db[x] # to PROVE Kept(x)'
      <4>1. Kept(x) /\ db'[x] = db[x]
        BY <2>2, <3>1, <3>3 DEF AllKept
      <4>2. strm[to] # x
        BY <2>5, <3>3, <4>1 DEF Kept, Within
      <4>3. Untouched(x)
        BY <3>1, <4>1, <4>2 DEF Untouched
      <4> QED
        BY <1>2, <1>4, <4>1, <4>3, KeptOther
    <3>4. ASSUME NEW x \in Files \ (torn \union {f}), db[x] = to PROVE Kept(x)'
      <4>1. /\ Kept(x) /\ db'[x] = Nowhere /\ loc'[x] = loc[x] /\ (Settled(x)' <=> Settled(x))
            /\ (Hosted(x)' <=> Hosted(x)) /\ (Known(x)' <=> Known(x))
            /\ \A c : Lately(x, c)' <=> Lately(x, c)
        <5>1. Kept(x) /\ db'[x] = Nowhere
          BY <2>2, <3>1, <3>4 DEF AllKept
        <5>2. loc'[x] = loc[x]
          BY <1>4, LogsLast
        <5>3. /\ (Settled(x)' <=> Settled(x)) /\ (Hosted(x)' <=> Hosted(x)) /\ (Known(x)' <=> Known(x))
              /\ \A c : Lately(x, c)' <=> Lately(x, c)
          BY <1>2, <1>4, LogsFile
        <5> QED
          BY <5>1, <5>2, <5>3
      <4>2. /\ ~Settled(x) /\ Known(x) /\ db[x] # loc[x] /\ to # Nowhere
            /\ ~(~options.transfer /\ Hosted(x) /\ x \in arriving)
        BY <2>5, <3>4, <4>1, PlacesDiffer DEF Kept
      <4>3. Within(x) /\ Found(x)
        BY <4>1 DEF Kept
      <4>4. \A q \in Media : strm'[q] = x => q = loc[x] /\ strm[q] = x
        BY <3>1, <3>4, <4>3 DEF Within
      <4>5. Within(x)'
        BY <4>1, <4>4 DEF Within
      <4>6. Found(x)'
        BY <4>1, <4>2, <4>3, <4>4, PlacesDiffer DEF Found
      <4> QED
        BY <1>2, <4>1, <4>2, <4>5, <4>6 DEF Kept
    <3>5. Unique(db')
      BY <2>2, <3>1 DEF AllKept, Unique
    <3> QED
      BY <1>2, <2>1, <3>2, <3>3, <3>4, <3>5 DEF AllKept, Unique
  <2> QED
    BY <2>6, <2>7
<1> QED
  BY <1>1, <1>3, <1>4 DEF HostTransfers
------------------------------------------------------------------------------
(* What a handler writes, done, broken off or with an error, is its file's. *)

\* The other files, but for those that are torn.
Whole(f) == Files \ ({f} \union torn)

\* Nobody else who is whole has a row or a STRM at p, and nobody else is there.
Clear(p, f) == \A x \in Whole(f) : db[x] # p /\ strm[p] # x
NoOther(p, f) == \A x \in Files \ {f} : loc[x] # p

\* The STRM files of the others are as they were, and so are their rows; the row of f
\* is as it was, or gone, or where f is in the library.
MildFiles(s, f) == s \in Strms /\ \A x \in Whole(f), q \in Media : s[q] = x <=> strm[q] = x
MildRows(d, f) ==
    /\ d \in Table /\ Unique(d)
    /\ d[f] \in {db[f], Nowhere} \union ({loc[f]} \intersect Media)
    /\ \A x \in Whole(f) : d[x] = db[x]

Tame(lib, f) ==
    /\ lib \in Libraries
    /\ MildFiles(lib.strm, f) /\ MildRows(lib.db, f)
    /\ lib.arriving \subseteq arriving \union {f}

LEMMA LibraryIs == /\ Library.db = db /\ Library.strm = strm /\ Library.arriving = arriving
                   /\ Library.queued = queued
BY DEF Library

LEMMA TameRows ==
    ASSUME NEW lib, NEW f \in Files, Tame(lib, f), NEW d, MildRows(d, f)
    PROVE  Tame([lib EXCEPT !.db = d], f)
BY DEF Tame, Libraries, MildRows

LEMMA TameFiles ==
    ASSUME NEW lib, NEW f \in Files, Tame(lib, f), NEW s, MildFiles(s, f)
    PROVE  Tame([lib EXCEPT !.strm = s], f)
BY DEF Tame, Libraries, MildFiles

LEMMA TameBoth ==
    ASSUME NEW lib, NEW f \in Files, Tame(lib, f), NEW l \in Libraries,
           MildFiles(l.strm, f), MildRows(l.db, f), l.arriving \subseteq lib.arriving \union {f}
    PROVE  Tame(l, f)
BY DEF Tame

LEMMA TameNote ==
    ASSUME NEW lib, NEW f \in Files, Tame(lib, f), NEW a, a \subseteq lib.arriving \union {f}
    PROVE  Tame([lib EXCEPT !.arriving = a], f)
<1>1. lib \in Libraries /\ a \subseteq Files /\ a \subseteq arriving \union {f}
  BY DEF Tame, Libraries
<1> QED
  BY <1>1 DEF Tame, Libraries

LEMMA MildRecord ==
    ASSUME NEW f \in Files, NEW d, MildRows(d, f)
    PROVE  /\ loc[f] \in Media /\ Clear(loc[f], f) => MildRows(Record(d, f, loc[f]), f)
           /\ MildRows(Unrecord(d, d[f]), f) /\ MildRows([d EXCEPT ![f] = Nowhere], f)
<1>1. d \in Table /\ Unique(d) /\ \A x \in Whole(f) : x \in Files \ {f} /\ d[x] = db[x]
  BY DEF MildRows, Whole
<1>2. ASSUME loc[f] \in Media, Clear(loc[f], f) PROVE MildRows(Record(d, f, loc[f]), f)
  <2>1. /\ Record(d, f, loc[f])[f] = loc[f]
        /\ \A x \in Files \ {f} : Record(d, f, loc[f])[x] = IF d[x] = loc[f] THEN Nowhere ELSE d[x]
    BY <1>1 DEF Record, Table
  <2>2. Record(d, f, loc[f]) \in Table
    BY <1>1, <1>2, RecordType, PlacesDiffer
  <2>3. Unique(Record(d, f, loc[f]))
    BY <1>1, <2>1 DEF Unique
  <2> QED
    BY <1>1, <1>2, <2>1, <2>2, <2>3 DEF MildRows, Clear
<1>3. MildRows(Unrecord(d, d[f]), f)
  <2>1. \A x \in Files : Unrecord(d, d[f])[x] = IF d[x] = d[f] THEN Nowhere ELSE d[x]
    BY <1>1 DEF Unrecord, Table
  <2>2. d[f] \in Paths \union {Nowhere}
    BY <1>1 DEF Table
  <2>3. Unrecord(d, d[f]) \in Table
    BY <1>1, <2>2, RecordType
  <2>4. Unique(Unrecord(d, d[f]))
    BY <1>1, <2>1 DEF Unique
  <2>5. \A x \in Whole(f) : Unrecord(d, d[f])[x] = d[x]
    BY <1>1, <2>1 DEF Unique
  <2> QED
    BY <1>1, <2>1, <2>3, <2>4, <2>5 DEF MildRows
<1>4. MildRows([d EXCEPT ![f] = Nowhere], f)
  BY <1>1 DEF MildRows, Table, Unique
<1> QED
  BY <1>2, <1>3, <1>4

\* A STRM is written, deleted or copied at a path where no other whole file has one.
LEMMA MildWrite ==
    ASSUME NEW f \in Files, NEW s, MildFiles(s, f), NEW p \in Media, strm[p] \notin Whole(f),
           NEW v \in Files \union {Nowhere}, v \notin Whole(f)
    PROVE  MildFiles([s EXCEPT ![p] = v], f) /\ s[p] \notin Whole(f) /\ s[p] \in Files \union {Nowhere}
<1>1. s \in Strms /\ s[p] \in Files \union {Nowhere}
  BY DEF MildFiles, Strms
<1>2. [s EXCEPT ![p] = v] \in Strms
  BY <1>1 DEF Strms
<1>3. ASSUME NEW x \in Whole(f), NEW q \in Media
      PROVE  [s EXCEPT ![p] = v][q] = x <=> strm[q] = x
  BY <1>1 DEF MildFiles, Strms
<1> QED
  BY <1>1, <1>2, <1>3 DEF MildFiles

\* _create, with and without the cache of transfers, and what is left of it.
LEMMA TameCreate ==
    ASSUME NEW lib, NEW f \in Files, Tame(lib, f), NEW p,
           p \in Media => p = loc[f] /\ Clear(p, f)
    PROVE  /\ Tame(CreateRow(lib, f, p), f) /\ Tame(Create(lib, f, p), f)
           /\ Tame(GuardedCreate(lib, f, p), f) /\ \A l \in CreateHalves(lib, f, p) : Tame(l, f)
<1>1. ASSUME NEW l, Tame(l, f) PROVE Tame(CreateRow(l, f, p), f) /\ Tame(Create(l, f, p), f)
  <2>1. l \in Libraries /\ MildRows(l.db, f) /\ MildFiles(l.strm, f)
    BY <1>1 DEF Tame
  <2>2. CASE p \in Media
    <3> DEFINE d == Record(l.db, f, p)
               s == [l.strm EXCEPT ![p] = f]
    <3>1. MildRows(d, f)
      BY <2>1, <2>2, MildRecord
    <3>2. MildFiles(s, f)
      BY <2>1, <2>2, MildWrite DEF Clear, Whole
    <3>3. /\ CreateRow(l, f, p) = [l EXCEPT !.db = d]
          /\ Create(l, f, p).strm = s /\ Create(l, f, p).db = d
          /\ Create(l, f, p).arriving = l.arriving /\ Create(l, f, p) \in Libraries
      <4>1. CreateRow(l, f, p) = [l EXCEPT !.db = d]
        BY <2>1, <2>2 DEF CreateRow, Libraries
      <4>2. CreateRow(l, f, p) \in Libraries /\ Create(l, f, p) \in Libraries
        BY <2>1, <2>2, CreateType, PlacesDiffer
      <4>3. /\ CreateRow(l, f, p).strm = l.strm /\ CreateRow(l, f, p).db = d
            /\ CreateRow(l, f, p).arriving = l.arriving
        BY <2>1, <4>1 DEF Libraries
      <4>4. Create(l, f, p) = [CreateRow(l, f, p) EXCEPT !.strm[p] = f]
        BY <2>2 DEF Create
      <4> HIDE DEF d
      <4>5. /\ Create(l, f, p).strm = s /\ Create(l, f, p).db = d
            /\ Create(l, f, p).arriving = l.arriving
        BY <4>2, <4>3, <4>4 DEF Libraries
      <4> QED
        BY <4>1, <4>2, <4>5
    <3> HIDE DEF d, s
    <3>4. Tame([l EXCEPT !.db = d], f)
      BY <1>1, <3>1, TameRows
    <3>5. Tame(Create(l, f, p), f)
      BY <1>1, <3>1, <3>2, <3>3, TameBoth
    <3> QED
      BY <3>3, <3>4, <3>5
  <2>3. CASE p \notin Media
    BY <1>1, <2>3 DEF Create, CreateRow
  <2> QED
    BY <2>2, <2>3
<1>2. Tame([lib EXCEPT !.arriving = lib.arriving \ {f}], f)
  <2>1. lib.arriving \ {f} \subseteq lib.arriving \union {f}
    OBVIOUS
  <2> QED
    BY <2>1, TameNote
<1>3. Tame(GuardedCreate(lib, f, p), f)
  BY <1>1, <1>2 DEF GuardedCreate
<1>4. \A l \in CreateHalves(lib, f, p) : Tame(l, f)
  BY <1>1, <1>2 DEF CreateHalves
<1> QED
  BY <1>1, <1>3, <1>4

\* media_transfer.
LEMMA TameTransfer ==
    ASSUME NEW lib, NEW f \in Files, Tame(lib, f)
    PROVE  Tame(MediaTransfer(lib, f), f) /\ \A l \in TransferHalves(lib, f) : Tame(l, f)
<1> DEFINE row == [lib EXCEPT !.db = [lib.db EXCEPT ![f] = Nowhere]]
           note == [row EXCEPT !.arriving = row.arriving \union {f}]
<1>1. Tame(row, f)
  <2>1. MildRows([lib.db EXCEPT ![f] = Nowhere], f)
    BY MildRecord DEF Tame
  <2> QED
    BY <2>1, TameRows
<1>2. Tame(note, f)
  <2> HIDE DEF row
  <2> QED
    BY <1>1, TameNote
<1>3. \A l \in TransferHalves(lib, f) : l = row \/ l = note
  BY DEF TransferHalves
<1>4. Tame(MediaTransfer(lib, f), f)
  <2>1. /\ MediaTransfer(lib, f).db = note.db /\ MediaTransfer(lib, f).strm = note.strm
        /\ MediaTransfer(lib, f).arriving = note.arriving
        /\ MediaTransfer(lib, f) \in Libraries
    BY DEF MediaTransfer, Libraries, Table, Tame
  <2> HIDE DEF note
  <2> QED
    BY <1>2, <2>1 DEF Tame
<1> QED
  BY <1>1, <1>2, <1>3, <1>4

\* remove, with and without an error, for a file that nobody else has the path of.
LEMMA TameRemove ==
    ASSUME NEW f \in Files, Tame(Library, f),
           db[f] \in Media => NoOther(db[f], f) /\ strm[db[f]] \notin Whole(f)
    PROVE  /\ Tame(Remove(Library, f), f) /\ Tame(RowRemoved(Library, f), f)
           /\ \A l \in Removals(Library, f) : Tame(l, f)
           /\ db[f] \in Media /\ loc[f] = db[f] =>
                 /\ Remove(Library, f).db[f] = db[f] /\ Remove(Library, f).strm = strm
                 /\ Removals(Library, f) = {Remove(Library, f)}
           /\ db[f] \in Media /\ loc[f] # db[f] =>
                 /\ Remove(Library, f).db[f] = Nowhere
                 /\ Remove(Library, f).strm = [strm EXCEPT ![db[f]] = Nowhere]
           /\ db[f] \notin Media => /\ Remove(Library, f) = Library /\ RowRemoved(Library, f) = Library
                                    /\ Removals(Library, f) = {Library}
           /\ Remove(Library, f).arriving = arriving
<1> DEFINE p == db[f]
           there == {x \in Files : loc[x] = p}
           g == CHOOSE x \in there : TRUE
           table == Record(Unrecord(db, p), g, p)
<1>1. /\ Library \in Libraries /\ MildRows(db, f) /\ MildFiles(strm, f)
      /\ db \in Table /\ strm \in Strms /\ Unique(db)
  BY LibraryIs DEF Tame, MildRows, MildFiles
<1>2. Remove(Library, f) =
        IF p \notin Media THEN Library
        ELSE IF there # {} THEN [Library EXCEPT !.db = table]
        ELSE [Library EXCEPT !.db = Unrecord(db, p), !.strm[p] = Nowhere]
  <2>1. Remove(Library, f) =
          IF Library.db[f] \notin Media THEN Library
          ELSE IF {x \in Files : loc[x] = Library.db[f]} # {}
          THEN [Library EXCEPT !.db = Record(Unrecord(Library.db, Library.db[f]),
                                             CHOOSE x \in {x \in Files : loc[x] = Library.db[f]} : TRUE,
                                             Library.db[f])]
          ELSE [Library EXCEPT !.db = Unrecord(Library.db, Library.db[f]), !.strm[Library.db[f]] = Nowhere]
    BY Zenon DEF Remove
  <2> QED
    BY <2>1, LibraryIs, Zenon
<1>3. MildRows(Unrecord(db, p), f)
  BY <1>1, MildRecord
<1>4. RowRemoved(Library, f) = IF p \in Media THEN [Library EXCEPT !.db = Unrecord(db, p)] ELSE Library
  BY LibraryIs DEF RowRemoved
<1>5. Tame(RowRemoved(Library, f), f)
  <2>1. Tame([Library EXCEPT !.db = Unrecord(db, p)], f)
    BY <1>3, TameRows
  <2> QED
    BY <1>4, <2>1
<1>6. Removals(Library, f) = {Remove(Library, f)} \union
                             (IF p \in Media /\ Free(p) THEN {RowRemoved(Library, f)} ELSE {})
  BY LibraryIs DEF Removals
<1>7. CASE p \notin Media
  <2> HIDE DEF p, there, g, table
  <2>1. Remove(Library, f) = Library /\ RowRemoved(Library, f) = Library
    BY <1>2, <1>4, <1>7
  <2>2. Removals(Library, f) = {Library}
    BY <1>6, <1>7, <2>1
  <2> QED
    BY <1>7, <2>1, <2>2, LibraryIs DEF p
<1>8. CASE p \in Media /\ loc[f] = p
  <2>1. there = {f}
    BY <1>8 DEF NoOther
  <2>2. g = f
    BY <2>1
  <2>3. \A x \in Files : table[x] = IF x = f THEN p ELSE IF Unrecord(db, p)[x] = p THEN Nowhere
                                                     ELSE Unrecord(db, p)[x]
    BY <2>2 DEF Record
  <2>4. \A x \in Files : Unrecord(db, p)[x] = IF db[x] = p THEN Nowhere ELSE db[x]
    BY DEF Unrecord
  <2>5. table \in [Files -> Paths \union {Nowhere}] /\ db \in [Files -> Paths \union {Nowhere}]
    <3>1. p \in Paths \union {Nowhere} /\ f \in Files
      BY <1>8, PlacesDiffer
    <3>2. Record(Unrecord(db, p), f, p) \in Table
      BY <1>1, <3>1, RecordType
    <3> QED
      BY <1>1, <2>2, <3>2 DEF Table
  <2>6. table = db
    <3>1. \A x \in Files : table[x] = db[x]
      BY <1>1, <1>8, <2>3, <2>4, PlacesDiffer DEF Unique
    <3> HIDE DEF table
    <3> QED
      BY <2>5, <3>1
  <2> HIDE DEF p, there, g, table
  <2>7. Remove(Library, f) = [Library EXCEPT !.db = db]
    BY <1>2, <1>8, <2>1, <2>6
  <2>8. Remove(Library, f).db = db /\ Remove(Library, f).strm = strm /\ Remove(Library, f).arriving = arriving
    BY <1>1, <2>7, LibraryIs DEF Libraries
  <2>9. Tame(Remove(Library, f), f)
    BY <1>1, <2>7, TameRows
  <2>10. ~Free(p)
    BY <1>8 DEF Free
  <2>11. Removals(Library, f) = {Remove(Library, f)}
    BY <1>6, <2>10
  <2> QED
    BY <1>5, <1>8, <2>8, <2>9, <2>11 DEF p
<1>9. CASE p \in Media /\ loc[f] # p
  <2>1. there = {}
    BY <1>9 DEF NoOther
  <2> HIDE DEF there, g, table
  <2>2. MildFiles([strm EXCEPT ![p] = Nowhere], f)
    BY <1>1, <1>9, MildWrite, PlacesDiffer DEF Whole
  <2>3. Unrecord(db, p)[f] = Nowhere
    BY DEF Unrecord
  <2> DEFINE s == [strm EXCEPT ![p] = Nowhere]
             d == Unrecord(db, p)
  <2>4. Remove(Library, f) = [Library EXCEPT !.strm = s, !.db = d]
    BY <1>1, <1>2, <1>9, <2>1, LibraryIs DEF Libraries
  <2>5. Tame(Remove(Library, f), f)
    <3> HIDE DEF s, d
    <3>1. MildFiles(s, f) /\ MildRows(d, f) /\ s \in Strms /\ d \in Table
      BY <1>3, <2>2 DEF s, d, MildFiles, MildRows
    <3>2. /\ Remove(Library, f).strm = s /\ Remove(Library, f).db = d
          /\ Remove(Library, f).arriving = Library.arriving /\ Remove(Library, f) \in Libraries
      BY <1>1, <2>4, <3>1 DEF Libraries
    <3> QED
      BY <3>1, <3>2, TameBoth
  <2> HIDE DEF p
  <2>6. /\ Remove(Library, f).db[f] = Nowhere /\ Remove(Library, f).strm = [strm EXCEPT ![p] = Nowhere]
        /\ Remove(Library, f).arriving = arriving
    BY <1>1, <2>3, <2>4, LibraryIs DEF Libraries
  <2>7. \A l \in Removals(Library, f) : Tame(l, f)
    BY <1>5, <1>6, <2>5
  <2> QED
    BY <1>5, <1>9, <2>5, <2>6, <2>7 DEF p
<1> QED
  BY <1>7, <1>8, <1>9

\* The STRM of a file that moves within the library.
LEMMA TameStrms ==
    ASSUME NEW f \in Files, MildFiles(strm, f), NEW old \in Media, NEW new \in Media,
           strm[old] \notin Whole(f), strm[new] \notin Whole(f)
    PROVE  /\ \A s \in Unmoved(strm, old, new) \union Unsynced(strm, f, old, new) : MildFiles(s, f)
           /\ MildFiles([strm EXCEPT ![old] = Nowhere, ![new] = f], f)
           /\ MildFiles([strm EXCEPT ![old] = IF old = new THEN f ELSE Nowhere, ![new] = f], f)
<1>1. /\ strm[old] \in Files \union {Nowhere} /\ Nowhere \notin Whole(f) /\ f \notin Whole(f)
      /\ Nowhere \in Files \union {Nowhere} /\ f \in Files \union {Nowhere}
  BY PlacesDiffer DEF Whole, MildFiles, Strms
<1>2. MildFiles([strm EXCEPT ![new] = strm[old]], f) /\ MildFiles([strm EXCEPT ![new] = f], f)
  BY <1>1, MildWrite
<1>3. MildFiles([strm EXCEPT ![new] = strm[old], ![old] = Nowhere], f)
  BY <1>1, <1>2, MildWrite
<1>4. MildFiles([strm EXCEPT ![old] = Nowhere], f) /\ MildFiles([strm EXCEPT ![old] = f], f)
  BY <1>1, MildWrite
<1>5. MildFiles([strm EXCEPT ![old] = Nowhere, ![new] = f], f)
      /\ MildFiles([strm EXCEPT ![old] = f, ![new] = f], f)
  BY <1>1, <1>4, MildWrite
<1>6. \A s \in Unmoved(strm, old, new) \union Unsynced(strm, f, old, new) :
         \/ s = strm \/ s = [strm EXCEPT ![new] = strm[old]] \/ s = [strm EXCEPT ![new] = f]
         \/ s = [strm EXCEPT ![new] = strm[old], ![old] = Nowhere]
  BY DEF Unmoved, Unsynced
<1> QED
  BY <1>2, <1>3, <1>5, <1>6
------------------------------------------------------------------------------
(* The event at hand.                                                      *)

\* The next event is the last of its file, and what precedes it is done.
LEMMA NextIsLast ==
    ASSUME IInv, TInv, Hope, thread = "batch", next <= batch
    PROVE  /\ next \in DOMAIN log /\ log[next] \in Event /\ log[next].file \in Files
           /\ IsLast(log[next].file, next)
           /\ \A i \in DOMAIN log : i < next => i \in done
<1>1. next \in 1..Len(log) /\ DOMAIN log = 1..Len(log) /\ Len(log) \in Nat /\ log \in Seq(Event)
      /\ Reach = next - 1
  BY Counters DEF Reach, TInv, TypeOK
<1>2. \A j \in next+1..Len(log) : log[j].file # log[next].file
  <2>1. \A j \in next+1..Len(log) : j \in DOMAIN log /\ next < j
    BY <1>1
  <2>2. \A j \in DOMAIN log : ~Earlier(next, j)
    BY <1>1 DEF Hope
  <2> QED
    BY <1>1, <2>1, <2>2 DEF Earlier
<1>3. \A i \in DOMAIN log : i < next => i \in done
  BY <1>1 DEF Hope
<1>4. log[next] \in Event
  BY <1>1
<1>5. log[next].file \in Files
  BY <1>4 DEF Event
<1>6. IsLast(log[next].file, next)
  BY <1>1, <1>2 DEF IsLast
<1> QED
  BY <1>1, <1>3, <1>4, <1>5, <1>6

\* Whoever has a row or a STRM at the path of the file at hand was to be handled before.
LEMMA ClearAtHome ==
    ASSUME IInv, TInv, Cloud, AllKept, Hope, thread = "batch", next <= batch,
           loc[log[next].file] \in Media
    PROVE  Clear(loc[log[next].file], log[next].file)
<1> DEFINE f == log[next].file
           p == loc[f]
<1>1. f \in Files /\ IsLast(f, next) /\ \A i \in DOMAIN log : i < next => i \in done
  BY NextIsLast
<1>2. p \in Media /\ p # Nowhere
  BY PlacesDiffer
<1> HIDE DEF f
<1>3. ASSUME NEW x \in Whole(f) PROVE db[x] # p /\ strm[p] # x
  <2>1. x \in Files \ {f} /\ x \in Files \ torn
    BY DEF Whole
  <2>2. loc[x] # p /\ Kept(x)
    BY <1>1, <1>2, <2>1 DEF Cloud, Apart, AllKept
  <2>3. db[x] # p
    <3>1. SUFFICES ASSUME db[x] = p PROVE FALSE
      OBVIOUS
    <3>2. /\ ~Settled(x) /\ Known(x)
          /\ \A g \in Files, j, k \in DOMAIN log :
                loc[g] = db[x] /\ IsLast(x, j) /\ IsLast(g, k) => j < k
      BY <1>2, <2>2, <3>1 DEF Kept
    <3>3. PICK j \in DOMAIN log : IsLast(x, j)
      BY <3>2 DEF Known
    <3>4. next \in DOMAIN log
      BY <1>1 DEF IsLast
    <3>5. j < next
      BY <1>1, <3>1, <3>2, <3>3, <3>4
    <3> QED
      BY <1>1, <3>2, <3>3, <3>5 DEF Settled
  <2> QED
    BY <1>2, <2>2, <2>3 DEF Kept, Within
<1> QED
  BY <1>3 DEF Clear, f

\* What is known of the file at hand, torn or not.
AtHand(e, f) ==
    /\ e \in Event /\ f = e.file /\ f \in Files /\ Tame(Library, f)
    /\ loc[f] \in Media => Clear(loc[f], f)
    /\ db[f] \in Media => NoOther(db[f], f) /\ strm[db[f]] \notin Whole(f)
    /\ e.kind \in {"create", "move"} => loc[f] = e.path
    /\ e.kind = "rename" => loc[f] \in Media
    /\ e.kind = "delete" => loc[f] = Nowhere
    /\ e.host => e.kind = "move" /\ loc[f] \in Media
    /\ f \in arriving => e.host \/ e.path \in Waiting

LEMMA AtHandIs ==
    ASSUME IInv, TInv, Cloud, AllKept, Hope, thread = "batch", next <= batch,
           ~Late(log[next])
    PROVE  AtHand(log[next], log[next].file)
<1> DEFINE e == log[next]
           f == e.file
<1>1. e \in Event /\ f \in Files /\ IsLast(f, next) /\ next \in DOMAIN log
  BY NextIsLast
<1>2. loc[f] \in Media => Clear(loc[f], f)
  BY ClearAtHome
<1>3. \A x \in Files \ {f} : loc[x] \notin {db[f], e.path} \cap Paths
  BY <1>1 DEF Late
<1>4. f \in arriving => e.host \/ e.path \in Waiting
  BY <1>1 DEF Late
<1>5. /\ e.kind \in {"create", "move"} => loc[f] = e.path
      /\ e.kind = "rename" => loc[f] \in Media
      /\ e.kind = "delete" => loc[f] = Nowhere
      /\ e.host => e.kind = "move" /\ loc[f] \in Media
  BY <1>1 DEF Cloud, Told
<1> HIDE DEF e, f
<1>6. db[f] \in Media => NoOther(db[f], f)
  BY <1>3, PlacesDiffer DEF NoOther
<1>7. ASSUME db[f] \in Media, NEW x \in Whole(f) PROVE strm[db[f]] # x
  <2>1. x \in Files \ {f} /\ Within(x) /\ db[x] # db[f]
    BY <1>1, <1>7, PlacesDiffer DEF AllKept, Kept, Whole, Unique
  <2>2. loc[x] # db[f]
    BY <1>6, <1>7, <2>1 DEF NoOther
  <2> QED
    BY <1>7, <2>1, <2>2 DEF Within
<1>8. Tame(Library, f)
  <2>1. /\ Library \in Libraries /\ strm \in Strms /\ db \in Table
    BY DEF Library, Libraries, Strms, Table, TInv, TypeOK
  <2>2. MildFiles(strm, f) /\ MildRows(db, f)
    BY <2>1 DEF MildFiles, MildRows, AllKept
  <2> QED
    BY <2>1, <2>2, LibraryIs DEF Tame
<1>9. f = e.file
  BY DEF f
<1> QED
  BY <1>1, <1>2, <1>4, <1>5, <1>6, <1>7, <1>8, <1>9 DEF AtHand, e, f

\* The local move of a STRM, done or broken off.
LEMMA TameLocalMove ==
    ASSUME NEW e, NEW f, AtHand(e, f), loc[f] \in Media, db[f] \in Media
    PROVE  /\ Tame(LocallyMoved(Library, f, db[f], loc[f]), f)
           /\ \A s \in Unmoved(strm, db[f], loc[f]) \union Unsynced(strm, f, db[f], loc[f])
                       \union {LocallyMoved(Library, f, db[f], loc[f]).strm} : MildFiles(s, f)
<1> DEFINE moved == LocallyMoved(Library, f, db[f], loc[f])
           files == [strm EXCEPT ![db[f]] = IF db[f] = loc[f] THEN f ELSE Nowhere, ![loc[f]] = f]
           rows == Record(db, f, loc[f])
<1>1. /\ f \in Files /\ Tame(Library, f) /\ MildFiles(strm, f) /\ MildRows(db, f)
      /\ Library \in Libraries
      /\ strm[loc[f]] \notin Whole(f) /\ strm[db[f]] \notin Whole(f) /\ Clear(loc[f], f)
  BY LibraryIs DEF AtHand, Tame, Clear
<1>2. MildFiles(files, f)
      /\ \A s \in Unmoved(strm, db[f], loc[f]) \union Unsynced(strm, f, db[f], loc[f]) : MildFiles(s, f)
  BY <1>1, TameStrms
<1>3. MildRows(rows, f)
  BY <1>1, MildRecord
<1>4. moved \in Libraries
  BY <1>1, LocallyMovedType
<1> DEFINE kept == IF strm[db[f]] # Nowhere \/ strm[loc[f]] # Nowhere THEN files ELSE strm
<1>5. moved = [Library EXCEPT !.strm = kept, !.db = rows]
  BY LibraryIs, Zenon DEF LocallyMoved
<1> HIDE DEF files, rows
<1>6. MildFiles(kept, f)
  BY <1>1, <1>2
<1> HIDE DEF kept
<1>7. moved.strm = kept /\ moved.db = rows /\ moved.arriving = arriving
  BY <1>1, <1>5, LibraryIs DEF Libraries
<1> HIDE DEF moved
<1>8. Tame(moved, f)
  BY <1>1, <1>3, <1>4, <1>6, <1>7, LibraryIs, TameBoth
<1> QED
  BY <1>2, <1>6, <1>7, <1>8 DEF moved

\* move.
LEMMA TameMove ==
    ASSUME NEW e, NEW f, AtHand(e, f), e.kind = "move"
    PROVE  /\ Tame(HandleMove(Library, f, e.path), f)
           /\ \A l \in MoveFlaws(Library, f, e.path) : Tame(l, f)
           /\ \A l \in MoveHalves(Library, f, e.path) : Tame(l, f)
<1> DEFINE p == e.path
           old == db[f]
<1>1. /\ f \in Files /\ Tame(Library, f) /\ loc[f] = p /\ (p \in Media => Clear(p, f))
      /\ old \in Media => NoOther(old, f) /\ strm[old] \notin Whole(f)
  BY DEF AtHand
<1>2. /\ Tame(RowRemoved(Library, f), f) /\ \A gone \in Removals(Library, f) : Tame(gone, f)
  BY <1>1, TameRemove
<1>3. \A gone \in Removals(Library, f) :
         /\ Tame(MediaTransfer(gone, f), f) /\ Tame(GuardedCreate(gone, f, p), f)
         /\ \A l \in TransferHalves(gone, f) \union CreateHalves(gone, f, p) : Tame(l, f)
  BY <1>1, <1>2, TameTransfer, TameCreate
<1>4. Tame(GuardedCreate(Library, f, p), f)
  BY <1>1, TameCreate
<1>5. p \in Media /\ old \in Media =>
        /\ Tame(LocallyMoved(Library, f, old, p), f)
        /\ \A s \in Unmoved(strm, old, p) \union Unsynced(strm, f, old, p)
                    \union {LocallyMoved(Library, f, old, p).strm} : MildFiles(s, f)
  BY <1>1, TameLocalMove
<1>6. Library.db[f] = old
  BY LibraryIs
<1> HIDE DEF p, old
<1>7. ASSUME NEW gone \in Removals(Library, f) PROVE Tame(MoveAfter(Library, gone, f, p), f)
  <2>1. \/ MoveAfter(Library, gone, f, p) = MediaTransfer(gone, f)
        \/ MoveAfter(Library, gone, f, p) = GuardedCreate(Library, f, p)
        \/ /\ p \in Media /\ old \in Media
           /\ MoveAfter(Library, gone, f, p) = LocallyMoved(Library, f, old, p)
        \/ MoveAfter(Library, gone, f, p) = GuardedCreate(gone, f, p)
        \/ MoveAfter(Library, gone, f, p) = gone
    BY <1>6, PlacesDiffer DEF MoveAfter
  <2> QED
    BY <1>2, <1>3, <1>4, <1>5, <2>1
<1>8. Tame(HandleMove(Library, f, p), f)
  BY <1>7 DEF HandleMove, Removals
<1>9. ASSUME NEW l \in MoveFlaws(Library, f, p) PROVE Tame(l, f)
  <2>1. CASE p \in Media /\ old \in Media /\ options.localMove
    <3>1. PICK s \in Unsynced(strm, f, old, p) : l = [LocallyMoved(Library, f, old, p) EXCEPT !.strm = s]
      BY <1>6, <2>1, LibraryIs DEF MoveFlaws
    <3> QED
      BY <1>1, <1>5, <2>1, <3>1, TameFiles
  <2>2. CASE ~(p \in Media /\ old \in Media /\ options.localMove)
    <3>1. \E gone \in Removals(Library, f) : l = MoveAfter(Library, gone, f, p)
      BY <1>6, <2>2 DEF MoveFlaws
    <3> QED
      BY <1>7, <3>1
  <2> QED
    BY <2>1, <2>2
<1>10. ASSUME NEW l \in MoveHalves(Library, f, p) PROVE Tame(l, f)
  <2>1. \/ l = RowRemoved(Library, f)
        \/ \E gone \in Removals(Library, f) :
              l = gone \/ l \in TransferHalves(gone, f) \/ l \in CreateHalves(gone, f, p)
        \/ /\ p \in Media /\ old \in Media
           /\ \E s \in Unmoved(strm, old, p) \union Unsynced(strm, f, old, p)
                       \union {LocallyMoved(Library, f, old, p).strm} : l = [Library EXCEPT !.strm = s]
    BY <1>6, MoveHalvesAre, LibraryIs
  <2>2. ASSUME p \in Media, old \in Media,
               NEW s \in Unmoved(strm, old, p) \union Unsynced(strm, f, old, p)
                         \union {LocallyMoved(Library, f, old, p).strm},
               l = [Library EXCEPT !.strm = s]
        PROVE  Tame(l, f)
    BY <1>1, <1>5, <2>2, TameFiles
  <2>3. ASSUME NEW gone \in Removals(Library, f),
               l = gone \/ l \in TransferHalves(gone, f) \/ l \in CreateHalves(gone, f, p)
        PROVE  Tame(l, f)
    BY <1>2, <1>3, <2>3
  <2> QED
    BY <1>2, <2>1, <2>2, <2>3
<1> QED
  BY <1>8, <1>9, <1>10 DEF p

\* rename.
LEMMA TameRename ==
    ASSUME NEW e, NEW f, AtHand(e, f), e.kind = "rename", ~Refused(e)
    PROVE  /\ Tame(HandleRename(Library, f), f)
           /\ \A l \in RenameFlaws(Library, f) \union RenameHalves(Library, f) : Tame(l, f)
<1> DEFINE old == db[f]
           new == loc[f]
           named == FollowRow(Library, f, old, new)
<1>1. /\ f \in Files /\ Tame(Library, f) /\ f = e.file /\ new \in Media /\ Clear(new, f)
      /\ old \in Media => strm[old] \notin Whole(f)
      /\ MildFiles(strm, f) /\ MildRows(db, f)
  BY LibraryIs DEF AtHand, Tame
<1>2. Tame(named, f)
  <2>1. CASE old = Nowhere
    BY <1>1, <2>1 DEF FollowRow
  <2>2. CASE old # Nowhere
    <3>1. \A x \in Files \ {f} : db[x] # new
      BY <1>1, <2>2, PlacesDiffer DEF Refused
    <3>2. MildRows([db EXCEPT ![f] = new], f)
      <4>1. db \in Table /\ [db EXCEPT ![f] = new] \in Table
        BY <1>1, PlacesDiffer DEF MildRows, Table
      <4>2. /\ [db EXCEPT ![f] = new][f] = new
            /\ \A x \in Files \ {f} : [db EXCEPT ![f] = new][x] = db[x]
        BY <1>1, <4>1 DEF Table
      <4>3. Unique([db EXCEPT ![f] = new])
        BY <1>1, <3>1, <4>2 DEF MildRows, Unique
      <4> QED
        BY <1>1, <4>1, <4>2, <4>3 DEF MildRows, Whole
    <3>3. named = [Library EXCEPT !.db = [db EXCEPT ![f] = new]]
      BY <2>2, LibraryIs DEF FollowRow
    <3> QED
      BY <1>1, <3>2, <3>3, TameRows
  <2> QED
    BY <2>1, <2>2
<1>3. named.strm = strm /\ Library.db[f] = old /\ Library.strm = strm
  <2>1. Library \in Libraries /\ new \in Paths \union {Nowhere}
    BY <1>1, PlacesDiffer DEF Tame
  <2> QED
    BY <1>1, <2>1, FollowRowType, LibraryIs
<1> HIDE DEF named
<1>4. Tame(CreateRow(named, f, new), f) /\ Tame(Create(named, f, new), f)
  BY <1>1, <1>2, TameCreate
<1>5. old \in Media =>
        /\ \A s \in Unmoved(strm, old, new) \union Unsynced(strm, f, old, new) :
              Tame([named EXCEPT !.strm = s], f)
        /\ Tame([named EXCEPT !.strm = [strm EXCEPT ![old] = Nowhere, ![new] = f]], f)
  <2> SUFFICES ASSUME old \in Media
               PROVE  /\ \A s \in Unmoved(strm, old, new) \union Unsynced(strm, f, old, new) :
                            Tame([named EXCEPT !.strm = s], f)
                      /\ Tame([named EXCEPT !.strm = [strm EXCEPT ![old] = Nowhere, ![new] = f]], f)
    OBVIOUS
  <2> DEFINE moved == [strm EXCEPT ![old] = Nowhere, ![new] = f]
  <2>1. /\ \A s \in Unmoved(strm, old, new) \union Unsynced(strm, f, old, new) : MildFiles(s, f)
        /\ MildFiles(moved, f)
    BY <1>1, TameStrms DEF Clear
  <2> HIDE DEF moved
  <2>2. \A s : MildFiles(s, f) => Tame([named EXCEPT !.strm = s], f)
    BY <1>1, <1>2, TameFiles
  <2>3. Tame([named EXCEPT !.strm = moved], f)
    BY <2>1, <2>2
  <2> QED
    BY <2>1, <2>2, <2>3 DEF moved
<1>6. Tame(HandleRename(Library, f), f)
  <2>1. HandleRename(Library, f) =
          CASE new = Nowhere -> Library
            [] new \in Waiting -> MediaTransfer(named, f)
            [] new \in Other -> named
            [] OTHER ->
                  IF old \in Media /\ strm[old] # Nowhere
                  THEN [named EXCEPT !.strm = [strm EXCEPT ![old] = Nowhere, ![new] = f]]
                  ELSE IF strm[new] = Nowhere THEN Create(named, f, new)
                  ELSE named
    BY <1>3, Zenon DEF HandleRename, named
  <2> DEFINE moved == [named EXCEPT !.strm = [strm EXCEPT ![old] = Nowhere, ![new] = f]]
  <2> HIDE DEF moved
  <2>2. HandleRename(Library, f) =
                  IF old \in Media /\ strm[old] # Nowhere THEN moved
                  ELSE IF strm[new] = Nowhere THEN Create(named, f, new) ELSE named
    BY <1>1, <2>1, PlacesDiffer DEF moved
  <2>3. old \in Media => Tame(moved, f)
    BY <1>5 DEF moved
  <2> QED
    BY <1>2, <1>4, <2>2, <2>3
<1>7. ASSUME NEW l \in RenameFlaws(Library, f) \union RenameHalves(Library, f) PROVE Tame(l, f)
  <2>1. \/ /\ old \in Media
           /\ \E s \in Unmoved(strm, old, new) \union Unsynced(strm, f, old, new) :
                 l = [named EXCEPT !.strm = s]
        \/ l = named \/ l = CreateRow(named, f, new)
    BY <1>1, <1>3, PlacesDiffer DEF RenameFlaws, RenameHalves, named
  <2> QED
    BY <1>2, <1>4, <1>5, <2>1
<1> QED
  BY <1>6, <1>7

\* Whatever becomes of an event, it disturbs no other file.
LEMMA TameEvent ==
    ASSUME NEW e, NEW f, AtHand(e, f), ~Refused(e)
    PROVE  /\ Tame(After(Library, e), f)
           /\ \A l \in Flaws(Library, e) \union Halves(Library, e) : Tame(l, f)
<1>1. /\ e.kind \in {"create", "move", "rename", "delete"} /\ e.file = f /\ f \in Files
      /\ Tame(Library, f)
  BY DEF AtHand, Event
<1>2. CASE e.kind = "create"
  <2>1. e.path \in Media => e.path = loc[f] /\ Clear(e.path, f)
    BY <1>2 DEF AtHand
  <2>2. /\ Tame(MediaTransfer(Library, f), f) /\ Tame(GuardedCreate(Library, f, e.path), f)
        /\ \A l \in TransferHalves(Library, f) \union CreateHalves(Library, f, e.path) : Tame(l, f)
    BY <1>1, <2>1, TameCreate, TameTransfer
  <2>3. /\ After(Library, e) = HandleCreate(Library, f, e.path) /\ Flaws(Library, e) = {}
        /\ Halves(Library, e) = IF e.path \in Waiting THEN TransferHalves(Library, f)
                                ELSE CreateHalves(Library, f, e.path)
    BY <1>1, <1>2 DEF After, Flaws, Halves
  <2> QED
    BY <2>2, <2>3 DEF HandleCreate
<1>3. CASE e.kind = "move"
  <2>1. /\ After(Library, e) = HandleMove(Library, f, e.path)
        /\ Flaws(Library, e) \subseteq MoveFlaws(Library, f, e.path)
        /\ Halves(Library, e) = MoveHalves(Library, f, e.path)
    BY <1>1, <1>3 DEF After, Flaws, Halves
  <2> QED
    BY <1>3, <2>1, TameMove
<1>4. CASE e.kind = "rename"
  <2>1. /\ After(Library, e) = HandleRename(Library, f)
        /\ Flaws(Library, e) \subseteq RenameFlaws(Library, f)
        /\ Halves(Library, e) = RenameHalves(Library, f)
    BY <1>1, <1>4 DEF After, Flaws, Halves
  <2> QED
    BY <1>4, <2>1, TameRename
<1>5. CASE e.kind = "delete"
  <2>1. /\ After(Library, e) = IF options.remove THEN Remove(Library, f) ELSE Library
        /\ Flaws(Library, e) \subseteq Removals(Library, f)
        /\ Halves(Library, e) \subseteq {RowRemoved(Library, f)}
    BY <1>1, <1>5 DEF After, Flaws, Halves
  <2>2. /\ Tame(Remove(Library, f), f) /\ Tame(RowRemoved(Library, f), f)
        /\ \A l \in Removals(Library, f) : Tame(l, f)
    BY <1>1, TameRemove DEF AtHand
  <2> QED
    BY <1>1, <2>1, <2>2
<1> QED
  BY <1>1, <1>2, <1>3, <1>4, <1>5
------------------------------------------------------------------------------
(* An event is handled: its file is where it belongs.                      *)

\* The row of f names p, and its STRM is there and nowhere else.
Owns(lib, f, p) == lib.db[f] = p /\ \A q \in Media : lib.strm[q] = f <=> q = p

Home(f) == IF loc[f] \in Media THEN loc[f] ELSE Nowhere

\* What is known of the file at hand, if it is whole and stays so.
WholeAtHand(e, f) ==
    /\ AtHand(e, f) /\ f \notin torn /\ f \notin Misled(e)
    /\ db[f] \in Media \union {Nowhere} /\ Within(f)
    /\ e.kind = "create" => db[f] \in {loc[f], Nowhere}
    /\ e.kind = "rename" => \/ db[f] = loc[f]
                            \/ strm[loc[f]] # f /\ (db[f] \in Media => strm[db[f]] = f)
    /\ e.kind = "move" /\ options.localMove /\ db[f] \in Media /\ loc[f] \in Media =>
          strm[db[f]] = f \/ strm[loc[f]] = f
    /\ e.host /\ ~options.transfer /\ f \in arriving => db[f] = loc[f] /\ Plays(f, loc[f])

LEMMA WholeAtHandIs ==
    ASSUME NEW e, NEW f, AtHand(e, f), IsLast(f, next), e = log[next], Kept(f), f \notin torn,
           f \notin Misled(e)
    PROVE  WholeAtHand(e, f)
<1>1. e.kind \in {"create", "move", "rename", "delete"} /\ (e.kind = "rename" => loc[f] \in Media)
  BY DEF AtHand, Event
<1>2. Lately(f, e.kind) /\ (e.host => Hosted(f))
  BY DEF IsLast, Lately, Hosted
<1>3. db[f] \in Media \union {Nowhere} /\ Within(f) /\ Found(f)
  BY DEF Kept
<1>4. e.kind = "create" => db[f] \in {loc[f], Nowhere}
  BY <1>2 DEF Kept
<1>5. ~options.transfer /\ Hosted(f) /\ f \in arriving => db[f] = loc[f] /\ Plays(f, loc[f])
  BY DEF Kept
<1>6. e.kind = "rename" => \/ db[f] = loc[f]
                           \/ strm[loc[f]] # f /\ (db[f] \in Media => strm[db[f]] = f)
  BY <1>1, <1>2, <1>3 DEF Found
<1>7. e.kind = "move" /\ options.localMove /\ db[f] \in Media /\ loc[f] \in Media =>
          strm[db[f]] = f \/ strm[loc[f]] = f
  BY <1>2, <1>3 DEF Found
<1> QED
  BY <1>2, <1>3, <1>4, <1>5, <1>6, <1>7 DEF WholeAtHand

LEMMA CreateOwns ==
    ASSUME NEW lib \in Libraries, NEW f \in Files, NEW p \in Media,
           \A q \in Media : lib.strm[q] = f => q = p
    PROVE  Owns(Create(lib, f, p), f, p)
<1>1. lib.strm \in Strms /\ lib.db \in Table
  BY DEF Libraries
<1>2. /\ CreateRow(lib, f, p) = [lib EXCEPT !.db = Record(lib.db, f, p)]
      /\ CreateRow(lib, f, p) \in Libraries
  BY CreateType, PlacesDiffer DEF CreateRow
<1>3. CreateRow(lib, f, p).db = Record(lib.db, f, p) /\ CreateRow(lib, f, p).strm = lib.strm
  BY <1>2 DEF Libraries
<1>4. Create(lib, f, p) = [CreateRow(lib, f, p) EXCEPT !.strm[p] = f]
  BY DEF Create
<1>5. Create(lib, f, p).db = Record(lib.db, f, p) /\ Create(lib, f, p).strm = [lib.strm EXCEPT ![p] = f]
  BY <1>2, <1>3, <1>4 DEF Libraries
<1>6. Record(lib.db, f, p)[f] = p
  BY DEF Record
<1>7. \A q \in Media : [lib.strm EXCEPT ![p] = f][q] = f <=> q = p
  BY <1>1 DEF Strms
<1> QED
  BY <1>5, <1>6, <1>7 DEF Owns

LEMMA GuardedOwns ==
    ASSUME NEW lib \in Libraries, NEW f \in Files, NEW p,
           p \in Media => \A q \in Media : lib.strm[q] = f => q = p,
           p \in Media /\ f \in lib.arriving /\ ~options.transfer => Owns(lib, f, p),
           p \notin Media => Owns(lib, f, Nowhere)
    PROVE  Owns(GuardedCreate(lib, f, p), f, IF p \in Media THEN p ELSE Nowhere)
<1> DEFINE seen == [lib EXCEPT !.arriving = @ \ {f}]
<1>1. /\ seen \in Libraries /\ seen.db = lib.db /\ seen.strm = lib.strm
      /\ GuardedCreate(lib, f, p) = IF f \in lib.arriving
                                    THEN IF options.transfer THEN Create(seen, f, p) ELSE seen
                                    ELSE Create(lib, f, p)
  BY DEF GuardedCreate, Libraries
<1> HIDE DEF seen
<1>2. \A q : Owns(seen, f, q) <=> Owns(lib, f, q)
  BY <1>1 DEF Owns
<1>3. CASE p \in Media
  <2>1. Owns(Create(lib, f, p), f, p) /\ Owns(Create(seen, f, p), f, p)
    BY <1>1, <1>3, CreateOwns
  <2> QED
    BY <1>1, <1>2, <1>3, <2>1
<1>4. CASE p \notin Media
  BY <1>1, <1>2, <1>4 DEF Create
<1> QED
  BY <1>3, <1>4

\* A file without a STRM is handed to the host, from a library that has no row of it then.
LEMMA TransferOwns ==
    ASSUME NEW lib \in Libraries, NEW f \in Files, \A q \in Media : lib.strm[q] # f
    PROVE  Owns(MediaTransfer(lib, f), f, Nowhere)
<1>1. MediaTransfer(lib, f).db = [lib.db EXCEPT ![f] = Nowhere]
      /\ MediaTransfer(lib, f).strm = lib.strm /\ lib.db \in Table
  BY DEF MediaTransfer, Libraries
<1> QED
  BY <1>1, PlacesDiffer DEF Owns, Table

\* create.
LEMMA CreateRight ==
    ASSUME NEW e, NEW f, WholeAtHand(e, f), e.kind = "create"
    PROVE  Owns(HandleCreate(Library, f, e.path), f, Home(f))
<1> DEFINE p == e.path
<1>1. /\ f \in Files /\ Library \in Libraries /\ loc[f] = p
      /\ f \in arriving => p \in Waiting
      /\ db[f] \in {p, Nowhere} /\ db[f] \in Media \union {Nowhere} /\ Within(f)
  BY DEF WholeAtHand, AtHand, Tame
<1>2. \A q \in Media : strm[q] = f => q = p
  BY <1>1, PlacesDiffer DEF Within
<1>3. p \notin Media => Owns(Library, f, Nowhere)
  BY <1>1, <1>2, LibraryIs, PlacesDiffer DEF Owns
<1>4. CASE p \in Waiting
  <2>1. \A q \in Media : Library.strm[q] # f
    BY <1>2, <1>4, LibraryIs, PlacesDiffer
  <2> QED
    BY <1>1, <1>4, <2>1, TransferOwns, PlacesDiffer DEF HandleCreate, Home
<1>5. CASE p \notin Waiting
  <2>1. Owns(GuardedCreate(Library, f, p), f, IF p \in Media THEN p ELSE Nowhere)
    BY <1>1, <1>2, <1>3, <1>5, LibraryIs, GuardedOwns
  <2> QED
    BY <1>1, <1>5, <2>1 DEF HandleCreate, Home
<1> QED
  BY <1>4, <1>5

\* remove, for the file at hand.
LEMMA RemoveRight ==
    ASSUME NEW e, NEW f, WholeAtHand(e, f)
    PROVE  /\ Remove(Library, f) \in Libraries /\ Remove(Library, f).arriving = arriving
           /\ \A q \in Media : Remove(Library, f).strm[q] = f =>
                 q = loc[f] /\ strm[q] = f
           /\ loc[f] # db[f] => Remove(Library, f).db[f] = Nowhere
           /\ loc[f] = db[f] => Remove(Library, f).db[f] = db[f] /\ Remove(Library, f).strm = strm
<1>1. /\ f \in Files /\ Tame(Library, f) /\ db[f] \in Media \union {Nowhere} /\ Within(f)
      /\ db[f] \in Media => NoOther(db[f], f) /\ strm[db[f]] \notin Whole(f)
      /\ strm \in Strms /\ f # Nowhere
  BY LibraryIs, PlacesDiffer DEF WholeAtHand, AtHand, Tame, MildFiles
<1>2. Remove(Library, f) \in Libraries /\ Remove(Library, f).arriving = arriving
  BY <1>1, TameRemove DEF Tame
<1>3. CASE db[f] \notin Media
  <2>1. Remove(Library, f) = Library
    BY <1>1, <1>3, TameRemove
  <2> QED
    BY <1>1, <1>2, <1>3, <2>1, LibraryIs, PlacesDiffer DEF Within
<1>4. CASE db[f] \in Media /\ loc[f] = db[f]
  <2>1. Remove(Library, f).db[f] = db[f] /\ Remove(Library, f).strm = strm
    BY <1>1, <1>4, TameRemove
  <2> QED
    BY <1>1, <1>2, <1>4, <2>1 DEF Within
<1>5. CASE db[f] \in Media /\ loc[f] # db[f]
  <2>1. Remove(Library, f).db[f] = Nowhere /\ Remove(Library, f).strm = [strm EXCEPT ![db[f]] = Nowhere]
    BY <1>1, <1>5, TameRemove
  <2>2. \A q \in Media : Remove(Library, f).strm[q] = IF q = db[f] THEN Nowhere ELSE strm[q]
    BY <1>1, <2>1 DEF Strms
  <2> QED
    BY <1>1, <1>2, <1>5, <2>1, <2>2 DEF Within
<1> QED
  BY <1>1, <1>3, <1>4, <1>5

\* move.
LEMMA MoveRight ==
    ASSUME NEW e, NEW f, WholeAtHand(e, f), e.kind = "move"
    PROVE  Owns(HandleMove(Library, f, e.path), f, Home(f))
<1> DEFINE p == e.path
           old == Library.db[f]
           gone == Remove(Library, f)
<1>1. /\ f \in Files /\ Library \in Libraries /\ loc[f] = p
      /\ old = db[f] /\ old \in Media \union {Nowhere} /\ Within(f) /\ strm \in Strms
      /\ f \in arriving /\ p \notin Waiting /\ ~options.transfer => old = p /\ Plays(f, p)
      /\ p \in Media /\ old \in Media /\ options.localMove => strm[old] = f \/ strm[p] = f
  BY LibraryIs DEF WholeAtHand, AtHand, Tame, MildFiles
<1>2. /\ gone \in Libraries /\ gone.arriving = arriving
      /\ \A q \in Media : gone.strm[q] = f => q = p /\ strm[q] = f
      /\ p # old => gone.db[f] = Nowhere
      /\ p = old => gone.db[f] = old /\ gone.strm = strm
  BY <1>1, RemoveRight
<1>3. HandleMove(Library, f, p) =
        CASE p \in Waiting -> MediaTransfer(gone, f)
          [] p \notin Waiting /\ old \notin Media -> GuardedCreate(Library, f, p)
          [] p \in Media /\ old \in Media ->
                IF options.localMove THEN LocallyMoved(Library, f, old, p)
                ELSE GuardedCreate(gone, f, p)
          [] OTHER -> gone
  BY Zenon DEF HandleMove, MoveAfter
<1> HIDE DEF old, gone, p
<1>4. CASE p \in Waiting
  <2>1. HandleMove(Library, f, p) = MediaTransfer(gone, f) /\ p \notin Media
    BY <1>3, <1>4, PlacesDiffer
  <2>2. \A q \in Media : gone.strm[q] # f
    BY <1>2, <2>1
  <2> QED
    BY <1>1, <1>2, <2>1, <2>2, TransferOwns DEF Home, p
<1>5. CASE p \notin Waiting /\ old \notin Media
  <2>1. HandleMove(Library, f, p) = GuardedCreate(Library, f, p) /\ old = Nowhere
    BY <1>1, <1>3, <1>5, PlacesDiffer
  <2>2. \A q \in Media : Library.strm[q] = f => q = p
    BY <1>1, <2>1, LibraryIs, PlacesDiffer DEF Within
  <2>3. /\ p \in Media /\ f \in Library.arriving /\ ~options.transfer => Owns(Library, f, p)
        /\ p \notin Media => Owns(Library, f, Nowhere)
    BY <1>1, <1>5, <2>1, <2>2, PlacesDiffer, LibraryIs DEF Owns
  <2> QED
    BY <1>1, <2>1, <2>2, <2>3, GuardedOwns DEF Home, p
<1>6. CASE p \in Media /\ old \in Media
  <2>1. HandleMove(Library, f, p) = IF options.localMove THEN LocallyMoved(Library, f, old, p)
                                    ELSE GuardedCreate(gone, f, p)
    BY <1>3, <1>6, PlacesDiffer
  <2>2. CASE options.localMove
    <3> DEFINE moved == LocallyMoved(Library, f, old, p)
    <3>1. strm[old] # Nowhere \/ strm[p] # Nowhere
      BY <1>1, <1>6, <2>2, PlacesDiffer
    <3>2. moved = [Library EXCEPT !.strm = IF strm[old] # Nowhere \/ strm[p] # Nowhere
                                           THEN [strm EXCEPT ![old] = IF old = p THEN f ELSE Nowhere, ![p] = f]
                                           ELSE strm,
                                  !.db = Record(db, f, p)]
      BY LibraryIs, Zenon DEF LocallyMoved
    <3>3. /\ moved.strm = [strm EXCEPT ![old] = IF old = p THEN f ELSE Nowhere, ![p] = f]
          /\ moved.db = Record(db, f, p)
      BY <1>1, <3>1, <3>2 DEF Libraries
    <3> HIDE DEF moved
    <3>4. moved.db[f] = p /\ \A q \in Media : moved.strm[q] = IF q = p THEN f
                                              ELSE IF q = old THEN Nowhere ELSE strm[q]
      BY <1>1, <1>6, <3>3 DEF Record, Strms
    <3>5. Owns(moved, f, p)
      BY <1>1, <3>4, PlacesDiffer DEF Owns, Within, p
    <3> QED
      BY <1>1, <1>6, <2>1, <2>2, <3>5 DEF Home, moved, p
  <2>3. CASE ~options.localMove
    <3>1. f \in gone.arriving /\ ~options.transfer => Owns(gone, f, p)
      BY <1>1, <1>2, <1>6, PlacesDiffer DEF Owns, Plays
    <3> QED
      BY <1>1, <1>2, <1>6, <2>1, <2>3, <3>1, GuardedOwns DEF Home, p
  <2> QED
    BY <2>2, <2>3
<1>7. CASE p \notin Waiting /\ p \notin Media /\ old \in Media
  <2>1. HandleMove(Library, f, p) = gone
    BY <1>3, <1>7
  <2>2. gone.db[f] = Nowhere /\ \A q \in Media : gone.strm[q] # f
    BY <1>2, <1>7
  <2> QED
    BY <1>1, <1>7, <2>1, <2>2, PlacesDiffer DEF Home, Owns, p
<1> QED
  BY <1>4, <1>5, <1>6, <1>7 DEF p

\* rename.
LEMMA RenameRight ==
    ASSUME NEW e, NEW f, WholeAtHand(e, f), e.kind = "rename"
    PROVE  Owns(HandleRename(Library, f), f, Home(f))
<1> DEFINE old == db[f]
           new == loc[f]
           named == FollowRow(Library, f, old, new)
<1>1. /\ f \in Files /\ f = e.file /\ Library \in Libraries /\ strm \in Strms /\ db \in Table
      /\ new \in Media /\ Clear(new, f) /\ Home(f) = new /\ f \notin torn /\ f \notin Misled(e)
      /\ old \in Media \union {Nowhere} /\ Within(f)
      /\ old = new \/ (strm[new] # f /\ (old \in Media => strm[old] = f))
  BY LibraryIs DEF WholeAtHand, AtHand, Tame, Home, MildFiles, MildRows
<1>2. /\ named \in Libraries /\ named.strm = strm
      /\ named.db = IF old = Nowhere THEN db ELSE [db EXCEPT ![f] = new]
  <2>1. new \in Paths \union {Nowhere}
    BY <1>1, PlacesDiffer
  <2>2. named \in Libraries /\ named.strm = strm
    BY <1>1, <2>1, FollowRowType, LibraryIs
  <2>3. named.db = IF old = Nowhere THEN db ELSE [db EXCEPT ![f] = new]
    BY <1>1, LibraryIs DEF FollowRow, Libraries
  <2> QED
    BY <2>2, <2>3
<1> DEFINE moved == [named EXCEPT !.strm = [strm EXCEPT ![old] = Nowhere, ![new] = f]]
<1>3. HandleRename(Library, f) =
        CASE new = Nowhere -> Library
          [] new \in Waiting -> MediaTransfer(named, f)
          [] new \in Other -> named
          [] OTHER ->
                IF old \in Media /\ strm[old] # Nowhere THEN moved
                ELSE IF strm[new] = Nowhere THEN Create(named, f, new)
                ELSE named
  BY <1>2, LibraryIs, Zenon DEF HandleRename
<1> HIDE DEF moved, named
<1>4. HandleRename(Library, f) =
                IF old \in Media /\ strm[old] # Nowhere THEN moved
                ELSE IF strm[new] = Nowhere THEN Create(named, f, new)
                ELSE named
  BY <1>1, <1>3, PlacesDiffer
<1>5. \A q \in Media : strm[q] = f => q \in {old, new}
  BY <1>1 DEF Within
<1>6. CASE old = Nowhere
  <2>1. strm[new] = Nowhere
    <3>1. strm[new] \in Files \union {Nowhere} /\ strm[new] # f
      BY <1>1, <1>6, PlacesDiffer DEF Strms
    <3>2. strm[new] \notin Whole(f)
      BY <1>1 DEF Clear
    <3>3. strm[new] \notin torn
      BY <1>1, <1>6 DEF Misled
    <3> QED
      BY <3>1, <3>2, <3>3 DEF Whole
  <2>2. \A q \in Media : named.strm[q] = f => q = new
    BY <1>2, <1>5, <1>6, PlacesDiffer
  <2>3. Owns(Create(named, f, new), f, new)
    BY <1>1, <1>2, <2>2, CreateOwns
  <2> QED
    BY <1>1, <1>4, <1>6, <2>1, <2>3, PlacesDiffer
<1>7. CASE old \in Media /\ strm[old] # Nowhere
  <2>1. moved.db = named.db /\ moved.strm = [strm EXCEPT ![old] = Nowhere, ![new] = f]
    BY <1>2 DEF moved, Libraries
  <2>2. /\ moved.db[f] = new
        /\ \A q \in Media : moved.strm[q] = IF q = new THEN f ELSE IF q = old THEN Nowhere ELSE strm[q]
    BY <1>1, <1>2, <1>7, <2>1, PlacesDiffer DEF Strms, Table
  <2>3. Owns(moved, f, new)
    BY <1>1, <1>5, <2>2, PlacesDiffer DEF Owns
  <2> QED
    BY <1>1, <1>4, <1>7, <2>3
<1>8. CASE old \in Media /\ strm[old] = Nowhere
  <2>1. old = new
    BY <1>1, <1>8, PlacesDiffer
  <2>2. \A q \in Media : named.strm[q] = f => q = new
    BY <1>2, <1>5, <2>1
  <2>3. Owns(Create(named, f, new), f, new)
    BY <1>1, <1>2, <2>2, CreateOwns
  <2> QED
    BY <1>1, <1>4, <1>8, <2>1, <2>3
<1> QED
  BY <1>1, <1>6, <1>7, <1>8

\* remove.
LEMMA DeleteRight ==
    ASSUME NEW e, NEW f, WholeAtHand(e, f), e.kind = "delete"
    PROVE  Owns(Remove(Library, f), f, Home(f))
<1>1. loc[f] = Nowhere /\ Home(f) = Nowhere
  BY PlacesDiffer DEF WholeAtHand, AtHand, Home
<1>2. Remove(Library, f).db[f] = Nowhere
  BY <1>1, RemoveRight
<1>3. \A q \in Media : Remove(Library, f).strm[q] # f
  BY <1>1, RemoveRight, PlacesDiffer
<1> QED
  BY <1>1, <1>2, <1>3, PlacesDiffer DEF Owns

\* Handled in time, every event leaves a whole file where it belongs.
LEMMA HandledRight ==
    ASSUME NEW e, NEW f, WholeAtHand(e, f), options.remove
    PROVE  Owns(After(Library, e), f, Home(f))
<1>1. e.kind \in {"create", "move", "rename", "delete"} /\ e.file = f
  BY DEF WholeAtHand, AtHand, Event
<1>2. CASE e.kind = "create"
  BY <1>1, <1>2, CreateRight DEF After
<1>3. CASE e.kind = "move"
  BY <1>1, <1>3, MoveRight DEF After
<1>4. CASE e.kind = "rename"
  BY <1>1, <1>4, RenameRight DEF After
<1>5. CASE e.kind = "delete"
  BY <1>1, <1>5, DeleteRight DEF After
<1> QED
  BY <1>1, <1>2, <1>3, <1>4, <1>5
------------------------------------------------------------------------------
(* The library keeps up.                                                   *)

\* The library at hand becomes what is left of it, and the event is settled or not.
Writes(lib, f) ==
    /\ f \in Files /\ f = log[next].file /\ Tame(lib, f)
    /\ strm' = lib.strm /\ db' = lib.db /\ arriving' \subseteq lib.arriving
    /\ UNCHANGED <<loc, log, options>> /\ torn \subseteq torn'
    /\ \A k : k # next => (k \in done' <=> k \in done)

\* The others keep what they had.
LEMMA KeptByTame ==
    ASSUME AllKept, NEW f, NEW lib, Writes(lib, f), f \notin torn' => Kept(f)'
    PROVE  AllKept'
<1> USE DEF Writes
<1>1. ASSUME NEW x \in Files \ torn', x # f PROVE Kept(x)'
  <2>1. x \in Whole(f) /\ Kept(x)
    BY <1>1 DEF Whole, AllKept
  <2>2. Untouched(x) /\ (x \in arriving' => x \in arriving)
    BY <1>1, <2>1 DEF Tame, MildRows, MildFiles, Untouched
  <2>3. Settled(x)' <=> Settled(x)
    <3>1. \A k : IsLast(x, k)' <=> IsLast(x, k)
      BY DEF IsLast
    <3>2. ~IsLast(x, next)
      BY <1>1 DEF IsLast
    <3> QED
      BY <3>1, <3>2 DEF Settled
  <2> QED
    BY <2>1, <2>2, <2>3, KeptBeside
<1>2. Unique(db')
  BY DEF Tame, MildRows
<1> QED
  BY <1>1, <1>2 DEF AllKept, Unique

LEMMA HandleKept ==
    ASSUME IInv, TInv, Turn, Cloud, Faithful, Handle, Hope', options.remove
    PROVE  AllKept'
<1>1. Hope /\ ~Late(log[next])
  BY HopeHandle
<1>2. AllKept
  BY <1>1 DEF Faithful
<1>3. /\ thread = "batch" /\ next <= batch /\ ~Refused(log[next]) /\ Becomes(After(Library, log[next]))
      /\ done' = done \union {next} /\ loc' = loc /\ log' = log /\ options' = options
      /\ torn' = torn \union Misled(log[next])
  BY DEF Handle
<1>4. AtHand(log[next], log[next].file)
  BY <1>1, <1>2, <1>3, AtHandIs
<1>5. PICK f \in Files : f = log[next].file
  BY <1>1, <1>3, NextIsLast
<1>6. Tame(After(Library, log[next]), f)
  BY <1>3, <1>4, <1>5, TameEvent
<1>7. IsLast(f, next) /\ next \in DOMAIN log /\ \A g, k : IsLast(g, k)' <=> IsLast(g, k)
  BY <1>1, <1>3, <1>5, NextIsLast DEF IsLast
<1>8. ASSUME f \notin torn' PROVE Kept(f)'
  <2>1. Kept(f) /\ f \notin torn /\ f \notin Misled(log[next])
    BY <1>2, <1>3, <1>8 DEF AllKept
  <2>2. Owns(After(Library, log[next]), f, Home(f))
    BY <1>4, <1>5, <1>7, <2>1, WholeAtHandIs, HandledRight
  <2>3. db'[f] = Home(f) /\ \A q \in Media : strm'[q] = f <=> q = Home(f)
    BY <1>3, <2>2 DEF Owns, Becomes
  <2>4. Settled(f)' /\ Known(f)'
    BY <1>3, <1>7 DEF Settled, Known
  <2>5. Plays(f, db[f])' /\ db'[f] \in Media \union {Nowhere} /\ Within(f)'
    BY <2>3 DEF Plays, Within, Home
  <2>6. Found(f)'
    <3>1. Lately(f, "rename")' => loc[f] \in Media
      <4>1. Lately(f, "rename")' => Lately(f, "rename")
        BY <1>3, <1>7 DEF Lately
      <4>2. Lately(f, "rename") => loc[f] \in Media
        BY DEF Lately, Cloud, Told
      <4> QED
        BY <4>1, <4>2
    <3> QED
      BY <1>3, <2>3, <3>1 DEF Found, Home
  <2>7. Hosted(f)' => loc[f] \in Media
    BY <1>3, <1>7 DEF Hosted, Cloud, Told
  <2>8. loc[f] \in Media => Plays(f, loc[f])'
    BY <1>3, <2>3 DEF Plays, Home
  <2> QED
    BY <1>3, <2>3, <2>4, <2>5, <2>6, <2>7, <2>8 DEF Kept, Home
<1>9. \A k : k # next => (k \in done' <=> k \in done)
  BY <1>3
<1>10. /\ strm' = After(Library, log[next]).strm /\ db' = After(Library, log[next]).db
       /\ arriving' = After(Library, log[next]).arriving
  BY <1>3 DEF Becomes
<1>11. Writes(After(Library, log[next]), f)
  BY <1>3, <1>5, <1>6, <1>9, <1>10 DEF Writes
<1> QED
  BY <1>2, <1>8, <1>11, KeptByTame

LEMMA HandleBadlyKept ==
    ASSUME IInv, TInv, Turn, Cloud, Faithful, HandleBadly, Hope', options.remove
    PROVE  AllKept'
<1>1. Hope /\ ~Late(log[next])
  BY HopeHandle
<1>2. AllKept
  BY <1>1 DEF Faithful
<1>3. /\ thread = "batch" /\ next <= batch /\ ~Refused(log[next])
      /\ done' = done \union {next} /\ loc' = loc /\ log' = log /\ options' = options
      /\ torn' = torn \union {log[next].file}
  BY DEF HandleBadly
<1>4. PICK lib \in Flaws(Library, log[next]) : Becomes(lib)
  BY DEF HandleBadly
<1>5. AtHand(log[next], log[next].file)
  BY <1>1, <1>2, <1>3, AtHandIs
<1>6. PICK f \in Files : f = log[next].file
  BY <1>1, <1>3, NextIsLast
<1>7. Tame(lib, f)
  BY <1>3, <1>4, <1>5, <1>6, TameEvent
<1>8. strm' = lib.strm /\ db' = lib.db /\ arriving' = lib.arriving
  BY <1>4 DEF Becomes
<1>9. /\ \A k : k # next => (k \in done' <=> k \in done)
      /\ f \in torn' /\ torn \subseteq torn'
  BY <1>3, <1>6
<1>10. Writes(lib, f)
  BY <1>3, <1>6, <1>7, <1>8, <1>9 DEF Writes
<1> QED
  BY <1>2, <1>9, <1>10, KeptByTame

\* What a handler that is broken off leaves of the file's STRM and row.
LEMMA HalfRename ==
    ASSUME TypeOK, NEW f \in Files, Library \in Libraries, loc[f] \in Media,
           NEW l \in RenameHalves(Library, f)
    PROVE  l.db[f] = loc[f] \/ (db[f] = Nowhere /\ l.db = db /\ l.strm = strm)
<1> DEFINE old == db[f]
           new == loc[f]
           named == FollowRow(Library, f, old, new)
<1>1. /\ named \in Libraries /\ named.strm = strm /\ db \in Table
      /\ named.db = IF old = Nowhere THEN db ELSE [db EXCEPT ![f] = new]
  <2>1. new \in Paths \union {Nowhere}
    BY PlacesDiffer
  <2>2. named \in Libraries /\ named.strm = strm
    BY <2>1, FollowRowType, LibraryIs
  <2>3. named.db = IF old = Nowhere THEN db ELSE [db EXCEPT ![f] = new]
    BY LibraryIs DEF FollowRow, Libraries
  <2> QED
    BY <2>2, <2>3 DEF TypeOK, Table
<1>2. /\ CreateRow(named, f, new).db[f] = new
      /\ \A s : [named EXCEPT !.strm = s].db = named.db
  <2>1. CreateRow(named, f, new) = [named EXCEPT !.db = Record(named.db, f, new)]
    BY DEF CreateRow
  <2>2. CreateRow(named, f, new).db = Record(named.db, f, new)
    BY <1>1, <2>1 DEF Libraries
  <2> QED
    BY <1>1, <2>2 DEF Record, Libraries
<1>3. \/ /\ old \in Media
         /\ \E s \in Unmoved(strm, old, new) \union Unsynced(strm, f, old, new) :
               l = [named EXCEPT !.strm = s]
      \/ l = named \/ l = CreateRow(named, f, new)
  <2> HIDE DEF named
  <2>1. FollowRow(Library, f, Library.db[f], loc[f]) = named /\ Library.db[f] = old /\ Library.strm = strm
    BY LibraryIs DEF named
  <2> QED
    BY <2>1, PlacesDiffer DEF RenameHalves
<1> HIDE DEF named
<1>4. CASE old = Nowhere
  BY <1>1, <1>2, <1>3, <1>4, PlacesDiffer
<1>5. CASE old # Nowhere
  <2>1. named.db[f] = new
    BY <1>1, <1>5 DEF Table
  <2> QED
    BY <1>2, <1>3, <2>1
<1> QED
  BY <1>4, <1>5

LEMMA HalfMoveThere ==
    ASSUME NEW e, NEW f, AtHand(e, f), e.kind = "move", loc[f] \in Media, db[f] = loc[f],
           ~options.localMove, NEW l \in MoveHalves(Library, f, e.path)
    PROVE  l.strm = strm
<1>1. /\ f \in Files /\ Tame(Library, f) /\ e.path = loc[f] /\ loc[f] \notin Waiting
      /\ NoOther(db[f], f) /\ strm[db[f]] \notin Whole(f) /\ Library \in Libraries
  BY PlacesDiffer DEF AtHand, Tame
<1>2. /\ Removals(Library, f) = {Remove(Library, f)} /\ Remove(Library, f).strm = strm
      /\ Remove(Library, f) \in Libraries
  BY <1>1, TameRemove DEF Tame
<1>3. RowRemoved(Library, f).strm = strm
  BY <1>1, LibraryIs DEF RowRemoved, Libraries
<1>4. \A c \in CreateHalves(Remove(Library, f), f, e.path) : c.strm = strm
  BY <1>2 DEF CreateHalves, CreateRow, Libraries
<1> QED
  BY <1>1, <1>2, <1>3, <1>4, MoveHalvesAre

LEMMA HalfLocalMove ==
    ASSUME TypeOK, NEW f \in Files, loc[f] \in Media, db[f] \in Media, options.localMove,
           Library \in Libraries, strm[db[f]] = f \/ strm[loc[f]] = f, db[f] # loc[f],
           NEW l \in MoveHalves(Library, f, loc[f])
    PROVE  l.strm[db[f]] = f \/ l.strm[loc[f]] = f
<1> DEFINE old == db[f]
           new == loc[f]
<1>1. strm \in Strms /\ f # Nowhere /\ Library.db[f] = old /\ Library.strm = strm
  BY LibraryIs, PlacesDiffer DEF TypeOK, Strms
<1>2. PICK s \in Unmoved(strm, old, new) \union Unsynced(strm, f, old, new)
                 \union {LocallyMoved(Library, f, old, new).strm} : l = [Library EXCEPT !.strm = s]
  BY <1>1, MoveHalvesAre, PlacesDiffer
<1>3. l.strm = s
  BY <1>2 DEF Libraries
<1>4. LocallyMoved(Library, f, old, new).strm = [strm EXCEPT ![old] = Nowhere, ![new] = f]
  <2> DEFINE moved == LocallyMoved(Library, f, old, new)
             files == IF strm[old] # Nowhere \/ strm[new] # Nowhere
                      THEN [strm EXCEPT ![old] = IF old = new THEN f ELSE Nowhere, ![new] = f]
                      ELSE strm
             rows == Record(db, f, new)
  <2>1. moved = [Library EXCEPT !.strm = files, !.db = rows]
    BY LibraryIs, Zenon DEF LocallyMoved
  <2>2. files = [strm EXCEPT ![old] = Nowhere, ![new] = f]
    BY <1>1
  <2> HIDE DEF moved, files, rows
  <2>3. moved.strm = files
    BY <2>1 DEF Libraries
  <2> QED
    BY <2>2, <2>3 DEF moved
<1>5. \/ s = strm
      \/ s = [strm EXCEPT ![new] = strm[old]] /\ strm[new] = Nowhere
      \/ s = [strm EXCEPT ![new] = strm[old], ![old] = Nowhere] /\ strm[new] = Nowhere
      \/ s = [strm EXCEPT ![new] = f]
      \/ s = [strm EXCEPT ![old] = Nowhere, ![new] = f]
  BY <1>2, <1>4 DEF Unmoved, Unsynced
<1>6. s[old] = f \/ s[new] = f
  BY <1>1, <1>5 DEF Strms
<1> QED
  BY <1>3, <1>6

\* A handler is broken off, and what it leaves is not lost.
LeavesHalf(lib, e, f) ==
    /\ f \in Files /\ e = log[next] /\ AtHand(e, f) /\ IsLast(f, next)
    /\ lib \in Halves(Library, e) /\ Tame(lib, f) /\ lib.arriving \subseteq Noted(Library, e)
    /\ strm' = lib.strm /\ db' = lib.db /\ arriving' \subseteq lib.arriving
    /\ \A q \in Media \ {db'[f], loc[f]} : strm'[q] # f
    /\ e.kind = "move" /\ options.localMove /\ db'[f] \in Media /\ db'[f] = loc[f] =>
          strm'[loc[f]] = f
    /\ e.host /\ ~options.transfer /\ f \in arriving' => db'[f] = loc[f]
    /\ UNCHANGED <<loc, log, options>> /\ done' = done \ {next}

\* It is found again: the event is the file's last one, and not settled.
LEMMA HalfKept ==
    ASSUME TInv, Cloud, NEW f, NEW e, NEW lib, LeavesHalf(lib, e, f), Kept(f)
    PROVE  Kept(f)'
<1> USE DEF LeavesHalf
<1>1. /\ \A g, k : IsLast(g, k)' <=> IsLast(g, k)
      /\ \A k : IsLast(f, k) => k = next
      /\ next \in DOMAIN log /\ TypeOK /\ Library \in Libraries
  BY LastIs DEF IsLast, TInv, AtHand, Tame
<1>2. Known(f) /\ Known(f)' /\ ~Settled(f)' /\ (Hosted(f)' <=> e.host)
      /\ \A c : Lately(f, c)' <=> e.kind = c
  BY <1>1 DEF Known, Settled, Hosted, Lately
<1>3. (Hosted(f) <=> e.host) /\ \A c : Lately(f, c) <=> e.kind = c
  BY <1>1 DEF Hosted, Lately
<1>4. /\ db'[f] \in {db[f], Nowhere} \union ({loc[f]} \intersect Media)
      /\ db[f] \in Media \union {Nowhere}
      /\ Within(f) /\ Found(f)
      /\ e.file = f /\ e.kind \in {"create", "move", "rename", "delete"}
      /\ e.kind \in {"create", "move"} => loc[f] = e.path
      /\ e.kind = "rename" => loc[f] \in Media
      /\ e.host => e.kind = "move" /\ loc[f] \in Media
  BY DEF Tame, MildRows, Kept, AtHand, Event
<1>5. Within(f)'
  BY DEF Within
<1>6. db'[f] \notin {loc[f], Nowhere} => db'[f] = db[f]
  BY <1>4
<1>7. db'[f] \notin {loc[f], Nowhere} =>
         /\ e.kind # "create"
         /\ \A g \in Files, j, k \in DOMAIN log :
               loc[g] = db'[f] /\ IsLast(f, j) /\ IsLast(g, k) => j < k
  BY <1>3, <1>6 DEF Kept
<1>8. Found(f)'
  <2>1. ASSUME e.kind = "rename"
        PROVE  \/ db'[f] = loc[f]
               \/ strm'[loc[f]] # f /\ (db'[f] \in Media => strm'[db'[f]] = f)
    <3>1. lib \in RenameHalves(Library, f)
      BY <1>4, <2>1 DEF Halves
    <3>2. lib.db[f] = loc[f] \/ (db[f] = Nowhere /\ lib.db = db /\ lib.strm = strm)
      BY <1>1, <1>4, <2>1, <3>1, HalfRename
    <3>3. db[f] = loc[f] \/ strm[loc[f]] # f
      BY <1>3, <1>4, <2>1 DEF Found
    <3> QED
      BY <1>4, <2>1, <3>2, <3>3, PlacesDiffer
  <2>2. ASSUME e.kind = "move", options.localMove, db'[f] \in Media, loc[f] \in Media
        PROVE  strm'[db'[f]] = f \/ strm'[loc[f]] = f
    <3>1. CASE db'[f] = loc[f]
      BY <2>2, <3>1
    <3>2. CASE db'[f] # loc[f]
      <4>1. db'[f] = db[f] /\ db[f] \in Media
        BY <1>6, <2>2, <3>2, PlacesDiffer
      <4>2. strm[db[f]] = f \/ strm[loc[f]] = f
        BY <1>3, <1>4, <2>2, <4>1 DEF Found
      <4>3. lib \in MoveHalves(Library, f, loc[f])
        BY <1>4, <2>2 DEF Halves
      <4>4. lib.strm[db[f]] = f \/ lib.strm[loc[f]] = f
        BY <1>1, <2>2, <3>2, <4>1, <4>2, <4>3, HalfLocalMove
      <4> QED
        BY <4>1, <4>4
    <3> QED
      BY <3>1, <3>2
  <2> QED
    BY <1>2, <2>1, <2>2 DEF Found
<1>9. ASSUME ~options.transfer, e.host, f \in arriving'
      PROVE  db'[f] = loc[f] /\ Plays(f, loc[f])'
  <2>1. e.kind = "move" /\ loc[f] \in Media /\ db'[f] = loc[f] /\ loc[f] = e.path
    BY <1>4, <1>9
  <2>2. f \in arriving
    BY <1>4, <1>9, <2>1, LibraryIs DEF Noted
  <2>3. db[f] = loc[f] /\ Plays(f, loc[f])
    BY <1>3, <1>9, <2>2 DEF Kept
  <2>4. strm'[loc[f]] = f
    <3>1. CASE options.localMove
      BY <2>1, <3>1
    <3>2. CASE ~options.localMove
      <4>1. lib \in MoveHalves(Library, f, e.path)
        BY <1>4, <2>1 DEF Halves
      <4>2. lib.strm = strm
        BY <2>1, <2>3, <3>2, <4>1, HalfMoveThere
      <4> QED
        BY <2>1, <2>3, <4>2 DEF Plays
    <3> QED
      BY <3>1, <3>2
  <2>5. \A q \in Media : strm'[q] = f => q = loc[f]
    BY <2>1
  <2> QED
    BY <2>1, <2>4, <2>5 DEF Plays
<1>10. db'[f] \in Media \union {Nowhere}
  BY <1>4
<1> QED
  BY <1>1, <1>2, <1>5, <1>7, <1>8, <1>9, <1>10 DEF Kept

LEMMA BreaksKept ==
    ASSUME IInv, TInv, Turn, Cloud, Faithful, Raises \/ Crash, Hope', options.remove
    PROVE  AllKept'
<1>1. Hope
  BY HopeThread
<1>2. AllKept
  BY <1>1 DEF Faithful
<1>3. PICK lib \in {Library} \union Underway :
         \E left \in {lib, [lib EXCEPT !.arriving = {}]} :
            /\ strm' = lib.strm /\ db' = lib.db
            /\ arriving' = left.arriving /\ Leaves(left)
  <2>1. CASE Raises
    BY <2>1 DEF Raises, Becomes
  <2>2. CASE Crash
    <3>1. PICK lib \in {Library} \union Underway :
             /\ strm' = lib.strm /\ db' = lib.db /\ Leaves([lib EXCEPT !.arriving = {}])
      BY <2>2 DEF Crash
    <3>2. Library \in Libraries /\ lib \in Libraries
      <4>1. Library \in Libraries /\ TypeOK
        BY DEF Library, Libraries, Strms, Table, TInv, TypeOK
      <4>2. thread = "batch" /\ next <= batch => log[next] \in Event
        BY <1>1, NextIsLast
      <4> QED
        BY <4>1, <4>2, <3>1, HalvesType DEF Underway, Noting
    <3>3. arriving' = {} /\ [lib EXCEPT !.arriving = {}].arriving = {}
      BY <2>2, <3>2 DEF Crash, Libraries
    <3> QED
      BY <3>1, <3>3
  <2> QED
    BY <2>1, <2>2
<1>4. loc' = loc /\ log' = log /\ options' = options
  BY BreaksOff
<1>5. Library \in Libraries /\ TypeOK
  BY DEF Library, Libraries, Strms, Table, TInv, TypeOK
<1>6. thread = "batch" /\ next <= batch =>
        /\ log[next] \in Event /\ log[next].file \in Files /\ IsLast(log[next].file, next)
        /\ next \in DOMAIN log
  BY <1>1, NextIsLast
<1>7. lib # Library => /\ thread = "batch" /\ next <= batch /\ ~Refused(log[next])
                       /\ lib \in Halves(Library, log[next])
                       /\ lib \in Noting(Noted(Library, log[next]))
  BY <1>3, <1>5, <1>6, HalvesType DEF Underway
<1>8. lib \in Libraries
  BY <1>5, <1>7 DEF Noting
<1>9. PICK left \in {lib, [lib EXCEPT !.arriving = {}]} :
        strm' = lib.strm /\ db' = lib.db /\ arriving' = left.arriving /\ Leaves(left)
  BY <1>3
<1>10. left.strm = lib.strm /\ left.db = lib.db /\ left.arriving \subseteq lib.arriving
  BY <1>8, <1>9 DEF Libraries
<1>11. CASE strm' = strm /\ db' = db
  <2>1. UNCHANGED <<done, late, torn>>
    BY <1>9, <1>10, <1>11 DEF Leaves
  <2>2. ASSUME NEW x \in Files, x \in arriving', Hosted(x) PROVE x \in arriving
    <3>1. CASE lib = Library
      BY <1>9, <1>10, <2>2, <3>1, LibraryIs
    <3>2. CASE lib # Library
      <4> DEFINE e == log[next]
      <4>1. x \in Noted(Library, e)
        BY <1>7, <1>9, <1>10, <2>2, <3>2 DEF Noting
      <4>2. CASE x = e.file
        <5>1. Told(x) /\ loc[x] \in Media
          BY <2>2 DEF Cloud, Told, Hosted
        <5>2. e.kind \in {"create", "move"} => e.path = loc[e.file]
          BY <1>6, <1>7, <3>2, <4>2, <5>1 DEF Told
        <5> QED
          BY <4>1, <4>2, <5>1, <5>2, LibraryIs DEF Noted
      <4>3. CASE x # e.file
        BY <4>1, <4>3, LibraryIs DEF Noted
      <4> QED
        BY <4>2, <4>3
    <3> QED
      BY <3>1, <3>2
  <2> QED
    BY <1>2, <1>4, <1>11, <2>1, <2>2, KeptSame
<1>12. CASE ~(strm' = strm /\ db' = db)
  <2>0. PICK e, f : e = log[next] /\ f = e.file
    OBVIOUS
  <2>1. /\ lib # Library
        /\ done' = done \ {next} /\ late' = (late \/ Late(e))
        /\ torn' = IF Lost(left, e) THEN torn \union {f} ELSE torn
    BY <1>9, <1>10, <1>12, <2>0, LibraryIs DEF Leaves
  <2>2. ~Late(e)
    <3>1. ~late'
      BY Zenon DEF Hope
    <3>2. late \/ Late(e) => late'
      BY <2>1
    <3> QED
      BY <3>1, <3>2
  <2>3. AtHand(e, f) /\ f \in Files /\ IsLast(f, next) /\ ~Refused(e)
    BY <1>1, <1>2, <1>6, <1>7, <2>1, <2>2, <2>0, AtHandIs
  <2>4. Tame(lib, f)
    BY <1>7, <2>1, <2>3, <2>0, TameEvent
  <2>5. lib.arriving \subseteq Noted(Library, e) /\ arriving' \subseteq lib.arriving
    BY <1>7, <1>9, <1>10, <2>1, <2>0 DEF Noting
  <2>6. ASSUME f \notin torn' PROVE Kept(f)'
    <3>1. Kept(f) /\ ~Lost(left, e)
      BY <1>2, <2>1, <2>3, <2>6 DEF AllKept
    <3>2. /\ \A q \in Media \ {db'[f], loc[f]} : strm'[q] # f
          /\ e.kind = "move" /\ options.localMove /\ db'[f] \in Media /\ db'[f] = loc[f] =>
                strm'[loc[f]] = f
          /\ e.host /\ ~options.transfer /\ f \in arriving' => db'[f] = loc[f]
      BY <1>9, <1>10, <2>0, <3>1 DEF Lost
    <3>3. e = log[next] /\ lib \in Halves(Library, e)
      BY <1>7, <2>1, <2>0
    <3>4. strm' = lib.strm /\ db' = lib.db /\ done' = done \ {next}
      BY <1>9, <2>1
    <3>5. AtHand(e, f) /\ f \in Files /\ IsLast(f, next)
      BY <2>3
    <3>6. LeavesHalf(lib, e, f)
      BY <1>4, <2>4, <2>5, <3>2, <3>3, <3>4, <3>5 DEF LeavesHalf
    <3> QED
      BY <3>1, <3>6, HalfKept
  <2>7. /\ \A k : k # next => (k \in done' <=> k \in done)
        /\ torn \subseteq torn'
    BY <2>1
  <2>8. f \in Files /\ f = log[next].file
    BY <2>3, <2>0
  <2>9. Writes(lib, f)
    BY <1>4, <1>9, <2>4, <2>5, <2>7, <2>8 DEF Writes
  <2> QED
    BY <1>2, <2>6, <2>9, KeptByTame
<1> QED
  BY <1>11, <1>12

LEMMA LibraryInv ==
    ASSUME IInv, TInv, Turn, Cloud, Faithful, Next
    PROVE  Faithful'
<1> SUFFICES ASSUME Hope', options'.remove PROVE AllKept'
  BY DEF Faithful
<1>1. options' = options
  BY DEF Next, User, Upload, Move, Rename, Delete, UserDoes, Host, HostTransfers, Monitor, Pull,
         Handle, HandleBadly, BatchEnds, Raises, StopRequested, Stops, Crash, Starts
<1>2. CASE Pull \/ BatchEnds \/ StopRequested \/ Stops \/ Starts
  <2>1. AllKept
    BY <1>1, <1>2, HopeThread DEF Faithful
  <2>2. UNCHANGED <<loc, log, strm, db, done, arriving, torn>>
    BY <1>2 DEF Pull, BatchEnds, StopRequested, Stops, Starts, cloud, library, history
  <2> QED
    BY <1>1, <2>1, <2>2, KeptSame
<1>3. CASE User
  BY <1>1, <1>3, UserKept
<1>4. CASE Host
  BY <1>1, <1>4, HostKept
<1>5. CASE Handle
  BY <1>1, <1>5, HandleKept
<1>6. CASE HandleBadly
  BY <1>1, <1>6, HandleBadlyKept
<1>7. CASE Raises \/ Crash
  BY <1>1, <1>7, BreaksKept
<1> QED
  BY <1>2, <1>3, <1>4, <1>5, <1>6, <1>7 DEF Next, Monitor

LEMMA TurnInv == ASSUME IInv, TInv, Turn, Next PROVE Turn'
BY UserTurn, PullTurn, HandleTurn, BatchEndsTurn, BreaksTurn, StopsTurn, StartsTurn DEF Next, Monitor

LEMMA LibraryInit == Init => Turn /\ Cloud /\ Faithful
<1> SUFFICES ASSUME Init PROVE Turn /\ Cloud /\ Faithful
  OBVIOUS
<1>1. /\ log = <<>> /\ DOMAIN log = {} /\ done = {} /\ skipped = {} /\ thread = "loop"
      /\ saved = Nowhere /\ late = FALSE /\ cursor = 0
      /\ loc = [f \in Files |-> Nowhere] /\ db = [f \in Files |-> Nowhere]
      /\ strm = [p \in Media |-> Nowhere]
  BY DEF Init
<1>2. Turn
  BY <1>1 DEF Turn, LeftOut, SavedEarlier, InOrder, Earlier
<1>3. \A f, k : ~IsLast(f, k)
  BY <1>1 DEF IsLast
<1>4. Cloud
  BY <1>1, <1>3 DEF Cloud, Apart, Told
<1>5. AllKept
  <2>1. ASSUME NEW f \in Files PROVE Kept(f)
    <3>1. Plays(f, Nowhere) /\ Within(f)
      BY <1>1, PlacesDiffer DEF Plays, Within
    <3>2. db[f] = Nowhere /\ loc[f] = Nowhere
      BY <1>1
    <3>3. ~Known(f) /\ ~Settled(f) /\ ~Hosted(f) /\ Found(f)
      BY <1>3 DEF Known, Settled, Hosted, Found, Lately
    <3> QED
      BY <3>1, <3>2, <3>3 DEF Kept
  <2> QED
    BY <1>1, <2>1 DEF AllKept, Unique
<1> QED
  BY <1>2, <1>4, <1>5 DEF Faithful

LEMMA StutterInv ==
    ASSUME IInv, TInv, Turn, Cloud, Faithful, UNCHANGED vars
    PROVE  Turn' /\ Cloud' /\ Faithful'
<1>1. /\ UNCHANGED <<log, thread, position, saved, options, done, skipped, late>>
      /\ UNCHANGED <<loc, strm, db, arriving, torn>>
  BY DEF vars, cloud, library, history
<1>2. Reach' = Reach
  BY <1>1 DEF Reach, From, position
<1>3. Hope' => Hope
  BY <1>1, <1>2, HopeSame
<1>4. Faithful'
  BY <1>1, <1>3, KeptSame DEF Faithful
<1> QED
  BY <1>1, <1>4, TurnSame, CloudSame

LEMMA MirrorHolds == ASSUME IInv, TInv, Cloud, Faithful PROVE Mirror
<1> SUFFICES ASSUME CaughtUp, options.remove, NEW f \in Files \ torn, NEW p \in Media
             PROVE  strm[p] = f <=> loc[f] = p
  BY DEF Mirror
<1>1. Hope
  BY Counters DEF CaughtUp, Hope, Reach, Earlier
<1>2. Kept(f)
  BY <1>1 DEF Faithful, AllKept
<1>3. p # Nowhere
  BY PlacesDiffer
<1>4. Known(f) => Settled(f)
  BY DEF Known, Settled, CaughtUp
<1>5. Plays(f, db[f])
  BY <1>2, <1>4 DEF Kept
<1>6. ASSUME strm[p] = f PROVE loc[f] = p
  <2>1. db[f] = p
    BY <1>5, <1>6 DEF Plays
  <2>2. Settled(f)
    BY <1>2, <1>3, <1>4, <2>1 DEF Kept
  <2> QED
    BY <1>2, <1>3, <2>1, <2>2 DEF Kept
<1>7. ASSUME loc[f] = p PROVE strm[p] = f
  <2>1. Settled(f)
    BY <1>3, <1>4, <1>7 DEF Cloud
  <2>2. db[f] = p
    BY <1>2, <1>7, <2>1 DEF Kept
  <2> QED
    BY <1>5, <2>2 DEF Plays
<1> QED
  BY <1>6, <1>7

\* Whatever the order of events, replays, handlers that raise or are killed halfway or swallow
\* an error, stops and transfers of the host, and for every combination of options with the
\* "remove" mode: a monitor that has caught up in time leaves a library that mirrors the
\* cloud, file by file, but for the files that an error or a crash tore for good.
THEOREM LibraryMirrors == Spec => []Mirror
<1>1. Init => LInv
  BY InitInv, TypesInit, LibraryInit DEF LInv
<1>2. LInv /\ [Next]_vars => LInv'
  <2> SUFFICES ASSUME LInv, [Next]_vars PROVE LInv'
    OBVIOUS
  <2>1. IInv' /\ TInv'
    BY StepInv, TypesNext DEF LInv
  <2>2. CASE Next
    BY <2>1, <2>2, TurnInv, CloudInv, LibraryInv DEF LInv
  <2>3. CASE UNCHANGED vars
    BY <2>1, <2>3, StutterInv DEF LInv
  <2> QED
    BY <2>2, <2>3
<1>3. LInv => Mirror
  BY MirrorHolds DEF LInv
<1> QED
  BY <1>1, <1>2, <1>3, PTL DEF Spec
=============================================================================
