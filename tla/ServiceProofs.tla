--------------------------- MODULE ServiceProofs ---------------------------
(***************************************************************************)
(* Proofs about two services the plugin starts and stops: SyncService, the *)
(* admission of the STRM syncs, for any number of calls and of             *)
(* reconfigurations; and DirectoryUpload, for every set of files, every    *)
(* number of stable looks, of writes and of failures.                      *)
(***************************************************************************)
EXTENDS SyncService, DirectoryUpload, SequenceTheorems, TLAPS

(***************************************************************************)
(* SyncService: the two syncs exclude each other, a noted full sync has a  *)
(* reader, a stop that was reported left nothing behind, and admission     *)
(* implements the drain barrier.                                           *)
(***************************************************************************)
\* Outside sync_operation(): not yet, refused, or back.
Outside == {"new", "refused", "done"}

\* Where a call is tells how deep its entries may be nested.
Nested ==
    \A c \in Calls :
        /\ ops[c] = 0 <=> pc[c] \in Outside
        /\ pc[c] = "body" => ops[c] = 1
        /\ pc[c] \in {"askInc", "inc", "noted"} => ops[c] \in 1..2

\* The two flags say whether a sync is running, and no two syncs run.
Flags ==
    /\ fullRunning <=> \E c \in Calls : pc[c] = "full"
    /\ incRunning <=> \E c \in Calls : pc[c] = "inc"
    /\ ~(fullRunning /\ incRunning)

\* The note stands only while an incremental sync runs.
Noted == fullPending => incRunning

\* Admission stays closed, and nobody comes back, after a stop was reported.
Closed == reported => stopping /\ Drained

\* A stop or an initialisation under way has closed admission, and only another
\* initialisation, which is the history of it, has opened it since.
Stopping == \A s \in Stoppers :
    stopper[s] # "out" => stopping \/ (initialized /\ s \in overtaken)

IInv == TypeOK /\ Stopping /\ Nested /\ Flags /\ OneSync /\ Noted /\ Closed
------------------------------------------------------------------------------
LEMMA InitInv == Init => IInv
<1> SUFFICES ASSUME Init PROVE IInv
  OBVIOUS
<1> USE DEF Init
<1>1. TypeOK
  <2>1. 0 \in 0..Deepest /\ "new" \in Places
    BY DEF Deepest, Places
  <2>2. /\ ops \in [Calls -> 0..Deepest] /\ pc \in [Calls -> Places]
        /\ background \in [Calls -> {"none", "on", "off"}]
        /\ HostOK
    BY <2>1 DEF HostOK
  <2> QED
    BY <2>2 DEF TypeOK
<1>2. Stopping /\ Nested /\ Flags /\ OneSync /\ Noted /\ Closed
  BY DEF Stopping, Nested, Outside, Flags, OneSync, Noted, Closed
<1> QED
  BY <1>1, <1>2 DEF IInv

\* Who is outside is not registered, so that nothing of a sync is left once
\* nobody is registered.
LEMMA DrainedOutside == IInv /\ Drained => \A c \in Calls : pc[c] \in Outside
  BY DEF IInv, Nested, Drained

\* A step that moves one call, at most nests it deeper or less deep, and leaves
\* the sync flags alone: what it has to show about that call.
LEMMA Moves ==
    ASSUME IInv, NEW c \in Calls, NEW to \in Places, NEW d \in 0..Deepest,
           pc' = [pc EXCEPT ![c] = to], ops' = [ops EXCEPT ![c] = d],
           d = 0 <=> to \in Outside,
           to = "body" => d = 1,
           to \in {"askInc", "inc", "noted"} => d \in 1..2,
           background' \in [Calls -> {"none", "on", "off"}],
           stopping' \in BOOLEAN, host' = host,
           reported => stopping' /\ Drained'
    PROVE  /\ ops' \in [Calls -> 0..Deepest] /\ pc' \in [Calls -> Places]
           /\ Nested' /\ Closed'
           /\ HostOK'
<1>1. /\ ops \in [Calls -> 0..Deepest] /\ pc \in [Calls -> Places]
      /\ HostOK
  BY DEF IInv, TypeOK
<1>2. ops' \in [Calls -> 0..Deepest] /\ pc' \in [Calls -> Places]
  BY <1>1
<1>3. ASSUME NEW b \in Calls
      PROVE  /\ ops'[b] = 0 <=> pc'[b] \in Outside
             /\ pc'[b] = "body" => ops'[b] = 1
             /\ pc'[b] \in {"askInc", "inc", "noted"} => ops'[b] \in 1..2
  <2>1. CASE b = c
    BY <1>1, <2>1
  <2>2. CASE b # c
    BY <1>1, <2>2 DEF IInv, Nested
  <2> QED
    BY <2>1, <2>2
<1>4. Nested'
  BY <1>3 DEF Nested
<1>5. HostOK'
  BY <1>1 DEF host, HostOK
<1>6. reported' <=> reported
  BY <1>1 DEF host, HostOK
<1>7. Closed'
  BY <1>6 DEF Closed
<1> QED
  BY <1>2, <1>4, <1>5, <1>7

\* Nobody begins or ends a sync: the flags stay.
LEMMA SameSyncs ==
    ASSUME IInv, NEW c \in Calls, NEW to \in Places,
           pc' = [pc EXCEPT ![c] = to],
           pc[c] \notin {"full", "inc"}, to \notin {"full", "inc"},
           fullRunning' = fullRunning, incRunning' = incRunning
    PROVE  Flags' /\ OneSync'
<1>1. pc \in [Calls -> Places]
  BY DEF IInv, TypeOK
<1>2. ASSUME NEW b \in Calls
      PROVE  /\ pc'[b] = "full" <=> pc[b] = "full"
             /\ pc'[b] = "inc" <=> pc[b] = "inc"
  BY <1>1
<1> QED
  BY <1>2 DEF IInv, Flags, OneSync

\* Both together: a step of one call that begins and ends no sync.
LEMMA CallMoves ==
    ASSUME IInv, NEW c \in Calls, NEW to \in Places, NEW d \in 0..Deepest,
           pc' = [pc EXCEPT ![c] = to], ops' = [ops EXCEPT ![c] = d],
           pc[c] \notin {"full", "inc"}, to \notin {"full", "inc"},
           d = 0 <=> to \in Outside,
           to = "body" => d = 1,
           to \in {"askInc", "noted"} => d \in 1..2,
           background' \in [Calls -> {"none", "on", "off"}],
           UNCHANGED <<stopping, host, fullRunning, incRunning>>,
           fullPending' = fullPending \/ (fullPending' = TRUE /\ incRunning),
           reported => stopping /\ Drained'
    PROVE  IInv'
<1>1. /\ stopping \in BOOLEAN /\ fullRunning \in BOOLEAN /\ incRunning \in BOOLEAN
      /\ fullPending \in BOOLEAN
  BY DEF IInv, TypeOK
<1>2. /\ stopping' \in BOOLEAN /\ fullRunning' \in BOOLEAN /\ incRunning' \in BOOLEAN
      /\ fullPending' \in BOOLEAN
  BY <1>1
<1>3. to \in {"askInc", "inc", "noted"} => d \in 1..2
  OBVIOUS
<1>4. reported => stopping' /\ Drained'
  OBVIOUS
<1>5. /\ ops' \in [Calls -> 0..Deepest] /\ pc' \in [Calls -> Places]
      /\ Nested' /\ Closed'
      /\ HostOK'
  BY <1>2, <1>3, <1>4, Moves
<1>6. Flags' /\ OneSync'
  BY SameSyncs
<1>7. Noted'
  BY DEF IInv, Noted
<1>8. TypeOK'
  BY <1>2, <1>5 DEF TypeOK
<1>9. Stopping'
  BY DEF IInv, Stopping, host
<1> QED
  BY <1>5, <1>6, <1>7, <1>8, <1>9 DEF IInv

\* One call begins a sync, when none is running.
LEMMA SyncBegins ==
    ASSUME IInv, NEW c \in Calls, ~fullRunning, ~incRunning,
           \/ /\ pc' = [pc EXCEPT ![c] = "full"]
              /\ fullRunning' = TRUE /\ incRunning' = incRunning
           \/ /\ pc' = [pc EXCEPT ![c] = "inc"]
              /\ incRunning' = TRUE /\ fullRunning' = fullRunning
    PROVE  Flags' /\ OneSync'
<1>1. pc \in [Calls -> Places] /\ \A b \in Calls : pc[b] \notin {"full", "inc"}
  BY DEF IInv, TypeOK, Flags
<1>2. CASE pc' = [pc EXCEPT ![c] = "full"]
  BY <1>1, <1>2 DEF Flags, OneSync
<1>3. CASE pc' = [pc EXCEPT ![c] = "inc"]
  BY <1>1, <1>3 DEF Flags, OneSync
<1> QED
  BY <1>2, <1>3

\* The one sync that is running ends.
LEMMA SyncEnds ==
    ASSUME IInv, NEW c \in Calls, pc[c] \in {"full", "inc"}, NEW to \in Places,
           to \notin {"full", "inc"}, pc' = [pc EXCEPT ![c] = to],
           fullRunning' = (fullRunning /\ pc[c] # "full"),
           incRunning' = (incRunning /\ pc[c] # "inc")
    PROVE  Flags' /\ OneSync'
<1>1. pc \in [Calls -> Places] /\ \A b \in Calls : pc[b] \in {"full", "inc"} => b = c
  BY DEF IInv, TypeOK, OneSync
<1>2. \A b \in Calls : pc'[b] \notin {"full", "inc"}
  BY <1>1
<1>3. ~fullRunning' /\ ~incRunning'
  BY DEF IInv, Flags
<1> QED
  BY <1>2, <1>3 DEF Flags, OneSync
------------------------------------------------------------------------------
LEMMA EnterInv ==
    ASSUME IInv, NEW c \in Calls, NEW first \in {"body", "askFull", "askInc"},
           Enter(c, first)
    PROVE  IInv'
<1> USE DEF Enter, Goes
<1>1. /\ pc[c] = "new" /\ ops[c] = 0 /\ ops \in [Calls -> 0..Deepest]
      /\ 0 \in 0..Deepest /\ 1 \in 0..Deepest /\ first \in Places /\ "refused" \in Places
      /\ first \notin Outside /\ "refused" \in Outside
      /\ pc[c] \notin {"full", "inc"} /\ first \notin {"full", "inc"}
      /\ 1 \in 1..2 /\ 1 # 0
  BY DEF IInv, Nested, TypeOK, Outside, Deepest, Places
<1>0. /\ background' \in [Calls -> {"none", "on", "off"}]
      /\ UNCHANGED <<stopping, host, fullRunning, incRunning, fullPending>>
  BY DEF IInv, TypeOK, flags
<1>2. CASE stopping
  <2>1. ops' = [ops EXCEPT ![c] = 0] /\ pc' = [pc EXCEPT ![c] = "refused"]
    BY <1>1, <1>2
  <2>2. reported => stopping /\ Drained'
    BY <1>1, <1>2 DEF IInv, Closed, Drained
  <2> HIDE DEF Enter
  <2> QED
    BY <1>1, <2>1, <2>2, <1>0, CallMoves
<1>3. CASE ~stopping
  <2>1. ops' = [ops EXCEPT ![c] = 1] /\ pc' = [pc EXCEPT ![c] = first] /\ ~reported
    BY <1>3 DEF IInv, Closed
  <2> HIDE DEF Enter
  <2> QED
    BY <1>1, <2>1, <1>0, CallMoves
<1> QED
  BY <1>2, <1>3

\* A registered call is never there once a stop was reported.
LEMMA InsideUnreported ==
    ASSUME IInv, NEW c \in Calls, pc[c] \notin Outside PROVE ~reported
  BY DrainedOutside DEF IInv, Closed

LEMMA ReenterInv ==
    ASSUME IInv, NEW c \in Calls, Command(c) \/ RunNoted(c) PROVE IInv'
<1> USE DEF Command, RunNoted, Reenter, Goes
<1>1. PICK to \in {"askFull", "askInc"} :
        /\ pc' = [pc EXCEPT ![c] = to] /\ ops' = [ops EXCEPT ![c] = ops[c] + 1]
        /\ pc[c] = "body" \/ (pc[c] = "noted" /\ to = "askFull")
  OBVIOUS
<1>2. /\ background' \in [Calls -> {"none", "on", "off"}]
      /\ UNCHANGED <<stopping, host, fullRunning, incRunning, fullPending>>
  BY DEF IInv, TypeOK, flags
<1>3. /\ ops[c] \in 1..2 /\ (pc[c] = "body" => ops[c] = 1)
      /\ ops[c] + 1 \in 0..Deepest /\ ops[c] + 1 # 0 /\ to \in Places /\ to \notin Outside
      /\ pc[c] \notin Outside
  BY <1>1 DEF IInv, Nested, Outside, Deepest, Places
<1>4. ~reported
  BY <1>3, InsideUnreported
<1>5. (to = "askInc" => ops[c] + 1 \in 1..2) /\ pc[c] \notin {"full", "inc"}
  BY <1>1, <1>3
<1> QED
  BY <1>1, <1>2, <1>3, <1>4, <1>5, CallMoves

LEMMA LeaveInv == ASSUME IInv, NEW c \in Calls, Leave(c) PROVE IInv'
<1> USE DEF Leave, Goes
<1>1. /\ pc[c] \notin Outside /\ ops[c] \in 1..Deepest /\ pc[c] \notin {"full", "inc"}
      /\ ops[c] - 1 \in 0..Deepest
  BY DEF IInv, Nested, TypeOK, Outside, Deepest
<1>2. ~reported
  BY <1>1, InsideUnreported
<1> DEFINE to == IF ops[c] = 1 THEN "done" ELSE "leave"
<1>3. to \in Places /\ (ops[c] - 1 = 0 <=> to \in Outside)
      /\ to \notin {"full", "inc", "body", "askInc", "noted"}
  BY <1>1 DEF Places, Outside, Deepest
<1>4. pc' = [pc EXCEPT ![c] = to] /\ ops' = [ops EXCEPT ![c] = ops[c] - 1]
  OBVIOUS
<1>5. /\ background' \in [Calls -> {"none", "on", "off"}]
      /\ UNCHANGED <<stopping, host, fullRunning, incRunning, fullPending>>
  BY DEF IInv, TypeOK, flags
<1> HIDE DEF to
<1> QED
  BY <1>1, <1>2, <1>3, <1>4, <1>5, CallMoves

\* A step of a call inside that keeps its depth.
LEMMA StaysInside ==
    ASSUME IInv, NEW c \in Calls, pc[c] \notin Outside,
           NEW to \in {"leave", "full", "inc", "noted"},
           to \in {"inc", "noted"} => pc[c] \in {"askInc", "inc"},
           pc' = [pc EXCEPT ![c] = to], ops' = ops, UNCHANGED <<stopping, host>>,
           background' \in [Calls -> {"none", "on", "off"}]
    PROVE  /\ ops' \in [Calls -> 0..Deepest] /\ pc' \in [Calls -> Places]
           /\ Nested' /\ Closed' /\ Stopping'
           /\ HostOK' /\ stopping' \in BOOLEAN
<1>0. Stopping'
  BY DEF IInv, Stopping, host
<1>1. ops \in [Calls -> 0..Deepest] /\ stopping \in BOOLEAN /\ ~reported
  BY InsideUnreported DEF IInv, TypeOK
<1>2. ops[c] \in 0..Deepest /\ ops[c] # 0 /\ ops' = [ops EXCEPT ![c] = ops[c]]
  BY <1>1 DEF IInv, Nested
<1>3. to \in Places /\ to \notin Outside /\ to # "body"
      /\ (to \in {"askInc", "inc", "noted"} => ops[c] \in 1..2)
  BY DEF IInv, Nested, Places, Outside
<1> QED
  BY <1>0, <1>1, <1>2, <1>3, Moves

LEMMA StartBackgroundInv == ASSUME IInv, NEW c \in Calls, StartBackground(c) PROVE IInv'
<1> USE DEF StartBackground, Goes
<1>1. /\ pc[c] = "body" /\ pc[c] \notin Outside /\ pc' = [pc EXCEPT ![c] = "leave"]
      /\ background' \in [Calls -> {"none", "on", "off"}] /\ "leave" \in Places
      /\ UNCHANGED <<stopping, host, fullRunning, incRunning, fullPending>>
  BY DEF IInv, TypeOK, Outside, Places, flags
<1>2. /\ ops[c] \in 0..Deepest /\ ops[c] # 0 /\ ops' = [ops EXCEPT ![c] = ops[c]]
      /\ "leave" \notin Outside /\ ~reported
  BY <1>1, InsideUnreported DEF IInv, TypeOK, Nested, Outside
<1> QED
  BY <1>1, <1>2, CallMoves

LEMMA BackgroundEndsInv == ASSUME IInv, NEW c \in Calls, BackgroundEnds(c) PROVE IInv'
<1> USE DEF BackgroundEnds
<1>1. background' \in [Calls -> {"none", "on", "off"}]
  BY DEF IInv, TypeOK
<1>2. background \in [Calls -> {"none", "on", "off"}] /\ (Drained => Drained')
  BY DEF IInv, TypeOK, Drained
<1>3. TypeOK'
  BY <1>1 DEF IInv, TypeOK, HostOK, flags, host
<1> QED
  BY <1>2, <1>3 DEF IInv, Stopping, Nested, Flags, OneSync, Noted, Closed, flags, host

LEMMA AskFullInv == ASSUME IInv, NEW c \in Calls, AskFull(c) PROVE IInv'
<1> USE DEF AskFull, Goes, admission
<1>1. /\ pc[c] \notin Outside /\ pc[c] \notin {"full", "inc"} /\ "leave" \in Places
      /\ background' \in [Calls -> {"none", "on", "off"}] /\ UNCHANGED <<stopping, ops, host>>
  BY DEF IInv, TypeOK, Outside, Places
<1>2. CASE pc' = [pc EXCEPT ![c] = "leave"] /\ UNCHANGED <<fullRunning, incRunning>>
           /\ (fullPending' = fullPending \/ (fullPending' = TRUE /\ incRunning))
  <2>1. /\ ops[c] \in 0..Deepest /\ ops[c] # 0 /\ ops' = [ops EXCEPT ![c] = ops[c]]
        /\ "leave" \notin Outside /\ ~reported
    BY <1>1, InsideUnreported DEF IInv, TypeOK, Nested, Outside
  <2> QED
    BY <1>1, <1>2, <2>1, CallMoves
<1>3. CASE ~fullRunning /\ ~incRunning /\ fullRunning' = TRUE
           /\ pc' = [pc EXCEPT ![c] = "full"] /\ UNCHANGED <<incRunning, fullPending>>
  <2>1. /\ ops' \in [Calls -> 0..Deepest] /\ pc' \in [Calls -> Places]
        /\ Nested' /\ Closed' /\ Stopping'
        /\ HostOK' /\ stopping' \in BOOLEAN
    BY <1>1, <1>3, StaysInside
  <2>2. Flags' /\ OneSync'
    BY <1>3, SyncBegins
  <2>3. Noted' /\ fullPending' \in BOOLEAN /\ incRunning' \in BOOLEAN
    BY <1>3 DEF IInv, TypeOK, Noted
  <2> QED
    BY <1>1, <1>3, <2>1, <2>2, <2>3 DEF IInv, TypeOK
<1> QED
  BY <1>2, <1>3 DEF flags

LEMMA AskIncInv == ASSUME IInv, NEW c \in Calls, AskInc(c) PROVE IInv'
<1> USE DEF AskInc, Goes, admission
<1>1. /\ pc[c] = "askInc" /\ pc[c] \notin Outside /\ "leave" \in Places
      /\ background' \in [Calls -> {"none", "on", "off"}] /\ UNCHANGED <<stopping, ops, host>>
  BY DEF IInv, TypeOK, Outside, Places
<1>2. CASE fullRunning \/ incRunning
  <2>2. /\ pc' = [pc EXCEPT ![c] = "leave"]
        /\ UNCHANGED <<fullRunning, incRunning, fullPending>>
    BY <1>2
  <2>1. /\ ops[c] \in 0..Deepest /\ ops[c] # 0 /\ ops' = [ops EXCEPT ![c] = ops[c]]
        /\ "leave" \notin Outside /\ ~reported
        /\ pc[c] \notin {"full", "inc"} /\ "leave" \notin {"full", "inc", "body"}
    BY <1>1, InsideUnreported DEF IInv, TypeOK, Nested, Outside
  <2> HIDE DEF AskInc
  <2> QED
    BY <1>1, <2>1, <2>2, CallMoves
<1>3. CASE ~fullRunning /\ ~incRunning
  <2>1. /\ ops' \in [Calls -> 0..Deepest] /\ pc' \in [Calls -> Places]
        /\ Nested' /\ Closed' /\ Stopping'
        /\ HostOK' /\ stopping' \in BOOLEAN
    BY <1>1, <1>3, StaysInside
  <2>2. Flags' /\ OneSync'
    BY <1>3, SyncBegins
  <2>3. Noted' /\ fullPending' \in BOOLEAN /\ fullRunning' \in BOOLEAN
    BY <1>3 DEF IInv, TypeOK, Noted
  <2> QED
    BY <1>1, <1>3, <2>1, <2>2, <2>3 DEF IInv, TypeOK
<1> QED
  BY <1>2, <1>3

LEMMA SyncEndsInv ==
    ASSUME IInv, NEW c \in Calls, FullEnds(c) \/ IncEnds(c) PROVE IInv'
<1> USE DEF FullEnds, IncEnds, Goes, admission
<1>1. /\ pc[c] \in {"full", "inc"} /\ pc[c] \notin Outside
      /\ background' \in [Calls -> {"none", "on", "off"}] /\ UNCHANGED <<stopping, ops, host>>
  BY DEF IInv, TypeOK, Outside
<1>2. PICK to \in {"leave", "noted"} :
        pc' = [pc EXCEPT ![c] = to] /\ (to = "noted" => pc[c] = "inc")
  OBVIOUS
<1>3. /\ fullRunning \in BOOLEAN /\ incRunning \in BOOLEAN /\ fullPending \in BOOLEAN
      /\ fullRunning' \in BOOLEAN /\ incRunning' \in BOOLEAN /\ fullPending' \in BOOLEAN
      /\ fullRunning' = (fullRunning /\ pc[c] # "full")
      /\ incRunning' = (incRunning /\ pc[c] # "inc")
  BY DEF IInv, TypeOK
<1>4. Noted'
  <2>1. CASE FullEnds(c)
    BY <2>1 DEF IInv, Noted
  <2>2. CASE IncEnds(c)
    BY <2>2 DEF Noted
  <2> QED
    BY <2>1, <2>2
<1>5. to \in Places /\ to \notin {"full", "inc"}
  BY DEF Places
<1>6. Flags' /\ OneSync'
  BY <1>1, <1>2, <1>3, <1>5, SyncEnds
<1>7. /\ ops' \in [Calls -> 0..Deepest] /\ pc' \in [Calls -> Places]
      /\ Nested' /\ Closed' /\ Stopping'
      /\ HostOK' /\ stopping' \in BOOLEAN
  BY <1>1, <1>2, StaysInside
<1> QED
  BY <1>1, <1>3, <1>4, <1>6, <1>7 DEF IInv, TypeOK
------------------------------------------------------------------------------
\* Steps of the shutdown leave the calls and the syncs alone.
LEMMA CallsUntouched ==
    ASSUME IInv, UNCHANGED <<ops, background, flags, pc>>,
           stopping' \in BOOLEAN, HostOK',
           reported' => stopping' /\ Drained, Stopping'
    PROVE  IInv'
<1>1. TypeOK'
  BY DEF IInv, TypeOK, flags
<1> QED
  BY <1>1 DEF IInv, Nested, Flags, OneSync, Noted, Closed, Drained, flags

LEMMA StopInv ==
    ASSUME IInv,
           \/ \E s \in Stoppers : StopBegins(s)
           \/ \E s \in Stoppers : StopEnds(s)
           \/ \E s \in Stoppers : InitBegins(s)
           \/ \E s \in Stoppers : InitEnds(s)
           \/ \E c \in Calls : StopFromCall(c)
    PROVE  IInv'
<1>1. /\ stopping \in BOOLEAN /\ initialized \in BOOLEAN /\ reported \in BOOLEAN
      /\ stopper \in [Stoppers -> {"out", "waiting", "stopped", "starting"}]
      /\ overtaken \subseteq Stoppers
      /\ reported => stopping /\ Drained
      /\ \A s \in Stoppers : stopper[s] # "out" => stopping \/ (initialized /\ s \in overtaken)
  BY DEF IInv, TypeOK, HostOK, Closed, Stopping
<1>2. ASSUME NEW s \in Stoppers, StopBegins(s) PROVE IInv'
  <2>1. /\ stopping' = TRUE /\ UNCHANGED <<ops, background, flags, pc, initialized, reported>>
        /\ stopper' = [stopper EXCEPT ![s] = "waiting"] /\ overtaken' = overtaken \ {s}
    BY <1>2 DEF StopBegins
  <2>2. Stopping' /\ HostOK'
    BY <1>1, <2>1 DEF Stopping, HostOK
  <2> QED
    BY <1>1, <2>1, <2>2, CallsUntouched
<1>3. ASSUME NEW s \in Stoppers, StopEnds(s) PROVE IInv'
  <2>1. PICK result \in IF Drained THEN {"stopped", "out"} ELSE {"out"} :
          /\ stopper' = [stopper EXCEPT ![s] = result]
          /\ reported' = (reported \/ (result = "stopped" /\ s \notin overtaken))
    BY <1>3 DEF StopEnds
  <2>2. /\ result \in {"stopped", "out"} /\ (result = "stopped" => Drained)
        /\ stopper[s] = "waiting" /\ UNCHANGED <<admission, flags, pc, initialized, overtaken>>
    BY <1>3, <2>1 DEF StopEnds
  <2>3. stopping' = stopping /\ UNCHANGED <<ops, background, flags, pc, initialized, overtaken>>
    BY <2>2 DEF admission
  <2>4. stopper' \in [Stoppers -> {"out", "waiting", "stopped", "starting"}]
    BY <1>1, <2>1, <2>2
  <2>5. /\ reported' \in BOOLEAN
        /\ reported' => reported \/ (result = "stopped" /\ s \notin overtaken)
    BY <2>1
  <2>6. reported' => stopping' /\ Drained
    BY <1>1, <2>2, <2>3, <2>5
  <2>7. \A t \in Stoppers : stopper'[t] # "out" => stopper[t] # "out"
    BY <1>1, <2>1, <2>2
  <2>8. Stopping' /\ HostOK'
    BY <1>1, <2>3, <2>4, <2>5, <2>7 DEF Stopping, HostOK
  <2> QED
    BY <1>1, <2>3, <2>6, <2>8, CallsUntouched
<1>4. ASSUME NEW s \in Stoppers, InitBegins(s) PROVE IInv'
  <2>1. PICK result \in {"starting", "out"} : stopper' = [stopper EXCEPT ![s] = result]
    BY <1>4 DEF InitBegins
  <2>2. /\ stopping' = TRUE
        /\ UNCHANGED <<ops, background, flags, pc, initialized, overtaken, reported>>
    BY <1>4 DEF InitBegins
  <2>3. Stopping' /\ HostOK'
    BY <1>1, <2>1, <2>2 DEF Stopping, HostOK
  <2> QED
    BY <1>1, <2>2, <2>3, CallsUntouched
<1>5. ASSUME NEW s \in Stoppers, InitEnds(s) PROVE IInv'
  <2>1. /\ stopper' = [stopper EXCEPT ![s] = "out"] /\ UNCHANGED <<ops, background, flags, pc>>
    BY <1>5 DEF InitEnds
  <2>2. /\ \A t \in Stoppers : stopper'[t] # "out" => t # s /\ stopper[t] # "out"
        /\ stopper' \in [Stoppers -> {"out", "waiting", "stopped", "starting"}]
    BY <1>1, <2>1
  <2>3. CASE /\ stopping' = FALSE /\ initialized' = TRUE /\ reported' = FALSE
             /\ overtaken' = {t \in Stoppers \ {s} : stopper[t] # "out"}
    <3>1. Stopping' /\ HostOK'
      BY <2>2, <2>3 DEF Stopping, HostOK
    <3> QED
      BY <2>1, <2>3, <3>1, CallsUntouched
  <2>4. CASE UNCHANGED <<stopping, initialized, overtaken, reported>>
    <3>1. Stopping' /\ HostOK'
      BY <1>1, <2>2, <2>4 DEF Stopping, HostOK
    <3> QED
      BY <1>1, <2>1, <2>4, <3>1, CallsUntouched
  <2> QED
    BY <1>5, <2>3, <2>4 DEF InitEnds
<1>6. ASSUME NEW c \in Calls, StopFromCall(c) PROVE IInv'
  <2>1. stopping' = TRUE /\ UNCHANGED <<ops, background, flags, pc, host>>
    BY <1>6 DEF StopFromCall
  <2>2. Stopping' /\ HostOK' /\ reported' = reported
    BY <1>1, <2>1 DEF Stopping, HostOK, host
  <2> QED
    BY <1>1, <2>1, <2>2, CallsUntouched
<1> QED
  BY <1>2, <1>3, <1>4, <1>5, <1>6
------------------------------------------------------------------------------
LEMMA StepInv == IInv /\ [Next]_vars => IInv'
<1> SUFFICES ASSUME IInv, [Next]_vars PROVE IInv'
  OBVIOUS
<1>1. ASSUME NEW c \in Calls, Call(c) PROVE IInv'
  BY <1>1, EnterInv, ReenterInv, StartBackgroundInv, BackgroundEndsInv, StopInv,
     AskFullInv, AskIncInv, SyncEndsInv, LeaveInv DEF Call, Sync
<1>2. CASE UNCHANGED vars
  BY <1>2 DEF vars, IInv, TypeOK, HostOK, Stopping, Nested, Flags, OneSync, Noted, Closed,
              Drained, flags
<1> QED
  BY <1>1, <1>2, StopInv DEF Next

\* Types, nesting, flags, note and admission are as the parts of IInv say at every
\* step of a fair or unfair run.
THEOREM Invariance == Spec => []IInv
<1> QED
  BY InitInv, StepInv, PTL DEF Spec

\* At most one thread is ever inside a full or an incremental sync.
THEOREM SyncsExclude == Spec => []OneSync
<1>1. IInv => OneSync
  BY DEF IInv
<1> QED
  BY <1>1, Invariance, PTL

\* A noted full sync always has a registered thread that will read the note.
THEOREM NoteIsRead == Spec => []NoteHasReader
<1>1. IInv => NoteHasReader
  <2> SUFFICES ASSUME IInv, fullPending PROVE NoteHasReader
    BY DEF NoteHasReader
  <2>1. PICK c \in Calls : pc[c] = "inc"
    BY DEF IInv, Noted, Flags
  <2>2. ops[c] > 0
    BY <2>1 DEF IInv, Nested
  <2> QED
    BY <2>1, <2>2 DEF NoteHasReader
<1> QED
  BY <1>1, Invariance, PTL

\* After a stop that returned True nothing runs, nothing is noted, and nobody
\* comes in.
THEOREM StopLeavesNothing == Spec => []StoppedMeansIdle
<1>1. IInv => StoppedMeansIdle
  <2> SUFFICES ASSUME IInv, reported PROVE StoppedMeansIdle
    BY DEF StoppedMeansIdle
  <2>1. stopping /\ Drained /\ \A c \in Calls : pc[c] \in Outside
    BY DrainedOutside DEF IInv, Closed
  <2>2. ~fullRunning /\ ~incRunning /\ ~fullPending
    BY <2>1 DEF IInv, Flags, Noted, Outside
  <2> QED
    BY <2>1, <2>2 DEF StoppedMeansIdle, Outside
<1> QED
  BY <1>1, Invariance, PTL
------------------------------------------------------------------------------
\* The safety part of ImplementsFairBarrier.
ImplementsBarrier == Barrier!Spec

LEMMA DrainedSettles == IInv /\ Drained => Accepted = Settled
<1> SUFFICES ASSUME IInv, Drained PROVE Accepted = Settled
  OBVIOUS
<1>1. \A c \in Calls : pc[c] \in Outside /\ background[c] # "on"
  BY DrainedOutside DEF Drained
<1> QED
  BY <1>1 DEF Accepted, Settled, Outside

\* A step that neither lets a call in nor lets one go, and leaves the host alone.
LEMMA Inner ==
    ASSUME IInv, NEW c \in Calls, pc[c] \notin Outside, NEW to, to \notin Outside,
           pc' = [pc EXCEPT ![c] = to], UNCHANGED <<stopping, host>>,
           \/ background' = background
           \/ \E outcome : background' = [background EXCEPT ![c] = outcome]
    PROVE  UNCHANGED <<Accepted, Settled, Phase>>
<1>1. pc \in [Calls -> Places] /\ background \in [Calls -> {"none", "on", "off"}]
  BY DEF IInv, TypeOK
<1>2. \A b \in Calls : b # c => pc'[b] = pc[b] /\ background'[b] = background[b]
  BY <1>1
<1>3. pc'[c] = to
  BY <1>1
<1>4. Accepted' = Accepted
  BY <1>2, <1>3 DEF Accepted, Outside
<1>5. Settled' = Settled
  BY <1>2, <1>3 DEF Settled, Outside
<1> QED
  BY <1>4, <1>5 DEF Phase, host

\* Calls that go on settle what they do.
LEMMA Leaves ==
    ASSUME IInv, NEW c \in Calls, c \in Accepted \ Settled, UNCHANGED <<stopping, host>>,
           Accepted' = Accepted, Settled' = Settled \/ Settled' = Settled \union {c}
    PROVE  Barrier!Next \/ UNCHANGED <<Accepted, Settled, Phase>>
<1>1. Phase' = Phase
  BY DEF Phase, host
<1>2. CASE Settled' = Settled
  BY <1>1, <1>2
<1>3. CASE Settled' = Settled \union {c}
  <2>1. {c} \subseteq Accepted \ Settled /\ {c} \in SUBSET Calls
    OBVIOUS
  <2>2. Barrier!Settle({c})
    BY <1>1, <1>3, <2>1 DEF Barrier!Settle
  <2> QED
    BY <2>1, <2>2 DEF Barrier!Next
<1> QED
  BY <1>2, <1>3

LEMMA EnterBarrier ==
    ASSUME IInv, NEW c \in Calls, NEW first \in {"body", "askFull", "askInc"},
           Enter(c, first)
    PROVE  Barrier!Next \/ UNCHANGED <<Accepted, Settled, Phase>>
<1> USE DEF Enter, Goes
<1>1. /\ pc[c] = "new" /\ pc \in [Calls -> Places] /\ UNCHANGED <<stopping, background, host>>
      /\ stopping \in BOOLEAN /\ reported \in BOOLEAN
  BY DEF IInv, TypeOK, HostOK
<1>2. CASE stopping
  <2>1. pc' = [pc EXCEPT ![c] = "refused"]
    BY <1>2
  <2>2. Accepted' = Accepted /\ Settled' = Settled
    BY <1>1, <2>1 DEF Accepted, Settled
  <2> QED
    BY <1>1, <2>2 DEF Phase, host
<1>3. CASE ~stopping
  <2>1. pc' = [pc EXCEPT ![c] = first] /\ ~reported
    BY <1>3 DEF IInv, Closed
  <2>2. c \notin Accepted /\ Accepted' = Accepted \union {c} /\ Settled' = Settled
    BY <1>1, <2>1 DEF Accepted, Settled
  <2>3. Phase \in {"fresh", "open"} /\ Phase' = "open"
    BY <1>1, <1>3, <2>1, <2>2 DEF Phase, host
  <2>4. Barrier!Accept(c)
    BY <2>2, <2>3 DEF Barrier!Accept
  <2> QED
    BY <2>4 DEF Barrier!Next
<1> QED
  BY <1>2, <1>3

LEMMA CallBarrier ==
    ASSUME IInv, NEW c \in Calls, Call(c)
    PROVE  Barrier!Next \/ UNCHANGED <<Accepted, Settled, Phase>> \/ StopFromCall(c)
<1>1. pc \in [Calls -> Places] /\ background \in [Calls -> {"none", "on", "off"}]
  BY DEF IInv, TypeOK
<1>2. CASE Command(c) \/ RunNoted(c)
  <2>1. /\ pc[c] \notin Outside /\ UNCHANGED <<stopping, background, host>>
        /\ \E to \in {"askFull", "askInc"} : pc' = [pc EXCEPT ![c] = to]
    BY <1>2 DEF Command, RunNoted, Reenter, Goes, Outside
  <2>2. \A to \in {"askFull", "askInc"} : to \notin Outside
    BY DEF Outside
  <2> QED
    BY <2>1, <2>2, Inner
<1>3. CASE StartBackground(c)
  <2>1. /\ pc[c] \notin Outside /\ UNCHANGED <<stopping, host>> /\ "leave" \notin Outside
        /\ pc' = [pc EXCEPT ![c] = "leave"]
        /\ \E outcome : background' = [background EXCEPT ![c] = outcome]
    BY <1>3 DEF StartBackground, Goes, Outside
  <2> QED
    BY <2>1, Inner
<1>4. CASE AskFull(c) \/ AskInc(c) \/ FullEnds(c) \/ IncEnds(c)
  <2>1. /\ pc[c] \notin Outside /\ UNCHANGED <<stopping, background, host>>
        /\ \E to \in {"leave", "full", "inc", "noted"} : pc' = [pc EXCEPT ![c] = to]
    BY <1>4 DEF AskFull, AskInc, FullEnds, IncEnds, Goes, Outside, admission
  <2>2. \A to \in {"leave", "full", "inc", "noted"} : to \notin Outside
    BY DEF Outside
  <2> QED
    BY <2>1, <2>2, Inner
<1>5. CASE Leave(c)
  <2>1. /\ pc[c] \in {"body", "leave"} /\ UNCHANGED <<stopping, background, host>>
        /\ \E to \in {"done", "leave"} : pc' = [pc EXCEPT ![c] = to]
    BY <1>5 DEF Leave, Goes
  <2>2. \A b \in Calls : b # c => pc'[b] = pc[b]
    BY <1>1, <2>1
  <2>3. pc'[c] \in {"done", "leave"}
    BY <1>1, <2>1
  <2>4. Accepted' = Accepted /\ c \in Accepted \ Settled
    BY <2>1, <2>2, <2>3 DEF Accepted, Settled
  <2>5. Settled' = Settled \/ Settled' = Settled \union {c}
    BY <2>1, <2>2 DEF Settled
  <2> QED
    BY <2>1, <2>4, <2>5, Leaves
<1>6. CASE BackgroundEnds(c)
  <2>1. /\ background[c] = "on" /\ background' = [background EXCEPT ![c] = "off"]
        /\ UNCHANGED <<stopping, pc, host>>
    BY <1>6 DEF BackgroundEnds
  <2>2. \A b \in Calls : b # c => background'[b] = background[b]
    BY <1>1, <2>1
  <2>3. background'[c] = "off"
    BY <1>1, <2>1
  <2>4. Accepted' = Accepted
    BY <2>1 DEF Accepted
  <2>5. CASE pc[c] = "done"
    <3>1. c \in Accepted \ Settled /\ Settled' = Settled \union {c}
      BY <2>1, <2>2, <2>3, <2>5 DEF Accepted, Settled
    <3> QED
      BY <2>1, <2>4, <3>1, Leaves
  <2>6. CASE pc[c] # "done"
    <3>1. Settled' = Settled
      BY <2>1, <2>2, <2>6 DEF Settled
    <3> QED
      BY <2>1, <2>4, <3>1 DEF Phase, host
  <2> QED
    BY <2>5, <2>6
<1> QED
  BY <1>2, <1>3, <1>4, <1>5, <1>6, EnterBarrier DEF Call, Sync

\* Who is initialising.
Starting == \E s \in Stoppers : stopper[s] = "starting"

\* What a step of the host or of a stopping call has to show of the phase.
LEMMA HostBarrier ==
    ASSUME IInv, UNCHANGED <<pc, background>>,
           \/ Phase' = Phase
           \/ Phase' \in {"open", "stopped"} /\ Drained
           \/ Phase' = "draining" /\ Phase \in {"fresh", "open"}
    PROVE  Barrier!Next \/ UNCHANGED <<Accepted, Settled, Phase>>
<1>1. Accepted' = Accepted /\ Settled' = Settled
  BY DEF Accepted, Settled
<1>2. CASE Phase' = Phase
  BY <1>1, <1>2
<1>3. CASE Phase' # Phase /\ Phase' = "open" /\ Drained
  BY <1>1, <1>3, DrainedSettles DEF Barrier!Open, Barrier!Next
<1>4. CASE Phase' # Phase /\ Phase' = "stopped" /\ Drained
  BY <1>1, <1>4, DrainedSettles DEF Barrier!ReportStopped, Barrier!Next
<1>5. CASE Phase' = "draining" /\ Phase \in {"fresh", "open"}
  BY <1>1, <1>5 DEF Barrier!Close, Barrier!Next
<1> QED
  BY <1>2, <1>3, <1>4, <1>5

\* Closing admission drains what was open, and changes nothing otherwise.
LEMMA ClosingPhase ==
    ASSUME IInv, UNCHANGED <<pc, initialized, reported>>, stopping' = TRUE,
           Starting' <=> Starting
    PROVE  Phase' = Phase \/ (Phase' = "draining" /\ Phase \in {"fresh", "open"})
<1>1. stopping \in BOOLEAN /\ reported \in BOOLEAN /\ initialized \in BOOLEAN
  BY DEF IInv, TypeOK, HostOK
<1>2. /\ Phase = IF Starting THEN "open" ELSE IF reported THEN "stopped"
                 ELSE IF stopping THEN "draining"
                 ELSE IF initialized \/ Accepted # {} THEN "open" ELSE "fresh"
      /\ Phase' = IF Starting' THEN "open" ELSE IF reported THEN "stopped" ELSE "draining"
  BY DEF Phase, Starting
<1> QED
  BY <1>1, <1>2

LEMMA BarrierStep ==
    IInv /\ IInv' /\ [Next]_vars => [Barrier!Next]_<<Accepted, Settled, Phase>>
<1> SUFFICES ASSUME IInv, IInv', [Next]_vars
             PROVE  Barrier!Next \/ UNCHANGED <<Accepted, Settled, Phase>>
  OBVIOUS
<1>1. /\ stopping \in BOOLEAN /\ reported \in BOOLEAN /\ initialized \in BOOLEAN
      /\ stopper \in [Stoppers -> {"out", "waiting", "stopped", "starting"}]
      /\ reported => Drained
      /\ \A s \in Stoppers : stopper[s] # "out" => stopping \/ initialized
  BY DEF IInv, TypeOK, HostOK, Stopping, Closed
<1>2. ASSUME NEW c \in Calls, StopFromCall(c)
      PROVE  Barrier!Next \/ UNCHANGED <<Accepted, Settled, Phase>>
  <2>1. /\ stopping' = TRUE /\ UNCHANGED <<pc, background, initialized, reported>>
        /\ Starting' <=> Starting
    BY <1>2 DEF StopFromCall, host, Starting
  <2> QED
    BY <2>1, ClosingPhase, HostBarrier
<1>3. ASSUME NEW s \in Stoppers, StopBegins(s)
      PROVE  Barrier!Next \/ UNCHANGED <<Accepted, Settled, Phase>>
  <2>1. /\ stopping' = TRUE /\ UNCHANGED <<pc, background, initialized, reported>>
        /\ stopper' = [stopper EXCEPT ![s] = "waiting"] /\ stopper[s] = "out"
    BY <1>3 DEF StopBegins
  <2>2. Starting' <=> Starting
    BY <1>1, <2>1 DEF Starting
  <2> QED
    BY <2>1, <2>2, ClosingPhase, HostBarrier
<1>4. ASSUME NEW s \in Stoppers, StopEnds(s)
      PROVE  Barrier!Next \/ UNCHANGED <<Accepted, Settled, Phase>>
  <2>1. PICK result \in IF Drained THEN {"stopped", "out"} ELSE {"out"} :
          /\ stopper' = [stopper EXCEPT ![s] = result]
          /\ reported' = (reported \/ (result = "stopped" /\ s \notin overtaken))
    BY <1>4 DEF StopEnds
  <2>2. /\ result \in {"stopped", "out"} /\ stopper[s] = "waiting"
        /\ UNCHANGED <<pc, background, stopping, initialized>>
    BY <1>4, <2>1 DEF StopEnds, admission
  <2>3. Starting' <=> Starting
    BY <1>1, <2>1, <2>2 DEF Starting
  <2>4. (reported' <=> reported) \/ (reported' /\ Drained)
    BY <1>1, <2>1
  <2>5. Accepted' = Accepted
    BY <2>2 DEF Accepted
  <2>6. Phase' = Phase \/ (Phase' = "stopped" /\ Drained)
    <3>1. CASE Starting
      BY <2>3, <3>1 DEF Phase, Starting
    <3>2. CASE ~Starting /\ (reported' <=> reported)
      BY <2>2, <2>3, <2>5, <3>2 DEF Phase, Starting
    <3>3. CASE ~Starting /\ reported' /\ Drained
      BY <2>3, <3>3 DEF Phase, Starting
    <3> QED
      BY <2>4, <3>1, <3>2, <3>3
  <2> QED
    BY <2>2, <2>6, HostBarrier
<1>5. ASSUME NEW s \in Stoppers, InitBegins(s)
      PROVE  Barrier!Next \/ UNCHANGED <<Accepted, Settled, Phase>>
  <2>1. /\ stopping' = TRUE /\ UNCHANGED <<pc, background, initialized, reported>>
        /\ stopper[s] = "stopped"
    BY <1>5 DEF InitBegins
  <2>2. PICK result \in IF Drained THEN {"starting", "out"} ELSE {"out"} :
          stopper' = [stopper EXCEPT ![s] = result]
    BY <1>5 DEF InitBegins
  <2>3. CASE result = "starting" /\ Drained
    <3>1. Starting'
      BY <1>1, <2>2, <2>3 DEF Starting
    <3>2. Phase' = "open"
      BY <3>1 DEF Phase, Starting
    <3> QED
      BY <2>1, <2>3, <3>2, HostBarrier
  <2>4. CASE result = "out"
    <3>1. Starting' <=> Starting
      BY <1>1, <2>1, <2>2, <2>4 DEF Starting
    <3> QED
      BY <2>1, <3>1, ClosingPhase, HostBarrier
  <2> QED
    BY <2>2, <2>3, <2>4
<1>6. ASSUME NEW s \in Stoppers, InitEnds(s)
      PROVE  Barrier!Next \/ UNCHANGED <<Accepted, Settled, Phase>>
  <2>1. stopper[s] = "starting" /\ UNCHANGED <<pc, background>> /\ (stopping \/ initialized)
    BY <1>1, <1>6 DEF InitEnds
  <2>2. Phase = "open"
    BY <2>1 DEF Phase
  <2>3. CASE stopping' = FALSE /\ initialized' = TRUE /\ reported' = FALSE
    <3>1. Phase' = "open"
      BY <2>3 DEF Phase
    <3> QED
      BY <2>1, <2>2, <3>1, HostBarrier
  <2>4. CASE UNCHANGED <<stopping, initialized, reported>>
    <3>1. \/ Phase' = "open"
          \/ Phase' = "stopped" /\ reported
          \/ Phase' = "draining"
      BY <1>1, <2>1, <2>4 DEF Phase
    <3> QED
      BY <1>1, <2>1, <2>2, <3>1, HostBarrier
  <2> QED
    BY <1>6, <2>3, <2>4 DEF InitEnds
<1>7. ASSUME NEW c \in Calls, Call(c)
      PROVE  Barrier!Next \/ UNCHANGED <<Accepted, Settled, Phase>>
  BY <1>2, <1>7, CallBarrier
<1>8. CASE UNCHANGED vars
  BY <1>8 DEF vars, Accepted, Settled, Phase
<1> QED
  BY <1>3, <1>4, <1>5, <1>6, <1>7, <1>8 DEF Next

\* Whoever is let in is waited for: admission and shutdown take the steps of a
\* drain barrier only, or none, with any number of threads reconfiguring at once.
THEOREM AdmissionImplementsBarrier == Spec => ImplementsBarrier
<1>1. Init => Barrier!Init
  BY DEF Init, Barrier!Init, Accepted, Settled, Phase
<1>2. IInv /\ IInv' /\ [Next]_vars => [Barrier!Next]_(Barrier!vars)
  BY BarrierStep DEF Barrier!vars
<1> QED
  BY <1>1, <1>2, Invariance, PTL DEF Spec, Barrier!Spec, ImplementsBarrier

------------------------------------------------------------------------------
(***************************************************************************)
(* DirectoryUpload.  The inductive invariant UploadInv has, beside types:  *)
(*   Aged       nobody holds a stamp newer than the last write, so that    *)
(*              what is written next is unknown to everybody;              *)
(*   Standing   files are in a folder; the service is down after its       *)
(*              tracker;                                                   *)
(*   Tick, Job  what the two threads have in hand at each step;            *)
(*   Known      a stamp noted as handled or as queued is so for a reason:  *)
(*              the content has ended, or somebody still has it;           *)
(*   Sent       where a content that was uploaded, and nothing else, can   *)
(*              be: handled, or about to be noted as such;                 *)
(*   Quiet      a count of unchanged looks is a count of looks.            *)
(* Known carries NothingForgotten over every refused submission, Sent the  *)
(* two ways to go wrong, Quiet the stability of what is uploaded.          *)
(***************************************************************************)
\* The tasks in the queue.
Line == {queue[i] : i \in DOMAIN queue}

\* No stamp is from the future.
Past(sig) == sig \in 0 .. written

Aged ==
    /\ \A f \in Files : Past(disk[f]) /\ Past(queued[f]) /\ Past(processed[f])
    /\ \A f \in Files : pending[f] # None => Past(pending[f].sig)
    /\ \A f \in Files : looked[f] # None => Past(looked[f])
    /\ \A r \in ready : Past(r[2])
    /\ \A t \in Line : Past(t.sig)
    /\ Past(worker.sig)

\* The folder holds files only where it exists; the service is down after its tracker.
Standing ==
    /\ dir = "none" => disk = Nothing
    /\ service = "down" => tracking = "off"
    /\ tracking = "off" => tick = "idle"

\* What _tick() has in its hands, step by step.
Tick ==
    /\ tick \in {"idle", "compare"} => ready = {}
    /\ tick \in {"list", "apply"} => scan # None
    /\ tick = "apply" => looked = Unseen \/ looked \in Listings
    /\ failed => tick = "apply" /\ looked \in Listings
    /\ \A f \in Files : pending[f] # None => pending[f].count < StableChecks
    /\ \A r, q \in ready : r[1] = q[1] => r = q
    /\ tick = "restore" =>
          \A f \in Files : looked[f] # None =>
              <<f, looked[f]>> \in ready /\ queued[f] # looked[f]

\* Where handle_file() is.
Job ==
    /\ worker.at \notin {"idle", "check"} => worker.path \in Files /\ worker.sig # 0

Waits(f, sig) == \E t \in Line : t.path = f /\ t.sig = sig

\* A file is handled, or noted as given to the queue, for a reason.
KnownFor(f) ==
    disk[f] # 0 =>
        /\ processed[f] = disk[f] => Ended(f)
        /\ queued[f] = disk[f] =>
              \/ Ended(f) \/ <<f, disk[f]>> \in ready \/ Waits(f, disk[f])
              \/ worker.at # "idle" /\ worker.path = f /\ worker.sig = disk[f]
        /\ /\ worker.path = f /\ worker.sig = disk[f]
           /\ worker.at \in {"unlink", "empty", "sweep", "mark", "clear"}
           => Ended(f)
Known == \A f \in Files : KnownFor(f)

\* What is uploaded, and deleted.
SentFor(f) ==
    disk[f] # 0 =>
        /\ marks[f] = {"sent"} =>
              \/ processed[f] = disk[f]
              \/ worker.path = f /\ worker.sig = disk[f] /\ worker.at \in {"unlink", "mark"}
        /\ At("upload", f) => marks[f] # {"sent"}
        /\ At("upload", f) /\ worker.sig # disk[f] => "raced" \in marks[f]
        /\ worker.path = f /\ worker.sig # disk[f]
              /\ worker.at \in {"unlink", "empty", "sweep", "mark"} => marks[f] # {"sent"}
        /\ At("unlink", f) => marks[f] \intersect {"sent", "mistaken", "raced"} # {}
        /\ worker.at = "sweep" => marks[f] \intersect {"sent", "mistaken", "raced"} # {}
Sent == \A f \in Files : SentFor(f)

\* A file counts as unchanged as often as the tracker has looked at it.
Steady(f) == quiet[f] >= StableChecks
QuietFor(f) ==
    disk[f] # 0 =>
        /\ tick = "compare" /\ looked[f] = disk[f] => quiet[f] >= 1
        /\ pending[f] # None /\ pending[f].sig = disk[f] =>
              /\ quiet[f] >= pending[f].count
              /\ tick = "compare" /\ looked[f] = disk[f] => quiet[f] >= pending[f].count + 1
        /\ <<f, disk[f]>> \in ready => Steady(f)
        /\ Waits(f, disk[f]) => Steady(f)
        /\ At("check", f) /\ worker.sig = disk[f] => Steady(f)
Quiet == \A f \in Files : QuietFor(f)

\* Nobody has forgotten f.
Remembered(f) ==
    \/ Ended(f)
    \/ Awaited(f)
    \/ tick = "apply" /\ looked[f] = disk[f]
    \/ worker.path = f /\ worker.at = "upload" /\ worker.sig = disk[f]

UploadInv ==
    /\ UploadTypeOK /\ Aged /\ Standing /\ Tick /\ Job
    /\ Known /\ Sent /\ Quiet /\ wrong = {} /\ NothingForgotten

------------------------------------------------------------------------------
(* The queue.                                                              *)

\* A task goes to the end of the queue.
LEMMA AppendLine ==
    ASSUME queue \in Seq(Tasks), NEW t \in Tasks, queue' = Append(queue, t)
    PROVE  queue' \in Seq(Tasks) /\ Line' = Line \union {t}
<1>1. /\ queue' \in Seq(Tasks)
      /\ DOMAIN queue = 1 .. Len(queue) /\ DOMAIN queue' = 1 .. Len(queue) + 1
      /\ Len(queue) \in Nat
      /\ \A i \in 1 .. Len(queue) : queue'[i] = queue[i]
      /\ queue'[Len(queue) + 1] = t
  OBVIOUS
<1> QED
  BY <1>1 DEF Line

\* The first task leaves it.
LEMMA TakeLine ==
    ASSUME queue \in Seq(Tasks), queue # <<>>, queue' = Tail(queue)
    PROVE  /\ queue' \in Seq(Tasks) /\ Head(queue) \in Tasks
           /\ Line = Line' \union {Head(queue)}
<1>1. /\ queue' \in Seq(Tasks) /\ Head(queue) \in Tasks /\ Head(queue) = queue[1]
      /\ DOMAIN queue = 1 .. Len(queue) /\ DOMAIN queue' = 1 .. Len(queue) - 1
      /\ Len(queue) \in Nat /\ Len(queue) > 0
      /\ \A i \in 1 .. Len(queue) - 1 : queue'[i] = queue[i + 1]
  BY HeadTailProperties
<1>2. Line \subseteq Line' \union {Head(queue)}
  <2> SUFFICES ASSUME NEW i \in 1 .. Len(queue), i # 1
               PROVE  queue[i] \in Line'
    BY <1>1 DEF Line
  <2>1. i - 1 \in 1 .. Len(queue) - 1 /\ queue'[i - 1] = queue[i]
    BY <1>1
  <2> QED
    BY <1>1, <2>1 DEF Line
<1>3. Line' \subseteq Line /\ Head(queue) \in Line
  <2>1. \A i \in 1 .. Len(queue) - 1 : i + 1 \in 1 .. Len(queue)
    BY <1>1
  <2> QED
    BY <1>1, <2>1 DEF Line
<1> QED
  BY <1>1, <1>2, <1>3

LEMMA LineTasks ==
    ASSUME queue \in Seq(Tasks)
    PROVE  Line \subseteq Tasks
BY DEF Line

\* Who waits for a file, in terms of the tasks.
LEMMA AwaitedByLine ==
    ASSUME NEW f
    PROVE  Awaited(f) <=>
              \/ {f, Dir} \intersect events # {}
              \/ \E t \in Line : t.path \in {f, Dir}
              \/ worker.at = "check" /\ worker.path \in {f, Dir}
              \/ pending[f] # None
              \/ \E s \in Stamps : <<f, s>> \in ready
              \/ scan # None /\ (tick = "apply" => failed)
BY DEF Awaited, Line

------------------------------------------------------------------------------
(* Types.                                                                  *)

\* Stamps are numbers, and no number is None.
LEMMA StampFacts ==
    /\ Stamps \subseteq Sigs /\ Sigs \subseteq Nat /\ 0 \in Sigs /\ 0 \notin Stamps
    /\ \A sig \in Sigs : sig # 0 => sig \in Stamps /\ Fresh(sig) \in Pendings
    /\ None \notin Sigs
BY BoundsAreCounts, AbsentAssumption DEF Sigs, Stamps, Fresh, Pendings

LEMMA GivesUpType ==
    ASSUME HistoryOK, NEW some, GivesUp(some), UNCHANGED wrong
    PROVE  HistoryOK'
BY DEF GivesUp, HistoryOK, Marks

LEMMA LosesType ==
    ASSUME HistoryOK, disk \in Listings, NEW some, Loses(some)
    PROVE  HistoryOK' /\ disk' \in Listings
BY StampFacts DEF Loses, HistoryOK, Marks, Listings

\* Types, group by group: the folder, ...
LEMMA FolderStep ==
    ASSUME UploadTypeOK, [UploadNext]_uploadVars
    PROVE  FolderOK'
<1> USE DEF tree
<1>1. CASE UNCHANGED <<disk, dir, written, quiet>>
  BY <1>1 DEF UploadTypeOK, FolderOK
<1>2. CASE MakeDir \/ TakeOver \/ Start
  BY <1>2 DEF UploadTypeOK, FolderOK, MakeDir, TakeOver, Start
<1>3. ASSUME NEW f \in Files, Write(f)
      PROVE  FolderOK'
  <2>1. written + 1 \in 0 .. MaxWrites /\ written + 1 \in Sigs
    BY <1>3, BoundsAreCounts DEF Write, UploadTypeOK, FolderOK, Sigs
  <2>2. 0 \in 0 .. StableChecks
    BY BoundsAreCounts
  <2> QED
    BY <1>3, <2>1, <2>2 DEF Write, UploadTypeOK, FolderOK, Listings
<1>4. ASSUME NEW f \in Files, Remove(f)
      PROVE  FolderOK'
  BY <1>4, StampFacts DEF Remove, UploadTypeOK, FolderOK, Listings
<1>5. CASE Look
  <2>1. \A f \in Files : quiet[f] < StableChecks => quiet[f] + 1 \in 0 .. StableChecks
    BY BoundsAreCounts DEF UploadTypeOK, FolderOK
  <2> QED
    BY <1>5, <2>1 DEF Look, UploadTypeOK, FolderOK
<1>6. ASSUME NEW f \in Files, Unlink(f) \/ Sweep(f)
      PROVE  FolderOK'
  <2>1. disk' \in Listings
    BY <1>6, LosesType DEF Unlink, Sweep, UploadTypeOK, FolderOK
  <2> QED
    BY <1>6, <2>1 DEF Unlink, Sweep, UploadTypeOK, FolderOK
<1> QED
  <2>1. CASE Tracker \/ TickRaises
    BY <1>1, <1>5, <2>1 DEF Tracker, Compare, List, Apply, Hand, Restore, TrackerLeaves, TickRaises
  <2>2. CASE Worker
    BY <1>1, <1>6, <2>2 DEF Worker, Take, CheckDir, Check, Upload, LooksEmpty, Mark, Clear
  <2>3. CASE Lifecycle \/ Stop
    BY <1>1, <2>3 DEF Lifecycle, WatcherEnds, StopTracker, StopQueue, Stopped, Stop
  <2> QED
    BY <1>1, <1>2, <1>3, <1>4, <2>1, <2>2, <2>3 DEF UploadNext, Expire, Put, uploadVars

\* ... the service and its bounds, ...
LEMMA ServiceStep ==
    ASSUME UploadTypeOK, [UploadNext]_uploadVars
    PROVE  ServiceOK'
<1> USE DEF watcher, lifecycle, ticking
<1>1. trouble' \in 0 .. MaxTrouble
  <2>1. Trouble => trouble' \in 0 .. MaxTrouble
    BY BoundsAreCounts DEF Trouble, UploadTypeOK, ServiceOK
  <2>2. UNCHANGED trouble => trouble' \in 0 .. MaxTrouble
    BY DEF UploadTypeOK, ServiceOK
  <2>3. CASE Tracker \/ TickRaises
    BY <2>1, <2>2, <2>3
       DEF Tracker, Look, Compare, List, Apply, Hand, Restore, TrackerLeaves, TickRaises
  <2>4. CASE Worker
    BY <2>1, <2>2, <2>4 DEF Worker, Take, CheckDir, Check, Upload, Unlink, LooksEmpty, Sweep,
                            Mark, Clear
  <2>5. CASE Lifecycle \/ Stop \/ Start
    BY <2>1, <2>2, <2>5 DEF Lifecycle, WatcherEnds, StopTracker, StopQueue, Stopped, Stop, Start
  <2> QED
    BY <2>1, <2>2, <2>3, <2>4, <2>5
       DEF UploadNext, MakeDir, TakeOver, Write, Remove, Expire, Put, uploadVars
<1>2. CASE UNCHANGED <<events, watching, service, admits, deletes, tracking>>
  BY <1>1, <1>2 DEF UploadTypeOK, ServiceOK
<1>3. CASE MakeDir \/ \E f \in Files : Write(f)
  BY <1>1, <1>3 DEF MakeDir, Write, UploadTypeOK, ServiceOK, Paths
<1>4. ASSUME NEW p \in Paths, Put(p)
      PROVE  ServiceOK'
  BY <1>1, <1>4 DEF Put, UploadTypeOK, ServiceOK
<1>5. CASE TrackerLeaves
  BY <1>1, <1>5 DEF TrackerLeaves, UploadTypeOK, ServiceOK
<1>6. CASE Lifecycle \/ Stop \/ Start
  BY <1>1, <1>6 DEF Lifecycle, WatcherEnds, StopTracker, StopQueue, Stopped, Stop, Start,
                    UploadTypeOK, ServiceOK
<1> QED
  <2>1. CASE (Tracker /\ ~TrackerLeaves) \/ TickRaises
    BY <1>2, <2>1 DEF Tracker, Look, Compare, List, Apply, Hand, Restore, TickRaises
  <2>2. CASE Worker
    BY <1>2, <2>2 DEF Worker, Take, CheckDir, Check, Upload, Unlink, LooksEmpty, Sweep, Mark,
                      Clear
  <2> QED
    BY <1>2, <1>3, <1>4, <1>5, <1>6, <2>1, <2>2
       DEF UploadNext, TakeOver, Remove, Expire, uploadVars

\* ... the queue and its worker, ...
LEMMA QueueStep ==
    ASSUME UploadTypeOK, [UploadNext]_uploadVars
    PROVE  QueueOK'
<1>1. CASE UNCHANGED <<queue, worker>>
  BY <1>1 DEF UploadTypeOK, QueueOK
<1>2. ASSUME NEW p \in Paths, Put(p)
      PROVE  QueueOK'
  <2>1. [path |-> p, sig |-> 0] \in Tasks
    BY StampFacts DEF Tasks
  <2> QED
    BY <1>2, <2>1, AppendLine DEF Put, UploadTypeOK, QueueOK
<1>3. CASE Hand
  <2>1. \A r \in ready : [path |-> r[1], sig |-> r[2]] \in Tasks
    BY StampFacts DEF UploadTypeOK, TickOK, Tasks, Paths
  <2>2. queue' \in Seq(Tasks)
    BY <1>3, <2>1, AppendLine DEF Hand, UploadTypeOK, QueueOK
  <2> QED
    BY <1>3, <2>2 DEF Hand, UploadTypeOK, QueueOK
<1>4. CASE Take
  <2>1. queue' \in Seq(Tasks) /\ Head(queue).path \in Paths /\ Head(queue).sig \in Sigs
    BY <1>4, TakeLine DEF Take, UploadTypeOK, QueueOK, Tasks
  <2> QED
    BY <1>4, <2>1 DEF Take, QueueOK, Jobs
<1>5. CASE Worker /\ ~Take
  <2>1. Idle \in Jobs
    BY StampFacts DEF Idle, Jobs, Paths
  <2>2. \A at \in {"upload", "unlink", "empty", "sweep", "mark", "clear"} :
           [worker EXCEPT !.at = at] \in Jobs
    BY DEF UploadTypeOK, QueueOK, Jobs
  <2>3. UNCHANGED queue
    BY <1>5 DEF Worker, CheckDir, Check, Upload, Unlink, LooksEmpty, Sweep, Mark, Clear
  <2>4. worker' \in Jobs
    BY <1>5, <2>1, <2>2 DEF Worker, CheckDir, Check, Upload, Unlink, LooksEmpty, Sweep, Mark,
                            Clear, Reaches
  <2> QED
    BY <2>3, <2>4 DEF UploadTypeOK, QueueOK
<1> QED
  <2>1. CASE (Tracker /\ ~Hand) \/ TickRaises
    BY <1>1, <2>1 DEF Tracker, Look, Compare, List, Apply, Restore, TrackerLeaves, TickRaises
  <2>2. CASE Lifecycle \/ Stop \/ Start
    BY <1>1, <2>2 DEF Lifecycle, WatcherEnds, StopTracker, StopQueue, Stopped, Stop, Start
  <2> QED
    BY <1>1, <1>2, <1>3, <1>4, <1>5, <2>1, <2>2
       DEF UploadNext, MakeDir, TakeOver, Write, Remove, Expire, uploadVars

\* What Compare finds and leaves.
LEMMA CompareFacts ==
    ASSUME UploadTypeOK, Tick, Compare
    PROVE  /\ pending' \in [Files -> Pendings \union {None}]
           /\ queued' \in Listings /\ ready' \subseteq Files \X Stamps
           /\ tick' \in {"list", "idle", "hand"} /\ looked' = Unseen
           /\ \A f \in Files : pending'[f] # None => pending'[f].count < StableChecks
           /\ \A r \in ready' : /\ r[2] = looked[r[1]] /\ queued'[r[1]] = looked[r[1]]
                                /\ pending[r[1]] # None
                                /\ r[2] # processed[r[1]] /\ Seen(r[1]).count >= StableChecks
           /\ \A r, q \in ready' : r[1] = q[1] => r = q
           /\ \A f \in Files : <<f, looked[f]>> \notin ready' => queued'[f] = queued[f]
           /\ \A f \in Files : pending[f] # None =>
                 \/ pending'[f] = pending[f]
                 \/ looked[f] \in Stamps /\ pending'[f] = Seen(f)
                 \/ pending'[f] = None /\ <<f, looked[f]>> \in ready'
                 \/ pending'[f] = None /\ looked[f] \in {0, processed[f]}
           /\ \A f \in Files : pending[f] = None => pending'[f] = None
           /\ \A f \in Files :
                 looked[f] \in {0, processed[f]} /\ disk[f] # looked[f]
                 /\ pending[f] # None /\ disk[f] # 0 => "lapsed" \in marks'[f]
           /\ \A f \in Files : marks'[f] \in {marks[f], marks[f] \union {"lapsed"}}
<1> DEFINE checked == {f \in Files : looked[f] # None /\ pending[f] # None}
           gone == {f \in checked : looked[f] \in {0, processed[f]}}
           stable == {f \in checked \ gone : Seen(f).count >= StableChecks}
<1>1. \A f \in checked \ gone : looked[f] \in Stamps /\ looked[f] \in Sigs
  BY StampFacts DEF UploadTypeOK, TickOK
<1>2. ASSUME NEW f \in checked \ gone
      PROVE  Seen(f) \in Pendings
  <2>1. pending[f] \in Pendings /\ pending[f].count < StableChecks
    BY DEF Tick, UploadTypeOK, TrackerOK
  <2>2. [pending[f] EXCEPT !.count = @ + 1] \in Pendings
    BY <2>1, BoundsAreCounts DEF Pendings
  <2>3. Fresh(looked[f]) \in Pendings
    BY <1>1, StampFacts
  <2> QED
    BY <2>2, <2>3 DEF Seen
<1>3. /\ pending' = [f \in Files |->
             CASE f \in gone \union stable -> None
               [] f \in checked \ (gone \union stable) -> Seen(f)
               [] OTHER -> pending[f]]
      /\ queued' = [f \in Files |-> IF f \in stable THEN looked[f] ELSE queued[f]]
      /\ ready' = {<<f, looked[f]>> : f \in stable}
      /\ tick' = IF scan # None THEN "list" ELSE OrIdle(ready')
      /\ looked' = Unseen
  BY DEF Compare
<1>4. \A f \in checked \ (gone \union stable) : ~(Seen(f).count >= StableChecks)
  OBVIOUS
<1>5. \A f \in checked : pending[f] # None
  OBVIOUS
<1> HIDE DEF checked, gone, stable
<1>6. stable \subseteq checked \ gone /\ gone \subseteq checked /\ checked \subseteq Files
  BY DEF stable, checked, gone
<1>7. \A f \in Files : pending[f] \in Pendings \union {None}
  BY DEF UploadTypeOK, TrackerOK
<1>8. pending' \in [Files -> Pendings \union {None}]
  BY <1>2, <1>3, <1>6, <1>7
<1>9. queued' \in Listings /\ ready' \subseteq Files \X Stamps
  BY <1>1, <1>3, <1>6 DEF Listings, UploadTypeOK, TrackerOK
<1>10. ASSUME NEW f \in Files, pending'[f] # None
       PROVE  pending'[f].count < StableChecks
  <2>1. CASE f \in checked \ (gone \union stable)
    <3>1. pending'[f] = Seen(f) /\ Seen(f) \in Pendings
      BY <1>2, <1>3, <1>6, <2>1
    <3>2. Seen(f).count \in Nat
      BY <3>1, BoundsAreCounts DEF Pendings
    <3> QED
      BY <1>4, <2>1, <3>1, <3>2, BoundsAreCounts
  <2>2. CASE f \notin checked
    BY <1>3, <1>6, <1>10, <2>2 DEF Tick
  <2> QED
    BY <1>3, <1>6, <1>10, <2>1, <2>2
<1>11. ASSUME NEW r \in ready'
       PROVE  /\ r[2] = looked[r[1]] /\ queued'[r[1]] = looked[r[1]]
              /\ pending[r[1]] # None
              /\ r[2] # processed[r[1]] /\ Seen(r[1]).count >= StableChecks
  <2>1. PICK f \in stable : r = <<f, looked[f]>>
    BY <1>3, <1>11
  <2>2. looked[f] # processed[f] /\ Seen(f).count >= StableChecks
    BY <2>1 DEF stable, gone
  <2> QED
    BY <1>3, <1>5, <1>6, <2>1, <2>2
<1>12. ASSUME NEW f \in Files, pending[f] # None
       PROVE  \/ pending'[f] = pending[f]
              \/ looked[f] \in Stamps /\ pending'[f] = Seen(f)
              \/ pending'[f] = None /\ <<f, looked[f]>> \in ready'
              \/ pending'[f] = None /\ looked[f] \in {0, processed[f]}
  <2>1. f \in gone => looked[f] \in {0, processed[f]}
    BY DEF gone
  <2> QED
    BY <1>1, <1>3, <1>6, <2>1
<1>13. \A f \in Files : pending[f] = None => pending'[f] = None
  BY <1>3, <1>5, <1>6
<1>14. \A f \in Files : <<f, looked[f]>> \notin ready' => queued'[f] = queued[f]
  BY <1>3
<1>15. marks' = [f \in Files |-> IF f \in {g \in gone : disk[g] # looked[g]} \intersect Listing
                                 THEN marks[f] \union {"lapsed"} ELSE marks[f]]
  BY DEF Compare, GivesUp, gone, checked
<1>16. \A f \in Files : looked[f] \in {0, processed[f]} /\ pending[f] # None => f \in gone
  BY StampFacts DEF gone, checked, UploadTypeOK, TrackerOK, Listings
<1>17. \A f \in Files : marks'[f] \in {marks[f], marks[f] \union {"lapsed"}}
  BY <1>15
<1>18. \A f \in Files :
          looked[f] \in {0, processed[f]} /\ disk[f] # looked[f]
          /\ pending[f] # None /\ disk[f] # 0 => "lapsed" \in marks'[f]
  BY <1>15, <1>16 DEF Listing
<1>19. \A r, q \in ready' : r[1] = q[1] => r = q
  BY <1>3
<1> QED
  BY <1>3, <1>8, <1>9, <1>10, <1>11, <1>12, <1>13, <1>14, <1>17, <1>18, <1>19 DEF OrIdle

\* A scan that found nothing goes on with a full count.
LEMMA EmptyScan ==
    ASSUME NEW seen \in Listings \union {None}, NEW count, NEW found \in BOOLEAN
    PROVE  [[seen |-> seen, count |-> count, found |-> found] EXCEPT !.count = StableChecks]
              \in Scans
BY BoundsAreCounts DEF Scans

\* What Apply leaves.
LEMMA ApplyFacts ==
    ASSUME UploadTypeOK, Tick, Apply
    PROVE  /\ scan' \in Scans \union {None}
           /\ pending' \in [Files -> Pendings \union {None}]
           /\ \A f \in Files : \/ pending'[f] = pending[f]
                               \/ /\ looked[f] \in Stamps /\ pending'[f] = Fresh(looked[f])
                                  /\ pending[f] = None
           /\ looked' = Unseen /\ tick' \in {"idle", "hand"} /\ failed' = FALSE
           /\ failed => scan' # None \/ looked = Unseen
           /\ \A f \in Files : looked # Unseen /\ looked[f] # 0 /\ Submits(f, looked[f])
                                 => pending'[f] # None
<1>1. looked' = Unseen /\ tick' \in {"idle", "hand"} /\ failed' = FALSE
  BY DEF Apply, OrIdle
<1>2. CASE looked = Unseen
  BY <1>1, <1>2 DEF Apply, UploadTypeOK, TrackerOK
<1>3. CASE looked # Unseen
  <2> DEFINE found == {f \in Files : looked[f] # 0}
             count == IF failed \/ looked # scan.seen THEN 0 ELSE scan.count + 1
             next == [seen |-> IF failed THEN scan.seen ELSE looked,
                      count |-> count, found |-> scan.found \/ found # {}]
  <2>1. looked \in Listings /\ scan \in Scans
    BY <1>3 DEF Apply, Tick, UploadTypeOK, TrackerOK
  <2>2. \/ count < StableChecks /\ scan' = next
        \/ count >= StableChecks /\ scan' = None
        \/ count >= StableChecks /\ scan' = [next EXCEPT !.count = StableChecks]
    BY <1>3 DEF Apply
  <2>3. count \in Nat /\ scan.seen \in Listings \union {None} /\ scan.found \in BOOLEAN
    BY <2>1, BoundsAreCounts DEF Scans
  <2>4. count < StableChecks => next \in Scans
    BY <2>1, <2>3, BoundsAreCounts DEF Scans
  <2>5. [next EXCEPT !.count = StableChecks] \in Scans
    <3>1. (IF failed THEN scan.seen ELSE looked) \in Listings \union {None}
      BY <2>1, <2>3
    <3>2. (scan.found \/ found # {}) \in BOOLEAN
      BY <2>3
    <3> QED
      BY <3>1, <3>2, EmptyScan
  <2>6. failed => count = 0 /\ ~(count >= StableChecks)
    BY BoundsAreCounts
  <2>7. scan' \in Scans \union {None} /\ (failed => scan' # None)
    BY <2>2, <2>4, <2>5, <2>6, AbsentAssumption
  <2>8. pending' = [f \in Files |-> IF f \in found /\ Submits(f, looked[f])
                                    THEN Fresh(looked[f]) ELSE pending[f]]
    BY <1>3 DEF Apply
  <2>9. \A f \in Files : looked[f] # 0 => looked[f] \in Stamps /\ Fresh(looked[f]) \in Pendings
    BY <2>1, StampFacts DEF Listings
  <2>10. pending' \in [Files -> Pendings \union {None}]
    BY <2>8, <2>9 DEF UploadTypeOK, TrackerOK
  <2>11. \A f \in Files : looked[f] # 0 /\ Submits(f, looked[f]) => pending'[f] # None
    BY <2>8, <2>9, AbsentAssumption
  <2>12. \A f \in Files : \/ pending'[f] = pending[f]
                          \/ /\ looked[f] \in Stamps /\ pending'[f] = Fresh(looked[f])
                             /\ pending[f] = None
    BY <2>8, <2>9 DEF Submits
  <2> QED
    BY <1>1, <2>7, <2>10, <2>11, <2>12
<1> QED
  BY <1>2, <1>3

\* submit() adds at most the file, as it is.
LEMMA SubmitFacts ==
    ASSUME UploadTypeOK, NEW f \in Files, Submit(f)
    PROVE  /\ pending' \in [Files -> Pendings \union {None}]
           /\ \A g \in Files : \/ pending'[g] = pending[g]
                               \/ /\ g = f /\ disk[f] \in Stamps
                                  /\ pending'[f] = Fresh(disk[f]) /\ pending[f] = None
           /\ Submits(f, disk[f]) => pending'[f] # None
<1>1. disk[f] # 0 => disk[f] \in Stamps /\ Fresh(disk[f]) \in Pendings
  BY StampFacts DEF UploadTypeOK, FolderOK, Listings
<1> QED
  BY <1>1, AbsentAssumption DEF Submit, Submits, UploadTypeOK, TrackerOK

\* What Hand does with a stable file.
LEMMA HandFacts ==
    ASSUME UploadTypeOK, Hand
    PROVE  \E r \in ready :
              /\ r[1] \in Files /\ r[2] \in Stamps /\ r = <<r[1], r[2]>>
              /\ \/ /\ queue' \in Seq(Tasks)
                    /\ Line' = Line \union {[path |-> r[1], sig |-> r[2]]}
                    /\ ready' = ready \ {r} /\ tick' = OrIdle(ready')
                    /\ UNCHANGED <<queued, looked>>
                 \/ /\ queued' = [queued EXCEPT ![r[1]] = IF @ = r[2] THEN 0 ELSE @]
                    /\ looked' = [Unseen EXCEPT ![r[1]] = r[2]]
                    /\ tick' = "restore"
                    /\ UNCHANGED <<queue, ready>>
<1>1. PICK r \in ready :
          IF admits
          THEN /\ queue' = Append(queue, [path |-> r[1], sig |-> r[2]])
               /\ ready' = ready \ {r} /\ tick' = OrIdle(ready')
               /\ UNCHANGED <<queued, looked>>
          ELSE /\ queued' = [queued EXCEPT ![r[1]] = IF @ = r[2] THEN 0 ELSE @]
               /\ looked' = [Unseen EXCEPT ![r[1]] = r[2]]
               /\ tick' = "restore"
               /\ UNCHANGED <<queue, ready>>
  BY DEF Hand
<1>2. r[1] \in Files /\ r[2] \in Stamps /\ r[2] \in Sigs /\ r = <<r[1], r[2]>>
  <2>1. r \in Files \X Stamps
    BY DEF UploadTypeOK, TickOK
  <2>2. PICK f \in Files, sig \in Stamps : r = <<f, sig>>
    BY <2>1
  <2> QED
    BY <2>2, StampFacts
<1>3. [path |-> r[1], sig |-> r[2]] \in Tasks
  BY <1>2 DEF Tasks, Paths
<1>4. CASE admits
  BY <1>1, <1>2, <1>3, <1>4, AppendLine DEF UploadTypeOK, QueueOK
<1> QED
  BY <1>1, <1>2, <1>4

\* Giving up adds a mark, and only to files that are there.
LEMMA GivesUpKeeps ==
    ASSUME UploadTypeOK, NEW some, GivesUp(some), NEW f \in Files
    PROVE  /\ marks'[f] \in {marks[f], marks[f] \union {"lapsed"}}
           /\ marks[f] \subseteq marks'[f]
           /\ f \in some /\ disk[f] # 0 => "lapsed" \in marks'[f]
BY DEF GivesUp, Listing

\* Losing files leaves the others as they are.
LEMMA LosesKeeps ==
    ASSUME UploadTypeOK, NEW some, Loses(some), NEW f \in Files
    PROVE  /\ f \in some => disk'[f] = 0
           /\ f \notin some => disk'[f] = disk[f] /\ marks'[f] = marks[f]
BY DEF Loses

\* What Restore does with the file Hand gave up.
LEMMA RestoreFacts ==
    ASSUME UploadTypeOK, Restore
    PROVE  \E f \in Files :
              /\ looked[f] # None
              /\ ready' = {r \in ready : r[1] # f} /\ tick' = OrIdle(ready')
              /\ pending' \in [Files -> Pendings \union {None}]
              /\ \A g \in Files : \/ pending'[g] = pending[g]
                                  \/ /\ g = f /\ disk[f] \in Stamps
                                     /\ pending'[f] = Fresh(disk[f]) /\ pending[f] = None
              /\ \A g \in Files : marks'[g] \in {marks[g], marks[g] \union {"lapsed"}}
              /\ disk[f] # 0 /\ processed[f] # disk[f] =>
                    pending'[f] # None \/ "lapsed" \in marks'[f]
<1>1. PICK f \in Files :
          /\ looked[f] # None
          /\ \/ /\ pending' = IF disk[f] # 0 /\ processed[f] # disk[f] /\ pending[f] = None
                              THEN [pending EXCEPT ![f] = Fresh(disk[f])] ELSE pending
                /\ UNCHANGED marks
             \/ GivesUp({f}) /\ UNCHANGED pending
          /\ ready' = {r \in ready : r[1] # f}
  BY DEF Restore
<1>4. CASE GivesUp({f}) /\ UNCHANGED pending
  <2>1. \A g \in Files : marks'[g] \in {marks[g], marks[g] \union {"lapsed"}}
    BY <1>4, GivesUpKeeps
  <2>2. disk[f] # 0 => "lapsed" \in marks'[f]
    BY <1>4, GivesUpKeeps
  <2>3. pending' \in [Files -> Pendings \union {None}]
    BY <1>4 DEF UploadTypeOK, TrackerOK
  <2> QED
    BY <1>1, <1>4, <2>1, <2>2, <2>3 DEF Restore
<1>2. disk[f] # 0 => disk[f] \in Stamps /\ Fresh(disk[f]) \in Pendings
  BY StampFacts DEF UploadTypeOK, FolderOK, Listings
<1>3. tick' = OrIdle(ready')
  BY DEF Restore
<1>5. CASE /\ pending' = IF disk[f] # 0 /\ processed[f] # disk[f] /\ pending[f] = None
                         THEN [pending EXCEPT ![f] = Fresh(disk[f])] ELSE pending
           /\ UNCHANGED marks
  BY <1>1, <1>2, <1>3, <1>5, AbsentAssumption DEF UploadTypeOK, TrackerOK
<1> QED
  BY <1>1, <1>4, <1>5

\* What Upload does to its file, and to the others.
LEMMA UploadFacts ==
    ASSUME UploadTypeOK, NEW f \in Files, Upload(f)
    PROVE  /\ marks' \in [Files -> SUBSET Marks]
           /\ \A g \in Files : marks[g] \subseteq marks'[g] /\ (g # f => marks'[g] = marks[g])
           /\ \E step \in {"clear", "unlink", "mark"} : Reaches(step)
           /\ disk[f] = 0 => Reaches("clear")
           /\ disk[f] # 0 =>
                 \/ Reaches("clear") /\ {"forgiven", "lapsed"} \subseteq marks'[f]
                 \/ /\ \E step \in {"unlink", "mark"} : Reaches(step)
                    /\ marks'[f] \in {marks[f] \union {"sent"}, marks[f] \union {"mistaken"}}
<1>1. marks \in [Files -> SUBSET Marks]
  BY DEF UploadTypeOK, HistoryOK
<1>2. CASE disk[f] = 0
  BY <1>1, <1>2 DEF Upload
<1>3. CASE disk[f] # 0
  <2>1. PICK arrived \in BOOLEAN, found \in BOOLEAN :
           /\ Reaches(IF ~found THEN "clear" ELSE IF deletes THEN "unlink" ELSE "mark")
           /\ marks' = [marks EXCEPT ![f] = @
                 \union (IF arrived THEN {"sent"} ELSE {})
                 \union (IF ~found THEN {"forgiven", "lapsed"}
                         ELSE IF arrived THEN {} ELSE {"mistaken"})]
    BY <1>3 DEF Upload
  <2>2. CASE ~found
    <3>1. Reaches("clear")
      BY <2>1, <2>2
    <3>2. PICK more \in SUBSET Marks : marks' = [marks EXCEPT ![f] = @ \union more]
                                      /\ {"forgiven", "lapsed"} \subseteq more
      <4>1. CASE arrived
        <5>1. marks[f] \union {"sent"} \union {"forgiven", "lapsed"}
                 = marks[f] \union {"sent", "forgiven", "lapsed"}
          OBVIOUS
        <5>2. {"sent", "forgiven", "lapsed"} \in SUBSET Marks
          BY DEF Marks
        <5>3. marks' = [marks EXCEPT ![f] = @ \union {"sent", "forgiven", "lapsed"}]
          BY <1>1, <2>1, <2>2, <4>1, <5>1
        <5> QED
          BY <5>2, <5>3
      <4>2. CASE ~arrived
        BY <1>1, <2>1, <2>2, <4>2 DEF Marks
      <4> QED
        BY <4>1, <4>2
    <3> QED
      BY <1>1, <1>3, <3>1, <3>2
  <2>3. CASE found
    <3>1. \E step \in {"unlink", "mark"} : Reaches(step)
      BY <2>1, <2>3
    <3>2. PICK more \in {{"sent"}, {"mistaken"}} : marks' = [marks EXCEPT ![f] = @ \union more]
      BY <1>1, <2>1, <2>3
    <3>3. more \in SUBSET Marks
      BY <3>2 DEF Marks
    <3> QED
      BY <1>1, <1>3, <3>1, <3>2, <3>3
  <2> QED
    BY <2>2, <2>3
<1> QED
  BY <1>2, <1>3

\* What Unlink does to its file, and to the others.
LEMMA UnlinkFacts ==
    ASSUME UploadTypeOK, NEW f \in Files, Unlink(f)
    PROVE  \/ Loses({f}) /\ Reaches("empty")
           \/ /\ Reaches("clear") /\ UNCHANGED <<disk, wrong>>
              /\ marks' \in [Files -> SUBSET Marks]
              /\ marks'[f] = marks[f] \union {"forgiven"}
              /\ \A g \in Files : g # f => marks'[g] = marks[g]
BY DEF Unlink, UploadTypeOK, HistoryOK, Marks

\* Sweep loses files.
LEMMA SweepFacts ==
    ASSUME NEW f \in Files, Sweep(f)
    PROVE  \E some \in SUBSET Files : Loses(some) /\ (some = Files \/ UNCHANGED dir)
BY DEF Sweep

\* ... the tracker's collections, ...
LEMMA TrackerStep ==
    ASSUME UploadTypeOK, Tick, [UploadNext]_uploadVars
    PROVE  TrackerOK'
<1> USE DEF tracker
<1>1. CASE UNCHANGED <<pending, scan, queued, processed>>
  BY <1>1 DEF UploadTypeOK, TrackerOK
<1>2. CASE Compare
  BY <1>2, CompareFacts DEF Compare, UploadTypeOK, TrackerOK
<1>3. CASE Apply
  BY <1>3, ApplyFacts DEF Apply, UploadTypeOK, TrackerOK
<1>4. CASE Hand
  <2>1. queued' \in Listings
    BY <1>4, HandFacts, StampFacts DEF UploadTypeOK, TrackerOK, Listings
  <2> QED
    BY <1>4, <2>1 DEF Hand, UploadTypeOK, TrackerOK
<1>5. CASE Restore
  BY <1>5, RestoreFacts DEF Restore, UploadTypeOK, TrackerOK
<1>6. ASSUME NEW f \in Files, Expire(f)
      PROVE  TrackerOK'
  BY <1>6, StampFacts DEF Expire, UploadTypeOK, TrackerOK, Listings
<1>7. CASE CheckDir
  <2>1. [seen |-> None, count |-> 0, found |-> FALSE] \in Scans
    BY BoundsAreCounts DEF Scans
  <2> QED
    BY <1>7, <2>1 DEF CheckDir, UploadTypeOK, TrackerOK
<1>8. ASSUME NEW f \in Files, Check(f)
      PROVE  TrackerOK'
  <2>1. pending' \in [Files -> Pendings \union {None}]
    BY <1>8, SubmitFacts DEF Check, UploadTypeOK, TrackerOK
  <2> QED
    BY <1>8, <2>1 DEF Check, UploadTypeOK, TrackerOK
<1>9. ASSUME NEW f \in Files, Mark(f) \/ Clear(f)
      PROVE  TrackerOK'
  <2>1. worker.sig \in Sigs
    BY DEF UploadTypeOK, QueueOK, Jobs
  <2> QED
    BY <1>9, <2>1, StampFacts DEF Mark, Clear, UploadTypeOK, TrackerOK, Listings
<1>10. CASE Start
  BY <1>10 DEF Start, UploadTypeOK, TrackerOK
<1> QED
  <2>1. CASE Tracker \/ TickRaises
    BY <1>1, <1>2, <1>3, <1>4, <1>5, <2>1 DEF Tracker, Look, List, TrackerLeaves, TickRaises
  <2>2. CASE Worker
    BY <1>1, <1>7, <1>8, <1>9, <2>2 DEF Worker, Take, Upload, Unlink, LooksEmpty, Sweep
  <2>3. CASE Lifecycle \/ Stop
    BY <1>1, <2>3 DEF Lifecycle, WatcherEnds, StopTracker, StopQueue, Stopped, Stop
  <2> QED
    BY <1>1, <1>6, <1>10, <2>1, <2>2, <2>3
       DEF UploadNext, MakeDir, TakeOver, Write, Remove, Put, uploadVars

\* ... what _tick() has in hand, ...
LEMMA TickTypeStep ==
    ASSUME UploadTypeOK, Tick, [UploadNext]_uploadVars
    PROVE  TickOK'
<1> USE DEF ticking
<1>1. CASE UNCHANGED <<tick, looked, failed, ready>>
  BY <1>1 DEF UploadTypeOK, TickOK
<1>2. Unseen \in [Files -> Sigs \union {None}]
  BY DEF Unseen
<1>3. CASE Look
  <2>1. /\ tick' = "compare" /\ UNCHANGED <<failed, ready>>
        /\ \E unread \in SUBSET Files :
              looked' = [f \in Files |-> IF pending[f] = None THEN None
                                       ELSE IF f \in unread THEN 0 ELSE disk[f]]
    BY <1>3 DEF Look
  <2>2. looked' \in [Files -> Sigs \union {None}]
    BY <2>1, StampFacts DEF UploadTypeOK, FolderOK, Listings
  <2> QED
    BY <2>1, <2>2 DEF UploadTypeOK, TickOK
<1>4. CASE Compare
  BY <1>2, <1>4, CompareFacts DEF Compare, UploadTypeOK, TickOK
<1>5. CASE List
  <2>1. looked' \in [Files -> Sigs \union {None}]
    BY <1>2, <1>5, StampFacts DEF List, UploadTypeOK, FolderOK, Listings
  <2> QED
    BY <1>5, <2>1 DEF List, UploadTypeOK, TickOK
<1>6. CASE Apply
  BY <1>2, <1>6, ApplyFacts DEF Apply, UploadTypeOK, TickOK
<1>7. CASE TickRaises
  BY <1>2, <1>7 DEF TickRaises, TickOK
<1>8. CASE Hand
  <2>1. looked' \in [Files -> Sigs \union {None}] /\ tick' \in {"idle", "hand", "restore"}
        /\ ready' \subseteq ready
    BY <1>2, <1>8, HandFacts, StampFacts DEF OrIdle, UploadTypeOK, TickOK
  <2> QED
    BY <1>8, <2>1 DEF Hand, UploadTypeOK, TickOK
<1>9. CASE Restore
  BY <1>2, <1>9, RestoreFacts DEF Restore, OrIdle, UploadTypeOK, TickOK
<1> QED
  <2>1. CASE Tracker \/ TickRaises
    BY <1>1, <1>3, <1>4, <1>5, <1>6, <1>7, <1>8, <1>9, <2>1 DEF Tracker, TrackerLeaves
  <2>2. CASE Worker
    BY <1>1, <2>2 DEF Worker, Take, CheckDir, Check, Upload, Unlink, LooksEmpty, Sweep, Mark,
                      Clear
  <2>3. CASE Lifecycle \/ Stop \/ Start
    BY <1>1, <2>3 DEF Lifecycle, WatcherEnds, StopTracker, StopQueue, Stopped, Stop, Start
  <2> QED
    BY <1>1, <2>1, <2>2, <2>3
       DEF UploadNext, MakeDir, TakeOver, Write, Remove, Expire, Put, uploadVars

\* ... and the histories.
LEMMA HistoryStep ==
    ASSUME UploadTypeOK, [UploadNext]_uploadVars
    PROVE  HistoryOK'
<1> USE DEF history
<1>1. CASE UNCHANGED <<marks, wrong>>
  BY <1>1 DEF UploadTypeOK, HistoryOK
<1>2. ASSUME NEW some, GivesUp(some), UNCHANGED wrong
      PROVE  HistoryOK'
  BY <1>2, GivesUpType DEF UploadTypeOK
<1>3. ASSUME NEW f \in Files, Write(f) \/ Remove(f) \/ Expire(f)
      PROVE  HistoryOK'
  <2>1. \A m \in SUBSET Marks : m \union {"forgiven"} \in SUBSET Marks
    BY DEF Marks
  <2> QED
    BY <1>3, <2>1 DEF Write, Remove, Expire, UploadTypeOK, HistoryOK, Marks
<1>4. ASSUME NEW f \in Files, Upload(f)
      PROVE  HistoryOK'
  BY <1>4, UploadFacts DEF Upload, UploadTypeOK, HistoryOK
<1>5. ASSUME NEW f \in Files, Unlink(f) \/ Sweep(f)
      PROVE  HistoryOK'
  BY <1>5, UnlinkFacts, SweepFacts, LosesType DEF UploadTypeOK, FolderOK, HistoryOK
<1> QED
  <2>1. CASE Tracker \/ TickRaises
    BY <1>1, <1>2, <2>1 DEF Tracker, Look, Compare, List, Apply, Hand, Restore, TrackerLeaves,
                            TickRaises
  <2>2. CASE Worker
    BY <1>1, <1>2, <1>4, <1>5, <2>2 DEF Worker, Take, CheckDir, Check, LooksEmpty, Mark, Clear
  <2>3. CASE Lifecycle \/ Stop \/ Start
    BY <1>1, <1>2, <2>3 DEF Lifecycle, WatcherEnds, StopTracker, StopQueue, Stopped, Stop, Start
  <2> QED
    BY <1>1, <1>2, <1>3, <2>1, <2>2, <2>3 DEF UploadNext, MakeDir, TakeOver, Put, uploadVars

LEMMA UploadTypeStep ==
    ASSUME UploadTypeOK, Tick, [UploadNext]_uploadVars
    PROVE  UploadTypeOK'
BY FolderStep, ServiceStep, QueueStep, TrackerStep, TickTypeStep, HistoryStep DEF UploadTypeOK

------------------------------------------------------------------------------
(* Stamps are never from the future.                                       *)

LEMMA PastKept ==
    ASSUME UploadTypeOK, written' \in {written, written + 1}, NEW sig, Past(sig)
    PROVE  sig \in 0 .. written'
BY DEF Past, UploadTypeOK, FolderOK

LEMMA PastZero ==
    ASSUME UploadTypeOK
    PROVE  Past(0)
BY DEF Past, UploadTypeOK, FolderOK

\* A step whose stamps are older ones, or of the past.
LEMMA AgedFrame ==
    ASSUME UploadTypeOK, Aged, UNCHANGED written,
           \A f \in Files : disk'[f] = disk[f] \/ Past(disk'[f]),
           \A f \in Files : queued'[f] = queued[f] \/ Past(queued'[f]),
           \A f \in Files : processed'[f] = processed[f] \/ Past(processed'[f]),
           \A f \in Files : \/ pending'[f] = pending[f] \/ pending'[f] = None
                            \/ Past(pending'[f].sig),
           \A f \in Files : \/ looked'[f] = looked[f] \/ looked'[f] = None
                            \/ Past(looked'[f]),
           \A r \in ready' : r \in ready \/ Past(r[2]),
           \A t \in Line' : t \in Line \/ Past(t.sig),
           worker'.sig = worker.sig \/ Past(worker'.sig)
    PROVE  Aged'
BY DEF Aged, Past

LEMMA FreshFacts ==
    \A sig : Fresh(sig).sig = sig /\ Fresh(sig).count = 0
BY DEF Fresh

\* The next step of handle_file() is about the same file.
LEMMA ReachesFacts ==
    ASSUME UploadTypeOK, NEW step, Reaches(step)
    PROVE  worker'.at = step /\ worker'.path = worker.path /\ worker'.sig = worker.sig
BY DEF Reaches, UploadTypeOK, QueueOK, Jobs

LEMMA LineSame ==
    ASSUME UNCHANGED queue
    PROVE  Line' = Line
BY DEF Line

LEMMA AgedTracker ==
    ASSUME UploadTypeOK, Tick, Aged, Tracker \/ TickRaises
    PROVE  Aged'
<1> USE DEF tree, tracker, ticking
<1>1. UNCHANGED <<written, disk, processed, worker>>
  BY DEF Tracker, Look, Compare, List, Apply, Hand, Restore, TrackerLeaves, TickRaises
<1>2. CASE Look
  <2>1. \A f \in Files : looked'[f] = None \/ Past(looked'[f])
    <3>1. \A f \in Files : looked'[f] \in {None, 0, disk[f]}
      BY <1>2 DEF Look
    <3> QED
      BY <3>1, PastZero DEF Aged
  <2>2. UNCHANGED <<queue, pending, queued, ready>>
    BY <1>2 DEF Look
  <2> QED
    BY <1>1, <2>1, <2>2, LineSame, AgedFrame
<1>3. CASE Compare
  <2>1. UNCHANGED queue
    BY <1>3 DEF Compare
  <2>2. \A r \in ready' : Past(r[2])
    <3> SUFFICES ASSUME NEW r \in ready'
                 PROVE  Past(r[2])
      OBVIOUS
    <3>1. r \in Files \X Stamps /\ r[2] = looked[r[1]]
      BY <1>3, CompareFacts
    <3>2. r[1] \in Files /\ r[2] \in Stamps
      BY <3>1
    <3> QED
      BY <3>1, <3>2, StampFacts DEF Aged
  <2>3. ASSUME NEW f \in Files
        PROVE  /\ queued'[f] = queued[f] \/ Past(queued'[f])
               /\ \/ pending'[f] = pending[f] \/ pending'[f] = None \/ Past(pending'[f].sig)
    <3>1. queued'[f] = queued[f] \/ Past(queued'[f])
      <4>1. CASE <<f, looked[f]>> \in ready'
        BY <1>3, <2>2, <4>1, CompareFacts
      <4> QED
        BY <1>3, <4>1, CompareFacts
    <3>2. ASSUME pending[f] # None, pending'[f] = Seen(f), looked[f] \in Stamps
          PROVE  Past(pending'[f].sig)
      <4>1. Past(pending[f].sig) /\ Past(looked[f])
        BY <3>2, StampFacts DEF Aged
      <4>2. [pending[f] EXCEPT !.count = @ + 1].sig = pending[f].sig
        BY <3>2 DEF UploadTypeOK, TrackerOK, Pendings
      <4> QED
        BY <3>2, <4>1, <4>2 DEF Seen, Fresh
    <3> QED
      BY <1>3, <3>1, <3>2, CompareFacts
  <2>4. looked' = Unseen
    BY <1>3 DEF Compare
  <2> QED
    BY <1>1, <2>1, <2>2, <2>3, <2>4, LineSame, AgedFrame DEF Unseen
<1>4. CASE List
  <2>1. \A f \in Files : looked'[f] = None \/ Past(looked'[f])
    BY <1>4, PastZero DEF List, Unseen, Aged
  <2> QED
    BY <1>1, <1>4, <2>1, LineSame, AgedFrame DEF List
<1>5. CASE Apply
  <2>1. UNCHANGED <<queue, queued, ready>>
    BY <1>5 DEF Apply
  <2>2. \A f \in Files : pending'[f] = pending[f] \/ Past(pending'[f].sig)
    <3>1. \A f \in Files : looked[f] \in Stamps => Past(looked[f])
      BY StampFacts DEF Aged
    <3> QED
      BY <1>5, <3>1, ApplyFacts, FreshFacts
  <2>3. looked' = Unseen
    BY <1>5 DEF Apply
  <2> QED
    BY <1>1, <2>1, <2>2, <2>3, LineSame, AgedFrame DEF Unseen
<1>6. CASE TickRaises
  BY <1>1, <1>6, LineSame, AgedFrame DEF TickRaises, Unseen
<1>7. CASE Hand
  <2>1. PICK r \in ready :
              /\ r[1] \in Files /\ r[2] \in Stamps /\ r = <<r[1], r[2]>>
              /\ \/ /\ queue' \in Seq(Tasks)
                    /\ Line' = Line \union {[path |-> r[1], sig |-> r[2]]}
                    /\ ready' = ready \ {r} /\ tick' = OrIdle(ready')
                    /\ UNCHANGED <<queued, looked>>
                 \/ /\ queued' = [queued EXCEPT ![r[1]] = IF @ = r[2] THEN 0 ELSE @]
                    /\ looked' = [Unseen EXCEPT ![r[1]] = r[2]]
                    /\ tick' = "restore"
                    /\ UNCHANGED <<queue, ready>>
    BY <1>7, HandFacts
  <2>2. UNCHANGED pending /\ Past(r[2]) /\ Past(0)
    BY <1>7, PastZero DEF Hand, Aged
  <2>3. \A f \in Files : queued'[f] = queued[f] \/ Past(queued'[f])
    BY <2>1, <2>2 DEF UploadTypeOK, TrackerOK, Listings
  <2>4. \A f \in Files : looked'[f] = looked[f] \/ looked'[f] = None \/ Past(looked'[f])
    BY <2>1, <2>2 DEF Unseen
  <2>5. \A t \in Line' : t \in Line \/ Past(t.sig)
    BY <2>1, <2>2, LineSame
  <2>6. \A q \in ready' : q \in ready
    BY <2>1
  <2> QED
    BY <1>1, <2>2, <2>3, <2>4, <2>5, <2>6, AgedFrame
<1>8. CASE Restore
  <2>1. \A f \in Files : pending'[f] = pending[f] \/ Past(pending'[f].sig)
    <3>1. \A f \in Files : Past(disk[f])
      BY DEF Aged
    <3> QED
      BY <1>8, <3>1, RestoreFacts, FreshFacts
  <2>2. \A q \in ready' : q \in ready
    BY <1>8, RestoreFacts
  <2>3. looked' = Unseen /\ UNCHANGED <<queue, queued>>
    BY <1>8 DEF Restore
  <2> QED
    BY <1>1, <2>1, <2>2, <2>3, LineSame, AgedFrame DEF Unseen
<1>9. CASE TrackerLeaves
  BY <1>1, <1>9, LineSame, AgedFrame DEF TrackerLeaves
<1> QED
  BY <1>2, <1>3, <1>4, <1>5, <1>6, <1>7, <1>8, <1>9 DEF Tracker

LEMMA AgedWorker ==
    ASSUME UploadTypeOK, Aged, Worker
    PROVE  Aged'
<1> USE DEF tree, tracker, ticking
<1>1. UNCHANGED <<written, ready, looked>>
  BY DEF Worker, Take, CheckDir, Check, Upload, Unlink, LooksEmpty, Sweep, Mark, Clear
<1>2. CASE Take
  <2>1. Line = Line' \union {Head(queue)} /\ worker'.sig = Head(queue).sig
    BY <1>2, TakeLine DEF Take, UploadTypeOK, QueueOK
  <2> QED
    BY <1>1, <1>2, <2>1, AgedFrame DEF Take, Aged
<1>3. Past(0) /\ Idle.sig = 0
  BY PastZero DEF Idle
<1>5. CASE CheckDir
  BY <1>1, <1>3, <1>5, LineSame, AgedFrame DEF CheckDir
<1>6. ASSUME NEW f \in Files, Check(f)
      PROVE  Aged'
  <2>1. \A g \in Files : pending'[g] = pending[g] \/ Past(pending'[g].sig)
    <3>1. Past(disk[f]) /\ (UNCHANGED pending \/ Submit(f))
      BY <1>6 DEF Aged, Check
    <3> QED
      BY <3>1, SubmitFacts, FreshFacts
  <2>2. worker'.sig = worker.sig \/ Past(worker'.sig)
    BY <1>3, <1>6, ReachesFacts DEF Check
  <2> QED
    BY <1>1, <1>6, <2>1, <2>2, LineSame, AgedFrame DEF Check
<1>7. ASSUME NEW f \in Files, Upload(f) \/ LooksEmpty(f)
      PROVE  Aged'
  <2>1. worker'.sig = worker.sig
    BY <1>7, ReachesFacts DEF Upload, LooksEmpty
  <2> QED
    BY <1>1, <1>7, <2>1, LineSame, AgedFrame DEF Upload, LooksEmpty
<1>8. ASSUME NEW f \in Files, Unlink(f) \/ Sweep(f)
      PROVE  Aged'
  <2>1. worker'.sig = worker.sig
    BY <1>8, ReachesFacts DEF Unlink, Sweep
  <2>2. \A g \in Files : disk'[g] = disk[g] \/ Past(disk'[g])
    BY <1>3, <1>8 DEF Unlink, Sweep, Loses
  <2> QED
    BY <1>1, <1>8, <2>1, <2>2, LineSame, AgedFrame DEF Unlink, Sweep
<1>9. ASSUME NEW f \in Files, Mark(f) \/ Clear(f)
      PROVE  Aged'
  <2>1. worker'.sig = worker.sig \/ Past(worker'.sig)
    BY <1>3, <1>9, ReachesFacts DEF Mark, Clear
  <2>2. \A g \in Files : /\ queued'[g] = queued[g] \/ Past(queued'[g])
                         /\ processed'[g] = processed[g] \/ Past(processed'[g])
    BY <1>3, <1>9 DEF Mark, Clear, Aged, UploadTypeOK, TrackerOK, Listings
  <2> QED
    BY <1>1, <1>9, <2>1, <2>2, LineSame, AgedFrame DEF Mark, Clear
<1> QED
  BY <1>2, <1>5, <1>6, <1>7, <1>8, <1>9 DEF Worker

LEMMA AgedStep ==
    ASSUME UploadTypeOK, Tick, Aged, [UploadNext]_uploadVars
    PROVE  Aged'
<1> USE DEF tree, tracker, ticking
<1>1. CASE UNCHANGED <<written, disk, queued, processed, pending, looked, ready, queue, worker>>
  BY <1>1, LineSame, AgedFrame
<1>2. ASSUME NEW f \in Files, Write(f)
      PROVE  Aged'
  <2>1. /\ written' = written + 1
        /\ UNCHANGED <<queue, queued, pending, processed, looked, ready, worker>>
    BY <1>2 DEF Write
  <2>2. \A g \in Files : disk'[g] \in 0 .. written'
    <3>1. written + 1 \in 0 .. written'
      BY <2>1 DEF UploadTypeOK, FolderOK
    <3>2. \A g \in Files : disk'[g] = disk[g] \/ disk'[g] = written + 1
      BY <1>2 DEF Write, UploadTypeOK, FolderOK, Listings
    <3> QED
      BY <2>1, <3>1, <3>2, PastKept DEF Aged
  <2>3. \A sig : Past(sig) => sig \in 0 .. written'
    BY <2>1, PastKept
  <2>4. /\ \A g \in Files : /\ queued[g] \in 0 .. written' /\ processed[g] \in 0 .. written'
                            /\ pending[g] # None => pending[g].sig \in 0 .. written'
                            /\ looked[g] # None => looked[g] \in 0 .. written'
        /\ \A r \in ready : r[2] \in 0 .. written'
        /\ \A t \in Line : t.sig \in 0 .. written'
        /\ worker.sig \in 0 .. written'
    BY <2>3 DEF Aged
  <2>5. Line' = Line
    BY <2>1, LineSame
  <2> QED
    BY <2>1, <2>2, <2>4, <2>5 DEF Aged, Past
<1>3. ASSUME NEW f \in Files, Remove(f) \/ Expire(f)
      PROVE  Aged'
  <2>1. UNCHANGED <<written, queue, pending, looked, ready, worker>>
    BY <1>3 DEF Remove, Expire
  <2>2. \A g \in Files : /\ disk'[g] = disk[g] \/ disk'[g] = 0
                         /\ queued'[g] = queued[g] \/ queued'[g] = 0
                         /\ processed'[g] = processed[g] \/ processed'[g] = 0
    BY <1>3 DEF Remove, Expire, UploadTypeOK, FolderOK, TrackerOK, Listings
  <2> QED
    BY <2>1, <2>2, LineSame, PastZero, AgedFrame
<1>4. ASSUME NEW p \in Paths, Put(p)
      PROVE  Aged'
  <2>1. [path |-> p, sig |-> 0] \in Tasks
    BY StampFacts DEF Tasks
  <2>2. Line' \subseteq Line \union {[path |-> p, sig |-> 0]}
    BY <1>4, <2>1, AppendLine, LineSame DEF Put, UploadTypeOK, QueueOK
  <2>3. \A t \in Line' : t \in Line \/ Past(t.sig)
    BY <2>2, PastZero
  <2>4. UNCHANGED <<written, disk, queued, processed, pending, looked, ready, worker>>
    BY <1>4 DEF Put
  <2> QED
    BY <2>3, <2>4, AgedFrame
<1>5. CASE Start
  <2>1. UNCHANGED <<written, disk, queue, queued, processed, looked, ready, worker>>
    BY <1>5 DEF Start
  <2>2. \A f \in Files : pending'[f] = pending[f] \/ pending'[f] = None
    BY <1>5 DEF Start
  <2> QED
    BY <2>1, <2>2, LineSame, AgedFrame
<1>6. CASE Lifecycle \/ Stop
  BY <1>1, <1>6 DEF Lifecycle, WatcherEnds, StopTracker, StopQueue, Stopped, Stop
<1> QED
  BY <1>1, <1>2, <1>3, <1>4, <1>5, <1>6, AgedTracker, AgedWorker
     DEF UploadNext, MakeDir, TakeOver, uploadVars

------------------------------------------------------------------------------
(* The folder and the service.                                             *)

LEMMA StandingStep ==
    ASSUME UploadTypeOK, Standing, [UploadNext]_uploadVars
    PROVE  Standing'
<1> USE DEF tree, watcher, lifecycle, ticking
<1>1. (dir = "none" => disk = Nothing)'
  <2>1. CASE UNCHANGED <<dir, disk>>
    BY <2>1 DEF Standing, Nothing
  <2>2. CASE MakeDir \/ TakeOver \/ Start
    BY <2>2 DEF MakeDir, TakeOver, Start, Standing, Nothing
  <2>3. ASSUME NEW f \in Files, Write(f) \/ Remove(f)
        PROVE  dir' # "none"
    BY <2>3 DEF Write, Remove, Standing, Nothing
  <2>4. ASSUME NEW f \in Files, Unlink(f)
        PROVE  (dir = "none" => disk = Nothing)'
    BY <2>4, StampFacts DEF Unlink, Loses, Standing, Nothing
  <2>5. ASSUME NEW f \in Files, Sweep(f)
        PROVE  (dir = "none" => disk = Nothing)'
    <3>1. PICK some \in SUBSET Files : Loses(some) /\ (some = Files \/ UNCHANGED dir)
      BY <2>5, SweepFacts
    <3>2. CASE some = Files
      BY <3>1, <3>2 DEF Loses, Nothing
    <3>3. CASE UNCHANGED dir
      BY <3>1, <3>3 DEF Loses, Standing, Nothing
    <3> QED
      BY <3>1, <3>2, <3>3
  <2>6. CASE Tracker \/ TickRaises
    BY <2>1, <2>6 DEF Tracker, Look, Compare, List, Apply, Hand, Restore, TrackerLeaves,
                      TickRaises
  <2>7. CASE Worker
    BY <2>1, <2>4, <2>5, <2>7 DEF Worker, Take, CheckDir, Check, Upload, LooksEmpty, Mark, Clear
  <2>8. CASE Lifecycle \/ Stop
    BY <2>1, <2>8 DEF Lifecycle, WatcherEnds, StopTracker, StopQueue, Stopped, Stop
  <2> QED
    BY <2>1, <2>2, <2>3, <2>6, <2>7, <2>8 DEF UploadNext, Expire, Put, uploadVars
<1>2. (service = "down" => tracking = "off")' /\ (tracking = "off" => tick = "idle")'
  <2>1. CASE UNCHANGED <<service, tracking, tick>>
    BY <2>1 DEF Standing
  <2>2. CASE Tracker \/ TickRaises
    BY <2>2 DEF Tracker, Look, Compare, List, Apply, Hand, Restore, TrackerLeaves, TickRaises,
                Standing
  <2>3. CASE Worker
    BY <2>1, <2>3 DEF Worker, Take, CheckDir, Check, Upload, Unlink, LooksEmpty, Sweep, Mark,
                      Clear
  <2>4. CASE Lifecycle \/ Stop \/ Start
    BY <2>4 DEF Lifecycle, WatcherEnds, StopTracker, StopQueue, Stopped, Stop, Start, Standing
  <2> QED
    BY <2>1, <2>2, <2>3, <2>4
       DEF UploadNext, MakeDir, TakeOver, Write, Remove, Expire, Put, uploadVars
<1> QED
  BY <1>1, <1>2 DEF Standing

------------------------------------------------------------------------------
(* What _tick() has in its hands.                                          *)

LEMMA UnseenFacts ==
    /\ \A f \in Files : Unseen[f] = None
    /\ \A f \in Files : \A sig : [Unseen EXCEPT ![f] = sig][f] = sig
    /\ \A f, g \in Files : \A sig : g # f => [Unseen EXCEPT ![f] = sig][g] = None
BY DEF Unseen

LEMMA TickTracker ==
    ASSUME UploadTypeOK, Tick, Tracker \/ TickRaises
    PROVE  Tick'
<1> USE DEF tracker, ticking
<1>1. CASE Look
  <2>1. ready = {} /\ ~failed
    BY <1>1 DEF Look, Tick
  <2> QED
    BY <1>1, <2>1 DEF Look, Tick
<1>2. CASE Compare
  <2>1. ~failed /\ ~failed'
    BY <1>2 DEF Compare, Tick
  <2>2. tick' = (IF scan # None THEN "list" ELSE OrIdle(ready')) /\ UNCHANGED scan
    BY <1>2 DEF Compare
  <2>3. /\ tick' \in {"idle", "compare"} => ready' = {}
        /\ tick' \in {"list", "apply"} => scan' # None
        /\ tick' # "apply" /\ tick' # "restore"
    BY <2>2 DEF OrIdle
  <2>4. /\ \A f \in Files : pending'[f] # None => pending'[f].count < StableChecks
        /\ \A r, q \in ready' : r[1] = q[1] => r = q
    BY <1>2, CompareFacts
  <2> QED
    BY <2>1, <2>3, <2>4 DEF Tick
<1>3. CASE List
  <2>1. tick' = "apply" /\ UNCHANGED <<scan, pending, ready, queued>> /\ scan # None
    BY <1>3 DEF List, Tick
  <2>2. (looked' = Unseen \/ looked' \in Listings) /\ (failed' => looked' \in Listings)
    BY <1>3, StampFacts DEF List, UploadTypeOK, FolderOK, Listings
  <2> QED
    BY <2>1, <2>2 DEF Tick
<1>4. CASE Apply
  <2>1. tick' = OrIdle(ready) /\ UNCHANGED ready /\ ~failed'
    BY <1>4 DEF Apply
  <2>2. tick' \in {"idle", "hand"} /\ (tick' = "idle" => ready = {})
    BY <2>1 DEF OrIdle
  <2>3. ASSUME NEW f \in Files, pending'[f] # None
        PROVE  pending'[f].count < StableChecks
    <3>1. pending'[f] = pending[f] \/ pending'[f].count = 0
      BY <1>4, ApplyFacts, FreshFacts
    <3>2. pending[f] # None => pending[f].count < StableChecks
      BY DEF Tick
    <3> QED
      BY <2>3, <3>1, <3>2, BoundsAreCounts
  <2>4. \A r, q \in ready' : r[1] = q[1] => r = q
    BY <2>1 DEF Tick
  <2> QED
    BY <2>1, <2>2, <2>3, <2>4 DEF Tick
<1>5. CASE TickRaises
  BY <1>5 DEF TickRaises, Tick
<1>6. CASE Hand
  <2>1. PICK r \in ready :
              /\ r[1] \in Files /\ r[2] \in Stamps /\ r = <<r[1], r[2]>>
              /\ \/ /\ queue' \in Seq(Tasks)
                    /\ Line' = Line \union {[path |-> r[1], sig |-> r[2]]}
                    /\ ready' = ready \ {r} /\ tick' = OrIdle(ready')
                    /\ UNCHANGED <<queued, looked>>
                 \/ /\ queued' = [queued EXCEPT ![r[1]] = IF @ = r[2] THEN 0 ELSE @]
                    /\ looked' = [Unseen EXCEPT ![r[1]] = r[2]]
                    /\ tick' = "restore"
                    /\ UNCHANGED <<queue, ready>>
    BY <1>6, HandFacts
  <2>2. ~failed /\ ~failed' /\ UNCHANGED <<pending, scan>>
    BY <1>6 DEF Hand, Tick
  <2>3. /\ \A f \in Files : pending'[f] # None => pending'[f].count < StableChecks
        /\ \A p, q \in ready' : p[1] = q[1] => p = q
    BY <2>1, <2>2 DEF Tick
  <2>4. tick' \in {"idle", "hand", "restore"} /\ (tick' = "idle" => ready' = {})
    BY <2>1 DEF OrIdle
  <2>5. ASSUME tick' = "restore", NEW f \in Files, looked'[f] # None
        PROVE  <<f, looked'[f]>> \in ready' /\ queued'[f] # looked'[f]
    <3>1. /\ queued' = [queued EXCEPT ![r[1]] = IF @ = r[2] THEN 0 ELSE @]
          /\ looked' = [Unseen EXCEPT ![r[1]] = r[2]] /\ UNCHANGED ready
      BY <2>1, <2>5 DEF OrIdle
    <3>2. f = r[1] /\ looked'[f] = r[2]
      BY <2>1, <2>5, <3>1, UnseenFacts
    <3>3. queued'[f] # r[2]
      BY <2>1, <3>1, <3>2, StampFacts DEF UploadTypeOK, TrackerOK, Listings
    <3> QED
      BY <2>1, <3>1, <3>2, <3>3
  <2> QED
    BY <2>2, <2>3, <2>4, <2>5 DEF Tick
<1>7. CASE Restore
  <2>1. ~failed /\ UNCHANGED <<scan, failed>>
    BY <1>7 DEF Restore, Tick
  <2>2. tick' = OrIdle(ready') /\ ready' \subseteq ready
    BY <1>7, RestoreFacts
  <2>3. tick' \in {"idle", "hand"} /\ (tick' = "idle" => ready' = {})
    BY <2>2 DEF OrIdle
  <2>4. ASSUME NEW f \in Files, pending'[f] # None
        PROVE  pending'[f].count < StableChecks
    BY <1>7, <2>4, RestoreFacts, FreshFacts, BoundsAreCounts DEF Tick
  <2>5. \A r, q \in ready' : r[1] = q[1] => r = q
    BY <2>2 DEF Tick
  <2> QED
    BY <2>1, <2>3, <2>4, <2>5 DEF Tick
<1>8. CASE TrackerLeaves
  BY <1>8 DEF TrackerLeaves, Tick
<1> QED
  BY <1>1, <1>2, <1>3, <1>4, <1>5, <1>6, <1>7, <1>8 DEF Tracker

\* A step of somebody else.
LEMMA TickFrame ==
    ASSUME Tick, UNCHANGED <<tick, looked, failed, ready>>,
           tick \in {"list", "apply"} /\ scan # None => scan' # None,
           \A f \in Files : \/ pending'[f] = pending[f] \/ pending'[f] = None
                            \/ pending'[f].count = 0,
           \A f \in Files : queued'[f] = queued[f] \/ queued'[f] = 0,
           UploadTypeOK
    PROVE  Tick'
<1>1. \A f \in Files : pending'[f] # None => pending'[f].count < StableChecks
  BY BoundsAreCounts DEF Tick
<1>2. ASSUME tick = "restore", NEW f \in Files, looked[f] # None
      PROVE  queued'[f] # looked[f]
  <2>1. <<f, looked[f]>> \in Files \X Stamps /\ queued[f] # looked[f]
    BY <1>2 DEF Tick, UploadTypeOK, TickOK
  <2> QED
    BY <2>1, StampFacts
<1> QED
  BY <1>1, <1>2 DEF Tick

LEMMA TickStep ==
    ASSUME UploadTypeOK, Standing, Tick, [UploadNext]_uploadVars
    PROVE  Tick'
<1> USE DEF tracker, ticking
<1>1. CASE UNCHANGED <<tick, looked, failed, ready, scan, pending, queued>>
  BY <1>1, TickFrame
<1>2. ASSUME NEW f \in Files, Expire(f) \/ Clear(f)
      PROVE  Tick'
  <2>1. \A g \in Files : queued'[g] = queued[g] \/ queued'[g] = 0
    BY <1>2 DEF Expire, Clear, UploadTypeOK, TrackerOK, Listings
  <2> QED
    BY <1>2, <2>1, TickFrame DEF Expire, Clear
<1>3. CASE CheckDir
  BY <1>3, TickFrame, AbsentAssumption DEF CheckDir
<1>4. ASSUME NEW f \in Files, Check(f)
      PROVE  Tick'
  <2>1. \A g \in Files : \/ pending'[g] = pending[g] \/ pending'[g] = None
                         \/ pending'[g].count = 0
    BY <1>4, SubmitFacts, FreshFacts DEF Check
  <2> QED
    BY <1>4, <2>1, TickFrame DEF Check
<1>5. CASE Start
  <2>1. tick = "idle"
    BY <1>5 DEF Start, Standing
  <2> QED
    BY <1>5, <2>1, TickFrame DEF Start
<1>6. CASE Worker
  BY <1>1, <1>2, <1>3, <1>4, <1>6 DEF Worker, Take, Upload, Unlink, LooksEmpty, Sweep, Mark
<1>7. CASE Lifecycle \/ Stop
  BY <1>1, <1>7 DEF Lifecycle, WatcherEnds, StopTracker, StopQueue, Stopped, Stop
<1> QED
  BY <1>1, <1>2, <1>5, <1>6, <1>7, TickTracker
     DEF UploadNext, MakeDir, TakeOver, Write, Remove, Put, uploadVars

LEMMA JobStep ==
    ASSUME UploadTypeOK, Job, [UploadNext]_uploadVars
    PROVE  Job'
<1>1. CASE UNCHANGED worker
  BY <1>1 DEF Job
<1>2. CASE Worker
  <2>1. CASE Take \/ CheckDir \/ \E f \in Files : Clear(f)
    BY <2>1 DEF Take, CheckDir, Clear, Idle, Job
  <2>2. ASSUME NEW f \in Files,
               Check(f) \/ Upload(f) \/ Unlink(f) \/ LooksEmpty(f) \/ Sweep(f) \/ Mark(f)
        PROVE  Job'
    <3>1. CASE Check(f) /\ worker.sig = 0
      BY <3>1 DEF Check, Idle, Job
    <3>2. worker.path = f /\ (~(Check(f) /\ worker.sig = 0) => worker.sig # 0)
      BY <2>2 DEF Check, Upload, Unlink, LooksEmpty, Sweep, Mark, At, Job
    <3>3. CASE \E step : Reaches(step)
      BY <3>1, <3>2, <3>3, ReachesFacts DEF Job
    <3> QED
      BY <2>2, <3>1, <3>2, <3>3 DEF Check, Upload, Unlink, LooksEmpty, Sweep, Mark
  <2> QED
    BY <1>2, <2>1, <2>2 DEF Worker
<1>3. CASE Tracker \/ TickRaises
  BY <1>1, <1>3 DEF Tracker, Look, Compare, List, Apply, Hand, Restore, TrackerLeaves,
                    TickRaises
<1>4. CASE Lifecycle \/ Stop \/ Start
  BY <1>1, <1>4 DEF Lifecycle, WatcherEnds, StopTracker, StopQueue, Stopped, Stop, Start
<1> QED
  BY <1>1, <1>2, <1>3, <1>4
     DEF UploadNext, MakeDir, TakeOver, Write, Remove, Expire, Put, uploadVars

------------------------------------------------------------------------------
(* Why a stamp is known.                                                   *)

LEMMA KnownFrame ==
    ASSUME NEW f \in Files, KnownFor(f),
           disk'[f] \in {disk[f], 0},
           disk'[f] # 0 => marks[f] \subseteq marks'[f],
           processed'[f] \in {processed[f], 0},
           queued'[f] \in {queued[f], 0},
           <<f, disk[f]>> \in ready => <<f, disk[f]>> \in ready',
           Line \subseteq Line',
           UNCHANGED worker
    PROVE  KnownFor(f)'
BY DEF KnownFor, Ended, Waits

LEMMA KnownTracker ==
    ASSUME UploadTypeOK, Tick, Known, Tracker \/ TickRaises, NEW f \in Files
    PROVE  KnownFor(f)'
<1> USE DEF tree, tracker, ticking, history
<1>1. KnownFor(f) /\ UNCHANGED <<disk, processed, worker>>
  BY DEF Known, Tracker, Look, Compare, List, Apply, Hand, Restore, TrackerLeaves, TickRaises
<1>2. CASE Look \/ List \/ Apply \/ TrackerLeaves
  <2>1. UNCHANGED <<marks, queued, ready, queue>>
    BY <1>2 DEF Look, List, Apply, TrackerLeaves
  <2> QED
    BY <1>1, <2>1, LineSame, KnownFrame
<1>3. CASE Compare
  <2>1. UNCHANGED <<queue, processed, disk, worker>> /\ ready = {}
    BY <1>1, <1>3 DEF Compare, Tick
  <2>2. marks[f] \subseteq marks'[f]
    BY <1>3, CompareFacts
  <2>3. CASE <<f, looked[f]>> \in ready'
    <3>1. queued'[f] = looked[f]
      BY <1>3, <2>3, CompareFacts
    <3> QED
      BY <1>1, <2>1, <2>2, <2>3, <3>1 DEF KnownFor, Ended
  <2>4. CASE <<f, looked[f]>> \notin ready'
    <3>1. queued'[f] = queued[f]
      BY <1>3, <2>4, CompareFacts
    <3> QED
      BY <1>1, <2>1, <2>2, <3>1, LineSame, KnownFrame
  <2> QED
    BY <2>3, <2>4
<1>4. CASE TickRaises
  <2>1. UNCHANGED <<queue, queued>> /\ GivesUp({r[1] : r \in ready})
    BY <1>4 DEF TickRaises
  <2>2. marks[f] \subseteq marks'[f]
    BY <2>1, GivesUpKeeps
  <2>3. <<f, disk[f]>> \in ready /\ disk[f] # 0 => "lapsed" \in marks'[f]
    <3>1. <<f, disk[f]>>[1] = f
      OBVIOUS
    <3>2. <<f, disk[f]>> \in ready => f \in {r[1] : r \in ready}
      BY <3>1
    <3> QED
      BY <2>1, <3>2, GivesUpKeeps
  <2> QED
    BY <1>1, <2>1, <2>2, <2>3, LineSame DEF KnownFor, Ended, Waits
<1>5. CASE Hand
  <2>1. PICK r \in ready :
              /\ r[1] \in Files /\ r[2] \in Stamps /\ r = <<r[1], r[2]>>
              /\ \/ /\ queue' \in Seq(Tasks)
                    /\ Line' = Line \union {[path |-> r[1], sig |-> r[2]]}
                    /\ ready' = ready \ {r} /\ tick' = OrIdle(ready')
                    /\ UNCHANGED <<queued, looked>>
                 \/ /\ queued' = [queued EXCEPT ![r[1]] = IF @ = r[2] THEN 0 ELSE @]
                    /\ looked' = [Unseen EXCEPT ![r[1]] = r[2]]
                    /\ tick' = "restore"
                    /\ UNCHANGED <<queue, ready>>
    BY <1>5, HandFacts
  <2>2. UNCHANGED marks
    BY <1>5 DEF Hand
  <2>3. CASE /\ Line' = Line \union {[path |-> r[1], sig |-> r[2]]}
             /\ ready' = ready \ {r} /\ UNCHANGED queued
    <3>1. CASE <<f, disk[f]>> = r
      <4>1. Waits(f, disk[f])'
        <5>1. r[1] = f /\ r[2] = disk'[f] /\ disk' = disk
          BY <1>1, <3>1
        <5>2. [path |-> r[1], sig |-> r[2]] \in Line'
          BY <2>3
        <5> QED
          BY <5>1, <5>2 DEF Waits
      <4> QED
        BY <1>1, <2>2, <2>3, <4>1 DEF KnownFor, Ended
    <3>2. CASE <<f, disk[f]>> # r
      BY <1>1, <2>2, <2>3, <3>2, KnownFrame
    <3> QED
      BY <3>1, <3>2
  <2>4. CASE queued' = [queued EXCEPT ![r[1]] = IF @ = r[2] THEN 0 ELSE @]
             /\ UNCHANGED <<queue, ready>>
    <3>1. queued'[f] \in {queued[f], 0}
      BY <2>1, <2>4 DEF UploadTypeOK, TrackerOK, Listings
    <3> QED
      BY <1>1, <2>2, <2>4, <3>1, LineSame, KnownFrame
  <2> QED
    BY <2>1, <2>3, <2>4
<1>6. CASE Restore
  <2>1. UNCHANGED <<queue, queued>> /\ tick = "restore"
    BY <1>6 DEF Restore
  <2>2. PICK g \in Files : /\ looked[g] # None /\ ready' = {r \in ready : r[1] # g}
                           /\ \A h \in Files : marks[h] \subseteq marks'[h]
    <3>1. PICK g \in Files :
              /\ looked[g] # None /\ ready' = {r \in ready : r[1] # g}
              /\ \A h \in Files : marks'[h] \in {marks[h], marks[h] \union {"lapsed"}}
      BY <1>6, RestoreFacts
    <3> QED
      BY <3>1
  <2>3. <<g, looked[g]>> \in ready /\ queued[g] # looked[g]
    BY <2>1, <2>2 DEF Tick
  <2>4. <<g, disk[g]>> \in ready => queued[g] # disk[g]
    <3>1. <<g, disk[g]>>[1] = <<g, looked[g]>>[1]
      OBVIOUS
    <3>2. <<g, disk[g]>> \in ready => <<g, disk[g]>> = <<g, looked[g]>>
      BY <2>3, <3>1 DEF Tick
    <3> QED
      BY <2>3, <3>2
  <2>5. CASE f = g
    <3>1. marks[f] \subseteq marks'[f]
      BY <2>2
    <3> QED
      BY <1>1, <2>1, <2>4, <2>5, <3>1, LineSame DEF KnownFor, Ended, Waits
  <2>6. CASE f # g
    <3>1. <<f, disk[f]>> \in ready => <<f, disk[f]>> \in ready'
      BY <2>2, <2>6
    <3>2. marks[f] \subseteq marks'[f]
      BY <2>2
    <3> QED
      BY <1>1, <2>1, <3>1, <3>2, LineSame, KnownFrame
  <2> QED
    BY <2>5, <2>6
<1> QED
  BY <1>2, <1>3, <1>4, <1>5, <1>6 DEF Tracker

LEMMA KnownWorker ==
    ASSUME UploadTypeOK, Known, Worker, NEW f \in Files
    PROVE  KnownFor(f)'
<1> USE DEF tree, tracker, ticking, history
<1>1. KnownFor(f) /\ UNCHANGED ready
  BY DEF Known, Worker, Take, CheckDir, Check, Upload, Unlink, LooksEmpty, Sweep, Mark, Clear
<1>2. CASE Take
  <2>1. /\ Line = Line' \union {Head(queue)}
        /\ worker' = [at |-> "check", path |-> Head(queue).path, sig |-> Head(queue).sig]
    BY <1>2, TakeLine DEF Take, UploadTypeOK, QueueOK
  <2>2. worker.at = "idle" /\ UNCHANGED <<disk, marks, processed, queued>>
    BY <1>2 DEF Take
  <2>3. Waits(f, disk[f]) =>
           Waits(f, disk[f])' \/ (worker'.path = f /\ worker'.sig = disk[f])
    BY <2>1, <2>2 DEF Waits
  <2> QED
    BY <1>1, <2>1, <2>2, <2>3 DEF KnownFor, Ended
<1>3. Idle.at = "idle" /\ Dir \notin Files
  BY BoundsAreCounts DEF Idle
<1>4. CASE CheckDir
  <2>1. worker.path = Dir /\ worker' = Idle /\ UNCHANGED <<disk, queue, processed, queued>>
    BY <1>4 DEF CheckDir, At
  <2>2. marks[f] \subseteq marks'[f]
    BY <1>4, GivesUpKeeps DEF CheckDir
  <2> QED
    BY <1>1, <1>3, <2>1, <2>2, LineSame DEF KnownFor, Ended, Waits
<1>5. ASSUME NEW g \in Files, Check(g)
      PROVE  KnownFor(f)'
  <2>1. /\ worker.at = "check" /\ worker.path = g
        /\ UNCHANGED <<disk, queue, processed, queued>>
    BY <1>5 DEF Check, At
  <2>2. CASE worker.sig = 0 /\ worker' = Idle /\ UNCHANGED marks
    BY <1>1, <1>3, <2>1, <2>2, LineSame DEF KnownFor, Ended, Waits
  <2>3. CASE disk[g] # worker.sig /\ Reaches("clear") /\ UNCHANGED marks
    BY <1>1, <2>1, <2>3, LineSame, ReachesFacts DEF KnownFor, Ended, Waits
  <2>4. CASE disk[g] = worker.sig /\ UNCHANGED marks
             /\ Reaches(IF processed[g] = worker.sig THEN "clear" ELSE "upload")
    BY <1>1, <2>1, <2>4, LineSame, ReachesFacts DEF KnownFor, Ended, Waits
  <2>5. CASE GivesUp({g}) /\ ((worker' = Idle /\ worker.sig = 0) \/ Reaches("clear"))
    <3>1. marks[f] \subseteq marks'[f] /\ (f = g /\ disk[f] # 0 => "lapsed" \in marks'[f])
      BY <2>5, GivesUpKeeps
    <3>2. CASE worker' = Idle /\ worker.sig = 0
      BY <1>1, <1>3, <2>1, <3>1, <3>2, LineSame DEF KnownFor, Ended, Waits
    <3>3. CASE Reaches("clear")
      BY <1>1, <2>1, <3>1, <3>3, LineSame, ReachesFacts DEF KnownFor, Ended, Waits
    <3> QED
      BY <2>5, <3>2, <3>3
  <2> QED
    BY <1>5, <2>2, <2>3, <2>4, <2>5 DEF Check
<1>6. ASSUME NEW g \in Files, Upload(g)
      PROVE  KnownFor(f)'
  <2>1. /\ worker.at = "upload" /\ worker.path = g
        /\ UNCHANGED <<disk, queue, processed, queued>>
    BY <1>6 DEF Upload, At
  <2>2. marks[f] \subseteq marks'[f]
    BY <1>6, UploadFacts
  <2>3. disk[g] # 0 => marks'[g] \intersect {"sent", "mistaken", "raced", "lapsed"} # {}
    <3>1. disk[g] # 0 => "lapsed" \in marks'[g] \/ "sent" \in marks'[g]
                         \/ "mistaken" \in marks'[g]
      BY <1>6, UploadFacts
    <3> QED
      BY <3>1
  <2>4. worker'.path = g /\ worker'.sig = worker.sig /\ worker'.at # "idle"
    <3>1. \E step \in {"clear", "unlink", "mark"} : Reaches(step)
      BY <1>6, UploadFacts
    <3> QED
      BY <2>1, <3>1, ReachesFacts
  <2> QED
    BY <1>1, <2>1, <2>2, <2>3, <2>4, LineSame DEF KnownFor, Ended, Waits
<1>7. ASSUME NEW g \in Files, Unlink(g) \/ LooksEmpty(g) \/ Sweep(g)
      PROVE  KnownFor(f)'
  <2>1. /\ worker.at \in {"unlink", "empty", "sweep"} /\ worker.path = g
        /\ UNCHANGED <<queue, processed, queued>>
    BY <1>7 DEF Unlink, LooksEmpty, Sweep, At
  <2>2. worker'.path = g /\ worker'.sig = worker.sig
        /\ worker'.at \in {"empty", "sweep", "mark", "clear"}
    <3>1. \E step \in {"empty", "sweep", "mark", "clear"} : Reaches(step)
      BY <1>7 DEF Unlink, LooksEmpty, Sweep
    <3> QED
      BY <2>1, <3>1, ReachesFacts
  <2>3. \/ disk'[f] = 0
        \/ disk'[f] = disk[f] /\ marks[f] \subseteq marks'[f]
    <3>1. CASE Unlink(g)
      BY <3>1, UnlinkFacts, LosesKeeps
    <3>2. CASE LooksEmpty(g)
      BY <3>2 DEF LooksEmpty
    <3>3. CASE Sweep(g)
      BY <3>3, SweepFacts, LosesKeeps
    <3> QED
      BY <1>7, <3>1, <3>2, <3>3
  <2> QED
    BY <1>1, <2>1, <2>2, <2>3, LineSame DEF KnownFor, Ended, Waits
<1>8. ASSUME NEW g \in Files, Mark(g)
      PROVE  KnownFor(f)'
  <2>1. /\ worker.at = "mark" /\ worker.path = g
        /\ UNCHANGED <<disk, queue, marks, queued>>
        /\ processed' = [processed EXCEPT ![g] = worker.sig]
    BY <1>8 DEF Mark, At
  <2>2. worker'.path = g /\ worker'.sig = worker.sig /\ worker'.at = "clear"
    BY <1>8, <2>1, ReachesFacts DEF Mark
  <2>3. processed'[f] = IF f = g THEN worker.sig ELSE processed[f]
    BY <2>1 DEF UploadTypeOK, TrackerOK, Listings
  <2> QED
    BY <1>1, <2>1, <2>2, <2>3, LineSame DEF KnownFor, Ended, Waits
<1>9. ASSUME NEW g \in Files, Clear(g)
      PROVE  KnownFor(f)'
  <2>1. /\ worker.at = "clear" /\ worker.path = g /\ worker' = Idle
        /\ UNCHANGED <<disk, queue, marks, processed>>
        /\ queued' = [queued EXCEPT ![g] = IF @ = worker.sig THEN 0 ELSE @]
    BY <1>9 DEF Clear, At
  <2>2. queued'[f] = IF f = g /\ queued[f] = worker.sig THEN 0 ELSE queued[f]
    BY <2>1 DEF UploadTypeOK, TrackerOK, Listings
  <2> QED
    BY <1>1, <1>3, <2>1, <2>2, LineSame DEF KnownFor, Ended, Waits
<1> QED
  BY <1>2, <1>4, <1>5, <1>6, <1>7, <1>8, <1>9 DEF Worker

\* What is written now is newer than everything anybody has noted.
LEMMA NewStamp ==
    ASSUME UploadTypeOK, Aged, NEW f \in Files, Write(f)
    PROVE  /\ disk'[f] = written + 1 /\ disk'[f] # 0
           /\ \A sig : Past(sig) => sig # disk'[f]
           /\ \A g \in Files : g # f => disk'[g] = disk[g] /\ marks'[g] = marks[g]
<1>1. disk' = [disk EXCEPT ![f] = written + 1] /\ written \in Nat
  BY BoundsAreCounts DEF Write, UploadTypeOK, FolderOK
<1>2. disk'[f] = written + 1 /\ \A g \in Files : g # f => disk'[g] = disk[g]
  BY <1>1 DEF UploadTypeOK, FolderOK, Listings
<1>3. \A sig : Past(sig) => sig # written + 1
  BY <1>1 DEF Past
<1>4. \A g \in Files : g # f => marks'[g] = marks[g]
  BY DEF Write, UploadTypeOK, HistoryOK
<1> QED
  BY <1>1, <1>2, <1>3, <1>4

LEMMA KnownStep ==
    ASSUME UploadTypeOK, Aged, Tick, Known, [UploadNext]_uploadVars
    PROVE  Known'
<1> SUFFICES ASSUME NEW f \in Files
             PROVE  KnownFor(f)'
  BY DEF Known
<1> USE DEF tree, tracker, ticking, history
<1>0. KnownFor(f)
  BY DEF Known
<1>1. CASE UNCHANGED <<disk, processed, queued, ready, queue, worker>>
           /\ marks[f] \subseteq marks'[f]
  BY <1>0, <1>1, LineSame, KnownFrame
<1>2. ASSUME NEW g \in Files, Write(g)
      PROVE  KnownFor(f)'
  <2>1. UNCHANGED <<processed, queued, ready, queue, worker>>
    BY <1>2 DEF Write
  <2>2. CASE f = g
    <3>1. disk'[f] # processed[f] /\ disk'[f] # queued[f] /\ disk'[f] # worker.sig
      BY <1>2, <2>2, NewStamp DEF Aged
    <3> QED
      BY <2>1, <3>1 DEF KnownFor
  <2>3. CASE f # g
    <3>1. disk'[f] = disk[f] /\ marks'[f] = marks[f]
      BY <1>2, <2>3, NewStamp
    <3> QED
      BY <1>0, <2>1, <3>1, LineSame, KnownFrame
  <2> QED
    BY <2>2, <2>3
<1>3. ASSUME NEW g \in Files, Remove(g) \/ Expire(g)
      PROVE  KnownFor(f)'
  <2>1. UNCHANGED <<ready, queue, worker>>
    BY <1>3 DEF Remove, Expire
  <2>2. /\ disk'[f] \in {disk[f], 0} /\ queued'[f] \in {queued[f], 0}
        /\ processed'[f] \in {processed[f], 0}
    BY <1>3 DEF Remove, Expire, UploadTypeOK, FolderOK, TrackerOK, Listings
  <2>3. disk'[f] # 0 => marks[f] \subseteq marks'[f]
    BY <1>3 DEF Remove, Expire, UploadTypeOK, FolderOK, HistoryOK, Listings
  <2> QED
    BY <1>0, <2>1, <2>2, <2>3, LineSame, KnownFrame
<1>4. ASSUME NEW p \in Paths, Put(p)
      PROVE  KnownFor(f)'
  <2>1. [path |-> p, sig |-> 0] \in Tasks
    BY StampFacts DEF Tasks
  <2>2. Line \subseteq Line'
    BY <1>4, <2>1, AppendLine, LineSame DEF Put, UploadTypeOK, QueueOK
  <2>3. marks[f] \subseteq marks'[f]
    BY <1>4, GivesUpKeeps DEF Put
  <2> QED
    BY <1>0, <1>4, <2>2, <2>3, KnownFrame DEF Put
<1>5. CASE Lifecycle \/ Stop \/ Start
  <2>1. marks[f] \subseteq marks'[f]
    BY <1>5, GivesUpKeeps DEF Lifecycle, WatcherEnds, StopTracker, StopQueue, Stopped, Stop, Start
  <2> QED
    BY <1>1, <1>5, <2>1 DEF Lifecycle, WatcherEnds, StopTracker, StopQueue, Stopped, Stop, Start
<1> QED
  BY <1>1, <1>2, <1>3, <1>4, <1>5, KnownTracker, KnownWorker
     DEF UploadNext, MakeDir, TakeOver, uploadVars

------------------------------------------------------------------------------
(* What is uploaded, and deleted.                                          *)

LEMMA SentFrame ==
    ASSUME NEW f \in Files, SentFor(f),
           disk'[f] \in {disk[f], 0},
           disk'[f] # 0 => /\ marks[f] \subseteq marks'[f]
                           /\ marks'[f] = {"sent"} =>
                                 marks[f] = {"sent"} /\ processed'[f] = processed[f],
           UNCHANGED worker
    PROVE  SentFor(f)'
<1>1. CASE disk'[f] = 0
  BY <1>1 DEF SentFor
<1>2. CASE disk'[f] = disk[f] /\ disk[f] # 0
  <2>1. /\ marks[f] \subseteq marks'[f]
        /\ marks'[f] = {"sent"} => marks[f] = {"sent"} /\ processed'[f] = processed[f]
    BY <1>2
  <2>2. marks[f] \intersect {"sent", "mistaken", "raced"} # {} => marks'[f] \intersect {"sent", "mistaken", "raced"} # {}
    BY <2>1
  <2> QED
    BY <1>2, <2>1, <2>2 DEF SentFor, At
<1> QED
  BY <1>1, <1>2

LEMMA SentWorker ==
    ASSUME UploadTypeOK, Sent, Worker, NEW f \in Files
    PROVE  SentFor(f)'
<1> USE DEF tree, tracker, ticking, history
<1>1. SentFor(f)
  BY DEF Sent
<1>2. CASE Take
  <2>1. worker.at = "idle" /\ worker'.at = "check" /\ UNCHANGED <<disk, marks, processed>>
    BY <1>2 DEF Take
  <2> QED
    BY <1>1, <2>1 DEF SentFor, At
<1>3. Idle.at = "idle"
  BY DEF Idle
<1>4. CASE CheckDir
  <2>1. /\ worker.at = "check" /\ worker'.at = "idle" /\ UNCHANGED <<disk, processed>>
        /\ marks'[f] \in {marks[f], marks[f] \union {"lapsed"}}
    BY <1>3, <1>4, GivesUpKeeps DEF CheckDir, At
  <2> QED
    BY <1>1, <2>1 DEF SentFor, At
<1>5. ASSUME NEW g \in Files, Check(g)
      PROVE  SentFor(f)'
  <2>1. /\ worker.at = "check" /\ worker.path = g /\ UNCHANGED <<disk, processed>>
        /\ marks'[f] \in {marks[f], marks[f] \union {"lapsed"}}
    BY <1>5, GivesUpKeeps DEF Check, At
  <2>2. CASE worker'.at \in {"idle", "clear"}
    BY <1>1, <2>1, <2>2 DEF SentFor, At
  <2>3. CASE /\ disk[g] = worker.sig /\ processed[g] # worker.sig
             /\ worker'.at = "upload" /\ worker'.path = g /\ worker'.sig = worker.sig
    BY <1>1, <2>1, <2>3 DEF SentFor, At
  <2>4. \/ worker' = Idle \/ Reaches("clear")
        \/ Reaches("upload") /\ disk[g] = worker.sig /\ processed[g] # worker.sig
    BY <1>5 DEF Check
  <2> QED
    BY <1>3, <2>1, <2>2, <2>3, <2>4, ReachesFacts
<1>6. ASSUME NEW g \in Files, Upload(g)
      PROVE  SentFor(f)'
  <2>1. /\ worker.at = "upload" /\ worker.path = g /\ UNCHANGED <<disk, processed>>
    BY <1>6 DEF Upload, At
  <2>2. CASE Reaches("clear") /\ (f = g => disk[f] = 0 \/ "forgiven" \in marks'[f])
             /\ (f # g => marks'[f] = marks[f])
    BY <1>1, <2>1, <2>2, ReachesFacts DEF SentFor, At
  <2>3. CASE /\ \E step \in {"unlink", "mark"} : Reaches(step)
             /\ marks'[g] \in {marks[g] \union {"sent"}, marks[g] \union {"mistaken"}}
             /\ (f # g => marks'[f] = marks[f])
    <3>1. worker'.at \in {"unlink", "mark"} /\ worker'.path = g /\ worker'.sig = worker.sig
      BY <2>1, <2>3, ReachesFacts
    <3>3. CASE f = g
      <4>1. disk[f] # 0 /\ worker.sig # disk[f] => "raced" \in marks'[f]
        BY <1>1, <2>1, <2>3, <3>3 DEF SentFor, At
      <4>2. "sent" \in marks'[f] \/ "mistaken" \in marks'[f]
        BY <2>3, <3>3
      <4> QED
        BY <2>1, <3>1, <3>3, <4>1, <4>2 DEF SentFor, At
    <3>4. CASE f # g
      BY <1>1, <2>1, <2>3, <3>1, <3>4 DEF SentFor, At
    <3> QED
      BY <3>3, <3>4
  <2> QED
    BY <1>6, <2>2, <2>3, UploadFacts
<1>7. ASSUME NEW g \in Files, Unlink(g)
      PROVE  SentFor(f)'
  <2>1. worker.at = "unlink" /\ worker.path = g /\ UNCHANGED processed
    BY <1>7 DEF Unlink, At
  <2>2. CASE Loses({g}) /\ Reaches("empty")
    <3>1. worker'.at = "empty" /\ worker'.path = g /\ worker'.sig = worker.sig
      BY <2>1, <2>2, ReachesFacts
    <3>2. (f = g => disk'[f] = 0) /\ (f # g => disk'[f] = disk[f] /\ marks'[f] = marks[f])
      BY <2>2, LosesKeeps
    <3> QED
      BY <1>1, <2>1, <3>1, <3>2 DEF SentFor, At
  <2>3. CASE /\ Reaches("clear") /\ UNCHANGED disk
             /\ marks'[g] = marks[g] \union {"forgiven"} /\ (f # g => marks'[f] = marks[f])
    <3>1. worker'.at = "clear" /\ worker'.path = g /\ worker'.sig = worker.sig
      BY <2>1, <2>3, ReachesFacts
    <3>2. f = g => "forgiven" \in marks'[f]
      BY <2>3
    <3> QED
      BY <1>1, <2>1, <2>3, <3>1, <3>2 DEF SentFor, At
  <2> QED
    BY <1>7, <2>2, <2>3, UnlinkFacts
<1>8. ASSUME NEW g \in Files, LooksEmpty(g)
      PROVE  SentFor(f)'
  <2>1. /\ worker.at = "empty" /\ worker.path = g /\ UNCHANGED <<disk, marks, processed>>
        /\ worker'.at \in {"sweep", "mark", "clear"} /\ (worker'.at = "sweep" => Listing = {})
        /\ worker'.path = g /\ worker'.sig = worker.sig
    <3>1. \/ Reaches("sweep") /\ Listing = {}
          \/ Reaches("mark") \/ Reaches("clear")
      BY <1>8 DEF LooksEmpty
    <3> QED
      BY <1>8, <3>1, ReachesFacts DEF LooksEmpty, At
  <2>2. CASE disk[f] = 0
    BY <2>1, <2>2 DEF SentFor
  <2>3. CASE disk[f] # 0
    <3>1. worker'.at \in {"mark", "clear"}
      BY <2>1, <2>3 DEF Listing
    <3> QED
      BY <1>1, <2>1, <3>1 DEF SentFor, At
  <2> QED
    BY <2>2, <2>3
<1>9. ASSUME NEW g \in Files, Sweep(g)
      PROVE  SentFor(f)'
  <2>1. /\ worker.at = "sweep" /\ worker.path = g /\ UNCHANGED processed
        /\ worker'.at = "mark" /\ worker'.path = g /\ worker'.sig = worker.sig
    BY <1>9, ReachesFacts DEF Sweep, At
  <2>2. disk'[f] = 0 \/ (disk'[f] = disk[f] /\ marks'[f] = marks[f])
    BY <1>9, SweepFacts, LosesKeeps
  <2> QED
    BY <1>1, <2>1, <2>2 DEF SentFor, At
<1>10. ASSUME NEW g \in Files, Mark(g)
       PROVE  SentFor(f)'
  <2>1. /\ worker.at = "mark" /\ worker.path = g /\ UNCHANGED <<disk, marks>>
        /\ processed'[f] = IF f = g THEN worker.sig ELSE processed[f]
        /\ worker'.at = "clear"
    BY <1>10, ReachesFacts DEF Mark, At, UploadTypeOK, TrackerOK, Listings
  <2> QED
    BY <1>1, <2>1 DEF SentFor, At
<1>11. ASSUME NEW g \in Files, Clear(g)
       PROVE  SentFor(f)'
  <2>1. worker.at = "clear" /\ worker'.at = "idle" /\ UNCHANGED <<disk, marks, processed>>
    BY <1>3, <1>11 DEF Clear, At
  <2> QED
    BY <1>1, <2>1 DEF SentFor, At
<1> QED
  BY <1>2, <1>4, <1>5, <1>6, <1>7, <1>8, <1>9, <1>10, <1>11 DEF Worker

LEMMA SentStep ==
    ASSUME UploadTypeOK, Aged, Tick, Sent, [UploadNext]_uploadVars
    PROVE  Sent'
<1> SUFFICES ASSUME NEW f \in Files
             PROVE  SentFor(f)'
  BY DEF Sent
<1> USE DEF tree, tracker, ticking, history
<1>0. SentFor(f)
  BY DEF Sent
<1>1. CASE UNCHANGED <<disk, processed, worker>>
           /\ marks'[f] \in {marks[f], marks[f] \union {"lapsed"}}
  BY <1>0, <1>1, SentFrame
<1>2. ASSUME NEW g \in Files, Write(g)
      PROVE  SentFor(f)'
  <2>1. UNCHANGED <<processed, worker>>
    BY <1>2 DEF Write
  <2>2. CASE f = g
    <3>1. marks'[f] \in {{}, {"raced"}} /\ (InHand(f) => marks'[f] = {"raced"})
      BY <1>2, <2>2 DEF Write, UploadTypeOK, HistoryOK
    <3> QED
      BY <2>1, <3>1 DEF SentFor, InHand, At
  <2>3. CASE f # g
    <3>1. disk'[f] = disk[f] /\ marks'[f] = marks[f]
      BY <1>2, <2>3, NewStamp
    <3> QED
      BY <1>0, <2>1, <3>1, SentFrame
  <2> QED
    BY <2>2, <2>3
<1>3. ASSUME NEW g \in Files, Remove(g)
      PROVE  SentFor(f)'
  <2>1. UNCHANGED <<processed, worker>>
        /\ \/ disk'[f] = 0
           \/ disk'[f] = disk[f] /\ marks'[f] = marks[f]
    BY <1>3 DEF Remove, UploadTypeOK, FolderOK, HistoryOK, Listings
  <2> QED
    BY <1>0, <2>1, SentFrame
<1>4. ASSUME NEW g \in Files, Expire(g)
      PROVE  SentFor(f)'
  <2>1. UNCHANGED <<disk, worker>>
    BY <1>4 DEF Expire
  <2>2. disk[f] # 0 /\ f = g => marks'[f] = marks[f] \union {"forgiven"}
    BY <1>4 DEF Expire, UploadTypeOK, HistoryOK
  <2>3. f # g => marks'[f] = marks[f] /\ processed'[f] = processed[f]
    BY <1>4 DEF Expire, UploadTypeOK, HistoryOK, TrackerOK, Listings
  <2> QED
    BY <1>0, <2>1, <2>2, <2>3, SentFrame
<1>5. ASSUME NEW p \in Paths, Put(p)
      PROVE  SentFor(f)'
  BY <1>1, <1>5, GivesUpKeeps DEF Put
<1>6. CASE Tracker \/ TickRaises
  <2>1. CASE Compare
    BY <1>1, <2>1, CompareFacts DEF Compare
  <2>2. CASE TickRaises
    BY <1>1, <2>2, GivesUpKeeps DEF TickRaises
  <2>3. CASE Restore
    BY <1>1, <2>3, RestoreFacts DEF Restore
  <2> QED
    BY <1>1, <1>6, <2>1, <2>2, <2>3 DEF Tracker, Look, List, Apply, Hand, TrackerLeaves
<1>7. CASE Lifecycle \/ Stop \/ Start
  <2>1. marks'[f] \in {marks[f], marks[f] \union {"lapsed"}}
    BY <1>7, GivesUpKeeps DEF Lifecycle, WatcherEnds, StopTracker, StopQueue, Stopped, Stop, Start
  <2> QED
    BY <1>1, <1>7, <2>1 DEF Lifecycle, WatcherEnds, StopTracker, StopQueue, Stopped, Stop, Start
<1> QED
  BY <1>1, <1>2, <1>3, <1>4, <1>5, <1>6, <1>7, SentWorker
     DEF UploadNext, MakeDir, TakeOver, uploadVars

\* What is deleted was uploaded or raced, and nothing is uploaded twice.
LEMMA WrongStep ==
    ASSUME UploadTypeOK, Sent, wrong = {}, [UploadNext]_uploadVars
    PROVE  wrong' = {}
<1> USE DEF history
<1>1. CASE UNCHANGED wrong
  BY <1>1
<1>2. ASSUME NEW g \in Files, Upload(g)
      PROVE  wrong' = {}
  <2>1. disk[g] # 0 => marks[g] # {"sent"}
    BY <1>2 DEF Upload, Sent, SentFor
  <2> QED
    BY <1>2, <2>1 DEF Upload
<1>3. ASSUME NEW g \in Files, Unlink(g)
      PROVE  wrong' = {}
  <2>1. disk[g] # 0 => marks[g] \intersect {"sent", "mistaken", "raced"} # {}
    BY <1>3 DEF Unlink, Sent, SentFor
  <2> QED
    BY <1>3, <2>1, UnlinkFacts DEF Loses, Listing
<1>4. ASSUME NEW g \in Files, Sweep(g)
      PROVE  wrong' = {}
  <2>1. \A f \in Files : disk[f] # 0 => marks[f] \intersect {"sent", "mistaken", "raced"} # {}
    BY <1>4 DEF Sweep, Sent, SentFor, At
  <2> QED
    BY <1>4, <2>1, SweepFacts DEF Loses, Listing
<1>5. CASE Tracker \/ TickRaises
  BY <1>1, <1>5 DEF Tracker, Look, Compare, List, Apply, Hand, Restore, TrackerLeaves,
                    TickRaises
<1>6. CASE Worker
  BY <1>1, <1>2, <1>3, <1>4, <1>6 DEF Worker, Take, CheckDir, Check, LooksEmpty, Mark, Clear
<1>7. CASE Lifecycle \/ Stop \/ Start
  BY <1>1, <1>7 DEF Lifecycle, WatcherEnds, StopTracker, StopQueue, Stopped, Stop, Start
<1> QED
  BY <1>1, <1>5, <1>6, <1>7
     DEF UploadNext, MakeDir, TakeOver, Write, Remove, Expire, Put, uploadVars

------------------------------------------------------------------------------
(* A file that counts as unchanged has been looked at.                     *)

LEMMA CountsOfFiles ==
    ASSUME UploadTypeOK, NEW f \in Files
    PROVE  /\ quiet[f] \in Nat /\ quiet[f] <= StableChecks
           /\ StableChecks \in Nat /\ StableChecks >= 1
           /\ pending[f] # None => pending[f].count \in Nat
BY BoundsAreCounts DEF UploadTypeOK, FolderOK, TrackerOK, Pendings

LEMMA QuietFrame ==
    ASSUME UploadTypeOK, NEW f \in Files, QuietFor(f),
           disk'[f] \in {disk[f], 0}, quiet'[f] = quiet[f],
           \/ tick' # "compare"
           \/ UNCHANGED tick /\ looked'[f] = looked[f],
           \/ pending'[f] \in {pending[f], None}
           \/ pending'[f].count = 0,
           <<f, disk[f]>> \in ready' => <<f, disk[f]>> \in ready,
           disk[f] # 0 /\ Waits(f, disk[f])' => Waits(f, disk[f]) \/ Steady(f),
           \/ worker'.at # "check"
           \/ worker'.sig # disk[f]
           \/ UNCHANGED worker
    PROVE  QuietFor(f)'
<1>1. CASE disk'[f] = 0
  BY <1>1 DEF QuietFor
<1>2. CASE disk'[f] = disk[f] /\ disk[f] # 0
  <2>1. (tick = "compare" /\ looked[f] = disk[f] => quiet[f] >= 1)'
    BY <1>2 DEF QuietFor
  <2>2. ASSUME pending'[f] # None, pending'[f].sig = disk'[f]
        PROVE  /\ quiet'[f] >= pending'[f].count
               /\ tick' = "compare" /\ looked'[f] = disk'[f] => quiet'[f] >= pending'[f].count + 1
    <3>1. CASE pending'[f] = pending[f]
      BY <1>2, <2>2, <3>1 DEF QuietFor
    <3>2. CASE pending'[f].count = 0
      BY <1>2, <2>1, <3>2, CountsOfFiles
    <3> QED
      BY <2>2, <3>1, <3>2
  <2>3. (Waits(f, disk[f]) => Steady(f))'
    <3>1. Waits(f, disk[f])' => Steady(f)
      BY <1>2 DEF QuietFor
    <3> QED
      BY <3>1 DEF Steady
  <2>4. (<<f, disk[f]>> \in ready => Steady(f))'
        /\ (At("check", f) /\ worker.sig = disk[f] => Steady(f))'
    BY <1>2 DEF QuietFor, Steady, At
  <2> QED
    BY <2>1, <2>2, <2>3, <2>4 DEF QuietFor
<1> QED
  BY <1>1, <1>2

LEMMA WaitsSame ==
    ASSUME NEW f \in Files, Line' \subseteq Line, disk'[f] = disk[f], Waits(f, disk[f])'
    PROVE  Waits(f, disk[f])
BY DEF Waits

LEMMA QuietTracker ==
    ASSUME UploadTypeOK, Tick, Quiet, Tracker \/ TickRaises, NEW f \in Files
    PROVE  QuietFor(f)'
<1> USE DEF tree, tracker, ticking, history
<1>1. QuietFor(f) /\ UNCHANGED <<disk, worker>>
  BY DEF Quiet, Tracker, Look, Compare, List, Apply, Hand, Restore, TrackerLeaves, TickRaises
<1>2. ASSUME UNCHANGED queue
      PROVE  Waits(f, disk[f])' => Waits(f, disk[f])
  BY <1>1, <1>2, LineSame, WaitsSame
<1>3. CASE Look
  <2>1. /\ UNCHANGED <<queue, pending, ready>> /\ tick' = "compare"
        /\ looked'[f] \in {0, IF pending[f] = None THEN None ELSE disk[f]}
        /\ quiet'[f] = IF looked'[f] \notin {None, 0} /\ quiet[f] < StableChecks
                       THEN quiet[f] + 1 ELSE quiet[f]
    BY <1>3 DEF Look
  <2>2. CASE disk[f] # 0
    <3>1. disk[f] # None
      BY StampFacts DEF UploadTypeOK, FolderOK, Listings
    <3>2. quiet'[f] >= quiet[f]
      BY <2>1, CountsOfFiles
    <3>3. looked'[f] = disk[f] => pending[f] # None /\ quiet'[f] >= 1
      BY <2>1, <2>2, <3>1, CountsOfFiles
    <3>4. ASSUME pending[f] # None, pending[f].sig = disk[f], looked'[f] = disk[f]
          PROVE  quiet'[f] >= pending[f].count + 1
      <4>1. pending[f].count < StableChecks /\ pending[f].count \in Nat
            /\ quiet[f] >= pending[f].count
        BY <2>2, <3>4, <1>1, CountsOfFiles DEF Tick, QuietFor
      <4> QED
        BY <2>1, <2>2, <3>1, <3>4, <4>1, CountsOfFiles
    <3>5. pending[f] # None /\ pending[f].sig = disk[f] => quiet'[f] >= pending[f].count
      <4>1. pending[f] # None /\ pending[f].sig = disk[f] =>
               quiet[f] >= pending[f].count /\ pending[f].count \in Nat
        BY <1>1, <2>2, CountsOfFiles DEF QuietFor
      <4>2. quiet'[f] \in Nat
        BY <2>1, CountsOfFiles
      <4> QED
        BY <3>2, <4>1, <4>2, CountsOfFiles
    <3>6. Steady(f) => Steady(f)'
      BY <3>2, <2>1, CountsOfFiles DEF Steady
    <3>7. Waits(f, disk[f])' => Steady(f)
      BY <1>1, <1>2, <2>1, <2>2 DEF QuietFor
    <3>8. /\ <<f, disk[f]>> \in ready => Steady(f)
          /\ At("check", f) /\ worker.sig = disk[f] => Steady(f)
      BY <1>1, <2>2 DEF QuietFor
    <3>9. (At("check", f) /\ worker.sig = disk[f])' => At("check", f) /\ worker.sig = disk[f]
      BY <1>1 DEF At
    <3> QED
      BY <1>1, <2>1, <3>3, <3>4, <3>5, <3>6, <3>7, <3>8, <3>9 DEF QuietFor
  <2>3. CASE disk[f] = 0
    BY <1>1, <2>3 DEF QuietFor
  <2> QED
    BY <2>2, <2>3
<1>4. CASE Compare
  <2>1. UNCHANGED <<queue, quiet>> /\ tick = "compare" /\ tick' # "compare"
    BY <1>4, CompareFacts DEF Compare
  <2>2. ASSUME disk[f] # 0, pending[f] # None, looked[f] = disk[f],
               pending[f].sig = looked[f]
        PROVE  quiet[f] >= pending[f].count + 1
    BY <1>1, <2>1, <2>2 DEF QuietFor
  <2>3. pending[f] # None =>
           /\ looked[f] = pending[f].sig =>
                 Seen(f).count = pending[f].count + 1 /\ Seen(f).sig = looked[f]
           /\ looked[f] # pending[f].sig => Seen(f).count = 0 /\ Seen(f).sig = looked[f]
    BY FreshFacts DEF Seen, UploadTypeOK, TrackerOK, Pendings
  <2>4. disk[f] # 0 /\ <<f, disk[f]>> \in ready' => Steady(f)
    <3> SUFFICES ASSUME disk[f] # 0, <<f, disk[f]>> \in ready'
                 PROVE  Steady(f)
      OBVIOUS
    <3>1. <<f, disk[f]>>[1] = f /\ <<f, disk[f]>>[2] = disk[f]
      OBVIOUS
    <3>2. disk[f] = looked[f] /\ pending[f] # None /\ Seen(f).count >= StableChecks
      BY <1>4, <3>1, CompareFacts
    <3>3. looked[f] = pending[f].sig
      BY <2>3, <3>2, CountsOfFiles
    <3> QED
      BY <2>2, <2>3, <3>2, <3>3, CountsOfFiles DEF Steady
  <2>5. ASSUME disk[f] # 0, pending'[f] # None, pending'[f].sig = disk[f]
        PROVE  quiet[f] >= pending'[f].count
    <3>1. pending[f] # None
      BY <1>4, <2>5, CompareFacts
    <3>2. CASE pending'[f] = pending[f]
      BY <1>1, <2>5, <3>1, <3>2 DEF QuietFor
    <3>3. CASE pending'[f] = Seen(f)
      <4>1. looked[f] = disk[f]
        BY <2>3, <2>5, <3>1, <3>3
      <4> QED
        BY <2>2, <2>3, <2>5, <3>1, <3>3, <4>1, CountsOfFiles
    <3> QED
      BY <1>4, <2>5, <3>1, <3>2, <3>3, CompareFacts
  <2>6. Waits(f, disk[f])' /\ disk[f] # 0 => Steady(f)
    BY <1>1, <1>2, <2>1 DEF QuietFor
  <2>7. (At("check", f) /\ worker.sig = disk[f])' /\ disk[f] # 0 => Steady(f)
    BY <1>1 DEF QuietFor, At
  <2>8. Steady(f) => Steady(f)'
    BY <2>1 DEF Steady
  <2> QED
    BY <1>1, <2>1, <2>4, <2>5, <2>6, <2>7, <2>8 DEF QuietFor
<1>5. CASE List \/ TickRaises \/ TrackerLeaves
  <2>1. UNCHANGED <<queue, quiet, pending>> /\ tick' # "compare" /\ ready' \subseteq ready
    BY <1>5 DEF List, TickRaises, TrackerLeaves
  <2> QED
    BY <1>1, <1>2, <2>1, QuietFrame
<1>6. CASE Apply
  <2>1. UNCHANGED <<queue, quiet, ready>> /\ tick' # "compare"
    BY <1>6, ApplyFacts DEF Apply
  <2>2. pending'[f] = pending[f] \/ pending'[f].count = 0
    BY <1>6, ApplyFacts, FreshFacts
  <2> QED
    BY <1>1, <1>2, <2>1, <2>2, QuietFrame
<1>7. CASE Restore
  <2>1. UNCHANGED <<queue, quiet>>
    BY <1>7 DEF Restore
  <2>2. pending'[f] = pending[f] \/ pending'[f].count = 0
    BY <1>7, RestoreFacts, FreshFacts
  <2>3. tick' # "compare" /\ ready' \subseteq ready
    BY <1>7, RestoreFacts DEF OrIdle
  <2> QED
    BY <1>1, <1>2, <2>1, <2>2, <2>3, QuietFrame
<1>8. CASE Hand
  <2>1. PICK r \in ready :
              /\ r[1] \in Files /\ r[2] \in Stamps /\ r = <<r[1], r[2]>>
              /\ \/ /\ queue' \in Seq(Tasks)
                    /\ Line' = Line \union {[path |-> r[1], sig |-> r[2]]}
                    /\ ready' = ready \ {r} /\ tick' = OrIdle(ready')
                    /\ UNCHANGED <<queued, looked>>
                 \/ /\ queued' = [queued EXCEPT ![r[1]] = IF @ = r[2] THEN 0 ELSE @]
                    /\ looked' = [Unseen EXCEPT ![r[1]] = r[2]]
                    /\ tick' = "restore"
                    /\ UNCHANGED <<queue, ready>>
    BY <1>8, HandFacts
  <2>2. UNCHANGED <<quiet, pending>> /\ tick' # "compare" /\ ready' \subseteq ready
    BY <1>8, <2>1 DEF Hand, OrIdle
  <2>3. disk[f] # 0 /\ Waits(f, disk[f])' => Waits(f, disk[f]) \/ Steady(f)
    <3>1. CASE Line' = Line \union {[path |-> r[1], sig |-> r[2]]}
      <4> SUFFICES ASSUME disk[f] # 0, NEW t \in Line', t.path = f, t.sig = disk[f], t \notin Line
                   PROVE  Steady(f)
        BY <1>1 DEF Waits
      <4>1. r = <<f, disk[f]>>
        BY <2>1, <3>1
      <4> QED
        BY <1>1, <4>1 DEF QuietFor
    <3>2. CASE UNCHANGED queue
      BY <1>2, <3>2
    <3> QED
      BY <2>1, <3>1, <3>2
  <2> QED
    BY <1>1, <2>2, <2>3, QuietFrame
<1> QED
  BY <1>3, <1>4, <1>5, <1>6, <1>7, <1>8 DEF Tracker

LEMMA QuietWorker ==
    ASSUME UploadTypeOK, Quiet, Worker, NEW f \in Files
    PROVE  QuietFor(f)'
<1> USE DEF tree, tracker, ticking, history
<1>1. QuietFor(f) /\ UNCHANGED <<quiet, ready, tick, looked>>
  BY DEF Quiet, Worker, Take, CheckDir, Check, Upload, Unlink, LooksEmpty, Sweep, Mark, Clear
<1>2. CASE Take
  <2>1. /\ Line = Line' \union {Head(queue)} /\ UNCHANGED <<disk, pending>>
        /\ worker' = [at |-> "check", path |-> Head(queue).path, sig |-> Head(queue).sig]
    BY <1>2, TakeLine DEF Take, UploadTypeOK, QueueOK
  <2>2. Waits(f, disk[f])' => Waits(f, disk[f])
    BY <2>1, WaitsSame
  <2>3. (At("check", f) /\ worker.sig = disk[f])' => Waits(f, disk[f])
    BY <2>1 DEF At, Waits
  <2>4. Steady(f) => Steady(f)'
    BY <1>1 DEF Steady
  <2> QED
    BY <1>1, <2>1, <2>2, <2>3, <2>4 DEF QuietFor
<1>3. CASE Worker /\ ~Take
  <2>1. UNCHANGED queue /\ worker'.at # "check"
    <3>1. \A step : Reaches(step) => worker'.at = step
      BY ReachesFacts
    <3>2. UNCHANGED queue
      BY <1>3 DEF Worker, CheckDir, Check, Upload, Unlink, LooksEmpty, Sweep, Mark, Clear
    <3>3. worker' = Idle
          \/ \E step \in {"upload", "unlink", "empty", "sweep", "mark", "clear"} : Reaches(step)
      BY <1>3 DEF Worker, CheckDir, Check, Upload, Unlink, LooksEmpty, Sweep, Mark, Clear
    <3> QED
      BY <3>1, <3>2, <3>3 DEF Idle
  <2>2. disk'[f] \in {disk[f], 0}
    BY <1>3 DEF Worker, CheckDir, Check, Upload, Unlink, LooksEmpty, Sweep, Mark, Clear, Loses
  <2>3. \/ pending'[f] = pending[f]
        \/ pending'[f].count = 0
    <3>1. (\E g \in Files : Submit(g)) => pending'[f] = pending[f] \/ pending'[f].count = 0
      BY SubmitFacts, FreshFacts
    <3>2. UNCHANGED pending \/ \E g \in Files : Submit(g)
      BY <1>3 DEF Worker, CheckDir, Check, Upload, Unlink, LooksEmpty, Sweep, Mark, Clear
    <3> QED
      BY <3>1, <3>2
  <2>4. CASE disk'[f] = disk[f]
    <3>1. Waits(f, disk[f])' => Waits(f, disk[f])
      BY <2>1, <2>4, LineSame, WaitsSame
    <3> QED
      BY <1>1, <2>1, <2>2, <2>3, <3>1, QuietFrame
  <2>5. CASE disk'[f] = 0
    BY <2>5 DEF QuietFor
  <2> QED
    BY <2>2, <2>4, <2>5
<1> QED
  BY <1>2, <1>3

LEMMA QuietStep ==
    ASSUME UploadTypeOK, Aged, Tick, Quiet, [UploadNext]_uploadVars
    PROVE  Quiet'
<1> SUFFICES ASSUME NEW f \in Files
             PROVE  QuietFor(f)'
  BY DEF Quiet
<1> USE DEF tree, tracker, ticking, history
<1>0. QuietFor(f)
  BY DEF Quiet
<1>1. CASE UNCHANGED <<disk, quiet, tick, looked, pending, ready, queue, worker>>
  <2>1. Waits(f, disk[f])' => Waits(f, disk[f])
    BY <1>1, LineSame, WaitsSame
  <2> QED
    BY <1>0, <1>1, <2>1, QuietFrame
<1>2. ASSUME NEW g \in Files, Write(g)
      PROVE  QuietFor(f)'
  <2>1. UNCHANGED <<tick, looked, pending, ready, queue, worker>>
    BY <1>2 DEF Write
  <2>2. CASE f = g
    <3>1. \A sig : Past(sig) => sig # disk'[f]
      BY <1>2, <2>2, NewStamp
    <3>2. looked[f] # disk'[f]
      <4>1. disk'[f] # None
        BY <1>2, <2>2, NewStamp, BoundsAreCounts, AbsentAssumption
           DEF UploadTypeOK, FolderOK
      <4> QED
        BY <3>1, <4>1 DEF Aged
    <3>3. pending[f] # None => pending[f].sig # disk'[f]
      BY <3>1 DEF Aged
    <3>4. <<f, disk'[f]>> \notin ready
      <4>1. <<f, disk'[f]>>[2] = disk'[f]
        OBVIOUS
      <4> QED
        BY <3>1, <4>1 DEF Aged
    <3>5. ~Waits(f, disk[f])'
      BY <2>1, <3>1, LineSame DEF Waits, Aged
    <3>6. worker.sig # disk'[f]
      BY <3>1 DEF Aged
    <3> QED
      BY <2>1, <3>2, <3>3, <3>4, <3>5, <3>6 DEF QuietFor
  <2>3. CASE f # g
    <3>1. disk'[f] = disk[f] /\ quiet'[f] = quiet[f]
      BY <1>2, <2>3, NewStamp DEF Write, UploadTypeOK, FolderOK
    <3>2. Waits(f, disk[f])' => Waits(f, disk[f])
      BY <2>1, <3>1, LineSame, WaitsSame
    <3> QED
      BY <1>0, <2>1, <3>1, <3>2, QuietFrame
  <2> QED
    BY <2>2, <2>3
<1>3. ASSUME NEW g \in Files, Remove(g)
      PROVE  QuietFor(f)'
  <2>1. UNCHANGED <<quiet, tick, looked, pending, ready, queue, worker>>
    BY <1>3 DEF Remove
  <2>2. disk'[f] \in {disk[f], 0}
    BY <1>3 DEF Remove, UploadTypeOK, FolderOK, Listings
  <2>3. CASE disk'[f] = 0
    BY <2>3 DEF QuietFor
  <2>4. CASE disk'[f] = disk[f]
    <3>1. Waits(f, disk[f])' => Waits(f, disk[f])
      BY <2>1, <2>4, LineSame, WaitsSame
    <3> QED
      BY <1>0, <2>1, <2>2, <3>1, QuietFrame
  <2> QED
    BY <2>2, <2>3, <2>4
<1>4. ASSUME NEW p \in Paths, Put(p)
      PROVE  QuietFor(f)'
  <2>1. [path |-> p, sig |-> 0] \in Tasks
    BY StampFacts DEF Tasks
  <2>2. Line' \subseteq Line \union {[path |-> p, sig |-> 0]}
    BY <1>4, <2>1, AppendLine, LineSame DEF Put, UploadTypeOK, QueueOK
  <2>3. UNCHANGED <<disk, quiet, tick, looked, pending, ready, worker>>
    BY <1>4 DEF Put
  <2>4. disk[f] # 0 /\ Waits(f, disk[f])' => Waits(f, disk[f])
    BY <2>2, <2>3 DEF Waits
  <2> QED
    BY <1>0, <2>3, <2>4, QuietFrame
<1>5. CASE Start
  <2>1. UNCHANGED <<disk, quiet, tick, looked, ready, queue, worker>>
        /\ pending'[f] \in {pending[f], None}
    BY <1>5 DEF Start
  <2>2. Waits(f, disk[f])' => Waits(f, disk[f])
    BY <2>1, LineSame, WaitsSame
  <2> QED
    BY <1>0, <2>1, <2>2, QuietFrame
<1>6. CASE Lifecycle \/ Stop
  BY <1>1, <1>6 DEF Lifecycle, WatcherEnds, StopTracker, StopQueue, Stopped, Stop
<1> QED
  BY <1>1, <1>2, <1>3, <1>4, <1>5, <1>6, QuietTracker, QuietWorker
     DEF UploadNext, MakeDir, TakeOver, Expire, uploadVars

\* Only a file that was looked at often enough goes from the look to the upload.
LEMMA StableStep ==
    ASSUME UploadTypeOK, Quiet, [UploadNext]_uploadVars
    PROVE  [\A f \in Files : At("check", f) /\ worker'.at = "upload"
                               => quiet[f] >= StableChecks]_uploadVars
<1> SUFFICES ASSUME NEW f \in Files, At("check", f), worker'.at = "upload"
             PROVE  quiet[f] >= StableChecks
  OBVIOUS
<1>1. worker' # worker
  BY DEF At
<1>2. Worker
  <2>1. CASE Tracker \/ TickRaises
    BY <1>1, <2>1 DEF Tracker, Look, Compare, List, Apply, Hand, Restore, TrackerLeaves,
                      TickRaises
  <2>2. CASE Lifecycle \/ Stop \/ Start
    BY <1>1, <2>2 DEF Lifecycle, WatcherEnds, StopTracker, StopQueue, Stopped, Stop, Start
  <2> QED
    BY <1>1, <2>1, <2>2
       DEF UploadNext, MakeDir, TakeOver, Write, Remove, Expire, Put, uploadVars
<1>3. Check(f)
  BY <1>2, BoundsAreCounts
     DEF Worker, Take, CheckDir, Check, Upload, Unlink, LooksEmpty, Sweep, Mark, Clear, At, Idle
<1>4. worker.sig # 0 /\ disk[f] = worker.sig
  <2>1. \A step : Reaches(step) => worker'.at = step
    BY ReachesFacts
  <2> QED
    BY <1>3, <2>1 DEF Check, Idle
<1> QED
  BY <1>4 DEF Quiet, QuietFor, Steady

------------------------------------------------------------------------------
(* Nobody forgets a file.                                                  *)

\* Who is going to look at f.
LEMMA RememberedBy ==
    ASSUME NEW f \in Files
    PROVE  Remembered(f) <=>
              \/ Ended(f)
              \/ {f, Dir} \intersect events # {}
              \/ \E t \in Line : t.path \in {f, Dir}
              \/ worker.at = "check" /\ worker.path \in {f, Dir}
              \/ pending[f] # None
              \/ \E s \in Stamps : <<f, s>> \in ready
              \/ scan # None /\ (tick = "apply" => failed)
              \/ tick = "apply" /\ looked[f] = disk[f]
              \/ worker.path = f /\ worker.at = "upload" /\ worker.sig = disk[f]
BY AwaitedByLine DEF Remembered

\* A file that is not submitted is known, and so somebody is going to look at it.
LEMMA KnownRemembered ==
    ASSUME UploadTypeOK, NEW f \in Files, KnownFor(f), disk[f] # 0, ~Submits(f, disk[f])
    PROVE  \/ Ended(f)
           \/ pending[f] # None
           \/ \E s \in Stamps : <<f, s>> \in ready
           \/ \E t \in Line : t.path = f
           \/ worker.path = f /\ worker.sig = disk[f] /\ worker.at \in {"check", "upload"}
<1>1. processed[f] = disk[f] \/ queued[f] = disk[f] \/ pending[f] # None
  BY DEF Submits
<1>2. disk[f] \in Stamps
  BY StampFacts DEF UploadTypeOK, FolderOK, Listings
<1>3. worker.at \in {"idle", "check", "upload", "unlink", "empty", "sweep", "mark", "clear"}
  BY DEF UploadTypeOK, QueueOK, Jobs
<1> QED
  BY <1>1, <1>2, <1>3 DEF KnownFor, Waits

LEMMA RememberedFrame ==
    ASSUME NEW f \in Files, Remembered(f),
           disk'[f] \in {disk[f], 0},
           disk'[f] # 0 =>
              /\ marks[f] \subseteq marks'[f]
              /\ pending[f] # None => pending'[f] # None
              /\ scan # None => scan' # None,
           events \subseteq events', Line \subseteq Line', ready \subseteq ready',
           UNCHANGED <<tick, looked, failed, worker>>
    PROVE  Remembered(f)'
<1>1. CASE disk'[f] = 0
  BY <1>1 DEF Remembered, Ended
<1>2. CASE disk'[f] = disk[f] /\ disk[f] # 0
  <2>1. Ended(f) => Ended(f)'
    BY <1>2 DEF Ended
  <2>2. Awaited(f) => Awaited(f)'
    <3>1. Awaited(f)' <=>
              \/ {f, Dir} \intersect events' # {}
              \/ \E t \in Line' : t.path \in {f, Dir}
              \/ worker'.at = "check" /\ worker'.path \in {f, Dir}
              \/ pending'[f] # None
              \/ \E s \in Stamps : <<f, s>> \in ready'
              \/ scan' # None /\ (tick' = "apply" => failed')
      BY DEF Awaited, Line
    <3> QED
      BY <1>2, <3>1, AwaitedByLine
  <2> QED
    BY <1>2, <2>1, <2>2 DEF Remembered
<1> QED
  BY <1>1, <1>2

\* RememberedBy for the state after a step.
LEMMA RememberedAfter ==
    ASSUME NEW f \in Files,
           \/ disk'[f] = 0
           \/ marks'[f] \intersect {"sent", "mistaken", "raced", "lapsed"} # {}
           \/ {f, Dir} \intersect events' # {}
           \/ \E t \in Line' : t.path \in {f, Dir}
           \/ worker'.at = "check" /\ worker'.path \in {f, Dir}
           \/ pending'[f] # None
           \/ \E s \in Stamps : <<f, s>> \in ready'
           \/ scan' # None /\ (tick' = "apply" => failed')
           \/ tick' = "apply" /\ looked'[f] = disk'[f]
           \/ worker'.path = f /\ worker'.at = "upload" /\ worker'.sig = disk'[f]
    PROVE  Remembered(f)'
BY DEF Remembered, Awaited, Ended, Line

LEMMA RememberedTracker ==
    ASSUME UploadTypeOK, Standing, Tick, Known, NothingForgotten, Tracker \/ TickRaises,
           NEW f \in Files, disk[f] # 0
    PROVE  Remembered(f)'
<1> USE DEF tree, watcher, tracker, ticking, history
<1>1. /\ KnownFor(f) /\ Remembered(f) /\ UNCHANGED <<disk, events, processed, worker>>
  BY DEF Known, NothingForgotten, Remembered, Tracker, Look, Compare, List, Apply, Hand, Restore,
         TrackerLeaves, TickRaises
<1>2. CASE Look
  <2>1. UNCHANGED <<marks, queue, pending, scan, ready>> /\ tick = "idle" /\ tick' = "compare"
    BY <1>2 DEF Look
  <2> QED
    BY <1>1, <2>1, LineSame, RememberedBy, RememberedAfter DEF Ended
<1>3. CASE Compare
  <2>1. UNCHANGED <<queue, scan>> /\ tick = "compare" /\ tick' # "apply" /\ ready = {}
    BY <1>3, CompareFacts DEF Compare, Tick
  <2>2. Ended(f) => marks'[f] \intersect {"sent", "mistaken", "raced", "lapsed"} # {}
    BY <1>3, CompareFacts DEF Ended
  <2>3. CASE pending[f] # None /\ pending'[f] = None
    <3>1. CASE <<f, looked[f]>> \in ready'
      <4>1. <<f, looked[f]>> \in Files \X Stamps
        BY <1>3, <3>1, CompareFacts
      <4> QED
        BY <3>1, <4>1, RememberedAfter
    <3>2. CASE looked[f] \in {0, processed[f]}
      <4>1. CASE disk[f] = looked[f]
        BY <1>1, <2>2, <3>2, <4>1, RememberedAfter DEF KnownFor
      <4>2. CASE disk[f] # looked[f]
        BY <1>3, <2>3, <3>2, <4>2, CompareFacts, RememberedAfter
      <4> QED
        BY <4>1, <4>2
    <3>3. pending'[f] # pending[f] /\ (looked[f] \in Stamps => pending'[f] # Seen(f))
      <4>1. looked[f] \in Stamps => Seen(f) # None
        <5>1. ASSUME looked[f] \in Stamps
              PROVE  Seen(f) \in Pendings
          <6>1. pending[f] \in Pendings /\ pending[f].count < StableChecks
            BY <2>3 DEF Tick, UploadTypeOK, TrackerOK
          <6>2. [pending[f] EXCEPT !.count = @ + 1] \in Pendings
            BY <6>1, BoundsAreCounts DEF Pendings
          <6>3. Fresh(looked[f]) \in Pendings
            BY <5>1, StampFacts
          <6> QED
            BY <6>2, <6>3 DEF Seen
        <5> QED
          BY <5>1, AbsentAssumption
      <4> QED
        BY <2>3, <4>1
    <3>4. <<f, looked[f]>> \in ready' \/ looked[f] \in {0, processed[f]}
      BY <1>3, <2>3, <3>3, CompareFacts
    <3> QED
      BY <3>1, <3>2, <3>4
  <2>4. CASE pending[f] # None => pending'[f] # None
    BY <1>1, <2>1, <2>2, <2>4, LineSame, RememberedBy, RememberedAfter
  <2> QED
    BY <2>3, <2>4
<1>4. CASE List
  <2>1. scan # None /\ UNCHANGED scan /\ tick' = "apply"
    BY <1>4 DEF List, Tick
  <2>2. dir # "none"
    BY DEF Standing, Nothing
  <2>3. failed' \/ looked' = disk
    BY <1>4, <2>2 DEF List
  <2> QED
    BY <1>1, <2>1, <2>3, RememberedAfter
<1>5. CASE Apply
  <2>1. UNCHANGED <<marks, queue, queued, ready>> /\ tick = "apply" /\ tick' # "apply"
    BY <1>5, ApplyFacts DEF Apply
  <2>2. pending[f] # None => pending'[f] # None
    BY <1>5, ApplyFacts
  <2>3. disk[f] # None
    BY StampFacts DEF UploadTypeOK, FolderOK, Listings
  <2>4. failed => scan' # None
    <3>1. failed => looked \in Listings
      BY DEF Tick
    <3>2. looked \in Listings => looked # Unseen
      BY StampFacts, UnseenFacts DEF Listings
    <3> QED
      BY <1>5, <3>1, <3>2, ApplyFacts
  <2>5. CASE looked[f] = disk[f]
    <3>1. looked # Unseen /\ looked[f] # 0
      BY <2>3, <2>5, UnseenFacts
    <3>2. Submits(f, disk[f]) => pending'[f] # None
      BY <1>5, <2>5, <3>1, ApplyFacts
    <3> QED
      BY <1>1, <2>1, <2>2, <3>2, LineSame, KnownRemembered, RememberedAfter DEF Ended
  <2>6. CASE looked[f] # disk[f]
    BY <1>1, <2>1, <2>2, <2>4, <2>6, LineSame, RememberedBy, RememberedAfter DEF Ended
  <2> QED
    BY <2>5, <2>6
<1>6. CASE TickRaises
  <2>1. UNCHANGED <<queue, pending, scan>> /\ tick' = "idle" /\ GivesUp({r[1] : r \in ready})
    BY <1>6 DEF TickRaises
  <2>2. marks[f] \subseteq marks'[f] /\ (f \in {r[1] : r \in ready} => "lapsed" \in marks'[f])
    BY <2>1, GivesUpKeeps
  <2>3. (\E sig \in Stamps : <<f, sig>> \in ready) => "lapsed" \in marks'[f]
    <3>1. ASSUME NEW sig \in Stamps, <<f, sig>> \in ready
          PROVE  f \in {r[1] : r \in ready}
      <4>1. <<f, sig>>[1] = f
        OBVIOUS
      <4> QED
        BY <3>1, <4>1
    <3> QED
      BY <2>2, <3>1
  <2>4. CASE tick = "apply"
    BY <2>1, <2>4, RememberedAfter DEF Tick
  <2> QED
    BY <1>1, <2>1, <2>2, <2>3, <2>4, LineSame, RememberedBy, RememberedAfter DEF Ended
<1>7. CASE Hand
  <2>1. UNCHANGED <<pending, scan, marks>> /\ tick = "hand" /\ tick' # "apply"
    BY <1>7 DEF Hand, OrIdle
  <2>2. PICK r \in ready :
              /\ r[1] \in Files /\ r[2] \in Stamps /\ r = <<r[1], r[2]>>
              /\ \/ /\ queue' \in Seq(Tasks)
                    /\ Line' = Line \union {[path |-> r[1], sig |-> r[2]]}
                    /\ ready' = ready \ {r} /\ tick' = OrIdle(ready')
                    /\ UNCHANGED <<queued, looked>>
                 \/ /\ queued' = [queued EXCEPT ![r[1]] = IF @ = r[2] THEN 0 ELSE @]
                    /\ looked' = [Unseen EXCEPT ![r[1]] = r[2]]
                    /\ tick' = "restore"
                    /\ UNCHANGED <<queue, ready>>
    BY <1>7, HandFacts
  <2>3. Line \subseteq Line'
    BY <2>2, LineSame
  <2>4. (\E s \in Stamps : <<f, s>> \in ready) =>
           (\E s \in Stamps : <<f, s>> \in ready') \/ \E t \in Line' : t.path = f
    <3> SUFFICES ASSUME NEW s \in Stamps, <<f, s>> \in ready, <<f, s>> \notin ready'
                 PROVE  \E t \in Line' : t.path = f
      OBVIOUS
    <3>1. <<f, s>> = r /\ Line' = Line \union {[path |-> r[1], sig |-> r[2]]}
      BY <2>2
    <3>2. r[1] = f
      BY <3>1
    <3>3. [path |-> r[1], sig |-> r[2]] \in Line'
      BY <3>1
    <3> QED
      BY <3>2, <3>3
  <2> QED
    BY <1>1, <2>1, <2>3, <2>4, RememberedBy, RememberedAfter DEF Ended
<1>8. CASE Restore
  <2>1. UNCHANGED <<queue, scan>> /\ tick = "restore"
    BY <1>8 DEF Restore
  <2>2. tick' # "apply"
    BY <1>8, RestoreFacts DEF OrIdle
  <2>3. PICK g \in Files :
              /\ ready' = {r \in ready : r[1] # g}
              /\ \A h \in Files : pending'[h] = pending[h] \/ pending[h] = None
              /\ \A h \in Files : marks'[h] \in {marks[h], marks[h] \union {"lapsed"}}
              /\ disk[g] # 0 /\ processed[g] # disk[g] =>
                    pending'[g] # None \/ "lapsed" \in marks'[g]
    BY <1>8, RestoreFacts
  <2>6. marks[f] \subseteq marks'[f]
    <3>1. marks'[f] \in {marks[f], marks[f] \union {"lapsed"}}
      BY <2>3
    <3> QED
      BY <3>1
  <2>4. CASE f = g
    <3>1. processed[f] = disk[f] => Ended(f)
      BY <1>1 DEF KnownFor
    <3> QED
      BY <1>1, <2>1, <2>3, <2>4, <2>6, <3>1, RememberedAfter DEF Ended
  <2>5. CASE f # g
    <3>1. \A s \in Stamps : <<f, s>> \in ready => <<f, s>> \in ready'
      BY <2>3, <2>5
    <3> QED
      BY <1>1, <2>1, <2>2, <2>3, <2>6, <3>1, LineSame, RememberedBy, RememberedAfter DEF Ended
  <2> QED
    BY <2>4, <2>5
<1>9. CASE TrackerLeaves
  BY <1>1, <1>9, LineSame, RememberedFrame DEF TrackerLeaves
<1> QED
  BY <1>2, <1>3, <1>4, <1>5, <1>6, <1>7, <1>8, <1>9 DEF Tracker

LEMMA RememberedWorker ==
    ASSUME UploadTypeOK, Standing, Tick, Job, Known, NothingForgotten, Worker,
           NEW f \in Files, disk[f] # 0
    PROVE  Remembered(f)'
<1> USE DEF tree, watcher, tracker, ticking, history
<1>1. /\ KnownFor(f) /\ Remembered(f) /\ UNCHANGED <<events, ready, tick, looked, failed>>
  BY DEF Known, NothingForgotten, Remembered, Worker, Take, CheckDir, Check, Upload, Unlink,
         LooksEmpty, Sweep, Mark, Clear
<1>2. CASE Take
  <2>1. /\ Line = Line' \union {Head(queue)} /\ worker.at = "idle"
        /\ UNCHANGED <<disk, marks, pending, scan>>
        /\ worker' = [at |-> "check", path |-> Head(queue).path, sig |-> Head(queue).sig]
    BY <1>2, TakeLine DEF Take, UploadTypeOK, QueueOK
  <2>2. (\E t \in Line : t.path \in {f, Dir}) =>
           \/ \E t \in Line' : t.path \in {f, Dir}
           \/ worker'.at = "check" /\ worker'.path \in {f, Dir}
    BY <2>1
  <2> QED
    BY <1>1, <2>1, <2>2, RememberedBy, RememberedAfter DEF Ended
<1>3. CASE CheckDir
  <2>1. /\ UNCHANGED <<disk, queue, pending>> /\ dir # "none"
        /\ scan' = IF dir # "none" /\ scan = None
                   THEN [seen |-> None, count |-> 0, found |-> FALSE] ELSE scan
        /\ GivesUp({g \in Files : scan # None /\ tick = "apply" /\ looked[g] # disk[g]})
    BY <1>3 DEF CheckDir, Standing, Nothing
  <2>2. [seen |-> None, count |-> 0, found |-> FALSE] # None
    <3>1. [seen |-> None, count |-> 0, found |-> FALSE] \in Scans
      BY BoundsAreCounts DEF Scans
    <3> QED
      BY <3>1, AbsentAssumption
  <2>3. scan' # None
    BY <2>1, <2>2
  <2>4. CASE tick = "apply" /\ looked[f] # disk[f]
    <3>1. scan # None
      BY <2>4 DEF Tick
    <3>2. "lapsed" \in marks'[f]
      BY <2>1, <2>4, <3>1, GivesUpKeeps
    <3> QED
      BY <3>2, RememberedAfter
  <2>5. CASE tick # "apply" \/ looked[f] = disk[f]
    BY <1>1, <2>1, <2>3, <2>5, RememberedAfter
  <2> QED
    BY <2>4, <2>5
<1>4. ASSUME NEW g \in Files, worker.path = g, UNCHANGED <<queue, scan>>,
             f # g, disk'[f] = disk[f], marks[f] \subseteq marks'[f],
             pending[f] # None => pending'[f] # None
      PROVE  Remembered(f)'
  <2>1. worker.path \notin {f, Dir}
    BY <1>4, BoundsAreCounts
  <2> QED
    BY <1>1, <1>4, <2>1, LineSame, RememberedBy, RememberedAfter DEF Ended
<1>5. ASSUME NEW g \in Files, Check(g)
      PROVE  Remembered(f)'
  <2>1. worker.at = "check" /\ worker.path = g /\ UNCHANGED <<disk, queue, scan>>
        /\ marks[f] \subseteq marks'[f]
    BY <1>5, GivesUpKeeps DEF Check, At
  <2>2. pending[f] # None => pending'[f] # None
    BY <1>5, SubmitFacts DEF Check
  <2>3. CASE f # g
    BY <1>4, <2>1, <2>2, <2>3
  <2>4. CASE f = g /\ Submit(f) /\ worker.sig # disk[f]
    <3>1. Submits(f, disk[f]) => pending'[f] # None
      BY <2>4, SubmitFacts
    <3> QED
      BY <1>1, <2>1, <2>2, <2>4, <3>1, LineSame, KnownRemembered, RememberedAfter DEF Ended
  <2>5. CASE f = g /\ disk[f] = worker.sig
             /\ Reaches(IF processed[f] = worker.sig THEN "clear" ELSE "upload")
    <3>1. CASE processed[f] = worker.sig
      BY <1>1, <2>1, <2>5, <3>1, RememberedAfter DEF KnownFor, Ended
    <3>2. CASE processed[f] # worker.sig
      BY <2>1, <2>5, <3>2, ReachesFacts, RememberedAfter
    <3> QED
      BY <3>1, <3>2
  <2>6. CASE f = g /\ GivesUp({g})
    BY <2>6, GivesUpKeeps, RememberedAfter
  <2> QED
    BY <1>5, <2>3, <2>4, <2>5, <2>6 DEF Check
<1>6. ASSUME NEW g \in Files, Upload(g)
      PROVE  Remembered(f)'
  <2>1. worker.path = g /\ UNCHANGED <<disk, queue, scan, pending>>
    BY <1>6 DEF Upload, At
  <2>2. CASE f = g
    <3>1. "lapsed" \in marks'[f] \/ "sent" \in marks'[f] \/ "mistaken" \in marks'[f]
      BY <1>6, <2>2, UploadFacts
    <3> QED
      BY <3>1, RememberedAfter
  <2>3. CASE f # g
    <3>1. marks[f] \subseteq marks'[f]
      BY <1>6, <2>3, UploadFacts
    <3> QED
      BY <1>4, <2>1, <2>3, <3>1
  <2> QED
    BY <2>2, <2>3
<1>7. ASSUME NEW g \in Files, Unlink(g)
      PROVE  Remembered(f)'
  <2>1. worker.path = g /\ UNCHANGED <<queue, scan, pending>>
    BY <1>7 DEF Unlink, At
  <2>2. CASE f # g
    <3>1. Loses({g}) => disk'[f] = disk[f] /\ marks'[f] = marks[f]
      BY <2>2, LosesKeeps
    <3>3. disk'[f] = disk[f] /\ marks'[f] = marks[f]
      BY <1>7, <2>2, <3>1, UnlinkFacts
    <3> QED
      BY <1>4, <2>1, <2>2, <3>3
  <2>3. CASE f = g /\ Loses({g})
    BY <2>3, LosesKeeps, RememberedAfter
  <2>4. CASE f = g /\ ~Loses({g})
    <3>1. disk'[f] = disk[f] /\ worker.at = "unlink" /\ marks[f] \subseteq marks'[f]
      BY <1>7, <2>4, UnlinkFacts DEF Unlink, At
    <3> QED
      BY <1>1, <2>1, <3>1, LineSame, RememberedBy, RememberedAfter DEF Ended
  <2> QED
    BY <2>2, <2>3, <2>4
<1>8. ASSUME NEW g \in Files, Sweep(g)
      PROVE  Remembered(f)'
  <2>1. worker.at = "sweep" /\ UNCHANGED <<queue, scan, pending>>
    BY <1>8 DEF Sweep, At
  <2>2. disk'[f] = 0 \/ (disk'[f] = disk[f] /\ marks'[f] = marks[f])
    BY <1>8, SweepFacts, LosesKeeps
  <2> QED
    BY <1>1, <2>1, <2>2, LineSame, RememberedBy, RememberedAfter DEF Ended
<1>9. ASSUME NEW g \in Files, LooksEmpty(g) \/ Mark(g) \/ Clear(g)
      PROVE  Remembered(f)'
  <2>1. worker.at \notin {"check", "upload"} /\ UNCHANGED <<disk, marks, queue, scan, pending>>
    BY <1>9 DEF LooksEmpty, Mark, Clear, At
  <2> QED
    BY <1>1, <2>1, LineSame, RememberedBy, RememberedAfter DEF Ended
<1> QED
  BY <1>2, <1>3, <1>5, <1>6, <1>7, <1>8, <1>9 DEF Worker

LEMMA RememberedStep ==
    ASSUME UploadTypeOK, Standing, Aged, Tick, Job, Known, NothingForgotten,
           [UploadNext]_uploadVars
    PROVE  NothingForgotten'
<1> SUFFICES ASSUME NEW f \in Files
             PROVE  Remembered(f)'
  BY DEF NothingForgotten, Remembered
<1> USE DEF tree, watcher, tracker, ticking, history
<1>0. Remembered(f)
  BY DEF NothingForgotten, Remembered
<1>1. CASE UNCHANGED <<disk, marks, events, queue, pending, scan, ready, tick, looked, failed,
                       worker>>
  BY <1>0, <1>1, LineSame, RememberedFrame
<1>2. ASSUME NEW g \in Files, Write(g)
      PROVE  Remembered(f)'
  <2>1. UNCHANGED <<queue, pending, scan, ready, tick, looked, failed, worker>>
        /\ events \subseteq events'
    BY <1>2 DEF Write
  <2>2. CASE f = g
    <3>1. \/ marks'[f] = {"raced"} \/ f \in events'
          \/ Awaited(f)
      BY <1>2, <2>2 DEF Write, UploadTypeOK, HistoryOK
    <3>2. Awaited(f) => Remembered(f)'
      BY <2>1, LineSame, AwaitedByLine, RememberedAfter
    <3> QED
      BY <3>1, <3>2, RememberedAfter
  <2>3. CASE f # g
    <3>1. disk'[f] = disk[f] /\ marks'[f] = marks[f]
      BY <1>2, <2>3, NewStamp
    <3> QED
      BY <1>0, <2>1, <3>1, LineSame, RememberedFrame
  <2> QED
    BY <2>2, <2>3
<1>3. ASSUME NEW g \in Files, Remove(g) \/ Expire(g)
      PROVE  Remembered(f)'
  <2>1. UNCHANGED <<events, queue, pending, scan, ready, tick, looked, failed, worker>>
    BY <1>3 DEF Remove, Expire
  <2>2. disk'[f] \in {disk[f], 0} /\ (disk'[f] # 0 => marks[f] \subseteq marks'[f])
    BY <1>3 DEF Remove, Expire, UploadTypeOK, FolderOK, HistoryOK, Listings
  <2> QED
    BY <1>0, <2>1, <2>2, LineSame, RememberedFrame
<1>4. ASSUME NEW p \in Paths, Put(p)
      PROVE  Remembered(f)'
  <2>1. UNCHANGED <<disk, pending, scan, ready, tick, looked, failed, worker>>
        /\ events' = events \ {p}
    BY <1>4 DEF Put
  <2>2. marks[f] \subseteq marks'[f]
    BY <1>4, GivesUpKeeps DEF Put
  <2>3. [path |-> p, sig |-> 0] \in Tasks
    BY StampFacts DEF Tasks
  <2>4. Line \subseteq Line'
    BY <1>4, <2>3, AppendLine, LineSame DEF Put, UploadTypeOK, QueueOK
  <2>5. CASE p \in {f, Dir} /\ disk[f] # 0
    <3>1. CASE admits
      <4>1. [path |-> p, sig |-> 0] \in Line'
        BY <1>4, <2>3, <3>1, AppendLine DEF Put, UploadTypeOK, QueueOK
      <4> QED
        BY <2>5, <4>1, RememberedAfter
    <3>2. CASE ~admits
      <4>1. GivesUp(IF p = Dir THEN Files ELSE {p})
        BY <1>4, <3>2 DEF Put
      <4>2. "lapsed" \in marks'[f]
        BY <2>5, <4>1, GivesUpKeeps
      <4> QED
        BY <4>2, RememberedAfter
    <3> QED
      BY <3>1, <3>2
  <2>6. CASE p \notin {f, Dir} /\ disk[f] # 0
    <3>1. {f, Dir} \intersect events # {} => {f, Dir} \intersect events' # {}
      BY <2>1, <2>6
    <3> QED
      BY <1>0, <2>1, <2>2, <2>4, <3>1, RememberedBy, RememberedAfter DEF Ended
  <2> QED
    BY <2>1, <2>5, <2>6, RememberedAfter
<1>5. CASE MakeDir
  BY <1>0, <1>5, LineSame, RememberedFrame DEF MakeDir
<1>6. CASE WatcherEnds
  <2>1. UNCHANGED <<disk, queue, pending, scan, ready, tick, looked, failed, worker>>
        /\ GivesUp(IF Dir \in events THEN Files ELSE events)
    BY <1>6 DEF WatcherEnds
  <2>2. marks[f] \subseteq marks'[f]
    BY <2>1, GivesUpKeeps
  <2>3. {f, Dir} \intersect events # {} /\ disk[f] # 0 => "lapsed" \in marks'[f]
    BY <2>1, GivesUpKeeps
  <2> QED
    BY <1>0, <2>1, <2>2, <2>3, LineSame, RememberedBy, RememberedAfter DEF Ended
<1>7. CASE Start
  <2>1. UNCHANGED <<disk, marks, events, queue, ready, tick, looked, failed, worker>>
    BY <1>7 DEF Start
  <2>2. disk[f] # 0 => pending'[f] = pending[f] /\ scan' = scan
    BY <1>7 DEF Start, Standing, Nothing
  <2> QED
    BY <1>0, <2>1, <2>2, LineSame, RememberedFrame
<1>8. CASE StopTracker \/ StopQueue \/ Stopped \/ Stop
  BY <1>1, <1>8 DEF StopTracker, StopQueue, Stopped, Stop
<1>9. CASE disk'[f] = 0
  BY <1>9, RememberedAfter
<1>10. CASE (Tracker \/ TickRaises \/ Worker) /\ disk'[f] # 0
  <2>1. disk[f] # 0
    BY <1>10 DEF Tracker, Look, Compare, List, Apply, Hand, Restore, TrackerLeaves, TickRaises,
                 Worker, Take, CheckDir, Check, Upload, Unlink, LooksEmpty, Sweep, Mark, Clear,
                 Loses
  <2> QED
    BY <1>10, <2>1, RememberedTracker, RememberedWorker
<1> QED
  BY <1>1, <1>2, <1>3, <1>4, <1>5, <1>6, <1>7, <1>8, <1>9, <1>10
     DEF UploadNext, Lifecycle, TakeOver, uploadVars

------------------------------------------------------------------------------
(* The specification.                                                      *)

LEMMA UploadStart ==
    ASSUME UploadInit
    PROVE  UploadInv
<1> USE DEF UploadInit
<1>1. Idle \in Jobs /\ Idle.at = "idle" /\ Idle.sig = 0
  BY StampFacts DEF Idle, Jobs, Paths
<1>2. Nothing \in Listings /\ \A f \in Files : Nothing[f] = 0
  BY StampFacts DEF Nothing, Listings
<1>3. UploadTypeOK
  <2>1. FolderOK /\ ServiceOK
    BY <1>2, BoundsAreCounts DEF FolderOK, ServiceOK, Nothing
  <2>2. QueueOK /\ TrackerOK /\ HistoryOK
    BY <1>1, <1>2 DEF QueueOK, TrackerOK, HistoryOK
  <2>3. TickOK
    BY DEF TickOK, Unseen
  <2> QED
    BY <2>1, <2>2, <2>3 DEF UploadTypeOK
<1>4. Line = {}
  BY DEF Line
<1>5. Aged
  BY <1>1, <1>2, <1>3, <1>4, PastZero, UnseenFacts DEF Aged
<1>6. Standing /\ Tick /\ Job
  BY <1>1 DEF Standing, Tick, Job
<1>7. Known /\ Sent /\ Quiet /\ NothingForgotten
  BY <1>2 DEF Known, KnownFor, Sent, SentFor, Quiet, QuietFor, NothingForgotten, Ended
<1> QED
  BY <1>3, <1>5, <1>6, <1>7 DEF UploadInv

LEMMA UploadStep ==
    ASSUME UploadInv, [UploadNext]_uploadVars
    PROVE  UploadInv'
<1>1. /\ UploadTypeOK /\ Aged /\ Standing /\ Tick /\ Job /\ Known /\ Sent /\ Quiet
      /\ wrong = {} /\ NothingForgotten
  BY DEF UploadInv
<1>2. UploadTypeOK' /\ Aged' /\ Standing' /\ Tick' /\ Job'
  BY <1>1, UploadTypeStep, AgedStep, StandingStep, TickStep, JobStep
<1>3. Known' /\ Sent' /\ Quiet' /\ wrong' = {} /\ NothingForgotten'
  BY <1>1, KnownStep, SentStep, QuietStep, WrongStep, RememberedStep
<1> QED
  BY <1>2, <1>3 DEF UploadInv

LEMMA UploadInvariant == UploadSpec => []UploadInv
<1>1. UploadInit => UploadInv
  BY UploadStart
<1>2. UploadInv /\ [UploadNext]_uploadVars => UploadInv'
  BY UploadStep
<1> QED
  BY <1>1, <1>2, PTL DEF UploadSpec

\* In every order of scans, looks, uploads, writes, stops and starts (helper/monitor,
\* service/__init__.py) the worker deletes nothing it has not uploaded, unless it was
\* written after its last look, and uploads nothing twice without a reason.
THEOREM UploadNothingWrong == UploadSpec => []NothingWrong
<1>1. UploadInv => NothingWrong
  BY DEF UploadInv, NothingWrong
<1> QED
  BY <1>1, UploadInvariant, PTL

\* A file of the monitored folder has been uploaded or given up, or event, queue,
\* tracker, scan or worker still hold it: a hand-over between them (process_file_change,
\* _tick, _restore_pending_after_enqueue_failure) forgets no file.
THEOREM UploadNothingForgotten == UploadSpec => []NothingForgotten
<1>1. UploadInv => NothingForgotten
  BY DEF UploadInv
<1> QED
  BY <1>1, UploadInvariant, PTL

\* handle_file() goes on to the upload only with a file that DirectoryStabilityTracker
\* has looked at DIRECTORY_STABLE_CHECKS times since it was last written.
THEOREM UploadsAreStable == UploadSpec => UploadStartsStable
<1>1. UploadInv /\ [UploadNext]_uploadVars =>
         [\A f \in Files : At("check", f) /\ worker'.at = "upload"
                             => quiet[f] >= StableChecks]_uploadVars
  BY StableStep DEF UploadInv
<1> QED
  BY <1>1, UploadInvariant, PTL DEF UploadSpec, UploadStartsStable
=============================================================================
