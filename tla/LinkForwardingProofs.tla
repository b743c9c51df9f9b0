------------------------ MODULE LinkForwardingProofs ------------------------
(***************************************************************************)
(* What LinkForwarding promises of messages, deletions and the queue, for  *)
(* any files, groups, targets and limits: a link is sent to a target once  *)
(* (SentOnce), a deletion that may have happened is not requested again    *)
(* (DeleteOnce), none is requested before every target has the link        *)
(* (DeletedMeansTold), and a file that was queued keeps a way to be sent   *)
(* (OnlyStraysAreForgotten).                                               *)
(*                                                                         *)
(* None of the first three depends on the queue, the batches or the        *)
(* retries: the proof looks at records.json, at the copy of it the worker  *)
(* holds while it sends and deletes, at the copy delete_source holds, and  *)
(* at the history of what was sent, requested and undone (IInv).           *)
(*                                                                         *)
(* The last is about the queue: every operation on it leaves a sane memory *)
(* (Sane) and moves on (Onward): what waited still waits, and a batch      *)
(* expects nothing new but what has just been queued for it.  With that,   *)
(* each step of the worker keeps every file in a place from where it goes  *)
(* on (QInv).                                                              *)
(***************************************************************************)
EXTENDS LinkForwarding, FiniteSetTheorems, SequenceTheorems, WellFoundedInduction, TLAPS

(* The types.                                                              *)

Steps == {"idle", "look", "hash", "send", "sent", "delete", "ask", "asked", "close"}
Fields == {"pc", "mode", "batch", "group", "items", "chunk", "target", "left", "file",
           "answer", "copy"}
Columns == {"ver", "sent", "done", "state", "asks", "checks"}

IsRecord(r) ==
    /\ DOMAIN r = Columns
    /\ r.ver \in Nat /\ r.sent \subseteq Targets /\ r.done \in BOOLEAN

AreRecords(rs) == DOMAIN rs = Files /\ \A f \in Files : IsRecord(rs[f])

\* The worker is beyond the reading of the file it took, or flushes a group.
HasCopy == worker.pc \notin {"idle", "look"}

Worker(w) ==
    /\ DOMAIN w = Fields
    /\ w.pc \in Steps /\ w.target \in Nat \ {0}
    /\ w.chunk \subseteq Files /\ w.left \subseteq Files /\ w.file \subseteq w.left
    /\ DOMAIN w.items \subseteq Files

Types ==
    /\ cloud \in [Files -> Nat]
    /\ AreRecords(records)
    /\ Worker(worker)
    /\ HasCopy => AreRecords(worker.copy)
    /\ DOMAIN page = {"on", "excludes", "copy"}
    /\ page.on => AreRecords(page.copy)
    /\ told \subseteq Files \X Nat \X Targets
    /\ asked \subseteq Files
------------------------------------------------------------------------------
(* The inductive invariant.                                                *)

\* What records say was sent was sent, and they are not of a later version
\* than the file.
Sound(rs, messages, files) == \A f \in Files :
    /\ rs[f].done => rs[f].sent = Targets
    /\ \A t \in rs[f].sent : <<f, rs[f].ver, t>> \in messages
    /\ files[f] # 0 => rs[f].ver <= files[f]

AllSound ==
    /\ Sound(records, told, cloud)
    /\ HasCopy => Sound(worker.copy, told, cloud)
    /\ page.on => Sound(page.copy, told, cloud)

\* Only delete_source writes records.json beside a worker that holds a copy.
Agree == HasCopy => \A f \in Files \ erased : worker.copy[f] = records[f]

\* Records remember the messages that went out, unless a later version of the
\* file has taken the place of the record.
Remembers(rs, messages) == \A f \in Files, v \in Nat, t \in Targets :
    <<f, v, t>> \in messages => rs[f].ver >= v /\ (rs[f].ver = v => t \in rs[f].sent)

Remembered ==
    /\ Remembers(records, (told \ unmarked) \ InGap)
    /\ HasCopy => Remembers(worker.copy, (told \ unmarked) \ InGap)

\* After a message, what is still to be marked has gone out.
Gap == (worker.pc = "sent" => worker.target \in Targets) /\ InGap \subseteq told

\* The deletions that were requested and may have happened.
Doubtful == asked \ erased

\* records.json says so.
OnRecord == \A f \in Doubtful : Untouchable(f)

\* The file being hashed is not the one on record, and not deleted.
Hashing == worker.pc = "hash" => \A f \in Files, v \in Versions :
    At(f, v) => f \notin Doubtful /\ worker.copy[f].ver # v

\* The files to delete were sent, and their deletion was not requested before; the
\* one being deleted is on record as such before the request.
Deletions ==
    /\ worker.pc \in {"delete", "ask", "asked"} => \A f \in worker.left :
        /\ worker.copy[f].done
        /\ f \in Doubtful => worker.pc = "asked" /\ f \in worker.file /\ worker.answer # "failed"
        /\ f \in worker.file => worker.copy[f].state = "inflight"
    /\ worker.pc \notin {"ask", "asked"} => worker.file = {}
    /\ worker.pc = "asked" => worker.answer \in {"deleted", "failed", "uncertain"}

IInv ==
    /\ Types
    /\ AllSound /\ Agree /\ Remembered /\ Gap
    /\ OnRecord /\ Hashing /\ Deletions
------------------------------------------------------------------------------
(* The smallest target left.                                               *)

LEMMA MinIsLeast ==
    ASSUME NEW S \in SUBSET Nat, S # {}
    PROVE  Min(S) \in S
<1>1. PICK x \in S : \A y \in S : ~(<<y, x>> \in OpToRel(<, Nat))
  BY NatLessThanWellFounded, WFMin, Zenon
<1>2. \A y \in S : ~(y < x)
  BY <1>1 DEF OpToRel
<1>3. \A y \in S : x <= y
  BY <1>2
<1> QED
  BY <1>3, Zenon DEF Min

\* The target that is served next is one that is left.
LEMMA NextTarget ==
    ASSUME Types, TargetsLeft # {}
    PROVE  Min(TargetsLeft) \in Targets \cap Nat
<1>1. TargetsLeft \in SUBSET Nat
  BY Parameters DEF TargetsLeft, Types, Worker
<1>2. Min(TargetsLeft) \in TargetsLeft
  BY <1>1, MinIsLeast
<1>3. \A t \in TargetsLeft : t \in Targets
  <2> SUFFICES ASSUME NEW t \in TargetsLeft PROVE t \in Targets
    OBVIOUS
  <2>1. t \in worker.target .. TargetCount /\ Unsent(t) # {}
    BY DEF TargetsLeft
  <2>2. worker.target \in Nat \ {0} /\ TargetCount \in Nat
    BY Parameters DEF Types, Worker
  <2> QED
    BY <2>1, <2>2 DEF Targets
<1> QED
  BY <1>1, <1>2, <1>3
------------------------------------------------------------------------------
(* What the worker does after a file or a group.                           *)

\* It rests, or it sends, or closes a group, with `rs` as its copy of the records.
Begins(w, rs) ==
    /\ Worker(w)
    /\ w.pc \in {"idle", "send", "close"} /\ w.file = {}
    /\ w.pc # "idle" => w.copy = rs

\* Whatever the worker turns to, it begins with neither file nor message in hand.
LEMMA FreeIs ==
    /\ DOMAIN Free = Fields
    /\ Free.pc = "idle" /\ Free.items = <<>> /\ Free.chunk = {} /\ Free.target = 1
    /\ Free.left = {} /\ Free.file = {}
BY Zenon DEF Free, Fields

LEMMA FreeBegins == ASSUME NEW rs PROVE Begins(Free, rs)
BY FreeIs DEF Begins, Worker, Steps

LEMMA FlushingBegins ==
    ASSUME NEW m, NEW id, NEW g, NEW rs
    PROVE  Begins(Flushing(m, id, g, rs), rs)
<1> DEFINE c == Batch(m, id).context
           items == Restrict(c, {f \in Files : c[f] # 0 /\ group[f] = g /\ rs[f].ver # 0})
           chunk == {f \in DOMAIN items : ~rs[f].done}
<1>1. DOMAIN items \subseteq Files
  BY DEF Restrict
<1>2. chunk \subseteq Files
  BY <1>1
<1> HIDE DEF c, items, chunk
<1>3. PICK pc \in {"close", "send"} : Flushing(m, id, g, rs) =
        [Free EXCEPT !.pc = pc, !.mode = "flush", !.batch = id, !.group = g, !.items = items,
                     !.chunk = chunk, !.copy = rs]
  BY Zenon DEF Flushing, c, items, chunk
<1> QED
  BY <1>1, <1>2, <1>3, FreeIs DEF Begins, Worker, Fields, Steps

LEMMA FlushBegins ==
    ASSUME NEW m, NEW id, NEW rs, Flush(m, id, rs)
    PROVE  Begins(worker', rs)
BY FlushingBegins DEF Flush

LEMMA FinishBegins ==
    ASSUME NEW m, NEW f, NEW rs, Finish(m, f, rs)
    PROVE  Begins(worker', rs)
BY FlushBegins, FreeBegins DEF Finish

LEMMA HandOverBegins ==
    ASSUME Types, worker.file = {}, NEW f \in Files, NEW v, NEW rs, HandOver(f, v, rs)
    PROVE  Begins(worker', rs)
<1>1. CASE worker.batch \in Ids(mem)
  BY <1>1, FinishBegins DEF HandOver
<1>2. CASE worker.batch \notin Ids(mem)
  <2>1. PICK chunk \in SUBSET Files :
          worker' = [worker EXCEPT !.pc = "send", !.copy = rs, !.chunk = chunk]
    BY <1>2 DEF HandOver
  <2> QED
    BY <2>1 DEF Begins, Types, Worker, Fields, Steps
<1> QED
  BY <1>1, <1>2
------------------------------------------------------------------------------
(* Steps alike for the invariant.                                          *)

\* The cloud's files only get newer, or go.
LaterCloud ==
    /\ cloud' \in [Files -> Nat]
    /\ \A f \in Files : cloud'[f] # 0 => cloud[f] # 0 /\ cloud[f] <= cloud'[f]

\* What was sound stays so when more was sent and the cloud is later.
LEMMA SoundStays ==
    ASSUME NEW rs, Types, LaterCloud, told \subseteq told', AreRecords(rs),
           Sound(rs, told, cloud)
    PROVE  Sound(rs, told', cloud')
<1> SUFFICES ASSUME NEW f \in Files
             PROVE  /\ rs[f].done => rs[f].sent = Targets
                    /\ \A t \in rs[f].sent : <<f, rs[f].ver, t>> \in told'
                    /\ cloud'[f] # 0 => rs[f].ver <= cloud'[f]
  BY DEF Sound
<1>1. rs[f].ver \in Nat /\ cloud[f] \in Nat /\ cloud'[f] \in Nat
  BY DEF AreRecords, IsRecord, Types, LaterCloud
<1>2. cloud'[f] # 0 => rs[f].ver <= cloud'[f]
  BY <1>1 DEF Sound, LaterCloud
<1> QED
  BY <1>2 DEF Sound

\* The surroundings move on: the queue, the cloud, the page that reads.
OutsideStep ==
    /\ worker' = worker /\ records' = records /\ told' = told /\ unmarked' = unmarked
    /\ asked' = asked /\ erased' = erased
    /\ LaterCloud
    /\ DOMAIN page' = DOMAIN page
    /\ page'.on => page'.copy = IF page.on THEN page.copy ELSE records

LEMMA OutsideInv == ASSUME IInv, OutsideStep PROVE IInv'
<1>1. Types'
  BY DEF IInv, OutsideStep, Types, LaterCloud, HasCopy
<1>2. AllSound'
  BY SoundStays DEF IInv, OutsideStep, Types, AllSound, HasCopy
<1>3. Agree' /\ Remembered' /\ Gap'
  BY DEF IInv, OutsideStep, Agree, Remembered, Gap, HasCopy, Remembers, InGap, Message, Unsent
<1>4. OnRecord' /\ Hashing' /\ Deletions'
  BY DEF IInv, OutsideStep, OnRecord, Hashing, Deletions, Doubtful, Untouchable, At
<1> QED
  BY <1>1, <1>2, <1>3, <1>4 DEF IInv

\* The worker is done with a file or a group.
BeginsStep ==
    /\ cloud' = cloud /\ told' = told /\ asked' = asked /\ erased' = erased
    /\ page' \in {page, Away}
    /\ unmarked \cup InGap \subseteq unmarked'
    /\ Begins(worker', records')

LEMMA BeginsInv ==
    ASSUME IInv, BeginsStep, AreRecords(records'), Sound(records', told, cloud),
           Remembers(records', (told \ unmarked) \ InGap),
           \A f \in Doubtful : records'[f].state \in {"deleted", "inflight", "uncertain"}
    PROVE  IInv'
<1>1. /\ Worker(worker') /\ worker'.pc \in {"idle", "send", "close"} /\ worker'.file = {}
      /\ HasCopy' => worker'.copy = records'
  BY DEF BeginsStep, Begins, HasCopy
<1>2. page' = page \/ (~page'.on /\ DOMAIN page' = {"on", "excludes", "copy"})
  BY DEF BeginsStep, Away
<1>3. Types'
  BY <1>1, <1>2 DEF IInv, BeginsStep, Types
<1>4. LaterCloud /\ told \subseteq told'
  BY DEF BeginsStep, LaterCloud, IInv, Types
<1>5. AllSound'
  <2>1. page'.on => Sound(page'.copy, told, cloud)
    BY <1>2 DEF IInv, AllSound
  <2> QED
    BY <1>1, <2>1 DEF AllSound, BeginsStep
<1>6. Agree'
  BY <1>1, <1>3 DEF Agree
<1>7. Remembered'
  <2>1. (told' \ unmarked') \ InGap' \subseteq (told \ unmarked) \ InGap
    BY DEF BeginsStep
  <2>2. Remembers(records', (told' \ unmarked') \ InGap')
    BY <2>1, Zenon DEF Remembers
  <2> QED
    BY <1>1, <2>2 DEF Remembered, Remembers
<1>8. Gap' /\ Hashing' /\ Deletions'
  BY <1>1 DEF Gap, InGap, Hashing, Deletions
<1>9. OnRecord'
  BY DEF BeginsStep, OnRecord, Doubtful, Untouchable
<1> QED
  BY <1>3, <1>5, <1>6, <1>7, <1>8, <1>9 DEF IInv

\* The same, when the records stay as they are.
LEMMA FreshInv ==
    ASSUME IInv, BeginsStep, records' = records
    PROVE  IInv'
BY BeginsInv DEF IInv, Types, AllSound, Remembered, OnRecord, Untouchable

\* A step of the deletions: it saves what it writes in the copy, or writes nothing; but
\* for the deletion itself, the records stay the same.
DeletionStep ==
    /\ worker.pc \in {"delete", "ask", "asked"} /\ worker'.pc \in {"delete", "ask", "asked"}
    /\ LaterCloud
    /\ told' = told /\ unmarked' = unmarked /\ erased' = erased /\ page' = page
    /\ asked' \subseteq Files
    /\ Worker(worker')
    /\ AreRecords(worker'.copy)
    /\ \A f \in Files : LET r == worker.copy[f]
                            q == worker'.copy[f]
                        IN q.ver = r.ver /\ q.sent = r.sent /\ q.done = r.done
    /\ records' = worker'.copy \/ (records' = records /\ worker'.copy = worker.copy)

\* A step of the deletion keeps the records right if what it saves is right.
LEMMA DeletionInv ==
    ASSUME IInv, DeletionStep, OnRecord', Deletions'
    PROVE  IInv'
<1>1. HasCopy /\ HasCopy' /\ InGap = {} /\ InGap' = {}
  BY DEF DeletionStep, HasCopy, InGap
<1>2. Types'
  BY DEF IInv, Types, DeletionStep, LaterCloud, HasCopy
<1>3. AllSound'
  <2>1. Sound(worker'.copy, told, cloud)
    BY <1>1 DEF Sound, DeletionStep, IInv, AllSound
  <2>2. Sound(records, told', cloud') /\ (page.on => Sound(page.copy, told', cloud'))
    BY SoundStays DEF IInv, Types, AllSound, DeletionStep
  <2>3. Sound(worker'.copy, told', cloud')
    BY <1>1, <2>1, SoundStays DEF IInv, Types, DeletionStep
  <2> QED
    BY <2>2, <2>3 DEF AllSound, DeletionStep
<1>4. Agree'
  BY <1>1 DEF IInv, Agree, DeletionStep
<1>5. Remembered'
  <2> DEFINE messages == told \ unmarked
  <2>1. Remembers(records, messages) /\ Remembers(worker.copy, messages)
    BY <1>1 DEF IInv, Remembered
  <2>2. Remembers(worker'.copy, messages)
    BY <2>1 DEF Remembers, DeletionStep
  <2>3. Remembers(records', messages)
    BY <2>1, <2>2 DEF DeletionStep
  <2> QED
    BY <1>1, <2>2, <2>3 DEF Remembered, DeletionStep
<1>6. Gap' /\ Hashing'
  BY DEF Gap, InGap, Hashing, DeletionStep
<1> QED
  BY <1>2, <1>3, <1>4, <1>5, <1>6 DEF IInv
------------------------------------------------------------------------------
(* The initial state.                                                      *)

\* A file without a record: nothing was sent, nothing deleted.
LEMMA NoRecordIs ==
    /\ DOMAIN NoRecord = Columns
    /\ NoRecord.ver = 0 /\ NoRecord.sent = {}
    /\ NoRecord.done \in BOOLEAN /\ ~NoRecord.done
    /\ ~(NoRecord.state \in {"deleted", "inflight", "uncertain"})
BY Zenon DEF NoRecord, Columns

LEMMA InitInv == Init => IInv
<1> SUFFICES ASSUME Init PROVE IInv
  OBVIOUS
<1>1. worker = Free /\ page = Away /\ records = [f \in Files |-> NoRecord]
      /\ cloud = [f \in Files |-> 1] /\ told = {} /\ asked = {}
  BY DEF Init
<1>2. worker.pc = "idle" /\ worker.file = {} /\ Worker(worker)
  BY <1>1, FreeIs DEF Worker, Steps
<1>3. DOMAIN page = {"on", "excludes", "copy"} /\ ~page.on
  BY <1>1 DEF Away
<1>4. AreRecords(records)
  <2>1. DOMAIN records = Files /\ \A f \in Files : records[f] = NoRecord
    BY <1>1
  <2>2. IsRecord(NoRecord)
    BY NoRecordIs DEF IsRecord
  <2> QED
    BY <2>1, <2>2, Zenon DEF AreRecords
<1>5. Types
  BY <1>1, <1>2, <1>3, <1>4 DEF Types, HasCopy
<1>6. AllSound
  BY <1>1, <1>2, <1>3, NoRecordIs DEF AllSound, Sound, HasCopy
<1>7. Agree /\ Remembered /\ Gap /\ OnRecord /\ Hashing /\ Deletions
  BY <1>1, <1>2 DEF Agree, Remembered, Remembers, Gap, InGap, OnRecord, Doubtful, Hashing, Deletions,
                    HasCopy
<1> QED
  BY <1>5, <1>6, <1>7 DEF IInv
------------------------------------------------------------------------------
(* The steps of the surroundings.                                          *)

\* The steps that touch neither a record nor the worker, and those that end its turn.
LEMMA OutsideSteps ==
    ASSUME IInv,
           \/ Window \/ Stop \/ Restart \/ PageReads
           \/ \E f \in Files : Change(f)
           \/ \E found \in (SUBSET Files) \ {{}} : Discover(found)
    PROVE  IInv'
<1> USE DEF excuses, history
<1>1. CASE Window \/ Stop \/ \E found \in (SUBSET Files) \ {{}} : Discover(found)
  <2>1. /\ cloud' = cloud /\ records' = records /\ worker' = worker /\ page' = page
        /\ told' = told /\ unmarked' = unmarked /\ asked' = asked /\ erased' = erased
    BY <1>1 DEF Window, Stop, Discover
  <2>2. OutsideStep
    BY <2>1 DEF OutsideStep, LaterCloud, IInv, Types
  <2> QED
    BY <2>2, OutsideInv
<1>2. CASE Restart
  <2>1. OutsideStep
    BY <1>2 DEF Restart, OutsideStep, LaterCloud, IInv, Types
  <2> QED
    BY <2>1, OutsideInv
<1>3. CASE PageReads
  <2>1. OutsideStep
    BY <1>3 DEF PageReads, OutsideStep, LaterCloud, IInv, Types
  <2> QED
    BY <2>1, OutsideInv
<1>4. ASSUME NEW f \in Files, Change(f) PROVE IInv'
  <2>1. PICK v \in {0} \cup {cloud[f] + 1} : cloud' = [cloud EXCEPT ![f] = v]
    BY <1>4 DEF Change
  <2>2. cloud \in [Files -> Nat]
    BY DEF IInv, Types
  <2>3. LaterCloud
    BY <1>4, <2>1, <2>2 DEF LaterCloud, Change
  <2>4. OutsideStep
    BY <1>4, <2>3 DEF Change, OutsideStep
  <2> QED
    BY <2>4, OutsideInv
<1> QED
  BY <1>1, <1>2, <1>3, <1>4
------------------------------------------------------------------------------
(* The steps that end a file or a group.                                   *)

LEMMA EndsInv ==
    ASSUME IInv,
           \/ FlushReady \/ EndGroup
           \/ \E f \in Files, v \in Versions \ {0} :
                \/ Skip(f, v) \/ TooYoung(f, v) \/ Changed(f, v) \/ ReadFails(f, v)
                \/ ReadBreaks(f, v) \/ KeepLink(f, v) \/ HashStops(f, v) \/ EndFile(f, v)
    PROVE  IInv'
<1> USE DEF excuses, history
<1> SUFFICES BeginsStep /\ records' = records
  BY FreshInv
<1>1. CASE FlushReady
  <2>1. Begins(worker', records) /\ records' = records
    BY <1>1, FlushBegins DEF FlushReady
  <2>2. InGap = {}
    BY <1>1, FreeIs DEF FlushReady, InGap
  <2> QED
    BY <1>1, <2>1, <2>2 DEF FlushReady, BeginsStep
<1>2. CASE EndGroup
  <2>1. Begins(worker', records) /\ records' = records
    BY <1>2, FreeBegins, FlushingBegins DEF EndGroup
  <2>2. InGap = {}
    BY <1>2 DEF EndGroup, InGap
  <2> QED
    BY <1>2, <2>1, <2>2 DEF EndGroup, BeginsStep
<1>3. ASSUME NEW f \in Files, NEW v \in Versions \ {0},
             \/ Skip(f, v) \/ TooYoung(f, v) \/ Changed(f, v) \/ ReadFails(f, v)
             \/ ReadBreaks(f, v) \/ HashStops(f, v) \/ EndFile(f, v)
      PROVE  BeginsStep /\ records' = records
  <2>1. worker.pc \in {"look", "hash", "delete"} /\ \E m : Finish(m, f, records)
    BY <1>3 DEF Skip, TooYoung, Changed, ReadFails, ReadBreaks, HashStops, EndFile, Looks
  <2>2. /\ cloud' = cloud /\ records' = records /\ page' = page
        /\ told' = told /\ asked' = asked /\ erased' = erased /\ unmarked' = unmarked
    BY <1>3 DEF Skip, TooYoung, Changed, ReadFails, ReadBreaks, HashStops, EndFile
  <2>3. Begins(worker', records) /\ InGap = {}
    BY <2>1, FinishBegins DEF InGap
  <2> QED
    BY <2>2, <2>3 DEF BeginsStep
<1>4. ASSUME NEW f \in Files, NEW v \in Versions \ {0}, KeepLink(f, v)
      PROVE  BeginsStep /\ records' = records
  <2>1. worker.file = {}
    BY <1>4 DEF KeepLink, Looks, IInv, Deletions
  <2>3. Begins(worker', records)
    BY <1>4, <2>1, HandOverBegins DEF KeepLink, IInv
  <2>2. InGap = {}
    BY <1>4 DEF KeepLink, Looks, InGap
  <2> QED
    BY <1>4, <2>2, <2>3 DEF KeepLink, BeginsStep
<1> QED
  BY <1>1, <1>2, <1>3, <1>4
------------------------------------------------------------------------------
(* The steps of a file and of the sending.                                 *)

\* The worker goes on to the deletions, with the records as they are written.
DeletingStep(rs) ==
    /\ cloud' = cloud /\ told' = told /\ asked' = asked /\ erased' = erased
    /\ unmarked' = unmarked /\ page' = page
    /\ worker.pc \in {"look", "send"}
    /\ worker' = Deleting(rs) /\ records' = rs

\* A step after which the worker goes on to the deletions.
LEMMA DeletingInv ==
    ASSUME IInv, NEW rs, DeletingStep(rs), AreRecords(rs), Sound(rs, told, cloud),
           Remembers(rs, told \ unmarked),
           \A f \in Doubtful : rs[f].state \in {"deleted", "inflight", "uncertain"}
    PROVE  IInv'
<1> DEFINE left == {f \in DOMAIN worker.items : MayDelete(rs[f])}
<1>1. \A r : MayDelete(r) => r.done /\ ~(r.state \in {"deleted", "inflight", "uncertain"})
  BY Zenon DEF MayDelete
<1>2. left \subseteq Files /\ \A f \in left : rs[f].done /\ f \notin Doubtful
  BY <1>1 DEF IInv, Types, Worker
<1> HIDE DEF left
<1>3. worker' = [worker EXCEPT !.pc = "delete", !.copy = rs, !.chunk = {}, !.target = 1,
                               !.left = left]
  BY Zenon DEF DeletingStep, Deleting, left
<1>4. Worker(worker) /\ worker.file = {}
  BY DEF IInv, Types, Deletions, DeletingStep
<1>5. /\ worker'.pc = "delete" /\ worker'.copy = rs /\ worker'.left = left
      /\ worker'.file = {} /\ Worker(worker')
  BY <1>2, <1>3, <1>4 DEF Worker, Fields, Steps
<1>6. Types'
  BY <1>5 DEF Types, DeletingStep, IInv, HasCopy
<1>7. AllSound'
  BY <1>5 DEF AllSound, DeletingStep, IInv
<1>8. Agree' /\ OnRecord' /\ Gap' /\ Hashing'
  BY <1>5 DEF Agree, OnRecord, Untouchable, Doubtful, Gap, InGap, Hashing, DeletingStep
<1>9. Remembered'
  <2>1. (told' \ unmarked') \ InGap' = told \ unmarked
    BY <1>5 DEF DeletingStep, InGap
  <2>2. Remembers(rs, (told' \ unmarked') \ InGap')
    BY <2>1
  <2> QED
    BY <1>5, <2>2 DEF Remembered, Remembers, DeletingStep
<1>10. Deletions'
  BY <1>2, <1>5 DEF Deletions, Doubtful, DeletingStep
<1> QED
  BY <1>6, <1>7, <1>8, <1>9, <1>10 DEF IInv

LEMMA SentBeforeInv ==
    ASSUME IInv, NEW f \in Files, NEW v \in Versions \ {0}, SentBefore(f, v)
    PROVE  IInv'
<1>1. DeletingStep(records) /\ InGap = {}
  BY DEF SentBefore, DeletingStep, InGap, history, excuses
<1> QED
  BY <1>1, DeletingInv DEF IInv, Types, AllSound, Remembered, OnRecord, Untouchable

\* Between two messages every one that went out is remembered.
LEMMA NoGap ==
    ASSUME IInv, worker.pc \notin {"idle", "look", "sent"}
    PROVE  /\ InGap = {} /\ HasCopy
           /\ AreRecords(worker.copy) /\ Sound(worker.copy, told, cloud)
           /\ Remembers(worker.copy, told \ unmarked)
           /\ \A f \in Doubtful :
                worker.copy[f].state \in {"deleted", "inflight", "uncertain"}
<1>1. InGap = {} /\ HasCopy
  BY DEF InGap, HasCopy
<1>2. AreRecords(worker.copy) /\ Sound(worker.copy, told, cloud)
      /\ Remembers(worker.copy, told \ unmarked)
  BY <1>1 DEF IInv, Types, AllSound, Remembered
<1>3. \A f \in Doubtful :
        worker.copy[f].state \in {"deleted", "inflight", "uncertain"}
  BY <1>1 DEF IInv, Types, Agree, OnRecord, Untouchable, Doubtful
<1> QED
  BY <1>1, <1>2, <1>3

LEMMA EndSendInv == ASSUME IInv, EndSend PROVE IInv'
<1>1. /\ InGap = {} /\ HasCopy
      /\ AreRecords(worker.copy) /\ Sound(worker.copy, told, cloud)
      /\ Remembers(worker.copy, told \ unmarked)
      /\ \A f \in Doubtful :
           worker.copy[f].state \in {"deleted", "inflight", "uncertain"}
  BY NoGap DEF EndSend
<1>2. \A f \in Files :
        /\ DOMAIN Told[f] = Columns
        /\ Told[f].ver = worker.copy[f].ver /\ Told[f].sent = worker.copy[f].sent
        /\ Told[f].state = worker.copy[f].state
        /\ Told[f].done = IF f \in worker.chunk THEN worker.copy[f].sent = Targets
                                                ELSE worker.copy[f].done
  BY <1>1 DEF Told, AreRecords, IsRecord, Columns, All
<1>3. DOMAIN Told = Files
  BY DEF Told
<1> HIDE DEF Told
<1>4. AreRecords(Told)
  BY <1>1, <1>2, <1>3 DEF AreRecords, IsRecord
<1>5. Sound(Told, told, cloud)
  BY <1>1, <1>2 DEF Sound
<1>6. Remembers(Told, told \ unmarked)
  BY <1>1, <1>2 DEF Remembers
<1>7. \A f \in Doubtful : Told[f].state \in {"deleted", "inflight", "uncertain"}
  BY <1>1, <1>2 DEF IInv, Types, Doubtful
<1>8. /\ records' = Told /\ cloud' = cloud /\ page' = page
      /\ told' = told /\ asked' = asked /\ erased' = erased /\ unmarked' = unmarked
  BY DEF EndSend, history, excuses
<1>9. CASE worker' = Deleting(Told)
  <2>1. DeletingStep(Told)
    BY <1>8, <1>9 DEF DeletingStep, EndSend
  <2> QED
    BY <2>1, <1>4, <1>5, <1>6, <1>7, DeletingInv
<1>10. CASE \E m, f : Finish(m, f, Told)
  <2>1. BeginsStep
    BY <1>1, <1>8, <1>10, FinishBegins DEF BeginsStep
  <2> QED
    BY <2>1, <1>1, <1>4, <1>5, <1>6, <1>7, <1>8, BeginsInv
<1> QED
  BY <1>9, <1>10 DEF EndSend

LEMMA TakeInv == ASSUME IInv, NEW f \in Files, Take(f) PROVE IInv'
<1>1. /\ cloud' = cloud /\ records' = records /\ page' = page /\ worker = Free
      /\ told' = told /\ asked' = asked /\ erased' = erased /\ unmarked' = unmarked
  BY DEF Take, history, excuses
<1>2. /\ worker'.pc = "look" /\ worker'.file = {} /\ Worker(worker')
  <2>1. worker' = [Free EXCEPT !.pc = "look", !.mode = "file", !.batch = mem.home[f],
                               !.items = Item(f, mem.pending[f])]
    BY DEF Take
  <2>2. DOMAIN Item(f, mem.pending[f]) = {f}
    BY DEF Item
  <2> QED
    BY <2>1, <2>2, FreeIs DEF Worker, Fields, Steps
<1>3. InGap = {} /\ InGap' = {}
  BY <1>1, <1>2, FreeIs DEF InGap
<1>4. Types' /\ AllSound'
  BY <1>1, <1>2 DEF IInv, Types, AllSound, HasCopy
<1>5. Agree' /\ Gap' /\ OnRecord' /\ Hashing' /\ Deletions'
  BY <1>1, <1>2 DEF IInv, Agree, Gap, InGap, OnRecord, Hashing, Deletions, Doubtful, HasCopy, Untouchable
<1>6. Remembered'
  BY <1>1, <1>2, <1>3 DEF IInv, Remembered, Remembers, HasCopy
<1> QED
  BY <1>4, <1>5, <1>6 DEF IInv

LEMMA StartHashInv ==
    ASSUME IInv, NEW f \in Files, NEW v \in Versions \ {0}, StartHash(f, v)
    PROVE  IInv'
<1>1. /\ cloud' = cloud /\ records' = records /\ page' = page
      /\ told' = told /\ asked' = asked /\ erased' = erased /\ unmarked' = unmarked
      /\ worker.pc = "look" /\ worker.items = Item(f, v)
      /\ ~Untouchable(f) /\ records[f].ver # v
  BY DEF StartHash, Looks, At, Unchanged, history, excuses
<1>2. worker' = [worker EXCEPT !.pc = "hash", !.copy = records]
  BY DEF StartHash
<1>3. Worker(worker) /\ worker.file = {}
  BY <1>1 DEF IInv, Types, Deletions
<1>4. /\ worker'.pc = "hash" /\ worker'.copy = records /\ worker'.file = {}
      /\ worker'.items = worker.items /\ Worker(worker')
  BY <1>2, <1>3 DEF Worker, Fields, Steps
<1>5. InGap = {} /\ InGap' = {}
  BY <1>1, <1>4 DEF InGap
<1>6. Types' /\ AllSound'
  BY <1>1, <1>4 DEF IInv, Types, AllSound, HasCopy
<1>7. Agree' /\ Gap' /\ OnRecord' /\ Deletions'
  BY <1>1, <1>4 DEF IInv, Agree, Gap, InGap, OnRecord, Deletions, Doubtful, Untouchable
<1>8. Remembered'
  BY <1>1, <1>4, <1>5 DEF IInv, Remembered, Remembers
<1>9. Hashing'
  <2> SUFFICES ASSUME NEW g \in Files, NEW u \in Versions, Item(g, u) = Item(f, v)
               PROVE  g \notin Doubtful /\ records[g].ver # u
    BY <1>1, <1>4 DEF Hashing, At, Doubtful
  <2>1. DOMAIN Item(g, u) = {g} /\ DOMAIN Item(f, v) = {f}
    BY DEF Item
  <2>2. g = f
    BY <2>1
  <2>3. Item(f, v)[f] = v /\ Item(f, u)[f] = u
    BY DEF Item
  <2> QED
    BY <1>1, <2>2, <2>3 DEF IInv, OnRecord
<1> QED
  BY <1>6, <1>7, <1>8, <1>9 DEF IInv

LEMMA HashedInv ==
    ASSUME IInv, NEW f \in Files, NEW v \in Versions \ {0}, Hashed(f, v)
    PROVE  IInv'
<1>1. /\ worker.pc = "hash" /\ At(f, v) /\ cloud[f] = v
      /\ cloud' = cloud /\ page' = page
      /\ told' = told /\ asked' = asked /\ erased' = erased /\ unmarked' = unmarked
      /\ HandOver(f, v, records')
  BY DEF Hashed, history, excuses
<1>2. PICK state :
        records' = [worker.copy EXCEPT ![f] = [NoRecord EXCEPT !.ver = v, !.state = state]]
  BY DEF Hashed
<1>3. /\ InGap = {} /\ HasCopy
      /\ AreRecords(worker.copy) /\ Sound(worker.copy, told, cloud)
      /\ Remembers(worker.copy, told \ unmarked)
      /\ \A g \in Doubtful :
           worker.copy[g].state \in {"deleted", "inflight", "uncertain"}
  BY <1>1, NoGap
<1>4. v \in Nat \ {0} /\ v \in Versions
  BY Parameters DEF Versions
<1>5. f \notin Doubtful /\ worker.copy[f].ver # v
  BY <1>1, <1>4 DEF IInv, Hashing
<1> DEFINE new == [NoRecord EXCEPT !.ver = v, !.state = state]
<1>6. DOMAIN new = Columns /\ new.ver = v /\ new.sent = {} /\ new.done = NoRecord.done
  BY NoRecordIs DEF Columns
<1> HIDE DEF new
<1>7. /\ DOMAIN records' = Files /\ records'[f] = new
      /\ \A g \in Files \ {f} : records'[g] = worker.copy[g]
  BY <1>2, <1>3 DEF AreRecords, new
<1>8. IsRecord(new) /\ ~new.done
  BY <1>4, <1>6, NoRecordIs DEF IsRecord
<1>9. AreRecords(records')
  BY <1>3, <1>7, <1>8 DEF AreRecords
<1>10. Sound(records', told, cloud)
  <2> SUFFICES ASSUME NEW g \in Files
               PROVE  /\ records'[g].done => records'[g].sent = Targets
                      /\ \A t \in records'[g].sent : <<g, records'[g].ver, t>> \in told
                      /\ cloud[g] # 0 => records'[g].ver <= cloud[g]
    BY DEF Sound
  <2>1. CASE g = f
    BY <1>1, <1>4, <1>6, <1>7, <1>8, <2>1
  <2>2. CASE g # f
    BY <1>3, <1>7, <2>2 DEF Sound
  <2> QED
    BY <2>1, <2>2
<1>11. Remembers(records', told \ unmarked)
  <2> SUFFICES ASSUME NEW g \in Files, NEW u \in Nat, NEW t \in Targets,
                      <<g, u, t>> \in told \ unmarked
               PROVE  records'[g].ver >= u /\ (records'[g].ver = u => t \in records'[g].sent)
    BY DEF Remembers
  <2>1. worker.copy[g].ver >= u /\ (worker.copy[g].ver = u => t \in worker.copy[g].sent)
    BY <1>3 DEF Remembers
  <2>2. CASE g = f
    <3>1. worker.copy[f].ver \in Nat /\ worker.copy[f].ver <= v
      BY <1>1, <1>3, <1>4 DEF AreRecords, IsRecord, Sound
    <3> QED
      BY <1>4, <1>5, <1>6, <1>7, <2>1, <2>2, <3>1
  <2>3. CASE g # f
    BY <1>7, <2>1, <2>3
  <2> QED
    BY <2>2, <2>3
<1>12. \A g \in Doubtful : records'[g].state \in {"deleted", "inflight", "uncertain"}
  BY <1>3, <1>5, <1>7 DEF IInv, Types, Doubtful
<1>13. Begins(worker', records')
  BY <1>1, HandOverBegins DEF IInv, Deletions
<1>14. BeginsStep
  BY <1>1, <1>3, <1>13 DEF BeginsStep
<1> QED
  BY <1>3, <1>9, <1>10, <1>11, <1>12, <1>14, BeginsInv

LEMMA SendInv == ASSUME IInv, Send PROVE IInv'
<1> DEFINE n == Min(TargetsLeft)
<1>1. /\ cloud' = cloud /\ records' = records /\ page' = page
      /\ asked' = asked /\ erased' = erased /\ unmarked' = unmarked
      /\ told' = told \cup Message(n) /\ worker.pc = "send"
  BY DEF Send, excuses
<1>2. Worker(worker) /\ worker.file = {} /\ n \in Targets \cap Nat
  BY <1>1, NextTarget DEF Send, IInv, Types, Deletions
<1> HIDE DEF n
<1>3. worker' = [worker EXCEPT !.pc = "sent", !.target = n]
  BY DEF Send, n
<1>4. /\ worker'.pc = "sent" /\ worker'.target = n /\ worker'.copy = worker.copy
      /\ worker'.chunk = worker.chunk /\ worker'.file = {} /\ Worker(worker')
  BY <1>2, <1>3 DEF Worker, Fields, Steps, Targets
<1>5. /\ InGap = {} /\ HasCopy
      /\ AreRecords(worker.copy) /\ Sound(worker.copy, told, cloud)
      /\ Remembers(worker.copy, told \ unmarked)
  BY <1>1, NoGap
<1>6. InGap' = Message(n)
  <2>1. \A m : m \in InGap' <=> m \in Message(n)
    BY <1>4 DEF InGap, Message, Unsent
  <2> QED
    BY <2>1
<1>7. Message(n) \subseteq Files \X Nat \X Targets
  BY <1>2, <1>5 DEF Message, Unsent, AreRecords, IsRecord, Worker
<1>8. LaterCloud /\ told \subseteq told'
  BY <1>1 DEF LaterCloud, IInv, Types
<1>9. Types'
  BY <1>1, <1>4, <1>5, <1>7 DEF IInv, Types
<1>10. AllSound'
  BY <1>1, <1>4, <1>5, <1>8, SoundStays DEF IInv, AllSound, Types
<1>11. Agree' /\ OnRecord' /\ Hashing' /\ Deletions'
  BY <1>1, <1>4, <1>5 DEF IInv, Agree, OnRecord, Hashing, Deletions, Doubtful, Untouchable
<1>12. Remembered'
  <2>1. (told' \ unmarked') \ InGap' \subseteq told \ unmarked
    BY <1>1, <1>6
  <2>2. Remembers(records, told \ unmarked) /\ Remembers(worker.copy, told \ unmarked)
    BY <1>5 DEF IInv, Remembered
  <2>3. /\ Remembers(records, (told' \ unmarked') \ InGap')
        /\ Remembers(worker.copy, (told' \ unmarked') \ InGap')
    BY <2>1, <2>2, Zenon DEF Remembers
  <2> QED
    BY <1>1, <1>4, <2>3 DEF Remembered, Remembers
<1>13. Gap'
  BY <1>1, <1>2, <1>4, <1>6 DEF Gap
<1> QED
  BY <1>9, <1>10, <1>11, <1>12, <1>13 DEF IInv

LEMMA SendFailsInv == ASSUME IInv, SendFails PROVE IInv'
<1> DEFINE n == Min(TargetsLeft)
<1>1. /\ cloud' = cloud /\ records' = records /\ page' = page
      /\ asked' = asked /\ erased' = erased /\ worker.pc = "send"
  BY DEF SendFails
<1>2. Worker(worker) /\ worker.file = {} /\ n \in Targets \cap Nat
  BY <1>1, NextTarget DEF SendFails, IInv, Types, Deletions
<1> HIDE DEF n
<1>3. worker' = [worker EXCEPT !.target = n + 1]
  BY DEF SendFails, n
<1>4. /\ worker'.pc = "send" /\ worker'.copy = worker.copy /\ worker'.file = {}
      /\ Worker(worker')
  BY <1>1, <1>2, <1>3 DEF Worker, Fields, Steps
<1>5. InGap = {} /\ InGap' = {} /\ HasCopy
  BY <1>1, <1>4 DEF InGap, HasCopy
<1>6. AreRecords(worker.copy)
  BY <1>5 DEF IInv, Types
<1>7. PICK delivered \in {{}, Message(n)} :
        told' = told \cup delivered /\ unmarked' = unmarked \cup delivered
  BY DEF SendFails, n
<1>8. delivered \subseteq Files \X Nat \X Targets
  BY <1>2, <1>6, <1>7 DEF Message, Unsent, AreRecords, IsRecord, Worker
<1>9. LaterCloud /\ told \subseteq told'
  BY <1>1, <1>7 DEF LaterCloud, IInv, Types
<1>10. Types'
  BY <1>1, <1>4, <1>5, <1>7, <1>8 DEF IInv, Types
<1>11. AllSound'
  BY <1>1, <1>4, <1>5, <1>9, SoundStays DEF IInv, AllSound, Types
<1>12. Agree' /\ Gap' /\ OnRecord' /\ Hashing' /\ Deletions'
  BY <1>1, <1>4, <1>5 DEF IInv, Agree, Gap, OnRecord, Hashing, Deletions, Doubtful, Untouchable
<1>13. Remembered'
  <2>1. (told' \ unmarked') \ InGap' \subseteq (told \ unmarked) \ InGap
    BY <1>5, <1>7
  <2>2. Remembers(records, (told' \ unmarked') \ InGap')
    BY <2>1, Zenon DEF IInv, Remembered, Remembers
  <2>3. Remembers(worker.copy, (told \ unmarked) \ InGap)
    BY <1>5 DEF IInv, Remembered
  <2>4. Remembers(worker.copy, (told' \ unmarked') \ InGap')
    BY <2>1, <2>3, Zenon DEF Remembers
  <2> QED
    BY <1>1, <1>4, <2>2, <2>4 DEF Remembered, Remembers
<1> QED
  BY <1>10, <1>11, <1>12, <1>13 DEF IInv

LEMMA CheckpointInv == ASSUME IInv, NEW f \in Files, Checkpoint(f) PROVE IInv'
<1> DEFINE n == worker.target
           rs == Marked(f)
<1>1. /\ cloud' = cloud /\ records' = rs /\ page' = page /\ told' = told
      /\ asked' = asked /\ erased' = erased /\ unmarked' = unmarked
      /\ worker.pc = "sent" /\ f \in Unsent(n)
  BY DEF Checkpoint, history, excuses
<1>2. /\ Worker(worker) /\ worker.file = {} /\ HasCopy /\ AreRecords(worker.copy)
      /\ Sound(worker.copy, told, cloud)
      /\ n \in Targets /\ Message(n) \subseteq told
  BY <1>1 DEF IInv, Types, Deletions, HasCopy, AllSound, Gap, InGap
<1>3. /\ DOMAIN rs = Files
      /\ \A g \in Files :
           /\ DOMAIN rs[g] = Columns
           /\ rs[g].ver = worker.copy[g].ver /\ rs[g].done = worker.copy[g].done
           /\ rs[g].state = worker.copy[g].state
           /\ rs[g].sent = worker.copy[g].sent \cup (IF g = f THEN {n} ELSE {})
  BY <1>2 DEF Marked, AreRecords, IsRecord, Columns
<1> HIDE DEF rs
<1>4. PICK pc \in {"send", "sent"}, t \in {n, n + 1} :
        /\ worker' = [worker EXCEPT !.pc = pc, !.target = t, !.copy = rs]
        /\ pc = "send" => Unsent(n) = {f}
        /\ pc = "sent" => t = n
  <2>1. worker' = IF Unsent(n) = {f}
                  THEN [worker EXCEPT !.pc = "send", !.target = @ + 1, !.copy = rs]
                  ELSE [worker EXCEPT !.copy = rs]
    BY DEF Checkpoint, AfterMark, rs
  <2>2. CASE Unsent(n) = {f}
    BY <2>1, <2>2
  <2>3. CASE Unsent(n) # {f}
    <3>1. [worker EXCEPT !.copy = rs] = [worker EXCEPT !.pc = "sent", !.target = n, !.copy = rs]
      BY <1>1, <1>2 DEF Worker, Fields
    <3> QED
      BY <2>1, <2>3, <3>1
  <2> QED
    BY <2>2, <2>3
<1>5. /\ worker'.pc = pc /\ worker'.target = t /\ worker'.copy = rs
      /\ worker'.chunk = worker.chunk /\ worker'.file = {} /\ Worker(worker')
  BY <1>2, <1>4 DEF Worker, Fields, Steps
<1>6. AreRecords(rs)
  BY <1>2, <1>3 DEF AreRecords, IsRecord
<1>7. Types'
  BY <1>1, <1>5, <1>6 DEF IInv, Types
<1>8. Sound(rs, told, cloud)
  <2> SUFFICES ASSUME NEW g \in Files
               PROVE  /\ rs[g].done => rs[g].sent = Targets
                      /\ \A u \in rs[g].sent : <<g, rs[g].ver, u>> \in told
                      /\ cloud[g] # 0 => rs[g].ver <= cloud[g]
    BY DEF Sound
  <2>1. <<f, worker.copy[f].ver, n>> \in told
    BY <1>1, <1>2 DEF Message
  <2>2. /\ worker.copy[g].done => worker.copy[g].sent = Targets
        /\ \A u \in worker.copy[g].sent : <<g, worker.copy[g].ver, u>> \in told
        /\ cloud[g] # 0 => worker.copy[g].ver <= cloud[g]
    BY <1>2 DEF Sound
  <2>3. rs[g].sent = worker.copy[g].sent \/ (g = f /\ rs[g].sent = worker.copy[g].sent \cup {n})
    BY <1>3
  <2>4. rs[g].ver = worker.copy[g].ver /\ rs[g].done = worker.copy[g].done
    BY <1>3
  <2>5. n \in Targets
    BY <1>2
  <2>6. rs[g].done => rs[g].sent = Targets
    BY <2>2, <2>3, <2>4, <2>5
  <2>7. \A u \in rs[g].sent : <<g, rs[g].ver, u>> \in told
    BY <2>1, <2>2, <2>3, <2>4
  <2> QED
    BY <2>2, <2>4, <2>6, <2>7
<1>9. AllSound'
  BY <1>1, <1>5, <1>8 DEF IInv, AllSound
<1>10. Agree' /\ Hashing' /\ Deletions'
  BY <1>1, <1>5 DEF Agree, Hashing, Deletions
<1>11. OnRecord'
  BY <1>1, <1>2, <1>3 DEF IInv, Types, OnRecord, Agree, Doubtful, Untouchable
<1>12. Gap'
  <2>1. ASSUME NEW m \in InGap' PROVE m \in Message(n)
    <3>1. pc = "sent" /\ t = n
      BY <1>4, <1>5 DEF InGap
    <3>2. PICK g \in worker.chunk : m = <<g, rs[g].ver, n>> /\ n \notin rs[g].sent
      BY <1>5, <3>1 DEF InGap, Message, Unsent
    <3>3. g \in Files
      BY <1>2 DEF Worker
    <3> QED
      BY <1>3, <3>2, <3>3 DEF Message, Unsent
  <2> QED
    BY <1>1, <1>2, <1>4, <1>5, <2>1 DEF Gap
<1>13. Remembered'
  <2> SUFFICES ASSUME NEW g \in Files, NEW u \in Nat, NEW k \in Targets,
                      <<g, u, k>> \in (told \ unmarked) \ InGap'
               PROVE  rs[g].ver >= u /\ (rs[g].ver = u => k \in rs[g].sent)
    BY <1>1, <1>5 DEF Remembered, Remembers
  <2>1. CASE <<g, u, k>> \in InGap
    <3>1. g \in Unsent(n) /\ u = worker.copy[g].ver /\ k = n
      BY <1>1, <2>1 DEF InGap, Message
    <3>2. CASE g = f
      BY <1>2, <1>3, <3>1, <3>2 DEF AreRecords, IsRecord
    <3>3. CASE g # f
      <4>1. pc = "sent" /\ t = n
        BY <1>4, <3>1, <3>3
      <4>2. g \in worker'.chunk /\ n \notin worker'.copy[g].sent /\ worker'.copy[g].ver = u
        BY <1>3, <1>5, <3>1, <3>3 DEF Unsent
      <4>3. <<g, u, k>> \in InGap'
        BY <1>5, <3>1, <4>1, <4>2 DEF InGap, Message, Unsent
      <4> QED
        BY <4>3
    <3> QED
      BY <3>2, <3>3
  <2>2. CASE <<g, u, k>> \notin InGap
    <3>1. worker.copy[g].ver >= u /\ (worker.copy[g].ver = u => k \in worker.copy[g].sent)
      BY <1>2, <2>2 DEF IInv, Remembered, Remembers
    <3> QED
      BY <1>3, <3>1
  <2> QED
    BY <2>1, <2>2
<1> QED
  BY <1>7, <1>9, <1>10, <1>11, <1>12, <1>13 DEF IInv
------------------------------------------------------------------------------
(* The steps of the deletions.                                             *)

\* What a step writes about one file changes nothing of what was sent.
LEMMA DeletionCopy ==
    ASSUME IInv, worker.pc \in {"delete", "ask", "asked"}
    PROVE  /\ InGap = {} /\ Worker(worker) /\ AreRecords(worker.copy)
           /\ \A f \in Doubtful : worker.copy[f].state \in {"deleted", "inflight", "uncertain"}
           /\ Doubtful \subseteq Files
BY NoGap DEF IInv, Types, Doubtful

LEMMA PutOffInv == ASSUME IInv, NEW f \in Files, PutOff(f) PROVE IInv'
<1>1. /\ cloud' = cloud /\ records' = records /\ page' = page /\ told' = told
      /\ asked' = asked /\ erased' = erased /\ unmarked' = unmarked
      /\ worker.pc = "delete" /\ f \in worker.left
  BY DEF PutOff, Turn, history, excuses
<1>2. worker' = [worker EXCEPT !.pc = "delete", !.left = @ \ {f}, !.file = {},
                               !.copy = worker.copy]
  BY DEF PutOff, Then
<1>3. Worker(worker) /\ worker.file = {} /\ AreRecords(worker.copy)
  BY <1>1, DeletionCopy DEF IInv, Deletions
<1>4. /\ worker'.pc = "delete" /\ worker'.copy = worker.copy /\ worker'.file = {}
      /\ worker'.left = worker.left \ {f} /\ Worker(worker')
  BY <1>2, <1>3 DEF Worker, Fields, Steps
<1>5. DeletionStep
  BY <1>1, <1>3, <1>4 DEF DeletionStep, LaterCloud, IInv, Types
<1>6. OnRecord' /\ Deletions'
  BY <1>1, <1>4 DEF IInv, OnRecord, Deletions, Doubtful, Untouchable
<1> QED
  BY <1>5, <1>6, DeletionInv

\* The record of the file in turn after a step that writes its state and counters.
Rewritten(rs, f, state) ==
    /\ AreRecords(rs)
    /\ \A g \in Files : LET r == worker.copy[g]
                            q == rs[g]
                        IN /\ q.ver = r.ver /\ q.sent = r.sent /\ q.done = r.done
                           /\ q.state = IF g = f THEN state ELSE r.state

\* Setting the state of a deletion leaves the rest of a record alone.
LEMMA StateRewrites ==
    ASSUME AreRecords(worker.copy), NEW f \in Files, NEW state
    PROVE  Rewritten(State(f, state), f, state)
BY DEF Rewritten, AreRecords, IsRecord, State, Columns

LEMMA PrepareInv == ASSUME IInv, NEW f \in Files, Prepare(f) PROVE IInv'
<1> DEFINE rs == [worker.copy EXCEPT ![f].state = "inflight", ![f].asks = @ + 1,
                                     ![f].checks = 0]
<1>1. /\ cloud' = cloud /\ records' = rs /\ page' = page /\ told' = told
      /\ asked' = asked /\ erased' = erased /\ unmarked' = unmarked
      /\ worker.pc = "delete" /\ f \in worker.left
      /\ worker' = [worker EXCEPT !.pc = "ask", !.file = {f}, !.copy = rs]
  BY DEF Prepare, Turn, history, excuses
<1>2. /\ Worker(worker) /\ worker.file = {} /\ AreRecords(worker.copy)
      /\ \A g \in Doubtful : worker.copy[g].state \in {"deleted", "inflight", "uncertain"}
      /\ Doubtful \subseteq Files
  BY <1>1, DeletionCopy DEF IInv, Deletions
<1>3. Rewritten(rs, f, "inflight")
  BY <1>2 DEF Rewritten, AreRecords, IsRecord, Columns
<1> HIDE DEF rs
<1>4. /\ worker'.pc = "ask" /\ worker'.copy = rs /\ worker'.file = {f}
      /\ worker'.left = worker.left /\ Worker(worker')
  BY <1>1, <1>2 DEF Worker, Fields, Steps
<1>5. DeletionStep
  BY <1>1, <1>3, <1>4 DEF DeletionStep, LaterCloud, IInv, Types, Rewritten
<1>6. OnRecord'
  BY <1>1, <1>2, <1>3 DEF OnRecord, Doubtful, Untouchable, Rewritten
<1>7. Deletions'
  BY <1>1, <1>2, <1>3, <1>4 DEF IInv, Deletions, Doubtful, Rewritten, Worker
<1> QED
  BY <1>5, <1>6, <1>7, DeletionInv

\* The deletion of a file was given up: the record says why, and it is off the list.
LEMMA GivenUpInv ==
    ASSUME IInv, NEW f \in Files, NEW rs, NEW state, Rewritten(rs, f, state),
           worker.pc = "delete", f \in worker.left,
           worker' = Then(f, rs), records' = rs, cloud' = cloud, page' = page,
           told' = told, asked' = asked, erased' = erased, unmarked' = unmarked
    PROVE  IInv'
<1>1. /\ Worker(worker) /\ worker.file = {} /\ AreRecords(worker.copy)
      /\ \A g \in Doubtful : worker.copy[g].state \in {"deleted", "inflight", "uncertain"}
      /\ Doubtful \subseteq Files /\ f \notin Doubtful
  BY DeletionCopy DEF IInv, Deletions
<1>2. /\ worker'.pc = "delete" /\ worker'.copy = rs /\ worker'.file = {}
      /\ worker'.left = worker.left \ {f} /\ Worker(worker')
  BY <1>1 DEF Then, Worker, Fields, Steps
<1>3. DeletionStep
  BY <1>1, <1>2 DEF DeletionStep, LaterCloud, IInv, Types, Rewritten
<1>4. OnRecord'
  BY <1>1 DEF OnRecord, Doubtful, Untouchable, Rewritten
<1>5. Deletions'
  BY <1>1, <1>2 DEF IInv, Deletions, Doubtful, Rewritten, Worker
<1> QED
  BY <1>3, <1>4, <1>5, DeletionInv

LEMMA BlockInv == ASSUME IInv, NEW f \in Files, Block(f) PROVE IInv'
<1>1. /\ worker.pc = "delete" /\ f \in worker.left
      /\ worker' = Then(f, State(f, "blocked")) /\ records' = State(f, "blocked")
      /\ cloud' = cloud /\ page' = page /\ told' = told
      /\ asked' = asked /\ erased' = erased /\ unmarked' = unmarked
  BY DEF Block, Turn, history, excuses
<1>2. Rewritten(State(f, "blocked"), f, "blocked")
  BY <1>1, DeletionCopy, StateRewrites
<1> QED
  BY <1>1, <1>2, GivenUpInv

LEMMA CheckFailsInv == ASSUME IInv, NEW f \in Files, CheckFails(f) PROVE IInv'
<1> DEFINE rs == [worker.copy EXCEPT ![f].state = "check_retry", ![f].checks = @ + 1]
<1>1. /\ worker.pc = "delete" /\ f \in worker.left
      /\ worker' = Then(f, rs) /\ records' = rs
      /\ cloud' = cloud /\ page' = page /\ told' = told
      /\ asked' = asked /\ erased' = erased /\ unmarked' = unmarked
  BY DEF CheckFails, Turn, history, excuses
<1>2. AreRecords(worker.copy)
  BY <1>1, DeletionCopy
<1>3. Rewritten(rs, f, "check_retry")
  BY <1>2 DEF Rewritten, AreRecords, IsRecord, Columns
<1> HIDE DEF rs
<1> QED
  BY <1>1, <1>3, GivenUpInv

LEMMA AskNothingInv == ASSUME IInv, NEW f \in Files, AskNothing(f) PROVE IInv'
<1>1. /\ cloud' = cloud /\ records' = records /\ page' = page /\ told' = told
      /\ asked' = asked /\ erased' = erased /\ unmarked' = unmarked
      /\ worker.pc = "ask" /\ worker.file = {f}
      /\ worker' = [worker EXCEPT !.pc = "asked", !.answer = "uncertain"]
  BY DEF AskNothing, history, excuses
<1>2. Worker(worker) /\ AreRecords(worker.copy)
  BY <1>1, DeletionCopy
<1>3. /\ worker'.pc = "asked" /\ worker'.answer = "uncertain" /\ worker'.copy = worker.copy
      /\ worker'.file = worker.file /\ worker'.left = worker.left /\ Worker(worker')
  BY <1>1, <1>2 DEF Worker, Fields, Steps
<1>4. DeletionStep
  BY <1>1, <1>2, <1>3 DEF DeletionStep, LaterCloud, IInv, Types
<1>5. OnRecord' /\ Deletions'
  BY <1>1, <1>3 DEF IInv, OnRecord, Deletions, Doubtful, Untouchable
<1> QED
  BY <1>4, <1>5, DeletionInv

LEMMA AskInv == ASSUME IInv, NEW f \in Files, Ask(f) PROVE IInv'
<1>1. /\ records' = records /\ page' = page /\ told' = told
      /\ erased' = erased /\ unmarked' = unmarked
      /\ worker.pc = "ask" /\ worker.file = {f} /\ cloud[f] # 0
  BY DEF Ask, excuses
<1>2. PICK answer \in {"deleted", "failed", "uncertain"} :
        /\ worker' = [worker EXCEPT !.pc = "asked", !.answer = answer]
        /\ asked' = IF answer = "failed" THEN asked ELSE asked \cup {f}
        /\ cloud' = [cloud EXCEPT ![f] = 0] \/ cloud' = cloud
  BY DEF Ask
<1>3. Worker(worker) /\ AreRecords(worker.copy) /\ HasCopy
  BY <1>1, DeletionCopy DEF HasCopy
<1>4. /\ worker'.pc = "asked" /\ worker'.answer = answer /\ worker'.copy = worker.copy
      /\ worker'.file = {f} /\ worker'.left = worker.left /\ Worker(worker')
  BY <1>1, <1>2, <1>3 DEF Worker, Fields, Steps
<1>5. LaterCloud
  BY <1>2 DEF LaterCloud, IInv, Types
<1>6. DeletionStep
  BY <1>1, <1>2, <1>3, <1>4, <1>5 DEF DeletionStep, IInv, Types
<1>7. f \in worker.left /\ f \notin Doubtful /\ worker.copy[f].state = "inflight"
  BY <1>1, <1>3 DEF IInv, Deletions, Worker
<1>8. OnRecord'
  BY <1>1, <1>2, <1>3, <1>7 DEF IInv, OnRecord, Doubtful, Untouchable, Agree
<1>9. Deletions'
  BY <1>1, <1>2, <1>4, <1>7 DEF IInv, Deletions, Doubtful
<1> QED
  BY <1>6, <1>8, <1>9, DeletionInv

LEMMA AnswerInv == ASSUME IInv, NEW f \in Files, Answer(f) PROVE IInv'
<1> DEFINE rs == State(f, worker.answer)
<1>1. /\ cloud' = cloud /\ records' = rs /\ page' = page /\ told' = told
      /\ asked' = asked /\ erased' = erased /\ unmarked' = unmarked
      /\ worker.pc = "asked" /\ worker.file = {f}
  BY DEF Answer, history, excuses
<1>2. PICK answer : worker' = [Then(f, rs) EXCEPT !.answer = answer]
  BY Zenon DEF Answer
<1>3. /\ Worker(worker) /\ AreRecords(worker.copy)
      /\ \A g \in Doubtful : worker.copy[g].state \in {"deleted", "inflight", "uncertain"}
      /\ Doubtful \subseteq Files
  BY <1>1, DeletionCopy
<1>4. Rewritten(rs, f, worker.answer)
  BY <1>3, StateRewrites
<1> HIDE DEF rs
<1>5. /\ worker'.pc = "delete" /\ worker'.copy = rs /\ worker'.file = {}
      /\ worker'.left = worker.left \ {f} /\ Worker(worker')
  BY <1>2, <1>3 DEF Then, Worker, Fields, Steps
<1>6. DeletionStep
  BY <1>1, <1>3, <1>4, <1>5 DEF DeletionStep, LaterCloud, IInv, Types, Rewritten
<1>7. /\ worker.answer \in {"deleted", "failed", "uncertain"}
      /\ f \in Doubtful => worker.answer # "failed"
  BY <1>1, <1>3 DEF IInv, Deletions, Worker
<1>8. OnRecord'
  BY <1>1, <1>3, <1>4, <1>7 DEF OnRecord, Doubtful, Untouchable, Rewritten
<1>9. Deletions'
  BY <1>1, <1>3, <1>4, <1>5 DEF IInv, Deletions, Doubtful, Rewritten, Worker
<1> QED
  BY <1>6, <1>8, <1>9, DeletionInv
------------------------------------------------------------------------------
(* Faults, and the page.                                                   *)

LEMMA SaveFailsInv == ASSUME IInv, SaveFails PROVE IInv'
<1>1. /\ cloud' = cloud /\ records' = records /\ page' = page /\ told' = told
      /\ asked' = asked /\ erased' = erased /\ unmarked' = unmarked \cup InGap
  BY DEF SaveFails
<1>2. Begins(worker', records)
  BY FreeBegins, FinishBegins DEF SaveFails
<1>3. BeginsStep
  BY <1>1, <1>2 DEF BeginsStep
<1> QED
  BY <1>1, <1>3, FreshInv

LEMMA CrashInv == ASSUME IInv, Crash PROVE IInv'
<1>1. /\ cloud' = cloud /\ records' = records /\ page' = Away /\ told' = told
      /\ asked' = asked /\ erased' = erased /\ unmarked' = unmarked \cup InGap
      /\ worker' = Free
  BY DEF Crash
<1>2. BeginsStep
  BY <1>1, FreeBegins DEF BeginsStep
<1> QED
  BY <1>1, <1>2, FreshInv

\* Whatever the page overwrites is excused: its files, and the messages about them.
LEMMA PageWritesInv == ASSUME IInv, PageWrites PROVE IInv'
<1> DEFINE undone == {f \in Files : records[f] # page.copy[f]}
<1>1. /\ cloud' = cloud /\ worker' = worker /\ told' = told /\ asked' = asked
      /\ page.on /\ records' = page.copy /\ page' \in {page, Away}
      /\ erased' = erased \cup undone
      /\ unmarked' = unmarked \cup {m \in told : m[1] \in undone}
  BY DEF PageWrites, Undone
<1>2. \A f \in Files : f \notin undone => records'[f] = records[f]
  BY <1>1
<1> HIDE DEF undone
<1>3. page' = page \/ (~page'.on /\ DOMAIN page' = {"on", "excludes", "copy"})
  BY <1>1 DEF Away
<1>4. Types' /\ AllSound'
  BY <1>1, <1>3 DEF IInv, Types, AllSound, HasCopy
<1>5. Agree' /\ OnRecord' /\ Hashing'
  BY <1>1, <1>2 DEF IInv, Types, Agree, OnRecord, Hashing, Doubtful, Untouchable, HasCopy, At
<1>6. Gap' /\ Deletions'
  BY <1>1 DEF IInv, Gap, Deletions, Doubtful, InGap, Message, Unsent
<1>7. Remembered'
  <2>1. InGap' = InGap
    BY <1>1 DEF InGap, Message, Unsent
  <2>2. ASSUME NEW f \in Files, NEW v \in Nat, NEW t \in Targets,
               <<f, v, t>> \in (told' \ unmarked') \ InGap'
        PROVE  <<f, v, t>> \in (told \ unmarked) \ InGap /\ records'[f] = records[f]
    BY <1>1, <1>2, <2>1, <2>2
  <2>3. Remembers(records', (told' \ unmarked') \ InGap')
    BY <2>2 DEF IInv, Remembered, Remembers
  <2>4. HasCopy => Remembers(worker.copy, (told' \ unmarked') \ InGap')
    BY <2>2 DEF IInv, Remembered, Remembers
  <2> QED
    BY <1>1, <2>3, <2>4 DEF Remembered, HasCopy
<1> QED
  BY <1>4, <1>5, <1>6, <1>7 DEF IInv
\* So is what a flush overwrites that could not read the records.
LEMMA FlushBlindInv == ASSUME IInv, FlushBlind PROVE IInv'
<1> DEFINE lost == {f \in Files : records[f] # NoRecord}
           blank == [f \in Files |-> NoRecord]
<1>1. /\ cloud' = cloud /\ told' = told /\ asked' = asked /\ page' = page
      /\ records' = blank /\ erased' = erased \cup lost
      /\ unmarked' = unmarked \cup {m \in told : m[1] \in lost}
      /\ worker.pc = "send"
  BY DEF FlushBlind, Undone
<1>2. \A f \in Files : f \notin lost => records[f] = NoRecord
  OBVIOUS
<1>3. Worker(worker) /\ worker.file = {} /\ HasCopy /\ InGap = {}
  BY <1>1, NoGap DEF IInv, Types, Deletions
<1>4. worker' = [worker EXCEPT !.pc = "delete", !.items = <<>>, !.chunk = {}, !.left = {},
                               !.copy = blank]
  BY DEF FlushBlind
<1>5. DOMAIN blank = Files /\ \A f \in Files : blank[f] = NoRecord
  OBVIOUS
<1> HIDE DEF lost, blank
<1>6. /\ worker'.pc = "delete" /\ worker'.copy = blank /\ worker'.left = {}
      /\ worker'.file = {} /\ Worker(worker')
  BY <1>3, <1>4 DEF Worker, Fields, Steps
<1>7. AreRecords(blank)
  BY <1>5, NoRecordIs DEF AreRecords, IsRecord
<1>8. Sound(blank, told, cloud)
  BY <1>5, NoRecordIs DEF Sound, IInv, Types
<1>9. Types' /\ AllSound'
  BY <1>1, <1>6, <1>7, <1>8 DEF IInv, Types, AllSound
<1>10. Agree' /\ Gap' /\ Hashing' /\ Deletions'
  BY <1>1, <1>6 DEF Agree, Gap, InGap, Hashing, Deletions
<1>11. OnRecord'
  <2>1. \A f \in Doubtful : f \in lost
    BY <1>2, NoRecordIs DEF IInv, Types, OnRecord, Doubtful, Untouchable
  <2> QED
    BY <1>1, <2>1 DEF OnRecord, Doubtful
<1>12. Remembered'
  <2>1. InGap' = {}
    BY <1>6 DEF InGap
  <2>2. ASSUME NEW f \in Files, NEW v \in Nat, NEW t \in Targets,
               <<f, v, t>> \in (told' \ unmarked') \ InGap'
        PROVE  <<f, v, t>> \in (told \ unmarked) \ InGap /\ records[f] = blank[f]
    BY <1>1, <1>2, <1>3, <1>5, <2>1, <2>2
  <2>3. Remembers(blank, (told' \ unmarked') \ InGap')
    BY <2>2 DEF IInv, Remembered, Remembers
  <2> QED
    BY <1>1, <1>6, <2>3 DEF Remembered, Remembers
<1> QED
  BY <1>9, <1>10, <1>11, <1>12 DEF IInv
------------------------------------------------------------------------------
(* Every step.                                                             *)

LEMMA NextInv == IInv /\ [Next]_vars => IInv'
<1> SUFFICES ASSUME IInv, [Next]_vars PROVE IInv'
  OBVIOUS
<1>1. CASE Window \/ Stop \/ Restart \/ PageReads
  BY <1>1, OutsideSteps
<1>2. CASE FlushReady \/ EndGroup
  BY <1>2, EndsInv
<1>3. CASE Send \/ SendFails \/ EndSend
  BY <1>3, SendInv, SendFailsInv, EndSendInv
<1>4. CASE SaveFails \/ Crash \/ PageWrites \/ FlushBlind
  BY <1>4, SaveFailsInv, CrashInv, PageWritesInv, FlushBlindInv
<1>5. CASE \E f \in Files : \/ Take(f) \/ Checkpoint(f) \/ PutOff(f) \/ Prepare(f) \/ Block(f)
                            \/ CheckFails(f) \/ AskNothing(f) \/ Ask(f) \/ Answer(f)
  BY <1>5, TakeInv, CheckpointInv, PutOffInv, PrepareInv, BlockInv, CheckFailsInv,
     AskNothingInv, AskInv, AnswerInv
<1>6. CASE \E f \in Files : Change(f)
  BY <1>6, OutsideSteps
<1>7. CASE \E f \in Files, v \in Versions \ {0} :
             \/ Skip(f, v) \/ TooYoung(f, v) \/ Changed(f, v) \/ ReadFails(f, v)
             \/ ReadBreaks(f, v) \/ KeepLink(f, v) \/ HashStops(f, v) \/ EndFile(f, v)
  BY <1>7, EndsInv
<1>8. CASE \E f \in Files, v \in Versions \ {0} :
             SentBefore(f, v) \/ StartHash(f, v) \/ Hashed(f, v)
  BY <1>8, SentBeforeInv, StartHashInv, HashedInv
<1>9. CASE \E found \in (SUBSET Files) \ {{}} : Discover(found)
  BY <1>9, OutsideSteps
<1>10. CASE UNCHANGED vars
  <2>1. OutsideStep
    BY <1>10 DEF vars, history, excuses, OutsideStep, LaterCloud, IInv, Types
  <2> QED
    BY <2>1, OutsideInv
<1> QED
  BY <1>1, <1>2, <1>3, <1>4, <1>5, <1>6, <1>7, <1>8, <1>9, <1>10 DEF Next

\* The records and the copies of them agree with what was sent, requested and undone, in
\* every reachable state.
THEOREM Invariance == Spec => []IInv
BY InitInv, NextInv, PTL DEF Spec
------------------------------------------------------------------------------
(* Messages and deletions.                                                 *)

\* Only Send brings a message to a target.
LEMMA OnlySendSends ==
    ASSUME IInv, [Next]_vars, worker.pc = "send", worker'.pc = "sent"
    PROVE  Send
<1> SUFFICES ASSUME ~Send PROVE FALSE
  OBVIOUS
<1>1. /\ worker' # worker
      /\ \A rs : ~Begins(worker', rs)
  BY DEF Begins
<1>2. Worker(worker)
  BY DEF IInv, Types
<1>3. CASE Window \/ Stop \/ Restart \/ PageReads \/ PageWrites
  BY <1>1, <1>3 DEF Window, Stop, Restart, PageReads, PageWrites
<1>4. CASE FlushReady \/ EndGroup \/ SaveFails \/ Crash
  <2>1. worker # Free /\ worker' # Free
    BY FreeIs
  <2>2. CASE SaveFails
    BY <1>1, <2>1, <2>2, FinishBegins DEF SaveFails
  <2> QED
    BY <1>1, <1>4, <2>1, <2>2, FlushingBegins DEF FlushReady, EndGroup, Crash
<1>5. CASE SendFails
  <2>1. worker'.pc = worker.pc
    BY <1>2, <1>5 DEF SendFails, Worker, Fields
  <2> QED
    BY <2>1
<1>6. CASE EndSend \/ FlushBlind
  <2>1. \A rs : Deleting(rs).pc = "delete"
    BY <1>2 DEF Deleting, Worker, Fields
  <2>2. worker' = Deleting(Told) \/ Begins(worker', Told) \/ worker'.pc = "delete"
    BY <1>2, <1>6, FinishBegins DEF EndSend, FlushBlind, Worker, Fields
  <2> QED
    BY <1>1, <2>1, <2>2
<1>7. CASE \E f \in Files : \/ Take(f) \/ Checkpoint(f) \/ PutOff(f) \/ Prepare(f) \/ Block(f)
                            \/ CheckFails(f) \/ AskNothing(f) \/ Ask(f) \/ Answer(f) \/ Change(f)
  <2>1. worker # Free
    BY FreeIs
  <2> QED
    BY <1>1, <1>7, <2>1 DEF Take, Checkpoint, PutOff, Prepare, Block, CheckFails, AskNothing, Ask,
                            Answer, Change, Turn
<1>8. CASE \E f \in Files, v \in Versions \ {0} :
             \/ Skip(f, v) \/ SentBefore(f, v) \/ TooYoung(f, v) \/ Changed(f, v)
             \/ ReadFails(f, v) \/ ReadBreaks(f, v) \/ KeepLink(f, v) \/ StartHash(f, v)
             \/ Hashed(f, v) \/ HashStops(f, v) \/ EndFile(f, v)
  BY <1>8 DEF Skip, SentBefore, TooYoung, Changed, ReadFails, ReadBreaks, KeepLink, StartHash,
              Hashed, HashStops, EndFile, Looks
<1>9. CASE \E found \in (SUBSET Files) \ {{}} : Discover(found)
  BY <1>1, <1>9 DEF Discover
<1>10. CASE UNCHANGED vars
  BY <1>1, <1>10 DEF vars
<1> QED
  BY <1>3, <1>4, <1>5, <1>6, <1>7, <1>8, <1>9, <1>10 DEF Next

\* A link goes to a target once, but for messages without an answer, for the window
\* between a message and its mark, and for records that delete_source or a flush that
\* could not read them undid: what is in the message was not sent before.
THEOREM SendsOnce == Spec => SentOnce
<1>1. IInv /\ [Next]_vars =>
        [worker.pc = "send" /\ worker'.pc = "sent"
           => told \cap Message(worker'.target) \subseteq unmarked]_vars
  <2> SUFFICES ASSUME IInv, [Next]_vars, worker.pc = "send", worker'.pc = "sent"
               PROVE  told \cap Message(worker'.target) \subseteq unmarked
    OBVIOUS
  <2> DEFINE n == worker'.target
  <2>1. Send
    BY OnlySendSends
  <2>2. n \in Targets
    <3>1. Worker(worker)
      BY DEF IInv, Types
    <3>2. worker'.target = Min(TargetsLeft)
      BY <2>1, <3>1 DEF Send, Worker, Fields
    <3> QED
      BY <2>1, <3>2, NextTarget DEF Send, IInv
  <2>3. /\ Worker(worker) /\ AreRecords(worker.copy)
        /\ Remembers(worker.copy, told \ unmarked)
    BY NoGap DEF IInv, Types
  <2> HIDE DEF n
  <2>4. ASSUME NEW m \in told \cap Message(n), m \notin unmarked PROVE FALSE
    <3>1. PICK f \in worker.chunk : m = <<f, worker.copy[f].ver, n>> /\ n \notin worker.copy[f].sent
      BY <2>4 DEF Message, Unsent
    <3>2. f \in Files /\ worker.copy[f].ver \in Nat
      BY <2>3 DEF Worker, AreRecords, IsRecord
    <3>3. n \in worker.copy[f].sent
      BY <2>2, <2>3, <2>4, <3>1, <3>2 DEF Remembers
    <3> QED
      BY <3>1, <3>3
  <2> QED
    BY <2>4 DEF n
<1> QED
  BY <1>1, Invariance, PTL DEF Spec, SentOnce

\* A deletion that was done, or may have been, is not requested again by any retry,
\* batch or later instance, unless delete_source or a flush that could not read the
\* records undid the record of it.
THEOREM DeletesOnce == Spec => DeleteOnce
<1>1. IInv /\ [Next]_vars =>
        [\A f \in asked \ erased :
           worker.pc = "ask" /\ worker.file = {f} => worker'.pc # "asked"]_vars
  <2> SUFFICES ASSUME IInv, NEW f \in asked \ erased, worker.pc = "ask", worker.file = {f}
               PROVE  FALSE
    OBVIOUS
  <2>1. f \in worker.left
    BY DEF IInv, Types, Worker
  <2> QED
    BY <2>1 DEF IInv, Deletions, Doubtful
<1> QED
  BY <1>1, Invariance, PTL DEF Spec, DeleteOnce

\* Only Ask asks the cloud to delete.
LEMMA OnlyAskAsks ==
    ASSUME [Next]_vars, asked' # asked
    PROVE  \E f \in Files : Ask(f)
<1> SUFFICES ASSUME \A f \in Files : ~Ask(f) PROVE FALSE
  OBVIOUS
<1> USE DEF history, excuses
<1>1. CASE Window \/ FlushReady \/ Send \/ SendFails \/ EndSend \/ EndGroup
  BY <1>1 DEF Window, FlushReady, Send, SendFails, EndSend, EndGroup
<1>2. CASE SaveFails \/ Stop \/ Restart \/ Crash \/ PageReads \/ PageWrites \/ FlushBlind
  BY <1>2 DEF SaveFails, Stop, Restart, Crash, PageReads, PageWrites, FlushBlind
<1>3. CASE \E f \in Files : \/ Take(f) \/ Checkpoint(f) \/ PutOff(f) \/ Prepare(f) \/ Block(f)
                            \/ CheckFails(f) \/ AskNothing(f) \/ Answer(f) \/ Change(f)
  BY <1>3 DEF Take, Checkpoint, PutOff, Prepare, Block, CheckFails, AskNothing, Answer, Change
<1>4. CASE \E f \in Files, v \in Versions \ {0} :
             \/ Skip(f, v) \/ SentBefore(f, v) \/ TooYoung(f, v) \/ Changed(f, v)
             \/ ReadFails(f, v) \/ ReadBreaks(f, v) \/ KeepLink(f, v) \/ StartHash(f, v)
             \/ Hashed(f, v) \/ HashStops(f, v) \/ EndFile(f, v)
  BY <1>4 DEF Skip, SentBefore, TooYoung, Changed, ReadFails, ReadBreaks, KeepLink, StartHash,
              Hashed, HashStops, EndFile
<1>5. CASE \E found \in (SUBSET Files) \ {{}} : Discover(found)
  BY <1>5 DEF Discover
<1>6. CASE UNCHANGED vars
  BY <1>6 DEF vars
<1> QED
  BY <1>1, <1>2, <1>3, <1>4, <1>5, <1>6 DEF Next

\* When a deletion is requested every target has had the link of the version on record.
THEOREM DeletesWhatWasTold == Spec => DeletedMeansTold
<1>1. IInv /\ [Next]_vars =>
        [\A f \in Files : f \in asked' \ asked =>
           {<<f, worker.copy[f].ver, t>> : t \in Targets} \subseteq told]_vars
  <2> SUFFICES ASSUME IInv, [Next]_vars, NEW f \in Files, f \in asked' \ asked
               PROVE  {<<f, worker.copy[f].ver, t>> : t \in Targets} \subseteq told
    OBVIOUS
  <2>1. PICK g \in Files : Ask(g)
    BY OnlyAskAsks
  <2>2. f = g /\ worker.pc = "ask" /\ worker.file = {f}
    BY <2>1 DEF Ask
  <2>3. f \in worker.left /\ worker.copy[f].done
    BY <2>2 DEF IInv, Types, Worker, Deletions
  <2>4. Sound(worker.copy, told, cloud)
    BY <2>2, NoGap
  <2> QED
    BY <2>3, <2>4 DEF Sound
<1> QED
  BY <1>1, Invariance, PTL DEF Spec, DeletedMeansTold
------------------------------------------------------------------------------
(* Memory: the queue and the batches.                                      *)

Batches == [id : Nat \ {0}, expected : SUBSET Files, results : SUBSET Files,
            context : [Files -> Nat], due : SUBSET Groups, flushing : SUBSET Groups,
            flushed : SUBSET Groups, strays : SUBSET Files]
Retries == [ver : Nat, attempts : Nat]
Mems == [pending : [Files -> Nat], home : [Files -> Nat], batches : Seq(Batches),
         retry : [Files -> Retries], late : SUBSET Files]

\* A batch is found by its id.
Unique(m) == \A i, j \in DOMAIN m.batches : m.batches[i].id = m.batches[j].id => i = j

\* A batch expects what is queued for it and what it has a context of; what it flushes
\* belongs to it and is not flushed yet.
BatchSane(m, b) ==
    /\ \A f \in Files : m.pending[f] # 0 /\ m.home[f] = b.id => f \in b.expected
    /\ \A f \in Files : b.context[f] # 0 => f \in b.expected
    /\ b.flushing \subseteq GroupsOf(b) \ b.flushed

Sane(m) ==
    /\ m \in Mems /\ Unique(m)
    /\ \A f \in Files : m.home[f] \in Ids(m) \cup {0}
    /\ \A id \in Ids(m) : BatchSane(m, Batch(m, id))

\* A batch and its id determine each other.
LEMMA BatchIs ==
    ASSUME NEW m \in Mems, Unique(m)
    PROVE  /\ \A i \in DOMAIN m.batches : /\ m.batches[i].id \in Ids(m)
                                          /\ Batch(m, m.batches[i].id) = m.batches[i]
           /\ \A id \in Ids(m) : /\ Batch(m, id) \in Batches /\ Batch(m, id).id = id
                                 /\ \E i \in DOMAIN m.batches : m.batches[i] = Batch(m, id)
           /\ Ids(m) \subseteq Nat \ {0}
<1>1. m.batches \in Seq(Batches) /\ \A i \in DOMAIN m.batches : m.batches[i] \in Batches
  BY DEF Mems
<1>2. ASSUME NEW i \in DOMAIN m.batches
      PROVE  m.batches[i].id \in Ids(m) /\ Batch(m, m.batches[i].id) = m.batches[i]
  <2>1. (CHOOSE j \in DOMAIN m.batches : m.batches[j].id = m.batches[i].id) = i
    BY DEF Unique
  <2> QED
    BY <2>1 DEF Batch, Ids
<1>3. ASSUME NEW id \in Ids(m)
      PROVE  /\ Batch(m, id) \in Batches /\ Batch(m, id).id = id /\ id \in Nat \ {0}
             /\ \E i \in DOMAIN m.batches : m.batches[i] = Batch(m, id)
  <2>1. PICK i \in DOMAIN m.batches : m.batches[i].id = id
    BY DEF Ids
  <2>2. Batch(m, id) = m.batches[i]
    BY <1>2, <2>1
  <2> QED
    BY <1>1, <2>1, <2>2 DEF Batches
<1> QED
  BY <1>2, <1>3

\* Only the batch that is put changes.
LEMMA PutIs ==
    ASSUME NEW m \in Mems, Unique(m), NEW b \in Batches
    PROVE  LET q == Put(m, b) IN
           /\ q \in Mems /\ Unique(q) /\ Ids(q) = Ids(m)
           /\ \A id \in Ids(m) : Batch(q, id) = IF id = b.id THEN b ELSE Batch(m, id)
           /\ q.pending = m.pending /\ q.home = m.home /\ q.retry = m.retry /\ q.late = m.late
<1> DEFINE s == m.batches
           t == [i \in DOMAIN s |-> IF s[i].id = b.id THEN b ELSE s[i]]
           q == Put(m, b)
<1>1. s \in Seq(Batches) /\ DOMAIN s = 1 .. Len(s) /\ Len(s) \in Nat
  BY DEF Mems
<1>2. t \in Seq(Batches) /\ DOMAIN t = DOMAIN s
  BY <1>1, IsASeq
<1>3. q = [m EXCEPT !.batches = t]
  BY DEF Put
<1> HIDE DEF q
<1>4. q \in Mems /\ q.batches = t
      /\ q.pending = m.pending /\ q.home = m.home /\ q.retry = m.retry /\ q.late = m.late
  BY <1>2, <1>3 DEF Mems
<1>5. \A i \in DOMAIN s : t[i].id = s[i].id
  OBVIOUS
<1>6. Unique(q) /\ Ids(q) = Ids(m)
  BY <1>2, <1>4, <1>5 DEF Unique, Ids
<1>7. ASSUME NEW id \in Ids(m)
      PROVE  Batch(q, id) = IF id = b.id THEN b ELSE Batch(m, id)
  <2>1. PICK i \in DOMAIN s : s[i].id = id
    BY DEF Ids
  <2>2. Batch(m, id) = s[i] /\ Batch(q, id) = t[i]
    BY <1>2, <1>4, <1>5, <1>6, <2>1, BatchIs
  <2> QED
    BY <2>1, <2>2
<1> QED
  BY <1>4, <1>6, <1>7 DEF q

\* A batch that goes on with more files, and flushes what is its own.
LEMMA PutSane ==
    ASSUME NEW m, Sane(m), NEW b \in Batches, b.id \in Ids(m),
           Batch(m, b.id).expected \subseteq b.expected,
           \A f \in Files : b.context[f] # 0 => f \in b.expected,
           b.flushing \subseteq GroupsOf(b) \ b.flushed
    PROVE  Sane(Put(m, b))
<1> DEFINE q == Put(m, b)
<1>1. /\ q \in Mems /\ Unique(q) /\ Ids(q) = Ids(m)
      /\ \A id \in Ids(m) : Batch(q, id) = IF id = b.id THEN b ELSE Batch(m, id)
      /\ q.pending = m.pending /\ q.home = m.home
  BY PutIs DEF Sane
<1> HIDE DEF q
<1>2. ASSUME NEW id \in Ids(m) PROVE BatchSane(q, Batch(q, id))
  <2>1. Batch(m, id).id = id /\ BatchSane(m, Batch(m, id))
    BY BatchIs DEF Sane
  <2>2. CASE id = b.id
    BY <1>1, <2>1, <2>2 DEF BatchSane
  <2>3. CASE id # b.id
    BY <1>1, <2>1, <2>3 DEF BatchSane
  <2> QED
    BY <2>2, <2>3
<1>3. Sane(q)
  BY <1>1, <1>2 DEF Sane
<1> QED
  BY <1>3 DEF q

\* There is always a new id: there are more numbers than batches.
LEMMA NewIdIs ==
    ASSUME NEW m \in Mems
    PROVE  NewId(m) \in Nat \ {0} /\ NewId(m) \notin Ids(m)
<1> DEFINE n == Len(m.batches)
           free == (1 .. n + 1) \ Ids(m)
<1>1. m.batches \in Seq(Batches) /\ n \in Nat /\ DOMAIN m.batches = 1 .. n
  BY DEF Mems
<1>2. free # {}
  <2> SUFFICES ASSUME 1 .. n + 1 \subseteq Ids(m) PROVE FALSE
    OBVIOUS
  <2> DEFINE at(k) == CHOOSE i \in 1 .. n : m.batches[i].id = k
             f == [k \in 1 .. n + 1 |-> at(k)]
  <2>1. \A k \in 1 .. n + 1 : at(k) \in 1 .. n /\ m.batches[at(k)].id = k
    BY <1>1 DEF Ids
  <2>2. f \in [1 .. n + 1 -> 1 .. n]
    BY <2>1
  <2>3. /\ IsFiniteSet(1 .. n + 1) /\ Cardinality(1 .. n + 1) = n + 1
        /\ IsFiniteSet(1 .. n) /\ Cardinality(1 .. n) = n
    <3> HIDE DEF n
    <3>1. 1 \in Int /\ n \in Int /\ n + 1 \in Int /\ ~(1 > n + 1) /\ (1 > n => n = 0)
      BY <1>1
    <3>2. /\ IsFiniteSet(1 .. n + 1)
          /\ Cardinality(1 .. n + 1) = (IF 1 > n + 1 THEN 0 ELSE n + 1 - 1 + 1)
      BY <3>1, FS_Interval
    <3>3. /\ IsFiniteSet(1 .. n) /\ Cardinality(1 .. n) = (IF 1 > n THEN 0 ELSE n - 1 + 1)
      BY <3>1, FS_Interval
    <3> QED
      BY <1>1, <3>1, <3>2, <3>3
  <2>4. PICK x \in 1 .. n + 1, y \in 1 .. n + 1 : x # y /\ f[x] = f[y]
    <3> DEFINE numbers == 1 .. n + 1
               places == 1 .. n
    <3>1. IsFiniteSet(numbers) /\ IsFiniteSet(places) /\ f \in [numbers -> places]
      BY <2>2, <2>3
    <3>2. Cardinality(places) < Cardinality(numbers)
      BY <1>1, <2>3
    <3> HIDE DEF f, numbers, places
    <3>3. \E x, y \in numbers : x # y /\ f[x] = f[y]
      BY <3>1, <3>2, FS_PigeonHole
    <3> QED
      BY <3>3 DEF numbers
  <2>5. at(x) = at(y)
    BY <2>4
  <2> HIDE DEF at
  <2> QED
    BY <2>1, <2>4, <2>5
<1>3. free \in SUBSET Nat
  BY <1>1
<1>4. NewId(m) \in free
  BY <1>2, <1>3, MinIsLeast DEF NewId
<1> QED
  BY <1>1, <1>4

\* A sequence without its k-th element.
LEMMA RemoveIs ==
    ASSUME NEW S, NEW s \in Seq(S), NEW k \in 1 .. Len(s)
    PROVE  /\ RemoveAt(s, k) \in Seq(S) /\ Len(RemoveAt(s, k)) = Len(s) - 1
           /\ \A i \in 1 .. Len(s) - 1 : RemoveAt(s, k)[i] = IF i < k THEN s[i] ELSE s[i + 1]
<1>1. Len(s) \in Nat /\ k \in Nat /\ 1 <= k /\ k <= Len(s)
  OBVIOUS
<1>2. /\ SubSeq(s, 1, k - 1) \in Seq(S) /\ Len(SubSeq(s, 1, k - 1)) = k - 1
      /\ \A i \in 1 .. k - 1 : SubSeq(s, 1, k - 1)[i] = s[i]
  BY <1>1
<1>3. /\ SubSeq(s, k + 1, Len(s)) \in Seq(S) /\ Len(SubSeq(s, k + 1, Len(s))) = Len(s) - k
      /\ \A i \in 1 .. Len(s) - k : SubSeq(s, k + 1, Len(s))[i] = s[k + i]
  BY <1>1
<1> DEFINE front == SubSeq(s, 1, k - 1)
           back == SubSeq(s, k + 1, Len(s))
<1> HIDE DEF front, back
<1>4. /\ front \o back \in Seq(S) /\ Len(front \o back) = Len(s) - 1
      /\ \A i \in 1 .. Len(s) - 1 :
            (front \o back)[i] = IF i <= k - 1 THEN front[i] ELSE back[i - (k - 1)]
  <2>1. /\ front \o back \in Seq(S) /\ Len(front \o back) = Len(front) + Len(back)
        /\ \A i \in 1 .. Len(front) + Len(back) :
              (front \o back)[i] = IF i <= Len(front) THEN front[i] ELSE back[i - Len(front)]
    BY <1>2, <1>3, ConcatProperties DEF front, back
  <2>2. Len(front) = k - 1 /\ Len(back) = Len(s) - k
    BY <1>2, <1>3 DEF front, back
  <2> QED
    BY <1>1, <2>1, <2>2
<1>5. ASSUME NEW i \in 1 .. Len(s) - 1
      PROVE  (front \o back)[i] = IF i < k THEN s[i] ELSE s[i + 1]
  <2>1. CASE i < k
    BY <1>1, <1>2, <1>4, <2>1 DEF front
  <2>2. CASE ~(i < k)
    <3>1. i - (k - 1) \in 1 .. Len(s) - k /\ k + (i - (k - 1)) = i + 1 /\ ~(i <= k - 1)
      BY <1>1, <2>2
    <3> QED
      BY <1>3, <1>4, <2>2, <3>1 DEF back
  <2> QED
    BY <2>1, <2>2
<1>6. RemoveAt(s, k) = front \o back
  BY DEF RemoveAt, front, back
<1> QED
  BY <1>4, <1>5, <1>6

\* What is dropped is gone, and nothing else.
LEMMA DropIs ==
    ASSUME NEW m \in Mems, Unique(m), NEW id \in Ids(m)
    PROVE  LET q == Drop(m, id) IN
           /\ q \in Mems /\ Unique(q) /\ Ids(q) = Ids(m) \ {id}
           /\ \A x \in Ids(q) : Batch(q, x) = Batch(m, x)
           /\ q.pending = m.pending /\ q.retry = m.retry /\ q.late = m.late
           /\ \A f \in Files : q.home[f] = IF m.home[f] = id THEN 0 ELSE m.home[f]
<1> DEFINE s == m.batches
           k == CHOOSE i \in DOMAIN s : s[i].id = id
           t == RemoveAt(s, k)
           q == Drop(m, id)
<1>1. s \in Seq(Batches) /\ DOMAIN s = 1 .. Len(s) /\ Len(s) \in Nat
  BY DEF Mems
<1>2. k \in 1 .. Len(s) /\ s[k].id = id
  BY <1>1 DEF Ids
<1>3. q = [m EXCEPT !.batches = t,
                    !.home = [f \in Files |-> IF m.home[f] = id THEN 0 ELSE m.home[f]]]
  BY DEF Drop, Mems
<1> HIDE DEF q, t, k
<1>4. /\ t \in Seq(Batches) /\ Len(t) = Len(s) - 1
      /\ \A i \in 1 .. Len(s) - 1 : t[i] = IF i < k THEN s[i] ELSE s[i + 1]
  BY <1>1, <1>2, RemoveIs DEF t
<1>5. DOMAIN t = 1 .. Len(s) - 1
  BY <1>4
<1>6. /\ q.batches = t /\ q.pending = m.pending /\ q.retry = m.retry /\ q.late = m.late
      /\ q.home = [f \in Files |-> IF m.home[f] = id THEN 0 ELSE m.home[f]]
      /\ q \in Mems
  BY <1>3, <1>4 DEF Mems
<1>7. \A i \in 1 .. Len(s) : \A j \in 1 .. Len(s) : s[i].id = s[j].id => i = j
  BY <1>1 DEF Unique
<1>8. Unique(q)
  <2> SUFFICES ASSUME NEW i \in 1 .. Len(s) - 1, NEW j \in 1 .. Len(s) - 1, t[i].id = t[j].id
               PROVE  i = j
    BY <1>5, <1>6 DEF Unique
  <2> DEFINE a(x) == IF x < k THEN x ELSE x + 1
  <2>1. a(i) \in 1 .. Len(s) /\ a(j) \in 1 .. Len(s)
    BY <1>1, <1>2
  <2>2. t[i] = s[a(i)] /\ t[j] = s[a(j)]
    BY <1>4
  <2>3. a(i) = a(j)
    BY <1>7, <2>1, <2>2
  <2> QED
    BY <1>1, <1>2, <2>3
<1>9. ASSUME NEW x \in Ids(m) \ {id}
      PROVE  \E i \in DOMAIN t : t[i] = Batch(m, x) /\ t[i].id = x
  <2>1. PICK j \in 1 .. Len(s) : s[j] = Batch(m, x) /\ s[j].id = x
    BY <1>1, BatchIs
  <2>2. j # k
    BY <1>2, <2>1
  <2>3. CASE j < k
    <3>1. j \in 1 .. Len(s) - 1 /\ t[j] = s[j]
      BY <1>1, <1>2, <1>4, <2>1, <2>3
    <3> QED
      BY <1>5, <2>1, <3>1
  <2>4. CASE j > k
    <3>1. j - 1 \in 1 .. Len(s) - 1 /\ t[j - 1] = s[j]
      BY <1>1, <1>2, <1>4, <2>1, <2>4
    <3> QED
      BY <1>5, <2>1, <3>1
  <2> QED
    BY <1>1, <1>2, <2>1, <2>2, <2>3, <2>4
<1>10. ASSUME NEW i \in DOMAIN t PROVE t[i].id \in Ids(m) \ {id}
  <2> DEFINE j == IF i < k THEN i ELSE i + 1
  <2>1. j \in 1 .. Len(s) /\ j # k /\ t[i] = s[j]
    BY <1>1, <1>2, <1>4, <1>5
  <2>2. s[j].id # id
    BY <1>2, <1>7, <2>1
  <2> QED
    BY <1>1, <2>1, <2>2 DEF Ids
<1>11. Ids(q) = Ids(m) \ {id}
  BY <1>6, <1>9, <1>10 DEF Ids
<1>12. ASSUME NEW x \in Ids(q) PROVE Batch(q, x) = Batch(m, x)
  <2>1. PICK i \in DOMAIN t : t[i] = Batch(m, x) /\ t[i].id = x
    BY <1>9, <1>11
  <2> QED
    BY <1>6, <1>8, <2>1, BatchIs
<1>13. \A f \in Files : q.home[f] = IF m.home[f] = id THEN 0 ELSE m.home[f]
  BY <1>6
<1> QED
  BY <1>6, <1>8, <1>11, <1>12, <1>13 DEF q

LEMMA DropSane ==
    ASSUME NEW m, Sane(m), NEW id \in Ids(m)
    PROVE  Sane(Drop(m, id))
<1> DEFINE q == Drop(m, id)
<1>1. /\ q \in Mems /\ Unique(q) /\ Ids(q) = Ids(m) \ {id}
      /\ \A x \in Ids(q) : Batch(q, x) = Batch(m, x)
      /\ q.pending = m.pending
      /\ \A f \in Files : q.home[f] = IF m.home[f] = id THEN 0 ELSE m.home[f]
  BY DropIs DEF Sane
<1> HIDE DEF q
<1>2. \A f \in Files : q.home[f] \in Ids(q) \cup {0}
  BY <1>1 DEF Sane
<1>3. ASSUME NEW x \in Ids(q) PROVE BatchSane(q, Batch(q, x))
  <2>1. Batch(m, x).id = x /\ BatchSane(m, Batch(m, x)) /\ x # id /\ x # 0
    BY <1>1, BatchIs DEF Sane
  <2> QED
    BY <1>1, <2>1 DEF BatchSane
<1> QED
  BY <1>1, <1>2, <1>3 DEF Sane, q

\* A batch that is opened is the youngest, and empty.
LEMMA OpenIs ==
    ASSUME NEW m, Sane(m), NEW id \in Nat \ {0}, id \notin Ids(m)
    PROVE  LET q == Open(m, id) IN
           /\ Sane(q) /\ Ids(q) = Ids(m) \cup {id}
           /\ \A x \in Ids(m) : Batch(q, x) = Batch(m, x)
           /\ Batch(q, id).expected = {}
           /\ q.pending = m.pending /\ q.home = m.home /\ q.retry = m.retry /\ q.late = m.late
<1> DEFINE s == m.batches
           b == [id |-> id, expected |-> {}, results |-> {}, context |-> [f \in Files |-> 0],
                 due |-> {}, flushing |-> {}, flushed |-> {}, strays |-> {}]
           t == Append(s, b)
           q == Open(m, id)
<1>1. s \in Seq(Batches) /\ DOMAIN s = 1 .. Len(s) /\ Len(s) \in Nat
  BY DEF Mems, Sane
<1>2. b \in Batches /\ b.id = id /\ b.expected = {} /\ b.flushing = {}
      /\ \A f \in Files : b.context[f] = 0
  BY DEF Batches
<1> HIDE DEF b
<1>3. /\ t \in Seq(Batches) /\ DOMAIN t = 1 .. Len(s) + 1
      /\ \A i \in 1 .. Len(s) : t[i] = s[i]
      /\ t[Len(s) + 1] = b
  BY <1>1, <1>2
<1>4. q = [m EXCEPT !.batches = t]
  BY DEF Open, b
<1> HIDE DEF q, t
<1>5. /\ q \in Mems /\ q.batches = t
      /\ q.pending = m.pending /\ q.home = m.home /\ q.retry = m.retry /\ q.late = m.late
  BY <1>3, <1>4 DEF Mems, Sane
<1>6. \A i \in 1 .. Len(s) : s[i].id \in Ids(m) /\ s[i].id # id
  BY <1>1 DEF Ids
<1>7. Unique(q)
  <2> SUFFICES ASSUME NEW i \in 1 .. Len(s) + 1, NEW j \in 1 .. Len(s) + 1, t[i].id = t[j].id
               PROVE  i = j
    BY <1>3, <1>5 DEF Unique
  <2>1. \A x \in 1 .. Len(s) + 1 : x \in 1 .. Len(s) \/ x = Len(s) + 1
    BY <1>1
  <2> QED
    BY <1>1, <1>2, <1>3, <1>6, <2>1 DEF Sane, Unique
<1>8. Ids(q) = Ids(m) \cup {id}
  <2>1. \A x \in 1 .. Len(s) + 1 : x \in 1 .. Len(s) \/ x = Len(s) + 1
    BY <1>1
  <2>2. \A x \in 1 .. Len(s) : x \in 1 .. Len(s) + 1
    BY <1>1
  <2>3. Len(s) + 1 \in 1 .. Len(s) + 1
    BY <1>1
  <2> QED
    BY <1>1, <1>2, <1>3, <1>5, <2>1, <2>2, <2>3 DEF Ids
<1>9. ASSUME NEW x \in Ids(m) PROVE Batch(q, x) = Batch(m, x)
  <2>1. PICK i \in 1 .. Len(s) : s[i] = Batch(m, x) /\ s[i].id = x
    BY <1>1, BatchIs DEF Sane
  <2>2. i \in DOMAIN t /\ t[i] = s[i]
    BY <1>1, <1>3
  <2> QED
    BY <1>5, <1>7, <2>1, <2>2, BatchIs
<1>10. Batch(q, id) = b
  <2>1. Len(s) + 1 \in DOMAIN t /\ t[Len(s) + 1].id = id
    BY <1>1, <1>2, <1>3
  <2> QED
    BY <1>3, <1>5, <1>7, <2>1, BatchIs
<1>11. ASSUME NEW x \in Ids(q) PROVE BatchSane(q, Batch(q, x))
  <2>1. CASE x \in Ids(m)
    BY <1>5, <1>9, <2>1 DEF Sane, BatchSane
  <2>2. CASE x = id
    <3>1. \A f \in Files : q.home[f] # id
      BY <1>5 DEF Sane
    <3> QED
      BY <1>2, <1>10, <2>2, <3>1 DEF BatchSane
  <2> QED
    BY <1>8, <2>1, <2>2
<1>12. Sane(q)
  BY <1>5, <1>7, <1>8, <1>11 DEF Sane
<1> QED
  BY <1>2, <1>5, <1>8, <1>9, <1>10, <1>12 DEF q

\* What is the same in two memories with the same batches.
LEMMA SameBatches ==
    ASSUME NEW m, NEW q, q.batches = m.batches
    PROVE  Ids(q) = Ids(m) /\ \A id : Batch(q, id) = Batch(m, id)
BY Zenon DEF Ids, Batch

\* A file takes its place in the queue.
Placed(m, f, v, id) == [[m EXCEPT !.home[f] = id] EXCEPT !.pending[f] = v, !.late = @ \ {f}]

LEMMA PlacedIs ==
    ASSUME NEW m \in Mems, NEW f \in Files, NEW v \in Nat, NEW id \in Nat
    PROVE  LET q == Placed(m, f, v, id) IN
           /\ q \in Mems /\ q.batches = m.batches /\ q.late = m.late \ {f} /\ q.retry = m.retry
           /\ \A e \in Files \ {f} : q.pending[e] = m.pending[e] /\ q.home[e] = m.home[e]
           /\ q.pending[f] = v /\ q.home[f] = id
<1> DEFINE n == [m EXCEPT !.home[f] = id]
           q == Placed(m, f, v, id)
<1>1. /\ n.batches = m.batches /\ n.late = m.late /\ n.retry = m.retry
      /\ n.pending = m.pending /\ n.home = [m.home EXCEPT ![f] = id] /\ n \in Mems
  BY DEF Mems
<1>a. q = [n EXCEPT !.pending[f] = v, !.late = @ \ {f}]
  BY Zenon DEF Placed
<1> HIDE DEF n, q
<1> DEFINE p == [n.pending EXCEPT ![f] = v]
<1>b. p \in [Files -> Nat] /\ q = [n EXCEPT !.pending = p, !.late = @ \ {f}]
  BY <1>1, <1>a DEF Mems
<1> HIDE DEF p
<1>2. /\ q.batches = n.batches /\ q.late = n.late \ {f} /\ q.retry = n.retry
      /\ q.pending = p /\ q.home = n.home /\ q \in Mems
  BY <1>1, <1>b DEF Mems
<1>3. m.pending \in [Files -> Nat] /\ m.home \in [Files -> Nat]
  BY DEF Mems
<1>4. /\ q \in Mems /\ q.batches = m.batches /\ q.late = m.late \ {f} /\ q.retry = m.retry
      /\ \A e \in Files \ {f} : q.pending[e] = m.pending[e] /\ q.home[e] = m.home[e]
      /\ q.pending[f] = v /\ q.home[f] = id
  BY <1>1, <1>2, <1>3 DEF p
<1> QED
  BY <1>4 DEF q

LEMMA MaxIsGreatest ==
    ASSUME NEW n \in Nat, NEW S \in SUBSET (1 .. n), S # {}
    PROVE  Max(S) \in S
<1> DEFINE T == {n - x : x \in S}
<1>1. T \in SUBSET Nat /\ T # {}
  <2>1. \A x \in S : n - x \in Nat
    OBVIOUS
  <2> QED
    BY <2>1
<1>2. PICK d \in T : \A y \in T : ~(<<y, d>> \in OpToRel(<, Nat))
  <2> HIDE DEF T
  <2> QED
    BY <1>1, NatLessThanWellFounded, WFMin, Zenon
<1>3. \A y \in T : ~(y < d)
  BY <1>1, <1>2 DEF OpToRel
<1>4. PICK x \in S : d = n - x
  BY <1>2
<1>5. \A y \in S : y <= x
  BY <1>3, <1>4
<1>6. \A y \in S : x >= y
  BY <1>5
<1> QED
  BY <1>6, Zenon DEF Max

\* A file joins a batch that exists.
LEMMA MergedIs ==
    ASSUME NEW m \in Mems, NEW id \in Ids(m), NEW g
    PROVE  Merged(m, id, g) \in Ids(m)
<1> DEFINE open == {i \in DOMAIN m.batches :
                      LET b == m.batches[i] IN
                      /\ b.id # id /\ g \in GroupsOf(b)
                      /\ g \notin b.flushing \cup b.flushed \cup b.due}
<1>1. DOMAIN m.batches = 1 .. Len(m.batches) /\ Len(m.batches) \in Nat
  BY DEF Mems
<1>2. open \in SUBSET (1 .. Len(m.batches))
  BY <1>1
<1>3. Merged(m, id, g) = IF open = {} THEN id ELSE m.batches[Max(open)].id
  BY Zenon DEF Merged
<1> HIDE DEF open
<1>4. CASE open = {}
  BY <1>3, <1>4
<1>5. CASE open # {}
  BY <1>1, <1>2, <1>3, <1>5, MaxIsGreatest DEF Ids
<1> QED
  BY <1>4, <1>5
------------------------------------------------------------------------------
(* What one step of the queue leaves as it was.                            *)

\* What waited still waits: in the queue, among what came late, or in its batch,
\* which expects nothing more than what has just been queued for it.
Kept(m, q) ==
    /\ \A f \in Files : m.pending[f] # 0 => q.pending[f] # 0 /\ q.home[f] = m.home[f]
    /\ \A f \in m.late : f \in q.late \/ q.pending[f] # 0
    /\ \A id \in Ids(m) :
         /\ id \in Ids(q)
         /\ Batch(q, id).context = Batch(m, id).context
         /\ Batch(m, id).expected \subseteq Batch(q, id).expected
         /\ Batch(m, id).results \subseteq Batch(q, id).results
         /\ Batch(m, id).strays \subseteq Batch(q, id).strays
         /\ Batch(q, id).flushed \subseteq Batch(m, id).flushed
    /\ \A id \in Ids(q) : \A f \in Batch(q, id).expected :
         \/ q.pending[f] # 0 /\ q.home[f] = id
         \/ id \in Ids(m) /\ f \in Batch(m, id).expected

\* A file that is given up is queued again at most.
Onward(m, q) ==
    /\ Kept(m, q)
    /\ ~stopping => \A f \in Files : m.retry[f].attempts > RetryLimit =>
                       q.retry[f].attempts > RetryLimit \/ q.pending[f] # 0

LEMMA OnwardSame == ASSUME NEW m PROVE Onward(m, m)
BY DEF Onward, Kept

LEMMA OnwardAgain ==
    ASSUME NEW m, NEW n, NEW q, Onward(m, n), Onward(n, q), Sane(m), Sane(n), Sane(q)
    PROVE  Onward(m, q)
<1>1. \A f \in Files : m.pending[f] # 0 => q.pending[f] # 0 /\ q.home[f] = m.home[f]
  BY DEF Onward, Kept
<1>2. \A f \in m.late : f \in q.late \/ q.pending[f] # 0
  BY DEF Onward, Kept, Sane, Mems
<1>3. ~stopping => \A f \in Files : m.retry[f].attempts > RetryLimit =>
                       q.retry[f].attempts > RetryLimit \/ q.pending[f] # 0
  BY DEF Onward, Kept
<1>4. ASSUME NEW id \in Ids(m)
      PROVE  /\ id \in Ids(q)
             /\ Batch(q, id).context = Batch(m, id).context
             /\ Batch(m, id).expected \subseteq Batch(q, id).expected
             /\ Batch(m, id).results \subseteq Batch(q, id).results
             /\ Batch(m, id).strays \subseteq Batch(q, id).strays
             /\ Batch(q, id).flushed \subseteq Batch(m, id).flushed
  BY DEF Onward, Kept
<1>5. ASSUME NEW id \in Ids(q), NEW f \in Batch(q, id).expected
      PROVE  \/ q.pending[f] # 0 /\ q.home[f] = id
             \/ id \in Ids(m) /\ f \in Batch(m, id).expected
  <2>1. f \in Files
    BY BatchIs DEF Sane, Batches
  <2>2. \/ q.pending[f] # 0 /\ q.home[f] = id
        \/ id \in Ids(n) /\ f \in Batch(n, id).expected
    BY DEF Onward, Kept
  <2>3. id \in Ids(n) /\ f \in Batch(n, id).expected =>
          \/ n.pending[f] # 0 /\ n.home[f] = id
          \/ id \in Ids(m) /\ f \in Batch(m, id).expected
    BY DEF Onward, Kept
  <2>4. n.pending[f] # 0 => q.pending[f] # 0 /\ q.home[f] = n.home[f]
    BY <2>1 DEF Onward, Kept
  <2> QED
    BY <2>2, <2>3, <2>4
<1> QED
  BY <1>1, <1>2, <1>3, <1>4, <1>5 DEF Onward, Kept

\* A batch goes on with the same files.
LEMMA PutOnward ==
    ASSUME NEW m, Sane(m), NEW b \in Batches, b.id \in Ids(m),
           LET a == Batch(m, b.id) IN
           /\ b.expected = a.expected /\ b.context = a.context
           /\ a.results \subseteq b.results /\ a.strays \subseteq b.strays
           /\ b.flushed \subseteq a.flushed /\ b.flushing \subseteq GroupsOf(b) \ b.flushed
    PROVE  Sane(Put(m, b)) /\ Onward(m, Put(m, b))
<1> DEFINE q == Put(m, b)
<1>1. BatchSane(m, Batch(m, b.id))
  BY DEF Sane
<1>2. Sane(q)
  BY <1>1, PutSane DEF BatchSane
<1>3. /\ Ids(q) = Ids(m)
      /\ \A id \in Ids(m) : Batch(q, id) = IF id = b.id THEN b ELSE Batch(m, id)
      /\ q.pending = m.pending /\ q.home = m.home /\ q.retry = m.retry /\ q.late = m.late
  BY PutIs DEF Sane
<1> HIDE DEF q
<1>4. Onward(m, q)
  BY <1>3 DEF Onward, Kept
<1> QED
  BY <1>2, <1>4 DEF q

\* A file is queued: it joins its batch, or one that is still open for its group.
LEMMA EnqueueIs ==
    ASSUME NEW m, Sane(m), NEW f \in Files, NEW v \in Nat \ {0}, NEW id,
           group \in [Files -> Groups]
    PROVE  LET q == Enqueue(m, f, v, id) IN
           /\ Sane(q) /\ Onward(m, q) /\ Ids(q) = Ids(m)
           /\ q.pending[f] # 0 \/ q.retry[f].attempts > RetryLimit
<1> DEFINE r == m.retry[f]
           kept == IF r.ver = v THEN m ELSE [m EXCEPT !.retry[f] = NoRetry]
           q == Enqueue(m, f, v, id)
<1>1. m \in Mems /\ NoRetry \in Retries /\ RetryLimit \in Nat
  BY Parameters DEF Sane, Retries, NoRetry
<1>2. /\ kept \in Mems /\ kept.batches = m.batches /\ kept.pending = m.pending
      /\ kept.home = m.home /\ kept.late = m.late
      /\ \A e \in Files \ {f} : kept.retry[e] = m.retry[e]
  BY <1>1 DEF Mems
<1> HIDE DEF kept
<1>3. Ids(kept) = Ids(m) /\ \A x : Batch(kept, x) = Batch(m, x)
  BY <1>2 DEF Ids, Batch
<1>4. Sane(kept)
  BY <1>2, <1>3 DEF Sane, Unique, BatchSane
<1>5. CASE r.ver = v /\ r.attempts > RetryLimit
  <2>1. q = m
    BY <1>5, Zenon DEF Enqueue
  <2> QED
    BY <1>5, <2>1, OnwardSame
<1> SUFFICES ASSUME ~(r.ver = v /\ r.attempts > RetryLimit)
             PROVE  Sane(q) /\ Onward(m, q) /\ Ids(q) = Ids(m) /\ q.pending[f] # 0
  BY <1>5
<1>6. CASE m.pending[f] # 0
  <2>1. q = kept
    BY <1>6, Zenon DEF Enqueue, kept
  <2>2. Onward(m, q)
    BY <1>2, <1>3, <1>6, <2>1 DEF Onward, Kept
  <2> QED
    BY <1>2, <1>3, <1>4, <1>6, <2>1, <2>2
<1>7. CASE m.pending[f] = 0 /\ id \notin Ids(m)
  <2>1. q = Placed(kept, f, v, 0)
    <3>1. q = [Register(kept, f, id) EXCEPT !.pending[f] = v, !.late = @ \ {f}]
      BY <1>7, Zenon DEF Enqueue, kept
    <3>2. Register(kept, f, id) = [kept EXCEPT !.home[f] = 0]
      BY <1>3, <1>7, Zenon DEF Register
    <3> QED
      BY <3>1, <3>2, Zenon DEF Placed
  <2> HIDE DEF q
  <2>2. /\ q \in Mems /\ q.batches = m.batches /\ q.late = m.late \ {f} /\ q.retry = kept.retry
        /\ \A e \in Files \ {f} : q.pending[e] = m.pending[e] /\ q.home[e] = m.home[e]
        /\ q.pending[f] = v /\ q.home[f] = 0
    BY <1>2, <2>1, PlacedIs
  <2>3. Ids(q) = Ids(m) /\ \A x : Batch(q, x) = Batch(m, x)
    BY <2>2, SameBatches
  <2>4. /\ \A e \in Files \ {f} : q.pending[e] = m.pending[e] /\ q.home[e] = m.home[e]
        /\ q.pending[f] = v /\ q.home[f] = 0
    BY <2>2
  <2>5. \A x \in Ids(m) : x # 0 /\ Batch(m, x).id = x /\ BatchSane(m, Batch(m, x))
    BY <1>1, BatchIs DEF Sane
  <2>6. \A x \in Ids(m) : BatchSane(q, Batch(m, x))
    BY <2>4, <2>5 DEF BatchSane
  <2>7. Sane(q)
    BY <2>2, <2>3, <2>4, <2>6 DEF Sane, Unique
  <2>8. Onward(m, q)
    BY <1>2, <1>7, <2>2, <2>3, <2>4 DEF Onward, Kept
  <2> QED
    BY <2>3, <2>4, <2>7, <2>8
<1>8. CASE m.pending[f] = 0 /\ id \in Ids(m)
  <2> DEFINE a == Batch(kept, Merged(kept, id, group[f]))
             b == [a EXCEPT !.expected = @ \cup {f}, !.due = @ \ {group[f]},
                            !.flushed = @ \ {group[f]}]
             p == Put(kept, b)
  <2>1. q = Placed(p, f, v, a.id)
    <3>1. q = [Register(kept, f, id) EXCEPT !.pending[f] = v, !.late = @ \ {f}]
      BY <1>8, Zenon DEF Enqueue, kept
    <3>2. Register(kept, f, id) = [p EXCEPT !.home[f] = a.id]
      BY <1>3, <1>8, Zenon DEF Register
    <3> QED
      BY <3>1, <3>2, Zenon DEF Placed
  <2>2. /\ Merged(kept, id, group[f]) \in Ids(kept)
        /\ a \in Batches /\ a.id = Merged(kept, id, group[f]) /\ a.id \in Ids(m)
    BY <1>2, <1>3, <1>4, <1>8, MergedIs, BatchIs DEF Sane
  <2> HIDE DEF a
  <2>3. /\ b \in Batches /\ b.id = a.id /\ b.context = a.context /\ b.results = a.results
        /\ b.strays = a.strays /\ b.flushing = a.flushing
        /\ b.expected = a.expected \cup {f} /\ b.flushed = a.flushed \ {group[f]}
    BY <2>2 DEF Batches
  <2>4. a = Batch(m, a.id) /\ BatchSane(m, a)
    BY <1>3, <2>2 DEF Sane, a
  <2> HIDE DEF b
  <2>5. Sane(p)
    <3>1. a = Batch(kept, b.id) /\ b.id \in Ids(kept)
      BY <1>3, <2>2, <2>3, <2>4
    <3>2. b.flushing \subseteq GroupsOf(b) \ b.flushed
      BY <2>3, <2>4 DEF BatchSane, GroupsOf
    <3>3. \A e \in Files : b.context[e] # 0 => e \in b.expected
      BY <2>3, <2>4 DEF BatchSane
    <3> QED
      BY <1>4, <2>3, <3>1, <3>2, <3>3, PutSane
  <2>6. /\ p \in Mems /\ Ids(p) = Ids(m) /\ Unique(p)
        /\ \A x \in Ids(m) : Batch(p, x) = IF x = b.id THEN b ELSE Batch(m, x)
        /\ p.pending = m.pending /\ p.home = m.home /\ p.retry = kept.retry /\ p.late = m.late
    BY <1>2, <1>3, <1>4, <2>3, PutIs DEF Sane
  <2> HIDE DEF p
  <2>7. b.id \in Nat
    BY <2>3 DEF Batches
  <2> HIDE DEF q
  <2>8. /\ q \in Mems /\ q.batches = p.batches /\ q.late = m.late \ {f} /\ q.retry = kept.retry
        /\ \A e \in Files \ {f} : q.pending[e] = m.pending[e] /\ q.home[e] = m.home[e]
        /\ q.pending[f] = v /\ q.home[f] = b.id
    <3> DEFINE d == a.id
    <3>1. p \in Mems /\ d \in Nat /\ v \in Nat /\ b.id = d
      BY <2>3, <2>6, <2>7
    <3>a. q = Placed(p, f, v, d)
      BY <2>1
    <3> HIDE DEF d
    <3>2. /\ q \in Mems /\ q.batches = p.batches /\ q.late = p.late \ {f} /\ q.retry = p.retry
          /\ \A e \in Files \ {f} : q.pending[e] = p.pending[e] /\ q.home[e] = p.home[e]
          /\ q.pending[f] = v /\ q.home[f] = d
      BY <3>a, <3>1, PlacedIs
    <3> QED
      BY <2>6, <3>1, <3>2
  <2>9. Ids(q) = Ids(m) /\ \A x : Batch(q, x) = Batch(p, x)
    BY <2>6, <2>8, SameBatches
  <2>10. /\ \A e \in Files \ {f} : q.pending[e] = m.pending[e] /\ q.home[e] = m.home[e]
         /\ q.pending[f] = v /\ q.home[f] = b.id
    BY <2>8
  <2>11. ASSUME NEW x \in Ids(q) PROVE BatchSane(q, Batch(q, x))
    <3>1. BatchSane(p, Batch(p, x)) /\ Batch(p, x).id = x
      BY <2>5, <2>6, <2>9, BatchIs DEF Sane
    <3>2. x = b.id => f \in Batch(q, x).expected
      BY <2>3, <2>6, <2>9
    <3> QED
      BY <2>6, <2>9, <2>10, <3>1, <3>2 DEF BatchSane
  <2>12. Sane(q)
    <3>1. Unique(q)
      BY <2>6, <2>8 DEF Unique
    <3>2. \A e \in Files : q.home[e] \in Ids(q) \cup {0}
      BY <2>2, <2>3, <2>9, <2>10 DEF Sane
    <3> QED
      BY <2>8, <2>11, <3>1, <3>2 DEF Sane
  <2>13. Onward(m, q)
    <3>1. \A x \in Ids(m) :
             /\ x \in Ids(q) /\ Batch(q, x).context = Batch(m, x).context
             /\ Batch(m, x).expected \subseteq Batch(q, x).expected
             /\ Batch(m, x).results \subseteq Batch(q, x).results
             /\ Batch(m, x).strays \subseteq Batch(q, x).strays
             /\ Batch(q, x).flushed \subseteq Batch(m, x).flushed
      BY <2>3, <2>4, <2>6, <2>9
    <3>2. \A x \in Ids(q) : \A e \in Batch(q, x).expected :
             (q.pending[e] # 0 /\ q.home[e] = x) \/ (x \in Ids(m) /\ e \in Batch(m, x).expected)
      BY <2>3, <2>4, <2>6, <2>9, <2>10
    <3> QED
      BY <1>2, <1>8, <2>8, <2>10, <3>1, <3>2 DEF Onward, Kept
  <2> QED
    BY <2>9, <2>10, <2>12, <2>13
<1> QED
  BY <1>6, <1>7, <1>8

\* What one handler does with a file: it waits again, or is given up.
Served(q, f) == ~stopping => q.pending[f] # 0 \/ q.retry[f].attempts > RetryLimit

LEMMA ServedStays ==
    ASSUME NEW m, NEW q, NEW f \in Files, Onward(m, q), Served(m, f)
    PROVE  Served(q, f)
BY DEF Onward, Kept, Served

LEMMA QueueIs ==
    ASSUME NEW m, Sane(m), NEW f \in Files, NEW v \in Nat \ {0}, NEW id,
           group \in [Files -> Groups]
    PROVE  LET q == Queue(m, f, v, id) IN
           Sane(q) /\ Onward(m, q) /\ Ids(q) = Ids(m) /\ Served(q, f)
<1>1. CASE stopping
  BY <1>1, OnwardSame DEF Queue, Served
<1>2. CASE ~stopping
  <2>1. Queue(m, f, v, id) = Enqueue(m, f, v, id)
    BY <1>2 DEF Queue
  <2> QED
    BY <2>1, EnqueueIs DEF Served
<1> QED
  BY <1>1, <1>2

\* A failure is counted, and the file queued again or given up.
LEMMA FailedIs ==
    ASSUME NEW m, Sane(m), NEW f \in Files, NEW v \in Nat \ {0}, NEW id,
           group \in [Files -> Groups]
    PROVE  LET q == Failed(m, f, v, id) IN
           Sane(q) /\ Onward(m, q) /\ Ids(q) = Ids(m) /\ Served(q, f)
<1> DEFINE c == CountFailure(m, f, v)
           q == Failed(m, f, v, id)
           n == (IF m.retry[f].ver = v THEN m.retry[f].attempts ELSE 0) + 1
<1>1. m \in Mems /\ n \in Nat /\ RetryLimit \in Nat
      /\ (m.retry[f].ver = v => n > m.retry[f].attempts)
  BY Parameters DEF Sane, Mems, Retries
<1>2. c = [m EXCEPT !.retry[f] = [ver |-> v, attempts |-> n]]
  BY DEF CountFailure
<1> HIDE DEF c, n
<1>3. /\ c \in Mems /\ c.batches = m.batches /\ c.pending = m.pending
      /\ c.home = m.home /\ c.late = m.late
      /\ c.retry[f] = [ver |-> v, attempts |-> n]
      /\ \A e \in Files \ {f} : c.retry[e] = m.retry[e]
  <2> DEFINE r == [m.retry EXCEPT ![f] = [ver |-> v, attempts |-> n]]
  <2>1. m.retry \in [Files -> Retries] /\ [ver |-> v, attempts |-> n] \in Retries
    BY <1>1 DEF Mems, Retries
  <2>2. r \in [Files -> Retries] /\ r[f] = [ver |-> v, attempts |-> n]
        /\ \A e \in Files \ {f} : r[e] = m.retry[e]
    BY <2>1
  <2>3. c = [m EXCEPT !.retry = r]
    BY <1>2
  <2> HIDE DEF r
  <2> QED
    BY <1>1, <2>2, <2>3 DEF Mems
<1>4. Ids(c) = Ids(m) /\ \A x : Batch(c, x) = Batch(m, x)
  BY <1>3, SameBatches
<1>5. Sane(c)
  BY <1>3, <1>4 DEF Sane, Unique, BatchSane
<1>6. q = IF c.retry[f].attempts > RetryLimit THEN c ELSE Queue(c, f, v, id)
  BY Zenon DEF Failed, c
<1> HIDE DEF q
<1>7. CASE c.retry[f].attempts > RetryLimit
  <2>1. q = c
    BY <1>6, <1>7
  <2>2. Onward(m, c)
    BY <1>3, <1>4, <1>7 DEF Onward, Kept
  <2> QED
    BY <1>4, <1>5, <1>7, <2>1, <2>2 DEF Served, q
<1>8. CASE ~(c.retry[f].attempts > RetryLimit)
  <2>1. q = Queue(c, f, v, id)
    BY <1>6, <1>8
  <2>2. Sane(q) /\ Onward(c, q) /\ Ids(q) = Ids(m) /\ Served(q, f)
    BY <1>4, <1>5, <2>1, QueueIs
  <2>3. ~stopping => \A e \in Files : m.retry[e].attempts > RetryLimit =>
           q.retry[e].attempts > RetryLimit \/ q.pending[e] # 0
    BY <1>3, <2>2 DEF Onward, Kept, Served
  <2>4. Onward(m, q)
    BY <1>3, <1>4, <2>2, <2>3 DEF Onward, Kept
  <2> QED
    BY <2>2, <2>4 DEF q
<1> QED
  BY <1>7, <1>8

\* A batch that was opened for what has just been queued stays, or goes.
LEMMA SealIs ==
    ASSUME NEW m, Sane(m), NEW q, Sane(q), Onward(m, q), NEW id \in Nat \ {0}, id \notin Ids(m)
    PROVE  LET p == Seal(q, id) IN
           /\ Sane(p) /\ Onward(m, p)
           /\ \A f \in Files : Served(q, f) => Served(p, f)
<1> DEFINE p == Seal(q, id)
<1>1. CASE p = q
  BY <1>1
<1>2. CASE p # q
  <2>1. id \in Ids(q) /\ p = Drop(q, id)
    BY <1>2, Zenon DEF Seal
  <2> HIDE DEF p
  <2>2. /\ Ids(p) = Ids(q) \ {id}
        /\ \A x \in Ids(p) : Batch(p, x) = Batch(q, x)
        /\ p.pending = q.pending /\ p.retry = q.retry /\ p.late = q.late
        /\ \A f \in Files : p.home[f] = IF q.home[f] = id THEN 0 ELSE q.home[f]
    BY <2>1, DropIs DEF Sane
  <2>3. Sane(p)
    BY <2>1, DropSane
  <2>4. \A x \in Ids(m) : x # id
    OBVIOUS
  <2>5. \A f \in Files : m.pending[f] # 0 => p.pending[f] # 0 /\ p.home[f] = m.home[f]
    BY <2>2 DEF Onward, Kept, Sane
  <2>6. \A x \in Ids(p) : \A f \in Batch(p, x).expected :
         \/ p.pending[f] # 0 /\ p.home[f] = x
         \/ x \in Ids(m) /\ f \in Batch(m, x).expected
    <3> SUFFICES ASSUME NEW x \in Ids(p), NEW f \in Batch(p, x).expected,
                        ~(x \in Ids(m) /\ f \in Batch(m, x).expected)
                 PROVE  p.pending[f] # 0 /\ p.home[f] = x
      OBVIOUS
    <3>1. x \in Ids(q) /\ x # id /\ Batch(p, x) = Batch(q, x)
      BY <2>2
    <3>2. f \in Files
      BY <3>1, BatchIs DEF Sane, Batches
    <3>3. q.pending[f] # 0 /\ q.home[f] = x
      BY <3>1 DEF Onward, Kept
    <3> QED
      BY <2>2, <3>1, <3>2, <3>3
  <2>7. Onward(m, p)
    BY <2>2, <2>4, <2>5, <2>6 DEF Onward, Kept
  <2> QED
    BY <2>2, <2>3, <2>7 DEF Served, p
<1> QED
  BY <1>1, <1>2

\* Queued anew, with the batch at work or one of its own.
LEMMA EnqueueAnewIs ==
    ASSUME NEW m, Sane(m), NEW f \in Files, NEW v \in Nat \ {0}, group \in [Files -> Groups]
    PROVE  LET q == EnqueueAnew(m, f, v) IN Sane(q) /\ Onward(m, q) /\ Served(q, f)
<1> DEFINE n == NewId(m)
           o == Open(m, n)
           e == Enqueue(o, f, v, n)
<1>1. CASE m.pending[f] # 0
  <2>1. EnqueueAnew(m, f, v) = Enqueue(m, f, v, 0)
    BY <1>1, Zenon DEF EnqueueAnew
  <2> QED
    BY <2>1, EnqueueIs DEF Served
<1>2. CASE m.pending[f] = 0
  <2>1. EnqueueAnew(m, f, v) = Seal(e, n)
    BY <1>2, Zenon DEF EnqueueAnew
  <2>2. n \in Nat \ {0} /\ n \notin Ids(m)
    BY NewIdIs DEF Sane
  <2> HIDE DEF n
  <2>3. /\ Sane(o) /\ Ids(o) = Ids(m) \cup {n}
        /\ \A x \in Ids(m) : Batch(o, x) = Batch(m, x)
        /\ Batch(o, n).expected = {}
        /\ o.pending = m.pending /\ o.home = m.home /\ o.retry = m.retry /\ o.late = m.late
    BY <2>2, OpenIs
  <2> HIDE DEF o
  <2>4. Onward(m, o)
    BY <2>3 DEF Onward, Kept
  <2>5. Sane(e) /\ Onward(o, e) /\ Served(e, f)
    BY <2>3, EnqueueIs DEF Served
  <2> HIDE DEF e
  <2>6. Onward(m, e)
    BY <2>3, <2>4, <2>5, OnwardAgain
  <2> QED
    BY <2>1, <2>2, <2>5, <2>6, SealIs
<1> QED
  BY <1>1, <1>2
------------------------------------------------------------------------------
(* Folds over a set of files.                                              *)

\* The element FoldSet takes first.
First(s) == CHOOSE x \in s : TRUE

\* The least number of a set.
LEMMA Least ==
    ASSUME NEW S \in SUBSET Nat, S # {}
    PROVE  \E x \in S : \A y \in S : x <= y
<1>1. PICK x \in S : \A y \in S : ~(<<y, x>> \in OpToRel(<, Nat))
  BY NatLessThanWellFounded, WFMin, Zenon
<1>2. \A y \in S : ~(y < x)
  BY <1>1 DEF OpToRel
<1> QED
  BY <1>2

\* The values of a fold over the subsets of a set.
Folds(S, M, h, base, step) ==
    /\ h \in [SUBSET S -> M]
    /\ \A s \in SUBSET S : h[s] = IF s = {} THEN base ELSE step[<<First(s), h[s \ {First(s)}]>>]

LEMMA Smaller ==
    ASSUME NEW S, IsFiniteSet(S), NEW s \in SUBSET S, s # {}
    PROVE  /\ First(s) \in s /\ s \ {First(s)} \in SUBSET S
           /\ Cardinality(s) \in Nat /\ Cardinality(s \ {First(s)}) \in Nat
           /\ Cardinality(s \ {First(s)}) = Cardinality(s) - 1
<1>1. First(s) \in s
  BY DEF First
<1>2. IsFiniteSet(s) /\ IsFiniteSet(s \ {First(s)})
  BY FS_Subset
<1>3. Cardinality(s) \in Nat /\ Cardinality(s \ {First(s)}) \in Nat
  BY <1>2, FS_CardinalityType
<1>4. Cardinality(s \ {First(s)}) = Cardinality(s) - 1
  BY <1>1, <1>2, FS_RemoveElement
<1> QED
  BY <1>1, <1>3, <1>4

LEMMA FoldExists ==
    ASSUME NEW S, IsFiniteSet(S), NEW M, NEW base \in M, NEW step \in [S \X M -> M]
    PROVE  \E h : Folds(S, M, h, base, step)
<1> DEFINE D(n) == {s \in SUBSET S : Cardinality(s) <= n}
           Part(n, h) == /\ h \in [D(n) -> M]
                         /\ \A s \in D(n) : h[s] = IF s = {} THEN base
                                                   ELSE step[<<First(s), h[s \ {First(s)}]>>]
           Bad == {n \in Nat : ~\E h : Part(n, h)}
<1>1. \A s \in SUBSET S : Cardinality(s) \in Nat /\ (Cardinality(s) = 0 <=> s = {})
  BY FS_Subset, FS_CardinalityType, FS_EmptySet
<1>2. Bad = {}
  <2> SUFFICES ASSUME Bad # {} PROVE FALSE
    OBVIOUS
  <2>1. PICK n \in Bad : \A y \in Bad : n <= y
    <3>1. Bad \in SUBSET Nat
      OBVIOUS
    <3> HIDE DEF Bad
    <3> QED
      BY <3>1, Least
  <2>2. n \in Nat /\ ~\E h : Part(n, h)
    OBVIOUS
  <2>3. CASE n = 0
    <3> DEFINE h == [s \in D(0) |-> base]
    <3>1. D(0) = {{}}
      BY <1>1
    <3>2. Part(0, h)
      BY <3>1
    <3> QED
      BY <2>2, <2>3, <3>2
  <2>4. CASE n # 0
    <3>1. n - 1 \in Nat /\ n - 1 \notin Bad
      <4>1. n - 1 \in Nat /\ ~(n <= n - 1)
        BY <2>2, <2>4
      <4> HIDE DEF Bad
      <4> QED
        BY <2>1, <4>1
    <3>2. PICK g : Part(n - 1, g)
      BY <3>1
    <3> DEFINE h == [s \in D(n) |-> IF s = {} THEN base
                                    ELSE step[<<First(s), g[s \ {First(s)}]>>]]
    <3>3. ASSUME NEW s \in D(n), s # {}
          PROVE  s \ {First(s)} \in D(n - 1) /\ s \ {First(s)} \in D(n) /\ First(s) \in S
      <4>1. Cardinality(s \ {First(s)}) = Cardinality(s) - 1 /\ First(s) \in s
            /\ Cardinality(s) \in Nat
        BY <3>3, Smaller
      <4> QED
        BY <2>2, <4>1
    <3>4. \A s \in D(n - 1) : s \in D(n)
      BY <1>1, <2>2
    <3>5. ASSUME NEW s \in D(n - 1) PROVE h[s] = g[s]
      BY <3>2, <3>4
    <3>6. h \in [D(n) -> M]
      <4>1. ASSUME NEW s \in D(n), s # {} PROVE step[<<First(s), g[s \ {First(s)}]>>] \in M
        BY <3>2, <3>3, <4>1
      <4> QED
        BY <4>1
    <3>7. ASSUME NEW s \in D(n)
          PROVE  h[s] = IF s = {} THEN base ELSE step[<<First(s), h[s \ {First(s)}]>>]
      BY <3>3, <3>5
    <3> QED
      BY <2>2, <3>6, <3>7
  <2> QED
    BY <2>3, <2>4
<1>3. PICK h : Part(Cardinality(S), h)
  BY <1>1, <1>2
<1>4. D(Cardinality(S)) = SUBSET S
  BY FS_Subset
<1>5. h \in [SUBSET S -> M]
  BY <1>3, <1>4
<1>6. \A s \in SUBSET S : h[s] = IF s = {} THEN base ELSE step[<<First(s), h[s \ {First(s)}]>>]
  BY <1>3, <1>4
<1> QED
  BY <1>5, <1>6 DEF Folds

\* What holds of the fold over nothing, and with one element more, holds of the fold.
LEMMA FoldInduction ==
    ASSUME NEW S, IsFiniteSet(S), NEW h, NEW R, <<{}, h[{}]>> \in R,
           \A s \in SUBSET S : s # {} /\ <<s \ {First(s)}, h[s \ {First(s)}]>> \in R
              => <<s, h[s]>> \in R
    PROVE  <<S, h[S]>> \in R
<1> DEFINE Bad == {s \in SUBSET S : <<s, h[s]>> \notin R}
           Sizes == {Cardinality(s) : s \in Bad}
<1>1. \A s \in SUBSET S : Cardinality(s) \in Nat
  BY FS_Subset, FS_CardinalityType
<1>2. Bad = {}
  <2> SUFFICES ASSUME Bad # {} PROVE FALSE
    OBVIOUS
  <2>a. Bad \in SUBSET (SUBSET S)
    OBVIOUS
  <2>1. Sizes \in SUBSET Nat /\ Sizes # {}
    <3> HIDE DEF Bad
    <3> QED
      BY <1>1, <2>a
  <2>2. PICK n \in Sizes : \A y \in Sizes : n <= y
    <3> HIDE DEF Sizes
    <3> QED
      BY <2>1, Least
  <2>3. PICK s \in Bad : n = Cardinality(s)
    OBVIOUS
  <2>4. s # {}
    OBVIOUS
  <2>5. s \ {First(s)} \in SUBSET S /\ Cardinality(s) \in Nat
        /\ Cardinality(s \ {First(s)}) = Cardinality(s) - 1
    BY <2>4, Smaller
  <2>6. s \ {First(s)} \notin Bad
    <3> HIDE DEF Bad
    <3>1. s \ {First(s)} \in Bad => n <= Cardinality(s \ {First(s)})
      BY <2>2
    <3> QED
      BY <2>3, <2>5, <3>1
  <2>7. <<s \ {First(s)}, h[s \ {First(s)}]>> \in R
    BY <2>5, <2>6
  <2> QED
    BY <2>4, <2>7
<1> QED
  BY <1>2

\* What the steps of a fold do for one file, the fold does for all.
LEMMA FoldServes ==
    ASSUME NEW S \in SUBSET Files, NEW o, Sane(o), NEW h, h[{}] = o,
           \A s \in SUBSET S : s # {} /\ Sane(h[s \ {First(s)}])
              => /\ Sane(h[s]) /\ Onward(h[s \ {First(s)}], h[s]) /\ Served(h[s], First(s))
    PROVE  Sane(h[S]) /\ Onward(o, h[S]) /\ \A f \in S : Served(h[S], f)
<1> DEFINE P(s, q) == Sane(q) /\ Onward(o, q) /\ \A f \in s : Served(q, f)
           R == {x \in (SUBSET S) \X Mems : P(x[1], x[2])}
<1>1. IsFiniteSet(S)
  BY Parameters, FS_Subset
<1>2. \A q : Sane(q) => q \in Mems
  BY DEF Sane
<1>3. \A s \in SUBSET S : \A q : <<s, q>> \in R <=> P(s, q)
  BY <1>2
<1>4. P({}, h[{}])
  BY OnwardSame
<1>5. ASSUME NEW s \in SUBSET S, s # {}, P(s \ {First(s)}, h[s \ {First(s)}])
      PROVE  P(s, h[s])
  <2> DEFINE q == h[s \ {First(s)}]
             n == h[s]
  <2>1. Sane(n) /\ Onward(q, n) /\ Served(n, First(s))
    BY <1>5
  <2>2. Sane(q) /\ Onward(o, q) /\ \A f \in s \ {First(s)} : Served(q, f)
    BY <1>5
  <2> HIDE DEF q, n
  <2>3. Onward(o, n)
    BY <2>1, <2>2, OnwardAgain
  <2>4. \A f \in s \ {First(s)} : Served(n, f)
    BY <2>1, <2>2, ServedStays
  <2>5. \A f \in s : Served(n, f)
    BY <2>1, <2>4
  <2>6. P(s, n)
    BY <2>1, <2>3, <2>5
  <2> QED
    BY <2>6 DEF n
<1>6. <<{}, h[{}]>> \in R
  BY <1>3, <1>4
<1>7. \A s \in SUBSET S : s # {} /\ <<s \ {First(s)}, h[s \ {First(s)}]>> \in R
        => <<s, h[s]>> \in R
  <2> HIDE DEF P, R
  <2> QED
    BY <1>3, <1>5
<1>8. <<S, h[S]>> \in R
  <2> HIDE DEF P, R
  <2> QED
    BY <1>1, <1>6, <1>7, FoldInduction
<1>9. P(S, h[S])
  BY <1>3, <1>8
<1> QED
  BY <1>9

\* Failures of files of a group.
AllFailed(S, n, o) == FoldSet(LAMBDA f, q : Failed(q, f, worker.items[f], n), o, S)

LEMMA AllFailedIs ==
    ASSUME NEW S \in SUBSET Files, NEW n, NEW o, Sane(o), group \in [Files -> Groups],
           \A f \in S : worker.items[f] \in Nat \ {0}
    PROVE  LET r == AllFailed(S, n, o) IN Sane(r) /\ Onward(o, r) /\ \A f \in S : Served(r, f)
<1> DEFINE op(f, q) == Failed(q, f, worker.items[f], n)
           G(g) == g = [s \in SUBSET S |-> IF s = {} THEN o
                                           ELSE op(First(s), g[s \ {First(s)}])]
           M == {q \in Mems : Sane(q)}
           step == [x \in S \X M |-> op(x[1], x[2])]
<1>1. AllFailed(S, n, o) = (CHOOSE g : G(g))[S]
  BY DEF FoldSet, MapThenFoldSet, AllFailed, First
<1>2. ASSUME NEW f \in S, NEW q, Sane(q)
      PROVE  Sane(op(f, q)) /\ Onward(q, op(f, q)) /\ Served(op(f, q), f)
  BY <1>2, FailedIs
<1> HIDE DEF op
<1>3. IsFiniteSet(S) /\ o \in M /\ step \in [S \X M -> M]
  BY <1>2, Parameters, FS_Subset DEF Sane
<1>4. \E g : G(g)
  <2>1. PICK g : Folds(S, M, g, o, step)
    <3> HIDE DEF M, step
    <3> QED
      BY <1>3, FoldExists
  <2>2. ASSUME NEW s \in SUBSET S, s # {}
        PROVE  step[<<First(s), g[s \ {First(s)}]>>] = op(First(s), g[s \ {First(s)}])
    <3>1. First(s) \in S /\ g[s \ {First(s)}] \in M
      BY <2>1, <2>2 DEF Folds, First
    <3> QED
      BY <3>1
  <2>3. g = [s \in SUBSET S |-> IF s = {} THEN o ELSE op(First(s), g[s \ {First(s)}])]
    <3> HIDE DEF step, M
    <3> QED
      BY <2>1, <2>2 DEF Folds
  <2> QED
    BY <2>3
<1> DEFINE h == CHOOSE g : G(g)
<1>5. h = [s \in SUBSET S |-> IF s = {} THEN o ELSE op(First(s), h[s \ {First(s)}])]
  <2> HIDE DEF G
  <2>1. G(h)
    BY <1>4, Zenon
  <2> QED
    BY <2>1, Zenon DEF G
<1>a. AllFailed(S, n, o) = h[S]
  BY <1>1
<1> HIDE DEF h, M, step
<1>6. h[{}] = o /\ \A s \in SUBSET S : s # {} => h[s] = op(First(s), h[s \ {First(s)}])
  BY <1>5
<1>7. \A s \in SUBSET S : s # {} /\ Sane(h[s \ {First(s)}])
        => /\ Sane(h[s]) /\ Onward(h[s \ {First(s)}], h[s]) /\ Served(h[s], First(s))
  <2> SUFFICES ASSUME NEW s \in SUBSET S, s # {}, Sane(h[s \ {First(s)}])
               PROVE  Sane(h[s]) /\ Onward(h[s \ {First(s)}], h[s]) /\ Served(h[s], First(s))
    OBVIOUS
  <2>1. First(s) \in S
    BY DEF First
  <2> QED
    BY <1>2, <1>6, <2>1
<1>8. h[{}] = o
  BY <1>6
<1>9. Sane(h[S]) /\ Onward(o, h[S]) /\ \A f \in S : Served(h[S], f)
  BY <1>7, <1>8, FoldServes
<1> QED
  BY <1>a, <1>9

\* Files found together.
AllQueued(S, n, o) == FoldSet(LAMBDA f, q : Queue(q, f, cloud[f], n), o, S)

LEMMA AllQueuedIs ==
    ASSUME NEW S \in SUBSET Files, NEW n, NEW o, Sane(o), group \in [Files -> Groups],
           \A f \in S : cloud[f] \in Nat \ {0}
    PROVE  LET r == AllQueued(S, n, o) IN Sane(r) /\ Onward(o, r) /\ \A f \in S : Served(r, f)
<1> DEFINE op(f, q) == Queue(q, f, cloud[f], n)
           G(g) == g = [s \in SUBSET S |-> IF s = {} THEN o
                                           ELSE op(First(s), g[s \ {First(s)}])]
           M == {q \in Mems : Sane(q)}
           step == [x \in S \X M |-> op(x[1], x[2])]
<1>1. AllQueued(S, n, o) = (CHOOSE g : G(g))[S]
  BY DEF FoldSet, MapThenFoldSet, AllQueued, First
<1>2. ASSUME NEW f \in S, NEW q, Sane(q)
      PROVE  Sane(op(f, q)) /\ Onward(q, op(f, q)) /\ Served(op(f, q), f)
  BY <1>2, QueueIs
<1> HIDE DEF op
<1>3. IsFiniteSet(S) /\ o \in M /\ step \in [S \X M -> M]
  BY <1>2, Parameters, FS_Subset DEF Sane
<1>4. \E g : G(g)
  <2>1. PICK g : Folds(S, M, g, o, step)
    <3> HIDE DEF M, step
    <3> QED
      BY <1>3, FoldExists
  <2>2. ASSUME NEW s \in SUBSET S, s # {}
        PROVE  step[<<First(s), g[s \ {First(s)}]>>] = op(First(s), g[s \ {First(s)}])
    <3>1. First(s) \in S /\ g[s \ {First(s)}] \in M
      BY <2>1, <2>2 DEF Folds, First
    <3> QED
      BY <3>1
  <2>3. g = [s \in SUBSET S |-> IF s = {} THEN o ELSE op(First(s), g[s \ {First(s)}])]
    <3> HIDE DEF step, M
    <3> QED
      BY <2>1, <2>2 DEF Folds
  <2> QED
    BY <2>3
<1> DEFINE h == CHOOSE g : G(g)
<1>5. h = [s \in SUBSET S |-> IF s = {} THEN o ELSE op(First(s), h[s \ {First(s)}])]
  <2> HIDE DEF G
  <2>1. G(h)
    BY <1>4, Zenon
  <2> QED
    BY <2>1, Zenon DEF G
<1>a. AllQueued(S, n, o) = h[S]
  BY <1>1
<1> HIDE DEF h, M, step
<1>6. h[{}] = o /\ \A s \in SUBSET S : s # {} => h[s] = op(First(s), h[s \ {First(s)}])
  BY <1>5
<1>7. \A s \in SUBSET S : s # {} /\ Sane(h[s \ {First(s)}])
        => /\ Sane(h[s]) /\ Onward(h[s \ {First(s)}], h[s]) /\ Served(h[s], First(s))
  <2> SUFFICES ASSUME NEW s \in SUBSET S, s # {}, Sane(h[s \ {First(s)}])
               PROVE  Sane(h[s]) /\ Onward(h[s \ {First(s)}], h[s]) /\ Served(h[s], First(s))
    OBVIOUS
  <2>1. First(s) \in S
    BY DEF First
  <2> QED
    BY <1>2, <1>6, <2>1
<1>8. h[{}] = o
  BY <1>6
<1>9. Sane(h[S]) /\ Onward(o, h[S]) /\ \A f \in S : Served(h[S], f)
  BY <1>7, <1>8, FoldServes
<1> QED
  BY <1>a, <1>9

\* Files whose check a new instance repeats.
AllAnew(S, o) == FoldSet(LAMBDA f, q : EnqueueAnew(q, f, records[f].ver), o, S)

LEMMA AllAnewIs ==
    ASSUME NEW S \in SUBSET Files, NEW o, Sane(o), group \in [Files -> Groups],
           \A f \in S : records[f].ver \in Nat \ {0}
    PROVE  LET r == AllAnew(S, o) IN Sane(r) /\ Onward(o, r) /\ \A f \in S : Served(r, f)
<1> DEFINE op(f, q) == EnqueueAnew(q, f, records[f].ver)
           G(g) == g = [s \in SUBSET S |-> IF s = {} THEN o
                                           ELSE op(First(s), g[s \ {First(s)}])]
           M == {q \in Mems : Sane(q)}
           step == [x \in S \X M |-> op(x[1], x[2])]
<1>1. AllAnew(S, o) = (CHOOSE g : G(g))[S]
  BY DEF FoldSet, MapThenFoldSet, AllAnew, First
<1>2. ASSUME NEW f \in S, NEW q, Sane(q)
      PROVE  Sane(op(f, q)) /\ Onward(q, op(f, q)) /\ Served(op(f, q), f)
  BY <1>2, EnqueueAnewIs
<1> HIDE DEF op
<1>3. IsFiniteSet(S) /\ o \in M /\ step \in [S \X M -> M]
  BY <1>2, Parameters, FS_Subset DEF Sane
<1>4. \E g : G(g)
  <2>1. PICK g : Folds(S, M, g, o, step)
    <3> HIDE DEF M, step
    <3> QED
      BY <1>3, FoldExists
  <2>2. ASSUME NEW s \in SUBSET S, s # {}
        PROVE  step[<<First(s), g[s \ {First(s)}]>>] = op(First(s), g[s \ {First(s)}])
    <3>1. First(s) \in S /\ g[s \ {First(s)}] \in M
      BY <2>1, <2>2 DEF Folds, First
    <3> QED
      BY <3>1
  <2>3. g = [s \in SUBSET S |-> IF s = {} THEN o ELSE op(First(s), g[s \ {First(s)}])]
    <3> HIDE DEF step, M
    <3> QED
      BY <2>1, <2>2 DEF Folds
  <2> QED
    BY <2>3
<1> DEFINE h == CHOOSE g : G(g)
<1>5. h = [s \in SUBSET S |-> IF s = {} THEN o ELSE op(First(s), h[s \ {First(s)}])]
  <2> HIDE DEF G
  <2>1. G(h)
    BY <1>4, Zenon
  <2> QED
    BY <2>1, Zenon DEF G
<1>a. AllAnew(S, o) = h[S]
  BY <1>1
<1> HIDE DEF h, M, step
<1>6. h[{}] = o /\ \A s \in SUBSET S : s # {} => h[s] = op(First(s), h[s \ {First(s)}])
  BY <1>5
<1>7. \A s \in SUBSET S : s # {} /\ Sane(h[s \ {First(s)}])
        => /\ Sane(h[s]) /\ Onward(h[s \ {First(s)}], h[s]) /\ Served(h[s], First(s))
  <2> SUFFICES ASSUME NEW s \in SUBSET S, s # {}, Sane(h[s \ {First(s)}])
               PROVE  Sane(h[s]) /\ Onward(h[s \ {First(s)}], h[s]) /\ Served(h[s], First(s))
    OBVIOUS
  <2>1. First(s) \in S
    BY DEF First
  <2> QED
    BY <1>2, <1>6, <2>1
<1>8. h[{}] = o
  BY <1>6
<1>9. Sane(h[S]) /\ Onward(o, h[S]) /\ \A f \in S : Served(h[S], f)
  BY <1>7, <1>8, FoldServes
<1> QED
  BY <1>a, <1>9
------------------------------------------------------------------------------
(* The inductive invariant of the queue.                                   *)

InHand(w, f, id) == w.mode = "file" /\ w.batch = id /\ f \in DOMAIN w.items

\* Whoever a batch waits for is queued for it, or in hand for it.
Members(m, w) == \A id \in Ids(m) :
    \A f \in Batch(m, id).expected \ (Batch(m, id).results \cup Batch(m, id).strays) :
        (m.pending[f] # 0 /\ m.home[f] = id) \/ InHand(w, f, id)

\* A file at hand is expected by the batch it was queued for; a group is flushed of a
\* batch that is there.
Job(m, w) ==
    /\ w = Free \/ (w.mode \in {"file", "flush"} /\ w.pc # "idle")
    /\ w.mode = "file" =>
         /\ \E f \in Files : DOMAIN w.items = {f} /\ w.items[f] \in Nat \ {0}
         /\ w.batch \in Ids(m) \cup {0} /\ w.pc # "close"
         /\ w.batch \in Ids(m) => DOMAIN w.items \subseteq Batch(m, w.batch).expected
    /\ w.mode = "flush" =>
         /\ w.batch \in Ids(m) /\ w.group \in Groups
         /\ \A f \in DOMAIN w.items : w.items[f] \in Nat \ {0}
         /\ w.pc \notin {"look", "hash"}
    /\ w.left \subseteq DOMAIN w.items
    /\ w.pc \in {"send", "sent"} => \A f \in w.chunk : w.copy[f].ver # 0

\* A source whose deletion was begun was sent; what was sent has a version.
Honest(rs) == \A f \in Files :
    /\ rs[f].state \in {"deleted", "inflight", "uncertain"} => rs[f].done
    /\ rs[f].done \/ rs[f].state # "" => rs[f].ver # 0

AllHonest ==
    /\ Honest(records)
    /\ HasCopy => Honest(worker.copy)
    /\ page.on => Honest(page.copy)

\* A file that needs no batch: it is gone, queued, given up or late.
Aside(f) ==
    \/ cloud[f] = 0 \/ mem.pending[f] # 0
    \/ mem.retry[f].attempts > RetryLimit \/ f \in mem.late

InWork(f) ==
    /\ worker.mode = "file" /\ f \in DOMAIN worker.items
    /\ worker.pc \notin {"delete", "ask", "asked"}

CopyTrue(f) == HasCopy => worker.copy[f] = records[f]

Waits(f) == \E id \in Ids(mem) :
    Batch(mem, id).context[f] # 0 /\ group[f] \notin Batch(mem, id).flushed

\* The next save of the worker does not undo what is on record of a file that was sent
\* or waits.
Fate(f) ==
    \/ Aside(f) \/ InWork(f)
    \/ CopyTrue(f) /\ (records[f].done \/ (Waits(f) /\ records[f].ver # 0))

\* A flush has every file of its group at hand.
Listed(f) ==
    worker.mode = "flush" /\ group[f] = worker.group /\ Batch(mem, worker.batch).context[f] # 0
        => f \in DOMAIN worker.items \/ Aside(f) \/ records[f].done

Watched == ~stopping => \A f \in seen : Fate(f) /\ Listed(f)

QInv ==
    /\ group \in [Files -> Groups] /\ stopping \in BOOLEAN /\ seen \subseteq Files
    /\ Sane(mem) /\ Members(mem, worker) /\ Job(mem, worker)
    /\ AllHonest /\ Watched
------------------------------------------------------------------------------
(* What it says.                                                           *)

LEMMA QueueSafe == ASSUME QInv, IInv PROVE OnlyStraysAreForgotten
<1> SUFFICES ASSUME ~stopping, NEW f \in seen
    PROVE \/ cloud[f] = 0 \/ records[f].done \/ mem.retry[f].attempts > RetryLimit
          \/ mem.pending[f] # 0 \/ f \in DOMAIN worker.items
          \/ f \in mem.late
          \/ \E i \in DOMAIN mem.batches :
               mem.batches[i].context[f] # 0 /\ WillFlush(mem.batches[i], group[f])
  BY DEF OnlyStraysAreForgotten
<1>1. Fate(f)
  BY DEF QInv, Watched
<1>2. CASE Aside(f) \/ InWork(f) \/ records[f].done
  BY <1>2 DEF Aside, InWork
<1>3. CASE Waits(f)
  <2>1. PICK id \in Ids(mem) :
          Batch(mem, id).context[f] # 0 /\ group[f] \notin Batch(mem, id).flushed
    BY <1>3 DEF Waits
  <2>2. PICK i \in DOMAIN mem.batches : mem.batches[i] = Batch(mem, id)
    BY BatchIs DEF QInv, Sane
  <2>3. Batch(mem, id).id = id
    BY BatchIs DEF QInv, Sane
  <2> DEFINE b == mem.batches[i]
  <2>4. b.context[f] # 0 /\ group[f] \notin b.flushed /\ b.id = id
    BY <2>1, <2>2, <2>3
  <2>5. \A e \in b.expected \ (b.results \cup b.strays) :
           \/ mem.pending[e] # 0 /\ mem.home[e] = b.id
           \/ worker.mode = "file" /\ worker.batch = b.id /\ e \in DOMAIN worker.items
    BY <2>2, <2>3 DEF QInv, Members, InHand
  <2>6. WillFlush(b, group[f])
    BY <2>4, <2>5 DEF WillFlush, Expected
  <2> QED
    BY <2>4, <2>6
<1> QED
  BY <1>1, <1>2, <1>3 DEF Fate
------------------------------------------------------------------------------
(* Steps alike for the invariant.                                          *)

LEMMA MembersKept ==
    ASSUME NEW m, NEW q, Sane(m), Sane(q), Kept(m, q), NEW w, NEW u, Members(m, w),
           \A f \in Files : \A id \in Ids(m) : InHand(w, f, id) => InHand(u, f, id)
    PROVE  Members(q, u)
<1> SUFFICES ASSUME NEW id \in Ids(q), NEW f \in Batch(q, id).expected,
                    f \notin Batch(q, id).results \cup Batch(q, id).strays
             PROVE  (q.pending[f] # 0 /\ q.home[f] = id) \/ InHand(u, f, id)
  BY DEF Members
<1>1. f \in Files
  BY BatchIs DEF Sane, Batches
<1>2. \/ q.pending[f] # 0 /\ q.home[f] = id
      \/ id \in Ids(m) /\ f \in Batch(m, id).expected
  BY DEF Kept
<1>3. CASE id \in Ids(m) /\ f \in Batch(m, id).expected
  <2>1. f \notin Batch(m, id).results \cup Batch(m, id).strays
    BY <1>3 DEF Kept
  <2>2. (m.pending[f] # 0 /\ m.home[f] = id) \/ InHand(w, f, id)
    BY <1>3, <2>1 DEF Members
  <2> QED
    BY <1>1, <1>3, <2>2 DEF Kept
<1> QED
  BY <1>2, <1>3

LEMMA JobKept ==
    ASSUME NEW m, NEW q, Sane(m), Sane(q), Kept(m, q), NEW w, Job(m, w)
    PROVE  Job(q, w)
<1>1. 0 \notin Ids(q)
  BY BatchIs DEF Sane
<1>2. \A id \in Ids(m) : id \in Ids(q) /\ Batch(m, id).expected \subseteq Batch(q, id).expected
  BY DEF Kept
<1>3. w.mode = "file" /\ w.batch \in Ids(q) => DOMAIN w.items \subseteq Batch(q, w.batch).expected
  BY <1>1, <1>2 DEF Job
<1> QED
  BY <1>2, <1>3 DEF Job

\* What is on record of a file, and the copy of it, do not lose anything.
Holds(f) ==
    CopyTrue(f) => /\ CopyTrue(f)'
                   /\ records'[f].ver = records[f].ver
                   /\ records[f].done => records'[f].done

Settled(f) == CopyTrue(f) /\ records[f].done

\* A file that was watched still is, when the queue keeps it.
LEMMA FateKept ==
    ASSUME QInv, Kept(mem, mem'), group' = group, NEW f \in seen, ~stopping,
           cloud[f] = 0 => cloud'[f] = 0,
           mem.retry[f].attempts > RetryLimit =>
               mem'.retry[f].attempts > RetryLimit \/ mem'.pending[f] # 0,
           InWork(f) => InWork(f)',
           InWork(f)' \/ Holds(f)
    PROVE  Fate(f)' /\ (Aside(f) => Aside(f)')
<1>1. f \in Files
  BY DEF QInv
<1>2. Fate(f)
  BY DEF QInv, Watched
<1>3. Aside(f) => Aside(f)'
  BY <1>1 DEF Aside, Kept
<1>4. Waits(f) => Waits(f)'
  BY DEF Waits, Kept
<1>5. CASE Aside(f) \/ InWork(f)
  BY <1>3, <1>5 DEF Fate
<1>6. CASE CopyTrue(f) /\ (records[f].done \/ (Waits(f) /\ records[f].ver # 0))
  BY <1>3, <1>4, <1>6 DEF Fate, Holds
<1> QED
  BY <1>2, <1>3, <1>5, <1>6 DEF Fate

\* The worker goes on with the same job.
SameJob ==
    /\ worker'.mode = worker.mode /\ worker'.batch = worker.batch
    /\ worker'.items = worker.items /\ worker'.group = worker.group

\* A file that was watched is watched.
Watches(f) ==
    \/ Aside(f)'
    \/ Settled(f)'
    \/ /\ f \in seen
       /\ cloud[f] = 0 => cloud'[f] = 0
       /\ mem.retry[f].attempts > RetryLimit =>
               mem'.retry[f].attempts > RetryLimit \/ mem'.pending[f] # 0
       /\ InWork(f) => InWork(f)'
       /\ InWork(f)' \/ Holds(f)

LEMMA GoesOn ==
    ASSUME QInv, Sane(mem'), Kept(mem, mem'), group' = group, SameJob,
           seen' \subseteq Files, stopping' \in BOOLEAN,
           ~stopping' => ~stopping /\ \A f \in seen' : Watches(f)
    PROVE  Members(mem', worker') /\ Watched' /\ seen' \subseteq Files
<1>1. Members(mem', worker')
  <2>1. \A f \in Files : \A id \in Ids(mem) : InHand(worker, f, id) => InHand(worker', f, id)
    BY DEF SameJob, InHand
  <2> QED
    BY <2>1, MembersKept DEF QInv
<1>2. ASSUME ~stopping', NEW f \in seen' PROVE Fate(f)' /\ Listed(f)'
  <2>1. ~stopping /\ Watches(f)
    BY <1>2
  <2>2. CASE Aside(f)'
    BY <2>2 DEF Fate, Listed
  <2>3. CASE Settled(f)'
    BY <2>3 DEF Fate, Listed, Settled
  <2>4. CASE ~Aside(f)' /\ ~Settled(f)'
    <3>1. /\ f \in seen
          /\ cloud[f] = 0 => cloud'[f] = 0
          /\ mem.retry[f].attempts > RetryLimit =>
                 mem'.retry[f].attempts > RetryLimit \/ mem'.pending[f] # 0
          /\ InWork(f) => InWork(f)'
          /\ InWork(f)' \/ Holds(f)
      BY <2>1, <2>4 DEF Watches
    <3>2. Fate(f)' /\ (Aside(f) => Aside(f)')
      BY <2>1, <3>1, FateKept
    <3>3. Fate(f) /\ Listed(f)
      BY <2>1, <3>1 DEF QInv, Watched
    <3>4. CASE worker.mode = "flush"
      <4>1. ~InWork(f)'
        BY <3>4 DEF InWork, SameJob
      <4>2. Holds(f) /\ ~InWork(f)
        BY <3>1, <4>1
      <4>3. CopyTrue(f)
        BY <2>4, <3>2, <3>3, <4>2 DEF Fate
      <4>4. records[f].done => Settled(f)'
        BY <4>2, <4>3 DEF Holds, Settled
      <4>5. ~Aside(f) /\ ~records[f].done
        BY <2>4, <3>2, <4>4
      <4>6. Batch(mem', worker'.batch).context = Batch(mem, worker.batch).context
        BY <3>4 DEF QInv, Job, Kept, SameJob
      <4>7. group'[f] = worker'.group /\ Batch(mem', worker'.batch).context[f] # 0
              => f \in DOMAIN worker'.items
        BY <3>3, <3>4, <4>5, <4>6 DEF Listed, SameJob
      <4>8. Listed(f)'
        BY <4>7 DEF Listed
      <4> QED
        BY <3>2, <4>8
    <3>5. CASE worker.mode # "flush"
      <4>1. Listed(f)'
        BY <3>5 DEF Listed, SameJob
      <4> QED
        BY <3>2, <4>1
    <3> QED
      BY <3>4, <3>5
  <2> QED
    BY <2>2, <2>3, <2>4
<1> QED
  BY <1>1, <1>2 DEF Watched
------------------------------------------------------------------------------
(* The worker rests, or begins the next group.                             *)

LEMMA FlushingIs ==
    ASSUME NEW m, NEW id, NEW g, NEW rs
    PROVE  LET w == Flushing(m, id, g, rs)
               c == Batch(m, id).context IN
           /\ w.pc \in {"close", "send"} /\ w.mode = "flush" /\ w.batch = id /\ w.group = g
           /\ DOMAIN w.items = {f \in Files : c[f] # 0 /\ group[f] = g /\ rs[f].ver # 0}
           /\ \A f \in DOMAIN w.items : w.items[f] = c[f]
           /\ w.chunk \subseteq DOMAIN w.items /\ w.left = {} /\ w.copy = rs
<1> DEFINE c == Batch(m, id).context
           D == {f \in Files : c[f] # 0 /\ group[f] = g /\ rs[f].ver # 0}
           items == Restrict(c, D)
           chunk == {f \in DOMAIN items : ~rs[f].done}
<1>1. DOMAIN items = D /\ \A f \in D : items[f] = c[f]
  BY DEF Restrict
<1>2. chunk \subseteq DOMAIN items
  OBVIOUS
<1> HIDE DEF c, items, chunk
<1>3. PICK pc \in {"close", "send"} : Flushing(m, id, g, rs) =
        [Free EXCEPT !.pc = pc, !.mode = "flush", !.batch = id, !.group = g, !.items = items,
                     !.chunk = chunk, !.copy = rs]
  BY Zenon DEF Flushing, c, items, chunk
<1> DEFINE w == Flushing(m, id, g, rs)
<1>4. w = [Free EXCEPT !.pc = pc, !.mode = "flush", !.batch = id, !.group = g, !.items = items,
                     !.chunk = chunk, !.copy = rs]
  BY <1>3
<1> HIDE DEF w, D
<1>5. /\ w.pc = pc /\ w.mode = "flush" /\ w.batch = id /\ w.group = g /\ w.items = items
      /\ w.chunk = chunk /\ w.left = {} /\ w.copy = rs
  BY <1>4, FreeIs DEF Fields
<1>6. /\ w.pc \in {"close", "send"} /\ w.mode = "flush" /\ w.batch = id /\ w.group = g
      /\ DOMAIN w.items = D
      /\ \A f \in DOMAIN w.items : w.items[f] = c[f]
      /\ w.chunk \subseteq DOMAIN w.items /\ w.left = {} /\ w.copy = rs
  BY <1>1, <1>2, <1>5
<1> QED
  BY <1>6 DEF w, c, D

\* What the worker turns to between its jobs.
Rests ==
    \/ worker' = Free
    \/ \E id \in Ids(mem') : \E g \in Groups : worker' = Flushing(mem', id, g, records')

LEMMA RestsIs ==
    ASSUME Rests, group' = group
    PROVE  \/ worker' = Free
           \/ /\ worker'.pc \in {"close", "send"} /\ worker'.mode = "flush"
              /\ worker'.batch \in Ids(mem') /\ worker'.group \in Groups
              /\ worker'.left = {} /\ worker'.copy = records'
              /\ LET c == Batch(mem', worker'.batch).context IN
                 /\ DOMAIN worker'.items =
                      {f \in Files : c[f] # 0 /\ group'[f] = worker'.group /\ records'[f].ver # 0}
                 /\ \A f \in DOMAIN worker'.items : worker'.items[f] = c[f]
              /\ worker'.chunk \subseteq DOMAIN worker'.items
<1> SUFFICES ASSUME NEW id \in Ids(mem'), NEW g \in Groups, worker' = Flushing(mem', id, g, records')
             PROVE  /\ worker'.pc \in {"close", "send"} /\ worker'.mode = "flush"
                    /\ worker'.batch \in Ids(mem') /\ worker'.group \in Groups
                    /\ worker'.left = {} /\ worker'.copy = records'
                    /\ LET c == Batch(mem', worker'.batch).context IN
                       /\ DOMAIN worker'.items =
                            {f \in Files : c[f] # 0 /\ group'[f] = worker'.group /\ records'[f].ver # 0}
                       /\ \A f \in DOMAIN worker'.items : worker'.items[f] = c[f]
                    /\ worker'.chunk \subseteq DOMAIN worker'.items
  BY DEF Rests
<1> DEFINE w == Flushing(mem', id, g, records')
           c == Batch(mem', id).context
<1>1. /\ w.pc \in {"close", "send"} /\ w.mode = "flush" /\ w.batch = id /\ w.group = g
      /\ DOMAIN w.items = {f \in Files : c[f] # 0 /\ group[f] = g /\ records'[f].ver # 0}
      /\ \A f \in DOMAIN w.items : w.items[f] = c[f]
      /\ w.chunk \subseteq DOMAIN w.items /\ w.left = {} /\ w.copy = records'
  BY FlushingIs
<1>2. worker' = w
  OBVIOUS
<1> HIDE DEF w
<1> QED
  BY <1>1, <1>2

\* A file that is watched while the worker rests.
Safe(f) ==
    \/ Aside(f) \/ records[f].done
    \/ Waits(f) /\ records[f].ver # 0

LEMMA RestsInv ==
    ASSUME Rests, group' = group, Sane(mem'), Honest(records'), seen' \subseteq Files,
           ~stopping' => \A f \in seen' : Safe(f)'
    PROVE  Job(mem', worker') /\ (HasCopy' => Honest(worker'.copy)) /\ Watched'
<1>1. CASE worker' = Free
  <2>1. worker'.pc = "idle" /\ worker'.mode = "" /\ worker'.left = {}
    BY <1>1 DEF Free
  <2> QED
    BY <1>1, <2>1 DEF Job, HasCopy, Watched, Safe, Fate, CopyTrue, Listed
<1>2. CASE worker' # Free
  <2> DEFINE w == worker'
             c == Batch(mem', w.batch).context
  <2>1. /\ w.pc \in {"close", "send"} /\ w.mode = "flush"
        /\ w.batch \in Ids(mem') /\ w.group \in Groups /\ w.left = {} /\ w.copy = records'
        /\ DOMAIN w.items = {f \in Files : c[f] # 0 /\ group'[f] = w.group /\ records'[f].ver # 0}
        /\ \A f \in DOMAIN w.items : w.items[f] = c[f]
        /\ w.chunk \subseteq DOMAIN w.items
    BY <1>2, RestsIs
  <2>2. c \in [Files -> Nat]
    BY <2>1, BatchIs DEF Sane, Batches
  <2>3. Job(mem', worker')
    BY <2>1, <2>2 DEF Job
  <2>4. ASSUME ~stopping', NEW f \in seen' PROVE Fate(f)' /\ Listed(f)'
    <3>1. Safe(f)' /\ f \in Files
      BY <2>4
    <3>2. CopyTrue(f)'
      BY <2>1 DEF CopyTrue
    <3>3. Fate(f)'
      BY <3>1, <3>2 DEF Safe, Fate
    <3>4. Listed(f)'
      BY <2>1, <3>1 DEF Safe, Listed
    <3> QED
      BY <3>3, <3>4
  <2> QED
    BY <2>1, <2>3, <2>4 DEF HasCopy, Watched
<1> QED
  BY <1>1, <1>2

\* Nobody waits for what the worker had in hand.
LEMMA MembersRest ==
    ASSUME Rests, group' = group, NEW w, Members(mem', w), w.mode # "file"
    PROVE  Members(mem', worker')
BY DEF Members, InHand

\* Groups that are ready are marked.
LEMMA FlushIs ==
    ASSUME NEW m, Sane(m), NEW id \in Ids(m), Flush(m, id, records'), group' = group,
           group \in [Files -> Groups]
    PROVE  Sane(mem') /\ Onward(m, mem') /\ Rests
<1> DEFINE a == Batch(m, id)
           b == [a EXCEPT !.flushing = @ \cup Ready(a)]
<1>1. a \in Batches /\ a.id = id /\ BatchSane(m, a)
  BY BatchIs DEF Sane
<1>2. mem' = Put(m, b)
  BY Zenon DEF Flush
<1>3. PICK g \in Ready(a) : worker' = Flushing(mem', id, g, records')
  BY Zenon DEF Flush
<1>4. Ready(a) \subseteq GroupsOf(a) \ a.flushed /\ Ready(a) \subseteq a.due
  BY DEF Ready
<1> HIDE DEF a
<1>5. /\ b \in Batches /\ b.id = id /\ b.expected = a.expected /\ b.context = a.context
      /\ b.results = a.results /\ b.strays = a.strays /\ b.flushed = a.flushed
      /\ b.flushing = a.flushing \cup Ready(a)
  BY <1>1, <1>4 DEF Batches
<1> HIDE DEF b
<1>6. b.flushing \subseteq GroupsOf(b) \ b.flushed
  BY <1>1, <1>4, <1>5 DEF BatchSane, GroupsOf
<1>7. Sane(Put(m, b)) /\ Onward(m, Put(m, b))
  BY <1>5, <1>6, PutOnward DEF a
<1>8. g \in Groups
  BY <1>1, <1>4 DEF GroupsOf, Batches
<1>9. Rests
  BY <1>2, <1>3, <1>7, <1>8 DEF Rests, Onward, Kept
<1> QED
  BY <1>2, <1>7, <1>9

\* A file has its result, or is put down as a stray; nobody waits for it any more.
LEMMA NotedIs ==
    ASSUME NEW m, Sane(m), NEW w, Members(m, w), w.mode = "file", NEW f \in Files,
           DOMAIN w.items = {f}, NEW n,
           LET id == w.batch
               a == Batch(m, id) IN
           \/ n = Put(m, [a EXCEPT !.results = @ \cup {f}]) /\ id \in Ids(m)
           \/ n = Put(m, [a EXCEPT !.strays = @ \cup {f}]) /\ id \in Ids(m)
           \/ n = m /\ (id \in Ids(m) => m.pending[f] # 0 /\ m.home[f] = id)
    PROVE  Sane(n) /\ Onward(m, n) /\ Members(n, Free)
<1> DEFINE id == w.batch
           a == Batch(m, id)
           r == [a EXCEPT !.results = @ \cup {f}]
           s == [a EXCEPT !.strays = @ \cup {f}]
<1>1. Free.mode # "file"
  BY DEF Free
<1>2. CASE n = m /\ (id \in Ids(m) => m.pending[f] # 0 /\ m.home[f] = id)
  <2>1. Members(m, Free)
    BY <1>2 DEF Members, InHand
  <2> QED
    BY <1>2, <2>1, OnwardSame
<1>3. ASSUME id \in Ids(m), NEW b \in {r, s}, n = Put(m, b)
      PROVE  Sane(n) /\ Onward(m, n) /\ Members(n, Free)
  <2>1. a \in Batches /\ a.id = id /\ BatchSane(m, a)
    BY <1>3, BatchIs DEF Sane
  <2> HIDE DEF a
  <2>2. /\ b \in Batches /\ b.id = id /\ b.expected = a.expected /\ b.context = a.context
        /\ a.results \subseteq b.results /\ a.strays \subseteq b.strays
        /\ b.flushed = a.flushed /\ b.flushing = a.flushing
        /\ f \in b.results \cup b.strays
    <3>1. CASE b = r
      BY <2>1, <3>1 DEF Batches
    <3>2. CASE b = s
      BY <2>1, <3>2 DEF Batches
    <3> QED
      BY <1>3, <3>1, <3>2
  <2> HIDE DEF r, s
  <2>3. b.flushing \subseteq GroupsOf(b) \ b.flushed
    BY <2>1, <2>2 DEF BatchSane, GroupsOf
  <2>4. Sane(n) /\ Onward(m, n)
    BY <1>3, <2>2, <2>3, PutOnward DEF a
  <2>5. /\ Ids(n) = Ids(m) /\ n.pending = m.pending /\ n.home = m.home
        /\ \A x \in Ids(m) : Batch(n, x) = IF x = id THEN b ELSE Batch(m, x)
    BY <1>3, <2>2, PutIs DEF Sane
  <2>6. ASSUME NEW x \in Ids(n), NEW e \in Batch(n, x).expected,
               e \notin Batch(n, x).results \cup Batch(n, x).strays
        PROVE  n.pending[e] # 0 /\ n.home[e] = x
    <3>1. x \in Ids(m) /\ e \in Batch(m, x).expected
          /\ e \notin Batch(m, x).results \cup Batch(m, x).strays
      BY <2>2, <2>5, <2>6 DEF a
    <3>2. ~InHand(w, e, x)
      BY <2>2, <2>5, <2>6 DEF InHand
    <3> QED
      BY <2>5, <3>1, <3>2 DEF Members
  <2> QED
    BY <2>4, <2>6 DEF Members
<1> QED
  BY <1>2, <1>3

\* The end of a file.
LEMMA FinishIs ==
    ASSUME NEW m, Sane(m), Members(m, worker), worker.mode = "file", NEW f \in Files,
           DOMAIN worker.items = {f}, Finish(m, f, records'), group' = group,
           group \in [Files -> Groups]
    PROVE  Sane(mem') /\ Onward(m, mem') /\ Rests /\ Members(mem', worker')
<1> DEFINE id == worker.batch
           a == Batch(m, id)
           counts == id \in Ids(m) /\ m.pending[f] = 0
           n == IF counts THEN Mark(m, f, id) ELSE Stray(m, f, id)
<1>1. \/ counts /\ Ready(Batch(n, id)) # {} /\ Flush(n, id, records')
      \/ mem' = n /\ worker' = Free
  BY Zenon DEF Finish
<1>3. \/ n = Put(m, [a EXCEPT !.results = @ \cup {f}]) /\ id \in Ids(m)
      \/ n = Put(m, [a EXCEPT !.strays = @ \cup {f}]) /\ id \in Ids(m)
      \/ n = m /\ (id \in Ids(m) => m.pending[f] # 0 /\ m.home[f] = id)
  <2>1. CASE counts
    <3>1. n = Put(m, [a EXCEPT !.results = @ \cup {f}]) /\ id \in Ids(m)
      BY <2>1, Zenon DEF Mark
    <3> QED
      BY <3>1
  <2>2. CASE ~counts /\ id \in Ids(m) /\ m.home[f] # id
    <3>1. n = Put(m, [a EXCEPT !.strays = @ \cup {f}]) /\ id \in Ids(m)
      BY <2>2, Zenon DEF Stray
    <3> QED
      BY <3>1
  <2>3. CASE ~counts /\ ~(id \in Ids(m) /\ m.home[f] # id)
    <3>1. n = m
      BY <2>3, Zenon DEF Stray
    <3> QED
      BY <2>3, <3>1
  <2> QED
    BY <2>1, <2>2, <2>3
<1> HIDE DEF n
<1>4. Sane(n) /\ Onward(m, n) /\ Members(n, Free)
  BY <1>3, NotedIs
<1>5. Sane(mem') /\ Onward(n, mem') /\ Rests
  <2>1. CASE mem' = n /\ worker' = Free
    BY <1>4, <2>1, OnwardSame DEF Rests
  <2>2. CASE counts /\ Flush(n, id, records')
    <3>1. id \in Ids(n)
      BY <1>4, <2>2 DEF Onward, Kept
    <3> QED
      BY <1>4, <2>2, <3>1, FlushIs
  <2> QED
    BY <1>1, <2>1, <2>2
<1>6. Members(mem', worker')
  <2>1. Free.mode # "file"
    BY DEF Free
  <2>2. Members(mem', Free)
    BY <1>4, <1>5, MembersKept DEF Onward
  <2> QED
    BY <1>5, <2>1, <2>2, MembersRest
<1>7. Onward(m, mem')
  BY <1>4, <1>5, OnwardAgain
<1> QED
  BY <1>5, <1>6, <1>7
------------------------------------------------------------------------------
(* Steps of the surroundings, and of a job that goes on.                   *)

LEMMA SanePrimed == ASSUME group' = group PROVE Sane(mem)' <=> Sane(mem')
BY DEF Sane, BatchSane, GroupsOf, Unique, Mems, Batches, Retries, Ids, Batch

LEMMA QInvPrimed ==
    ASSUME group \in [Files -> Groups], group' = group, stopping' \in BOOLEAN, seen' \subseteq Files,
           Sane(mem'), Members(mem', worker'), Job(mem', worker'), AllHonest', Watched'
    PROVE  QInv'
<1>1. Sane(mem)'
  BY SanePrimed
<1>2. Members(mem, worker)' /\ Job(mem, worker)'
  BY DEF Members, Job, InHand, Free, Ids, Batch
<1> QED
  BY <1>1, <1>2 DEF QInv

LEMMA OutsideQ ==
    ASSUME QInv, worker' = worker, group' = group, Sane(mem'), Onward(mem, mem'),
           seen' \subseteq Files, stopping' \in BOOLEAN, AllHonest',
           ~stopping' => ~stopping,
           \A f \in seen' :
              \/ Aside(f)'
              \/ f \in seen /\ (cloud[f] = 0 => cloud'[f] = 0) /\ records'[f] = records[f]
    PROVE  QInv'
<1>1. SameJob
  BY DEF SameJob
<1>2. ASSUME ~stopping', NEW f \in seen' PROVE Watches(f)
  <2>1. CASE Aside(f)'
    BY <2>1 DEF Watches
  <2>2. CASE f \in seen /\ (cloud[f] = 0 => cloud'[f] = 0) /\ records'[f] = records[f]
    <3>1. InWork(f) => InWork(f)'
      BY DEF InWork
    <3>2. Holds(f)
      BY <2>2 DEF Holds, CopyTrue, HasCopy
    <3>3. mem.retry[f].attempts > RetryLimit =>
            mem'.retry[f].attempts > RetryLimit \/ mem'.pending[f] # 0
      BY <1>2, <2>2 DEF Onward, QInv
    <3> QED
      BY <2>2, <3>1, <3>2, <3>3 DEF Watches
  <2> QED
    BY <2>1, <2>2
<1>3. Kept(mem, mem')
  BY DEF Onward
<1>4. Members(mem', worker') /\ Watched'
  BY <1>1, <1>2, <1>3, GoesOn
<1>5. Job(mem', worker')
  BY <1>3, JobKept DEF QInv
<1> QED
  BY <1>4, <1>5, QInvPrimed DEF QInv

\* What the worker may do within its job.
LEMMA GoesOnQ ==
    ASSUME QInv, group' = group, seen' = seen, stopping' = stopping, Sane(mem'), Kept(mem, mem'),
           SameJob, worker # Free, worker'.pc \notin {"idle", "close"},
           worker.mode = "flush" => worker'.pc \notin {"look", "hash"},
           worker'.left \subseteq DOMAIN worker.items,
           worker'.pc \in {"send", "sent"} => \A f \in worker'.chunk : worker'.copy[f].ver # 0,
           AllHonest',
           ~stopping => \A f \in seen : Watches(f)
    PROVE  QInv'
<1>1. Members(mem', worker') /\ Watched'
  BY GoesOn DEF QInv
<1>2. Job(mem', worker)
  BY JobKept DEF QInv
<1>3. worker.mode \in {"file", "flush"}
  BY DEF QInv, Job
<1>4. Job(mem', worker')
  BY <1>2, <1>3 DEF Job, SameJob
<1> QED
  BY <1>1, <1>4, QInvPrimed DEF QInv
------------------------------------------------------------------------------
(* The steps, one by one.                                                  *)

LEMMA WindowQ == ASSUME QInv, Window PROVE QInv'
<1>0. PICK i \in DOMAIN mem.batches : \E g \in GroupsOf(mem.batches[i]) :
        LET b == mem.batches[i] IN
        /\ g \notin b.due \cup b.flushing \cup b.flushed
        /\ mem' = Put(mem, [b EXCEPT !.due = @ \cup {g}])
  BY DEF Window
<1>1. PICK g \in GroupsOf(mem.batches[i]) :
        LET b == mem.batches[i] IN
        /\ g \notin b.due \cup b.flushing \cup b.flushed
        /\ mem' = Put(mem, [b EXCEPT !.due = @ \cup {g}])
  BY <1>0
<1> DEFINE a == mem.batches[i]
           b == [a EXCEPT !.due = @ \cup {g}]
<1>2. /\ a \in Batches /\ a.id \in Ids(mem) /\ a = Batch(mem, a.id) /\ BatchSane(mem, a)
  BY BatchIs DEF QInv, Sane
<1>3. g \in Groups
  BY <1>2 DEF GroupsOf, Batches, QInv
<1>4. mem' = Put(mem, b)
  BY <1>1
<1> HIDE DEF a
<1>5. /\ b \in Batches /\ b.id = a.id /\ b.expected = a.expected /\ b.context = a.context
      /\ b.results = a.results /\ b.strays = a.strays
      /\ b.flushed = a.flushed /\ b.flushing = a.flushing
  BY <1>2, <1>3 DEF Batches
<1> HIDE DEF b
<1>6. b.flushing \subseteq GroupsOf(b) \ b.flushed
  BY <1>2, <1>5 DEF BatchSane, GroupsOf
<1>7. Sane(mem') /\ Onward(mem, mem')
  BY <1>2, <1>4, <1>5, <1>6, PutOnward DEF QInv
<1>8. /\ group' = group /\ cloud' = cloud /\ records' = records /\ worker' = worker
      /\ page' = page /\ stopping' = stopping /\ seen' = seen
  BY DEF Window, history
<1>9. AllHonest'
  BY <1>8 DEF QInv, AllHonest, Honest, HasCopy
<1> QED
  BY <1>7, <1>8, <1>9, OutsideQ DEF QInv

LEMMA DiscoverQ ==
    ASSUME QInv, IInv, NEW found \in SUBSET Files, Discover(found) PROVE QInv'
<1> DEFINE n == NewId(mem)
           o == Open(mem, n)
           r == AllQueued(found, n, o)
<1>1. /\ group' = group /\ cloud' = cloud /\ records' = records /\ worker' = worker
      /\ page' = page /\ stopping' = stopping /\ seen' = seen \cup found
      /\ ~stopping /\ \A f \in found : cloud[f] # 0
  BY DEF Discover
<1>2. mem' = Seal(r, n)
  BY Zenon DEF Discover, AllQueued
<1>3. n \in Nat \ {0} /\ n \notin Ids(mem)
  BY NewIdIs DEF QInv, Sane
<1> HIDE DEF n
<1>4. /\ Sane(o) /\ Ids(o) = Ids(mem) \cup {n}
      /\ \A x \in Ids(mem) : Batch(o, x) = Batch(mem, x)
      /\ Batch(o, n).expected = {}
      /\ o.pending = mem.pending /\ o.home = mem.home /\ o.retry = mem.retry /\ o.late = mem.late
  BY <1>3, OpenIs DEF QInv
<1> HIDE DEF o
<1>5. Onward(mem, o)
  BY <1>4 DEF Onward, Kept
<1>6. \A f \in found : cloud[f] \in Nat \ {0}
  BY <1>1 DEF IInv, Types
<1>7. Sane(r) /\ Onward(o, r) /\ \A f \in found : Served(r, f)
  BY <1>4, <1>6, AllQueuedIs DEF QInv
<1> HIDE DEF r
<1>8. Onward(mem, r)
  BY <1>4, <1>5, <1>7, OnwardAgain DEF QInv
<1>9. Sane(mem') /\ Onward(mem, mem') /\ \A f \in found : Served(mem', f)
  BY <1>2, <1>3, <1>7, <1>8, SealIs DEF QInv
<1>10. \A f \in found : Aside(f)'
  BY <1>1, <1>9 DEF Served, Aside
<1>11. AllHonest'
  BY <1>1 DEF QInv, AllHonest, Honest, HasCopy
<1> QED
  BY <1>1, <1>9, <1>10, <1>11, OutsideQ DEF QInv

LEMMA ChangeQ == ASSUME QInv, NEW f \in Files, Change(f) PROVE QInv'
<1>1. /\ group' = group /\ records' = records /\ mem' = mem /\ worker' = worker
      /\ page' = page /\ stopping' = stopping /\ seen' = seen \ {f}
      /\ \A e \in Files \ {f} : cloud'[e] = cloud[e]
  BY DEF Change
<1>2. AllHonest'
  BY <1>1 DEF QInv, AllHonest, Honest, HasCopy
<1> QED
  BY <1>1, <1>2, OnwardSame, OutsideQ DEF QInv

LEMMA StopQ == ASSUME QInv, Stop PROVE QInv'
<1>1. /\ group' = group /\ cloud' = cloud /\ records' = records /\ mem' = mem /\ worker' = worker
      /\ page' = page /\ stopping' = TRUE /\ seen' = seen
  BY DEF Stop, history
<1>2. AllHonest'
  BY <1>1 DEF QInv, AllHonest, Honest, HasCopy
<1> QED
  BY <1>1, <1>2, OnwardSame, OutsideQ DEF QInv

LEMMA PageReadsQ == ASSUME QInv, PageReads PROVE QInv'
<1>1. /\ group' = group /\ cloud' = cloud /\ records' = records /\ mem' = mem /\ worker' = worker
      /\ stopping' = stopping /\ seen' = seen /\ page'.copy = records
  BY DEF PageReads, history
<1>2. AllHonest'
  BY <1>1 DEF QInv, AllHonest, Honest, HasCopy
<1> QED
  BY <1>1, <1>2, OnwardSame, OutsideQ DEF QInv

LEMMA PageWritesQ == ASSUME QInv, IInv, PageWrites PROVE QInv'
<1>1. /\ group' = group /\ cloud' = cloud /\ records' = page.copy /\ mem' = mem /\ worker' = worker
      /\ stopping' = stopping /\ page.on /\ page' \in {page, Away}
      /\ seen' = seen \ {f \in Files : records[f] # page.copy[f]}
  BY DEF PageWrites, Undone
<1>2. Away.on = FALSE
  BY DEF Away
<1>3. AllHonest'
  BY <1>1, <1>2 DEF QInv, AllHonest, Honest, HasCopy
<1>4. \A f \in seen' : f \in seen /\ records'[f] = records[f]
  BY <1>1 DEF QInv
<1> QED
  BY <1>1, <1>3, <1>4, OnwardSame, OutsideQ DEF QInv
------------------------------------------------------------------------------
(* The worker goes on with a file or a group.                              *)

\* What becomes of one file when the worker takes the next step of its job.
Carried(f) ==
    \/ Settled(f)'
    \/ /\ InWork(f) => InWork(f)'
       /\ mem.retry[f].attempts > RetryLimit =>
               mem'.retry[f].attempts > RetryLimit \/ mem'.pending[f] # 0
       /\ InWork(f)' \/ (CopyTrue(f) => /\ worker'.copy[f].ver = records[f].ver
                                        /\ records[f].done => worker'.copy[f].done)

\* The step saves what it writes in the copy, or writes nothing.
Saves ==
    \/ records' = worker'.copy
    \/ records' = records /\ HasCopy /\ worker'.copy = worker.copy

LEMMA StepOn ==
    ASSUME QInv, group' = group, seen' = seen, stopping' = stopping, page' = page,
           Sane(mem'), Kept(mem, mem'), SameJob, worker # Free, Saves, Honest(worker'.copy),
           worker'.pc \notin {"idle", "look", "close"}, worker.mode = "flush" => worker'.pc # "hash",
           worker'.left \subseteq DOMAIN worker.items,
           worker'.pc \in {"send", "sent"} => \A f \in worker'.chunk : worker'.copy[f].ver # 0,
           \A f \in Files : cloud[f] = 0 => cloud'[f] = 0,
           ~stopping => \A f \in seen : Carried(f)
    PROVE  QInv'
<1>1. AllHonest'
  BY DEF QInv, AllHonest, Honest, Saves
<1>2. ASSUME ~stopping, NEW f \in seen PROVE Watches(f)
  <2>1. Carried(f) /\ f \in Files
    BY <1>2 DEF QInv
  <2>2. (CopyTrue(f) => /\ worker'.copy[f].ver = records[f].ver
                        /\ records[f].done => worker'.copy[f].done) => Holds(f)
    BY DEF Saves, Holds, CopyTrue
  <2> QED
    BY <2>1, <2>2 DEF Carried, Watches
<1> QED
  BY <1>1, <1>2, GoesOnQ

\* The same, when the queue stays as it is and the records say no less.
LEMMA CopyOn ==
    ASSUME QInv, group' = group, seen' = seen, stopping' = stopping, page' = page,
           cloud' = cloud, mem' = mem, SameJob, worker # Free, Saves, Honest(worker'.copy),
           worker'.pc \notin {"idle", "look", "close"}, worker.mode = "flush" => worker'.pc # "hash",
           worker'.left \subseteq DOMAIN worker.items,
           worker'.pc \in {"send", "sent"} => \A f \in worker'.chunk : worker'.copy[f].ver # 0,
           \A f \in Files : InWork(f) => InWork(f)',
           \A f \in Files : CopyTrue(f) => /\ worker'.copy[f].ver = records[f].ver
                                           /\ records[f].done => worker'.copy[f].done
    PROVE  QInv'
<1>1. Sane(mem') /\ Kept(mem, mem')
  BY OnwardSame DEF Onward, QInv
<1>2. \A f \in seen : Carried(f)
  BY DEF Carried, QInv
<1> QED
  BY <1>1, <1>2, StepOn

\* A worker in the middle of a job is not free.
LEMMA Busy == ASSUME worker.pc # "idle" PROVE worker # Free
BY FreeIs

LEMMA StartHashQ ==
    ASSUME QInv, IInv, NEW f \in Files, NEW v \in Versions \ {0}, StartHash(f, v)
    PROVE  QInv'
<1>1. /\ group' = group /\ cloud' = cloud /\ records' = records /\ mem' = mem /\ page' = page
      /\ stopping' = stopping /\ seen' = seen
      /\ worker.pc = "look" /\ worker.mode = "file"
      /\ worker' = [worker EXCEPT !.pc = "hash", !.copy = records]
  BY DEF StartHash, Looks, At, history, excuses
<1>2. /\ worker'.pc = "hash" /\ worker'.copy = records /\ SameJob /\ worker'.left = worker.left
  BY <1>1 DEF IInv, Types, Worker, Fields, SameJob
<1>3. worker # Free
  BY <1>1, Busy
<1>4. Saves /\ Honest(worker'.copy)
  BY <1>1, <1>2 DEF Saves, QInv, AllHonest
<1>5. \A e \in Files : InWork(e) => InWork(e)'
  BY <1>2 DEF InWork, SameJob
<1>6. worker.left \subseteq DOMAIN worker.items
  BY DEF QInv, Job
<1> QED
  BY <1>1, <1>2, <1>3, <1>4, <1>5, <1>6, CopyOn

LEMMA SendQ == ASSUME QInv, IInv, Send PROVE QInv'
<1> DEFINE n == Min(TargetsLeft)
<1>1. /\ group' = group /\ cloud' = cloud /\ records' = records /\ mem' = mem /\ page' = page
      /\ stopping' = stopping /\ seen' = seen /\ worker.pc = "send"
      /\ worker' = [worker EXCEPT !.pc = "sent", !.target = n]
  BY DEF Send, excuses
<1> HIDE DEF n
<1>2. /\ worker'.pc = "sent" /\ worker'.copy = worker.copy /\ SameJob
      /\ worker'.left = worker.left /\ worker'.chunk = worker.chunk
  BY <1>1 DEF IInv, Types, Worker, Fields, SameJob
<1>3. worker # Free /\ HasCopy
  BY <1>1, Busy DEF HasCopy
<1>4. Saves /\ Honest(worker'.copy)
  BY <1>1, <1>2, <1>3 DEF Saves, QInv, AllHonest
<1>5. \A e \in Files : InWork(e) => InWork(e)'
  BY <1>2 DEF InWork, SameJob
<1>6. /\ worker.left \subseteq DOMAIN worker.items
      /\ \A f \in worker.chunk : worker.copy[f].ver # 0
  BY <1>1 DEF QInv, Job
<1>7. \A f \in Files : CopyTrue(f) => worker.copy[f] = records[f]
  BY <1>3 DEF CopyTrue
<1> QED
  BY <1>1, <1>2, <1>3, <1>4, <1>5, <1>6, <1>7, CopyOn

LEMMA SendFailsQ == ASSUME QInv, IInv, SendFails PROVE QInv'
<1> DEFINE n == Min(TargetsLeft) + 1
<1>1. /\ group' = group /\ cloud' = cloud /\ records' = records /\ mem' = mem /\ page' = page
      /\ stopping' = stopping /\ seen' = seen /\ worker.pc = "send"
      /\ worker' = [worker EXCEPT !.target = n]
  BY DEF SendFails
<1> HIDE DEF n
<1>2. /\ worker'.pc = "send" /\ worker'.copy = worker.copy /\ SameJob
      /\ worker'.left = worker.left /\ worker'.chunk = worker.chunk
  BY <1>1 DEF IInv, Types, Worker, Fields, SameJob
<1>3. worker # Free /\ HasCopy
  BY <1>1, Busy DEF HasCopy
<1>4. Saves /\ Honest(worker'.copy)
  BY <1>1, <1>2, <1>3 DEF Saves, QInv, AllHonest
<1>5. \A e \in Files : InWork(e) => InWork(e)'
  BY <1>2 DEF InWork, SameJob
<1>6. /\ worker.left \subseteq DOMAIN worker.items
      /\ \A f \in worker.chunk : worker.copy[f].ver # 0
  BY <1>1 DEF QInv, Job
<1>7. \A f \in Files : CopyTrue(f) => worker.copy[f] = records[f]
  BY <1>3 DEF CopyTrue
<1> QED
  BY <1>1, <1>2, <1>3, <1>4, <1>5, <1>6, <1>7, CopyOn

\* A flush that cannot read the records has nothing in hand; what is still watched had
\* no record, and so a place in the queue.
LEMMA FlushBlindQ == ASSUME QInv, IInv, FlushBlind PROVE QInv'
<1> DEFINE lost == {f \in Files : records[f] # NoRecord}
           blank == [f \in Files |-> NoRecord]
<1>1. /\ group' = group /\ cloud' = cloud /\ mem' = mem /\ page' = page
      /\ stopping' = stopping /\ seen' = seen \ lost /\ records' = blank
      /\ worker.pc = "send" /\ worker.mode = "flush"
  BY DEF FlushBlind, Undone
<1>2. \A f \in Files : f \notin lost => records[f] = NoRecord
  OBVIOUS
<1>3. worker' = [worker EXCEPT !.pc = "delete", !.items = <<>>, !.chunk = {}, !.left = {},
                               !.copy = blank]
  BY DEF FlushBlind
<1>4. \A f \in Files : blank[f] = NoRecord
  OBVIOUS
<1> HIDE DEF lost, blank
<1>5. /\ worker'.pc = "delete" /\ worker'.copy = blank /\ worker'.left = {}
      /\ worker'.items = <<>> /\ worker'.mode = "flush"
      /\ worker'.batch = worker.batch /\ worker'.group = worker.group
  BY <1>1, <1>3 DEF IInv, Types, Worker, Fields
<1>6. Members(mem', worker')
  <2>1. \A f \in Files : \A id \in Ids(mem) : InHand(worker, f, id) => InHand(worker', f, id)
    BY <1>1 DEF InHand
  <2>2. Kept(mem, mem') /\ Sane(mem) /\ mem' = mem
    BY <1>1, OnwardSame DEF Onward, QInv
  <2> QED
    BY <2>1, <2>2, MembersKept DEF QInv
<1>7. Job(mem', worker')
  <2>1. Job(mem, worker)
    BY DEF QInv
  <2>2. worker'.batch \in Ids(mem') /\ worker'.group \in Groups
    BY <1>1, <1>5, <2>1 DEF Job
  <2> QED
    BY <1>5, <2>2 DEF Job
<1>8. \A f \in Files : ~blank[f].done /\ blank[f].state = ""
  <2>1. ~NoRecord.done /\ NoRecord.state = ""
    BY Zenon DEF NoRecord
  <2> QED
    BY <1>4, <2>1
<1>9. Honest(blank)
  BY <1>8 DEF Honest
<1>10. AllHonest'
  BY <1>1, <1>5, <1>9 DEF QInv, AllHonest
<1>11. ASSUME ~stopping, NEW f \in seen' PROVE Aside(f)'
  <2>1. f \in seen /\ f \in Files /\ records[f] = NoRecord
    BY <1>1, <1>2, <1>11 DEF QInv
  <2>2. Fate(f) /\ ~InWork(f)
    BY <1>1, <1>11, <2>1 DEF QInv, Watched, InWork
  <2>3. Aside(f)
    BY <2>1, <2>2, NoRecordIs DEF Fate
  <2> QED
    BY <1>1, <2>3 DEF Aside
<1>12. Watched'
  BY <1>1, <1>11 DEF Watched, Fate, Listed
<1>13. Sane(mem') /\ seen' \subseteq Files
  BY <1>1 DEF QInv
<1> QED
  BY <1>1, <1>6, <1>7, <1>10, <1>12, <1>13, QInvPrimed DEF QInv

LEMMA CheckpointQ == ASSUME QInv, IInv, NEW f \in Files, Checkpoint(f) PROVE QInv'
<1> DEFINE rs == Marked(f)
<1>1. /\ group' = group /\ cloud' = cloud /\ records' = rs /\ mem' = mem /\ page' = page
      /\ stopping' = stopping /\ seen' = seen /\ worker.pc = "sent" /\ worker' = AfterMark(f)
  BY DEF Checkpoint, history, excuses
<1>2. HasCopy /\ AreRecords(worker.copy) /\ worker # Free /\ Worker(worker)
  BY <1>1, Busy DEF HasCopy, IInv, Types
<1>3. \A e \in Files : /\ rs[e].ver = worker.copy[e].ver /\ rs[e].done = worker.copy[e].done
                       /\ rs[e].state = worker.copy[e].state
  BY <1>2 DEF Marked, AreRecords, IsRecord, Columns
<1> HIDE DEF rs
<1>4. /\ worker'.pc \in {"send", "sent"} /\ worker'.copy = rs /\ SameJob
      /\ worker'.left = worker.left /\ worker'.chunk = worker.chunk
  BY <1>1, <1>2 DEF AfterMark, Worker, Fields, SameJob, rs
<1>5. Saves /\ Honest(worker'.copy)
  BY <1>1, <1>2, <1>3, <1>4 DEF Saves, QInv, AllHonest, Honest
<1>6. \A e \in Files : InWork(e) => InWork(e)'
  BY <1>4 DEF InWork, SameJob
<1>7. /\ worker.left \subseteq DOMAIN worker.items
      /\ \A e \in worker.chunk : rs[e].ver # 0
  BY <1>1, <1>2, <1>3 DEF QInv, Job, Worker
<1>8. \A e \in Files : CopyTrue(e) => worker.copy[e] = records[e]
  BY <1>2 DEF CopyTrue
<1> QED
  BY <1>1, <1>2, <1>3, <1>4, <1>5, <1>6, <1>7, <1>8, CopyOn
------------------------------------------------------------------------------
(* The worker deletes sources.                                             *)

\* The copy stays as it is, or says of one file how far its deletion is.
CopyGoesOn ==
    \/ worker'.copy = worker.copy
    \/ \E f \in worker.left : \E state : Rewritten(worker'.copy, f, state)

LEMMA DeletionOn ==
    ASSUME QInv, IInv, group' = group, seen' = seen, stopping' = stopping, page' = page,
           Sane(mem'), Onward(mem, mem'), SameJob, Saves, CopyGoesOn,
           worker.pc \in {"delete", "ask", "asked"}, worker'.pc \in {"delete", "ask", "asked"},
           worker'.left \subseteq worker.left,
           \A f \in Files : cloud[f] = 0 => cloud'[f] = 0
    PROVE  QInv'
<1>1. worker # Free /\ HasCopy
  BY Busy DEF HasCopy
<1>2. Honest(worker.copy)
  BY <1>1 DEF QInv, AllHonest
<1>3. \A f \in Files : /\ worker'.copy[f].ver = worker.copy[f].ver
                       /\ worker'.copy[f].done = worker.copy[f].done
  BY DEF CopyGoesOn, Rewritten
<1>4. Honest(worker'.copy)
  <2>1. CASE worker'.copy = worker.copy
    BY <1>2, <2>1
  <2>2. ASSUME NEW f \in worker.left, NEW state, Rewritten(worker'.copy, f, state)
        PROVE  Honest(worker'.copy)
    <3>1. worker.copy[f].done /\ f \in Files
      BY DEF IInv, Deletions, Types, Worker
    <3>2. \A g \in Files \ {f} : worker'.copy[g].state = worker.copy[g].state
      BY <2>2 DEF Rewritten
    <3> QED
      BY <1>2, <1>3, <3>1, <3>2 DEF Honest
  <2> QED
    BY <2>1, <2>2 DEF CopyGoesOn
<1>5. Kept(mem, mem')
  BY DEF Onward
<1>6. \A f \in Files : CopyTrue(f) => worker.copy[f] = records[f]
  BY <1>1 DEF CopyTrue
<1>7. ASSUME ~stopping, NEW f \in seen PROVE Carried(f)
  <2>1. f \in Files /\ ~InWork(f)
    BY DEF QInv, InWork
  <2>2. mem.retry[f].attempts > RetryLimit =>
               mem'.retry[f].attempts > RetryLimit \/ mem'.pending[f] # 0
    BY <1>7, <2>1 DEF Onward
  <2> QED
    BY <1>3, <1>6, <2>1, <2>2 DEF Carried
<1>8. worker'.left \subseteq DOMAIN worker.items
  BY DEF QInv, Job
<1> QED
  BY <1>1, <1>4, <1>5, <1>7, <1>8, StepOn

\* A file at hand has the version it was taken with.
LEMMA InHandIs ==
    ASSUME QInv, NEW f \in DOMAIN worker.items, worker # Free
    PROVE  worker.items[f] \in Nat \ {0}
BY DEF QInv, Job

\* The file is queued again, in its batch or in one of its own.
LEMMA AgainIs ==
    ASSUME QInv, IInv, NEW f \in worker.left, worker # Free
    PROVE  Sane(QueueAgain(mem, f)) /\ Onward(mem, QueueAgain(mem, f))
<1> DEFINE v == worker.items[f]
<1>1. f \in Files /\ v \in Nat \ {0}
  BY InHandIs DEF QInv, Job, IInv, Types, Worker
<1>2. /\ Sane(mem) /\ group \in [Files -> Groups]
  BY DEF QInv
<1> HIDE DEF v
<1>3. Sane(Queue(mem, f, v, worker.batch)) /\ Onward(mem, Queue(mem, f, v, worker.batch))
  BY <1>1, <1>2, QueueIs
<1>4. Sane(QueueAnew(mem, f, v)) /\ Onward(mem, QueueAnew(mem, f, v))
  <2>1. CASE stopping
    BY <1>2, <2>1, OnwardSame DEF QueueAnew
  <2>2. CASE ~stopping
    <3>1. QueueAnew(mem, f, v) = EnqueueAnew(mem, f, v)
      BY <2>2 DEF QueueAnew
    <3> QED
      BY <1>1, <1>2, <3>1, EnqueueAnewIs
  <2> QED
    BY <2>1, <2>2
<1>5. QueueAgain(mem, f) \in {Queue(mem, f, v, worker.batch), QueueAnew(mem, f, v)}
  BY Zenon DEF QueueAgain, v
<1> QED
  BY <1>3, <1>4, <1>5

LEMMA PutOffQ == ASSUME QInv, IInv, NEW f \in Files, PutOff(f) PROVE QInv'
<1>1. /\ group' = group /\ cloud' = cloud /\ records' = records /\ page' = page
      /\ stopping' = stopping /\ seen' = seen
      /\ worker.pc = "delete" /\ f \in worker.left
      /\ worker' = Then(f, worker.copy) /\ mem' \in {mem, QueueAgain(mem, f)}
  BY DEF PutOff, Turn, history, excuses
<1>2. /\ worker'.pc = "delete" /\ worker'.copy = worker.copy /\ SameJob
      /\ worker'.left = worker.left \ {f}
  BY <1>1 DEF Then, IInv, Types, Worker, Fields, SameJob
<1>3. Sane(mem') /\ Onward(mem, mem')
  BY <1>1, Busy, AgainIs, OnwardSame DEF QInv
<1>4. Saves /\ CopyGoesOn
  BY <1>1, <1>2 DEF Saves, CopyGoesOn, HasCopy
<1> QED
  BY <1>1, <1>2, <1>3, <1>4, DeletionOn

\* A step that writes how far the deletion of one file is.
LEMMA WrittenOn ==
    ASSUME QInv, IInv, NEW f \in worker.left, NEW rs, NEW state, Rewritten(rs, f, state),
           group' = group, seen' = seen, stopping' = stopping, page' = page, cloud' = cloud,
           Sane(mem'), Onward(mem, mem'), SameJob, records' = rs, worker'.copy = rs,
           worker.pc \in {"delete", "ask", "asked"}, worker'.pc \in {"delete", "ask", "asked"},
           worker'.left \subseteq worker.left
    PROVE  QInv'
<1>1. Saves /\ CopyGoesOn
  BY DEF Saves, CopyGoesOn
<1> QED
  BY <1>1, DeletionOn

LEMMA PrepareQ == ASSUME QInv, IInv, NEW f \in Files, Prepare(f) PROVE QInv'
<1> DEFINE rs == [worker.copy EXCEPT ![f].state = "inflight", ![f].asks = @ + 1,
                                     ![f].checks = 0]
<1>1. /\ group' = group /\ cloud' = cloud /\ records' = rs /\ mem' = mem /\ page' = page
      /\ stopping' = stopping /\ seen' = seen
      /\ worker.pc = "delete" /\ f \in worker.left
      /\ worker' = [worker EXCEPT !.pc = "ask", !.file = {f}, !.copy = rs]
  BY DEF Prepare, Turn, history, excuses
<1>2. Worker(worker) /\ AreRecords(worker.copy)
  BY <1>1, DeletionCopy
<1>3. Rewritten(rs, f, "inflight")
  BY <1>2 DEF Rewritten, AreRecords, IsRecord, Columns
<1> HIDE DEF rs
<1>4. /\ worker'.pc = "ask" /\ worker'.copy = rs /\ SameJob /\ worker'.left = worker.left
  BY <1>1, <1>2 DEF Worker, Fields, SameJob
<1> QED
  BY <1>1, <1>3, <1>4, OnwardSame, WrittenOn DEF QInv

LEMMA BlockQ == ASSUME QInv, IInv, NEW f \in Files, Block(f) PROVE QInv'
<1> DEFINE rs == State(f, "blocked")
<1>1. /\ group' = group /\ cloud' = cloud /\ records' = rs /\ mem' = mem /\ page' = page
      /\ stopping' = stopping /\ seen' = seen
      /\ worker.pc = "delete" /\ f \in worker.left /\ worker' = Then(f, rs)
  BY DEF Block, Turn, history, excuses
<1>2. Worker(worker) /\ Rewritten(rs, f, "blocked")
  BY <1>1, DeletionCopy, StateRewrites
<1> HIDE DEF rs
<1>3. /\ worker'.pc = "delete" /\ worker'.copy = rs /\ SameJob
      /\ worker'.left = worker.left \ {f}
  BY <1>1, <1>2 DEF Then, Worker, Fields, SameJob
<1> QED
  BY <1>1, <1>2, <1>3, OnwardSame, WrittenOn DEF QInv

LEMMA CheckFailsQ == ASSUME QInv, IInv, NEW f \in Files, CheckFails(f) PROVE QInv'
<1> DEFINE rs == [worker.copy EXCEPT ![f].state = "check_retry", ![f].checks = @ + 1]
<1>1. /\ group' = group /\ cloud' = cloud /\ records' = rs /\ page' = page
      /\ stopping' = stopping /\ seen' = seen
      /\ worker.pc = "delete" /\ f \in worker.left /\ worker' = Then(f, rs)
      /\ mem' \in {mem, QueueAgain(mem, f)}
  BY DEF CheckFails, Turn, history, excuses
<1>2. Worker(worker) /\ AreRecords(worker.copy)
  BY <1>1, DeletionCopy
<1>3. Rewritten(rs, f, "check_retry")
  BY <1>2 DEF Rewritten, AreRecords, IsRecord, Columns
<1> HIDE DEF rs
<1>4. /\ worker'.pc = "delete" /\ worker'.copy = rs /\ SameJob
      /\ worker'.left = worker.left \ {f}
  BY <1>1, <1>2 DEF Then, Worker, Fields, SameJob
<1>5. Sane(mem') /\ Onward(mem, mem')
  BY <1>1, Busy, AgainIs, OnwardSame DEF QInv
<1> QED
  BY <1>1, <1>3, <1>4, <1>5, WrittenOn

LEMMA AskNothingQ == ASSUME QInv, IInv, NEW f \in Files, AskNothing(f) PROVE QInv'
<1>1. /\ group' = group /\ cloud' = cloud /\ records' = records /\ mem' = mem /\ page' = page
      /\ stopping' = stopping /\ seen' = seen /\ worker.pc = "ask"
      /\ worker' = [worker EXCEPT !.pc = "asked", !.answer = "uncertain"]
  BY DEF AskNothing, history, excuses
<1>2. /\ worker'.pc = "asked" /\ worker'.copy = worker.copy /\ SameJob
      /\ worker'.left = worker.left
  BY <1>1 DEF IInv, Types, Worker, Fields, SameJob
<1>3. Saves /\ CopyGoesOn
  BY <1>1, <1>2 DEF Saves, CopyGoesOn, HasCopy
<1> QED
  BY <1>1, <1>2, <1>3, OnwardSame, DeletionOn DEF QInv

LEMMA AskQ == ASSUME QInv, IInv, NEW f \in Files, Ask(f) PROVE QInv'
<1>1. /\ group' = group /\ records' = records /\ mem' = mem /\ page' = page
      /\ stopping' = stopping /\ seen' = seen /\ worker.pc = "ask"
  BY DEF Ask, excuses
<1>2. PICK answer \in {"deleted", "failed", "uncertain"} :
        /\ worker' = [worker EXCEPT !.pc = "asked", !.answer = answer]
        /\ cloud' = [cloud EXCEPT ![f] = 0] \/ cloud' = cloud
  BY DEF Ask
<1>3. /\ worker'.pc = "asked" /\ worker'.copy = worker.copy /\ SameJob
      /\ worker'.left = worker.left
  BY <1>1, <1>2 DEF IInv, Types, Worker, Fields, SameJob
<1>4. Saves /\ CopyGoesOn
  BY <1>1, <1>3 DEF Saves, CopyGoesOn, HasCopy
<1>5. \A e \in Files : cloud[e] = 0 => cloud'[e] = 0
  BY <1>2 DEF IInv, Types
<1> QED
  BY <1>1, <1>3, <1>4, <1>5, OnwardSame, DeletionOn DEF QInv

LEMMA AnswerQ == ASSUME QInv, IInv, NEW f \in Files, Answer(f) PROVE QInv'
<1> DEFINE rs == State(f, worker.answer)
<1>1. /\ group' = group /\ cloud' = cloud /\ records' = rs /\ page' = page
      /\ stopping' = stopping /\ seen' = seen
      /\ worker.pc = "asked" /\ worker.file = {f} /\ mem' \in {mem, QueueAgain(mem, f)}
  BY DEF Answer, history, excuses
<1>2. PICK answer : worker' = [Then(f, rs) EXCEPT !.answer = answer]
  BY Zenon DEF Answer
<1>3. Worker(worker) /\ Rewritten(rs, f, worker.answer) /\ f \in worker.left
  BY <1>1, DeletionCopy, StateRewrites DEF Worker
<1> HIDE DEF rs
<1>4. /\ worker'.pc = "delete" /\ worker'.copy = rs /\ SameJob
      /\ worker'.left = worker.left \ {f}
  BY <1>2, <1>3 DEF Then, Worker, Fields, SameJob
<1>5. Sane(mem') /\ Onward(mem, mem')
  BY <1>1, <1>3, Busy, AgainIs, OnwardSame DEF QInv
<1> QED
  BY <1>1, <1>3, <1>4, <1>5, WrittenOn
------------------------------------------------------------------------------
(* The worker goes on to the deletions.                                    *)

LEMMA DeletingIs ==
    ASSUME IInv, NEW rs, worker' = Deleting(rs)
    PROVE  /\ worker'.pc = "delete" /\ worker'.copy = rs /\ SameJob
           /\ worker'.left \subseteq DOMAIN worker.items
<1> DEFINE left == {f \in DOMAIN worker.items : MayDelete(rs[f])}
<1>1. left \subseteq DOMAIN worker.items
  OBVIOUS
<1> HIDE DEF left
<1>2. worker' = [worker EXCEPT !.pc = "delete", !.copy = rs, !.chunk = {}, !.target = 1,
                               !.left = left]
  BY Zenon DEF Deleting, left
<1>3. Worker(worker)
  BY DEF IInv, Types
<1> QED
  BY <1>1, <1>2, <1>3 DEF Worker, Fields, SameJob

LEMMA DeletingOn ==
    ASSUME QInv, IInv, group' = group, cloud' = cloud, seen' = seen, stopping' = stopping,
           page' = page, worker # Free, worker' = Deleting(records'), Honest(records'),
           Sane(mem'), Kept(mem, mem'), ~stopping => \A f \in seen : Carried(f)
    PROVE  QInv'
<1>1. /\ worker'.pc = "delete" /\ worker'.copy = records' /\ SameJob
      /\ worker'.left \subseteq DOMAIN worker.items
  BY DeletingIs
<1>2. Saves
  BY <1>1 DEF Saves
<1> QED
  BY <1>1, <1>2, StepOn

\* The file at hand.
LEMMA AtIs ==
    ASSUME QInv, NEW f \in Files, NEW v, At(f, v)
    PROVE  /\ worker.mode = "file" /\ worker # Free /\ DOMAIN worker.items = {f}
           /\ worker.items[f] = v /\ v \in Nat \ {0}
<1>1. DOMAIN Item(f, v) = {f} /\ Item(f, v)[f] = v
  BY DEF Item
<1>2. Free.mode = ""
  BY Zenon DEF Free
<1> QED
  BY <1>1, <1>2 DEF At, QInv, Job

\* The failures of a file are forgotten.
LEMMA ClearedIs ==
    ASSUME NEW m, Sane(m), NEW f \in Files
    PROVE  LET c == Cleared(m, f) IN
           /\ Sane(c) /\ Kept(m, c) /\ \A e \in Files \ {f} : c.retry[e] = m.retry[e]
<1> DEFINE c == Cleared(m, f)
<1>1. m \in Mems /\ NoRetry \in Retries
  BY DEF Sane, Retries, NoRetry
<1>2. /\ c \in Mems /\ c.batches = m.batches /\ c.pending = m.pending
      /\ c.home = m.home /\ c.late = m.late
      /\ \A e \in Files \ {f} : c.retry[e] = m.retry[e]
  BY <1>1 DEF Mems, Cleared
<1> HIDE DEF c
<1>3. Ids(c) = Ids(m) /\ \A x : Batch(c, x) = Batch(m, x)
  BY <1>2, SameBatches
<1>4. Sane(c)
  BY <1>2, <1>3 DEF Sane, Unique, BatchSane
<1>5. Kept(m, c)
  BY <1>2, <1>3 DEF Kept
<1> QED
  BY <1>2, <1>4, <1>5 DEF c

LEMMA SentBeforeQ ==
    ASSUME QInv, IInv, NEW f \in Files, NEW v \in Versions \ {0}, SentBefore(f, v)
    PROVE  QInv'
<1>1. /\ group' = group /\ cloud' = cloud /\ records' = records /\ page' = page
      /\ stopping' = stopping /\ seen' = seen /\ At(f, v) /\ records[f].done
      /\ mem' = Cleared(mem, f) /\ worker' = Deleting(records)
  BY DEF SentBefore, history, excuses
<1>2. worker.mode = "file" /\ worker # Free /\ DOMAIN worker.items = {f}
  BY <1>1, AtIs
<1>3. worker'.pc = "delete" /\ worker'.copy = records
  BY <1>1, DeletingIs
<1>4. Sane(mem') /\ Kept(mem, mem') /\ \A e \in Files \ {f} : mem'.retry[e] = mem.retry[e]
  BY <1>1, ClearedIs DEF QInv
<1>5. ASSUME NEW e \in seen PROVE Carried(e)
  <2>1. e \in Files
    BY DEF QInv
  <2>2. CASE e = f
    BY <1>1, <1>3, <2>2 DEF Carried, Settled, CopyTrue
  <2>3. CASE e # f
    <3>1. ~InWork(e)
      BY <1>2, <2>3 DEF InWork
    <3> QED
      BY <1>3, <1>4, <2>1, <2>3, <3>1 DEF Carried
  <2> QED
    BY <2>2, <2>3
<1>6. Honest(records')
  BY <1>1 DEF QInv, AllHonest
<1> QED
  BY <1>1, <1>2, <1>4, <1>5, <1>6, DeletingOn
------------------------------------------------------------------------------
(* The end of a file.                                                      *)

\* What Aside, Waits and Safe say of other memories and records.
AsideIn(m, f) ==
    \/ cloud[f] = 0 \/ m.pending[f] # 0
    \/ m.retry[f].attempts > RetryLimit \/ f \in m.late
WaitsIn(m, f) == \E id \in Ids(m) :
    Batch(m, id).context[f] # 0 /\ group[f] \notin Batch(m, id).flushed
SafeIn(m, rs, f) ==
    AsideIn(m, f) \/ rs[f].done \/ (WaitsIn(m, f) /\ rs[f].ver # 0)

LEMMA SafeOn ==
    ASSUME NEW m, NEW q, Onward(m, q), ~stopping, NEW f \in Files, NEW rs, SafeIn(m, rs, f)
    PROVE  SafeIn(q, rs, f)
<1>1. AsideIn(m, f) => AsideIn(q, f)
  BY DEF AsideIn, Onward, Kept
<1>2. WaitsIn(m, f) => WaitsIn(q, f)
  BY DEF WaitsIn, Onward, Kept
<1> QED
  BY <1>1, <1>2 DEF SafeIn

\* A file that is not at hand is safe.
LEMMA OthersSafe ==
    ASSUME QInv, ~stopping, NEW f \in seen, ~InWork(f), NEW rs,
           CopyTrue(f) => rs[f].ver = records[f].ver /\ (records[f].done => rs[f].done)
    PROVE  SafeIn(mem, rs, f)
<1>1. Fate(f)
  BY DEF QInv, Watched
<1> QED
  BY <1>1 DEF Fate, Aside, Waits, AsideIn, WaitsIn, SafeIn

\* What is safe is watched when the worker rests.
LEMMA RestsQ ==
    ASSUME QInv, group' = group, cloud' = cloud, seen' = seen, stopping' = stopping, page' = page,
           Rests, Sane(mem'), Members(mem', worker'), Honest(records'),
           ~stopping => \A f \in seen : SafeIn(mem', records', f)
    PROVE  QInv'
<1>1. ~stopping' => \A f \in seen' : Safe(f)'
  BY DEF SafeIn, AsideIn, WaitsIn, Safe, Aside, Waits, Ids, Batch
<1>2. seen' \subseteq Files
  BY DEF QInv
<1>3. Job(mem', worker') /\ (HasCopy' => Honest(worker'.copy)) /\ Watched'
  BY <1>1, <1>2, RestsInv
<1>4. AllHonest'
  BY <1>3 DEF QInv, AllHonest, Honest
<1> QED
  BY <1>2, <1>3, <1>4, QInvPrimed DEF QInv

\* The step is the last for a file, with the queue as the handler left it.
LEMMA FileEnds ==
    ASSUME QInv, group' = group, cloud' = cloud, seen' = seen, stopping' = stopping, page' = page,
           NEW m, Sane(m), Members(m, worker), NEW f \in Files, worker.mode = "file",
           DOMAIN worker.items = {f}, Finish(m, f, records'), Honest(records'),
           ~stopping => \A e \in seen : SafeIn(m, records', e)
    PROVE  QInv'
<1>1. Sane(mem') /\ Onward(m, mem') /\ Rests /\ Members(mem', worker')
  BY FinishIs DEF QInv
<1>2. ASSUME ~stopping, NEW e \in seen PROVE SafeIn(mem', records', e)
  BY <1>1, <1>2, SafeOn DEF QInv
<1> QED
  BY <1>1, <1>2, RestsQ

LEMMA FileOn ==
    ASSUME QInv, group' = group, cloud' = cloud, seen' = seen, stopping' = stopping, page' = page,
           NEW m, Sane(m), Onward(mem, m), NEW f \in Files, worker.mode = "file",
           DOMAIN worker.items = {f}, Finish(m, f, records'), Honest(records'),
           \A e \in Files : CopyTrue(e) => /\ records'[e].ver = records[e].ver
                                           /\ records[e].done => records'[e].done,
           ~InWork(f) \/ Served(m, f) \/ records'[f].done
    PROVE  QInv'
<1>1. Members(m, worker)
  BY MembersKept DEF Onward, QInv
<1>2. ASSUME ~stopping, NEW e \in seen PROVE SafeIn(m, records', e)
  <2>1. e \in Files
    BY DEF QInv
  <2>2. CASE InWork(e)
    <3>1. e = f
      BY <2>2 DEF InWork
    <3> QED
      BY <1>2, <2>2, <3>1 DEF SafeIn, AsideIn, Served
  <2>3. CASE ~InWork(e)
    <3>1. SafeIn(mem, records', e)
      BY <1>2, <2>1, <2>3, OthersSafe
    <3> QED
      BY <1>2, <2>1, <3>1, SafeOn
  <2> QED
    BY <2>2, <2>3
<1> QED
  BY <1>1, <1>2, FileEnds

\* The records stay as they are.
LEMMA FileOnSame ==
    ASSUME QInv, group' = group, cloud' = cloud, seen' = seen, stopping' = stopping, page' = page,
           records' = records, NEW m, Sane(m), Onward(mem, m), NEW f \in Files, NEW v, At(f, v),
           Finish(m, f, records),
           ~InWork(f) \/ Served(m, f) \/ records[f].done
    PROVE  QInv'
<1>1. worker.mode = "file" /\ DOMAIN worker.items = {f}
  BY AtIs
<1>2. Honest(records') /\ Finish(m, f, records')
  BY DEF QInv, AllHonest
<1> QED
  BY <1>1, <1>2, FileOn

\* The handlers that end with a file, but for those that hand it over.
LEMMA LastSteps ==
    ASSUME QInv, IInv, NEW f \in Files, NEW v \in Versions \ {0},
           \/ Skip(f, v) \/ TooYoung(f, v) \/ Changed(f, v) \/ ReadFails(f, v)
           \/ ReadBreaks(f, v) \/ HashStops(f, v) \/ EndFile(f, v)
    PROVE  QInv'
<1>1. /\ group' = group /\ cloud' = cloud /\ records' = records /\ page' = page
      /\ stopping' = stopping /\ seen' = seen /\ At(f, v)
  BY DEF Skip, TooYoung, Changed, ReadFails, ReadBreaks, HashStops, EndFile, Looks, history, excuses
<1>2. v \in Nat \ {0} /\ Sane(mem) /\ group \in [Files -> Groups] /\ Onward(mem, mem)
  BY <1>1, AtIs, OnwardSame DEF QInv
<1>3. CASE Skip(f, v)
  <2>1. Untouchable(f) => records[f].done
    BY DEF QInv, AllHonest, Honest, Untouchable
  <2>2. Served(mem, f) \/ records[f].done
    BY <1>3, <2>1 DEF Skip, Served
  <2>3. Finish(mem, f, records)
    BY <1>3 DEF Skip
  <2> QED
    BY <1>1, <1>2, <2>2, <2>3, FileOnSame
<1>4. CASE TooYoung(f, v)
  <2> DEFINE m == Queue(mem, f, v, worker.batch)
  <2>1. Sane(m) /\ Onward(mem, m) /\ Served(m, f)
    BY <1>2, QueueIs
  <2>2. Finish(m, f, records)
    BY <1>4 DEF TooYoung
  <2> QED
    BY <1>1, <2>1, <2>2, FileOnSame
<1>5. CASE Changed(f, v)
  <2> DEFINE m == Queue(mem, f, cloud[f], worker.batch)
  <2>1. cloud[f] \in Nat \ {0}
    BY <1>5 DEF Changed, IInv, Types
  <2>2. Sane(m) /\ Onward(mem, m) /\ Served(m, f)
    BY <1>2, <2>1, QueueIs
  <2>3. Finish(m, f, records)
    BY <1>5 DEF Changed
  <2> QED
    BY <1>1, <2>2, <2>3, FileOnSame
<1>6. CASE ReadFails(f, v) \/ ReadBreaks(f, v)
  <2> DEFINE m == Failed(mem, f, v, worker.batch)
  <2>1. Sane(m) /\ Onward(mem, m) /\ Served(m, f)
    BY <1>2, FailedIs
  <2>2. Finish(m, f, records)
    BY <1>6 DEF ReadFails, ReadBreaks
  <2> QED
    BY <1>1, <2>1, <2>2, FileOnSame
<1>7. CASE HashStops(f, v)
  <2>1. Served(mem, f) /\ Finish(mem, f, records)
    BY <1>7 DEF HashStops, Served
  <2> QED
    BY <1>1, <1>2, <2>1, FileOnSame
<1>8. CASE EndFile(f, v)
  <2>1. ~InWork(f) /\ Finish(mem, f, records)
    BY <1>8 DEF EndFile, InWork
  <2> QED
    BY <1>1, <1>2, <2>1, FileOnSame
<1> QED
  BY <1>3, <1>4, <1>5, <1>6, <1>7, <1>8

LEMMA EndSendQ == ASSUME QInv, IInv, EndSend PROVE QInv'
<1>1. /\ group' = group /\ cloud' = cloud /\ records' = Told /\ page' = page
      /\ stopping' = stopping /\ seen' = seen /\ worker.pc = "send"
  BY DEF EndSend, history, excuses
<1>2. HasCopy /\ worker # Free /\ AreRecords(worker.copy) /\ Sound(worker.copy, told, cloud)
  BY <1>1, Busy, NoGap DEF HasCopy
<1>3. \A f \in Files :
        /\ Told[f].ver = worker.copy[f].ver /\ Told[f].state = worker.copy[f].state
        /\ Told[f].done = IF f \in worker.chunk THEN worker.copy[f].sent = Targets
                                                ELSE worker.copy[f].done
  BY <1>2 DEF Told, AreRecords, IsRecord, Columns, All
<1>4. \A f \in Files : worker.copy[f].done => Told[f].done
  BY <1>2, <1>3 DEF Sound
<1>5. \A f \in worker.chunk : worker.copy[f].ver # 0
  BY <1>1 DEF QInv, Job
<1>6. Honest(worker.copy)
  BY <1>2 DEF QInv, AllHonest
<1>7. Honest(Told)
  BY <1>3, <1>4, <1>5, <1>6 DEF Honest
<1> HIDE DEF Told
<1>8. \A f \in Files : CopyTrue(f) => /\ Told[f].ver = records[f].ver
                                      /\ records[f].done => Told[f].done
  BY <1>2, <1>3, <1>4 DEF CopyTrue
<1>9. CASE worker.mode = "flush" /\ worker' = Deleting(Told) /\ mem' = mem
  <2>1. worker'.copy = Told
    BY <1>9, DeletingIs
  <2>2. ASSUME NEW f \in seen PROVE Carried(f)
    BY <1>8, <1>9, <2>1 DEF Carried, InWork, QInv
  <2>3. Sane(mem') /\ Kept(mem, mem')
    BY <1>9, OnwardSame DEF QInv, Onward
  <2> QED
    BY <1>1, <1>2, <1>7, <1>9, <2>2, <2>3, DeletingOn
<1>10. ASSUME NEW f \in Files, NEW v, At(f, v), Told[f].done,
              mem' = Cleared(mem, f), worker' = Deleting(Told)
       PROVE  QInv'
  <2>1. worker'.pc = "delete" /\ worker'.copy = Told
    BY <1>10, DeletingIs
  <2>2. Sane(mem') /\ Kept(mem, mem') /\ \A e \in Files \ {f} : mem'.retry[e] = mem.retry[e]
    BY <1>10, ClearedIs DEF QInv
  <2>3. DOMAIN worker.items = {f}
    BY <1>10, AtIs
  <2>4. ASSUME NEW e \in seen PROVE Carried(e)
    <3>1. e \in Files
      BY DEF QInv
    <3>2. CASE e = f
      BY <1>1, <1>10, <2>1, <3>2 DEF Carried, Settled, CopyTrue
    <3>3. CASE e # f
      <4>1. ~InWork(e)
        BY <2>3, <3>3 DEF InWork
      <4> QED
        BY <1>8, <2>1, <2>2, <3>1, <3>3, <4>1 DEF Carried
    <3> QED
      BY <3>2, <3>3
  <2> QED
    BY <1>1, <1>2, <1>7, <1>10, <2>2, <2>4, DeletingOn
<1>11. ASSUME NEW f \in Files, NEW v, At(f, v),
              Finish(Failed(mem, f, v, worker.batch), f, Told)
       PROVE  QInv'
  <2> DEFINE m == Failed(mem, f, v, worker.batch)
  <2>1. /\ worker.mode = "file" /\ DOMAIN worker.items = {f} /\ v \in Nat \ {0}
        /\ Sane(mem) /\ group \in [Files -> Groups]
    BY <1>11, AtIs DEF QInv
  <2>2. Sane(m) /\ Onward(mem, m) /\ Served(m, f)
    BY <2>1, FailedIs
  <2>3. Finish(m, f, records')
    BY <1>1, <1>11
  <2> HIDE DEF m
  <2> QED
    BY <1>1, <1>7, <1>8, <2>1, <2>2, <2>3, FileOn
<1> QED
  BY <1>1, <1>9, <1>10, <1>11, Zenon DEF EndSend

LEMMA HandsOver ==
    ASSUME QInv, IInv, group' = group, cloud' = cloud, seen' = seen, stopping' = stopping,
           page' = page, NEW f \in Files, NEW v, At(f, v), worker.pc \in {"look", "hash"},
           HandOver(f, v, records'), Honest(records'), records'[f].ver = v,
           \A e \in Files \ {f} : CopyTrue(e) => /\ records'[e].ver = records[e].ver
                                                 /\ records[e].done => records'[e].done
    PROVE  QInv'
<1>1. /\ worker.mode = "file" /\ worker # Free /\ DOMAIN worker.items = {f}
      /\ v \in Nat \ {0}
  BY AtIs
<1>2. \A e \in Files \ {f} : ~InWork(e)
  BY <1>1 DEF InWork
<1>3. CASE worker.batch \notin Ids(mem)
  <2>1. mem' = mem
    BY <1>3 DEF HandOver
  <2>2. PICK chunk \in SUBSET ({f} \cup {e \in Files : records'[e].ver # 0}) :
          worker' = [worker EXCEPT !.pc = "send", !.copy = records', !.chunk = chunk]
    BY <1>3 DEF HandOver
  <2>3. /\ worker'.pc = "send" /\ worker'.copy = records' /\ worker'.chunk = chunk
        /\ worker'.left = worker.left /\ SameJob
    BY <2>2 DEF IInv, Types, Worker, Fields, SameJob
  <2>4. \A e \in worker'.chunk : worker'.copy[e].ver # 0
    BY <1>1, <2>2, <2>3
  <2>5. InWork(f)'
    BY <1>1, <2>3 DEF InWork, SameJob
  <2>6. ASSUME NEW e \in seen PROVE Carried(e)
    BY <1>2, <2>1, <2>3, <2>5 DEF Carried, QInv
  <2>7. Sane(mem') /\ Kept(mem, mem') /\ Saves /\ worker.left \subseteq DOMAIN worker.items
    BY <2>1, <2>3, OnwardSame DEF QInv, Onward, Job, Saves
  <2> QED
    BY <1>1, <2>3, <2>4, <2>6, <2>7, StepOn
<1>4. CASE worker.batch \in Ids(mem)
  <2> DEFINE id == worker.batch
             a == Batch(mem, id)
             b == [a EXCEPT !.context[f] = v]
             p == Put(mem, b)
             late == IF group[f] \in a.flushed THEN mem.late \cup {f} ELSE mem.late
             m == [p EXCEPT !.late = late]
  <2>1. Finish(m, f, records')
    <3>1. p.late = mem.late
      BY DEF Put, QInv, Sane, Mems
    <3>2. m = [p EXCEPT !.late = IF group[f] \in a.flushed THEN @ \cup {f} ELSE @]
      BY <3>1
    <3> QED
      BY <1>4, <3>2, Zenon DEF HandOver
  <2>2. a \in Batches /\ a.id = id /\ BatchSane(mem, a) /\ f \in a.expected
    BY <1>1, <1>4, BatchIs DEF QInv, Sane, Job
  <2> HIDE DEF a
  <2>3. /\ b \in Batches /\ b.id = id /\ b.expected = a.expected
        /\ b.results = a.results /\ b.strays = a.strays
        /\ b.flushed = a.flushed /\ b.flushing = a.flushing
        /\ b.context[f] = v /\ \A e \in Files \ {f} : b.context[e] = a.context[e]
    <3> DEFINE c == [a.context EXCEPT ![f] = v]
    <3>1. c \in [Files -> Nat] /\ c[f] = v /\ \A e \in Files \ {f} : c[e] = a.context[e]
      BY <1>1, <2>2 DEF Batches
    <3>2. b = [a EXCEPT !.context = c]
      BY Zenon
    <3> HIDE DEF b, c
    <3> QED
      BY <2>2, <3>1, <3>2 DEF Batches
  <2> HIDE DEF b
  <2>4. Sane(p)
    <3>1. b.flushing \subseteq GroupsOf(b) \ b.flushed
      BY <2>2, <2>3 DEF BatchSane, GroupsOf
    <3>2. \A e \in Files : b.context[e] # 0 => e \in b.expected
      BY <2>2, <2>3 DEF BatchSane
    <3> QED
      BY <1>4, <2>3, <3>1, <3>2, PutSane DEF a, QInv
  <2>5. /\ Ids(p) = Ids(mem)
        /\ \A x \in Ids(mem) : Batch(p, x) = IF x = id THEN b ELSE Batch(mem, x)
        /\ p.pending = mem.pending /\ p.home = mem.home /\ p.retry = mem.retry /\ p.late = mem.late
    BY <2>3, PutIs DEF QInv, Sane
  <2> HIDE DEF p
  <2>6. late \in SUBSET Files
    BY DEF QInv, Sane, Mems
  <2>7. mem.late \subseteq late /\ (group[f] \in a.flushed => f \in late)
    OBVIOUS
  <2> HIDE DEF late
  <2>8. /\ m \in Mems /\ m.batches = p.batches /\ m.pending = p.pending /\ m.home = p.home
        /\ m.retry = p.retry /\ m.late = late
    BY <2>4, <2>6 DEF Sane, Mems
  <2> HIDE DEF m
  <2>9. Ids(m) = Ids(p) /\ \A x : Batch(m, x) = Batch(p, x)
    BY <2>8, SameBatches
  <2>10. Sane(m)
    BY <2>4, <2>8, <2>9 DEF Sane, Unique, BatchSane
  <2>11. Members(m, worker)
    BY <2>3, <2>5, <2>8, <2>9 DEF QInv, Members, a
  <2>12. SafeIn(m, records', f)
    <3>1. CASE group[f] \in a.flushed
      BY <2>7, <2>8, <3>1 DEF SafeIn, AsideIn
    <3>2. CASE group[f] \notin a.flushed
      <4>1. id \in Ids(m) /\ Batch(m, id).context[f] = v /\ Batch(m, id).flushed = a.flushed
        BY <1>4, <2>3, <2>5, <2>9
      <4>2. WaitsIn(m, f)
        BY <1>1, <3>2, <4>1 DEF WaitsIn
      <4> QED
        BY <1>1, <4>2 DEF SafeIn
    <3> QED
      BY <3>1, <3>2
  <2>13. ASSUME ~stopping, NEW e \in seen PROVE SafeIn(m, records', e)
    <3>1. e \in Files
      BY DEF QInv
    <3>2. CASE e # f
      <4>1. SafeIn(mem, records', e)
        BY <1>2, <2>13, <3>1, <3>2, OthersSafe
      <4>2. AsideIn(mem, e) => AsideIn(m, e)
        BY <2>5, <2>7, <2>8 DEF AsideIn
      <4>3. WaitsIn(mem, e) => WaitsIn(m, e)
        BY <2>3, <2>5, <2>9, <3>1, <3>2 DEF WaitsIn, a
      <4> QED
        BY <4>1, <4>2, <4>3 DEF SafeIn
    <3> QED
      BY <2>12, <3>2
  <2> QED
    BY <1>1, <2>1, <2>10, <2>11, <2>13, FileEnds
<1> QED
  BY <1>3, <1>4

LEMMA KeepLinkQ ==
    ASSUME QInv, IInv, NEW f \in Files, NEW v \in Versions \ {0}, KeepLink(f, v)
    PROVE  QInv'
<1>1. /\ group' = group /\ cloud' = cloud /\ records' = records /\ page' = page
      /\ stopping' = stopping /\ seen' = seen /\ At(f, v) /\ records[f].ver = v
      /\ worker.pc = "look" /\ HandOver(f, v, records)
  BY DEF KeepLink, Looks, Unchanged, history, excuses
<1>2. HandOver(f, v, records') /\ Honest(records')
  BY <1>1 DEF QInv, AllHonest
<1> QED
  BY <1>1, <1>2, HandsOver

LEMMA HashedQ ==
    ASSUME QInv, IInv, NEW f \in Files, NEW v \in Versions \ {0}, Hashed(f, v)
    PROVE  QInv'
<1>1. /\ group' = group /\ cloud' = cloud /\ page' = page
      /\ stopping' = stopping /\ seen' = seen /\ At(f, v)
      /\ worker.pc = "hash" /\ HandOver(f, v, records')
  BY DEF Hashed, history, excuses
<1>2. PICK state \in {"", "unproven"} :
        records' = [worker.copy EXCEPT ![f] = [NoRecord EXCEPT !.ver = v, !.state = state]]
  BY DEF Hashed
<1>3. HasCopy /\ AreRecords(worker.copy) /\ v \in Nat \ {0}
  BY <1>1, AtIs, NoGap DEF HasCopy
<1> DEFINE new == [NoRecord EXCEPT !.ver = v, !.state = state]
<1>4. new.ver = v /\ new.state = state
  BY NoRecordIs DEF Columns
<1> HIDE DEF new
<1>5. records'[f] = new /\ \A e \in Files \ {f} : records'[e] = worker.copy[e]
  BY <1>2, <1>3 DEF AreRecords, new
<1>6. Honest(worker.copy)
  BY <1>3 DEF QInv, AllHonest
<1>7. Honest(records')
  BY <1>2, <1>3, <1>4, <1>5, <1>6 DEF Honest
<1>8. \A e \in Files \ {f} : CopyTrue(e) => records'[e] = records[e]
  BY <1>3, <1>5 DEF CopyTrue
<1> QED
  BY <1>1, <1>4, <1>5, <1>7, <1>8, HandsOver
------------------------------------------------------------------------------
(* The worker begins.                                                      *)

LEMMA FreeHas == Free.pc = "idle" /\ Free.mode = "" /\ Free.left = {} /\ Free.items = <<>>
BY Zenon DEF Free

LEMMA FlushReadyQ == ASSUME QInv, IInv, FlushReady PROVE QInv'
<1>1. /\ group' = group /\ cloud' = cloud /\ records' = records /\ page' = page
      /\ stopping' = stopping /\ seen' = seen /\ worker = Free
  BY DEF FlushReady, history, excuses
<1>2. PICK i \in DOMAIN mem.batches : Flush(mem, mem.batches[i].id, records)
  BY DEF FlushReady
<1>3. mem.batches[i].id \in Ids(mem) /\ Sane(mem) /\ group \in [Files -> Groups]
  BY BatchIs DEF QInv, Sane
<1>4. Flush(mem, mem.batches[i].id, records')
  BY <1>1, <1>2
<1>5. Sane(mem') /\ Onward(mem, mem') /\ Rests
  BY <1>1, <1>3, <1>4, FlushIs
<1>6. Members(mem', Free)
  BY <1>1, <1>3, <1>5, MembersKept DEF QInv, Onward
<1>7. Members(mem', worker')
  BY <1>1, <1>5, <1>6, FreeHas, MembersRest
<1>8. ASSUME ~stopping, NEW e \in seen PROVE SafeIn(mem', records', e)
  <2>1. e \in Files /\ ~InWork(e)
    BY <1>1, FreeHas DEF QInv, InWork
  <2>2. SafeIn(mem, records', e)
    BY <1>1, <1>8, <2>1, OthersSafe
  <2> QED
    BY <1>5, <1>8, <2>1, <2>2, SafeOn
<1>9. Honest(records')
  BY <1>1 DEF QInv, AllHonest
<1> QED
  BY <1>1, <1>5, <1>7, <1>8, <1>9, RestsQ

\* A file leaves the queue for the hands of the worker.
Taken(m, f) == [m EXCEPT !.pending[f] = 0, !.home[f] = 0]

LEMMA TakenIs ==
    ASSUME NEW m, Sane(m), NEW f \in Files
    PROVE  LET q == Taken(m, f) IN
           /\ Sane(q) /\ q.batches = m.batches /\ q.late = m.late /\ q.retry = m.retry
           /\ \A e \in Files \ {f} : q.pending[e] = m.pending[e] /\ q.home[e] = m.home[e]
           /\ q.pending[f] = 0 /\ q.home[f] = 0
<1> DEFINE p == [m.pending EXCEPT ![f] = 0]
           h == [m.home EXCEPT ![f] = 0]
           q == Taken(m, f)
<1>1. /\ p \in [Files -> Nat] /\ h \in [Files -> Nat] /\ p[f] = 0 /\ h[f] = 0
      /\ \A e \in Files \ {f} : p[e] = m.pending[e] /\ h[e] = m.home[e]
  BY DEF Sane, Mems
<1>2. q = [m EXCEPT !.pending = p, !.home = h]
  BY DEF Sane, Mems, Taken
<1> HIDE DEF p, h, q
<1>3. /\ q \in Mems /\ q.batches = m.batches /\ q.late = m.late /\ q.retry = m.retry
      /\ q.pending = p /\ q.home = h
  BY <1>1, <1>2 DEF Sane, Mems
<1>4. Ids(q) = Ids(m) /\ \A x : Batch(q, x) = Batch(m, x)
  BY <1>3, SameBatches
<1>5. ASSUME NEW x \in Ids(q) PROVE BatchSane(q, Batch(q, x))
  <2>1. BatchSane(m, Batch(m, x))
    BY <1>4 DEF Sane
  <2> QED
    BY <1>1, <1>3, <1>4, <2>1 DEF BatchSane
<1>6. \A e \in Files : q.home[e] \in Ids(q) \cup {0}
  BY <1>1, <1>3, <1>4 DEF Sane
<1>7. Sane(q)
  BY <1>3, <1>5, <1>6 DEF Sane, Unique
<1> QED
  BY <1>1, <1>3, <1>7 DEF q

LEMMA TakeQ == ASSUME QInv, IInv, NEW f \in Files, Take(f) PROVE QInv'
<1> DEFINE v == mem.pending[f]
           id == mem.home[f]
<1>1. /\ group' = group /\ cloud' = cloud /\ records' = records /\ page' = page
      /\ stopping' = stopping /\ seen' = seen /\ worker = Free /\ v # 0
      /\ worker' = [Free EXCEPT !.pc = "look", !.mode = "file", !.batch = id, !.items = Item(f, v)]
  BY DEF Take, history, excuses
<1>2. mem' = Taken(mem, f)
  BY DEF Take, Taken
<1>3. v \in Nat \ {0} /\ id \in Ids(mem) \cup {0}
  BY <1>1 DEF QInv, Sane, Mems
<1>4. 0 \notin Ids(mem) /\ \A x \in Ids(mem) : Batch(mem, x).id = x /\ BatchSane(mem, Batch(mem, x))
  BY BatchIs DEF QInv, Sane
<1>5. id \in Ids(mem) => f \in Batch(mem, id).expected
  BY <1>1, <1>4 DEF BatchSane
<1>6. /\ Sane(mem') /\ mem'.batches = mem.batches /\ mem'.late = mem.late /\ mem'.retry = mem.retry
      /\ \A e \in Files \ {f} : mem'.pending[e] = mem.pending[e] /\ mem'.home[e] = mem.home[e]
  BY <1>2, TakenIs DEF QInv
<1>7. Ids(mem') = Ids(mem) /\ \A x : Batch(mem', x) = Batch(mem, x)
  BY <1>6, SameBatches
<1>8. DOMAIN Item(f, v) = {f} /\ Item(f, v)[f] = v
  BY DEF Item
<1>9. /\ worker'.pc = "look" /\ worker'.mode = "file" /\ worker'.batch = id
      /\ worker'.items = Item(f, v) /\ worker'.left = {}
  <2> DEFINE items == Item(f, v)
  <2>1. worker' = [Free EXCEPT !.pc = "look", !.mode = "file", !.batch = id, !.items = items]
    BY <1>1
  <2> HIDE DEF items, id, v
  <2> QED
    BY <2>1, FreeIs DEF Fields, items
<1>10. ASSUME NEW x \in Ids(mem'), NEW e \in Batch(mem', x).expected,
              e \notin Batch(mem', x).results \cup Batch(mem', x).strays
       PROVE  (mem'.pending[e] # 0 /\ mem'.home[e] = x) \/ InHand(worker', e, x)
  <2>1. (mem.pending[e] # 0 /\ mem.home[e] = x) \/ InHand(Free, e, x)
    BY <1>1, <1>7, <1>10 DEF QInv, Members
  <2>2. mem.pending[e] # 0 /\ mem.home[e] = x
    BY <2>1, FreeHas DEF InHand
  <2>3. e \in Files
    BY <1>6, <1>7, BatchIs DEF Sane, Batches
  <2>4. CASE e = f
    BY <1>8, <1>9, <2>2, <2>4 DEF InHand
  <2>5. CASE e # f
    BY <1>6, <2>2, <2>3, <2>5
  <2> QED
    BY <2>4, <2>5
<1>11. Members(mem', worker')
  BY <1>10 DEF Members
<1>12. Job(mem', worker')
  <2>1. DOMAIN worker'.items = {f} /\ worker'.items[f] \in Nat \ {0}
    BY <1>3, <1>8, <1>9
  <2>2. worker'.batch \in Ids(mem') \cup {0}
    BY <1>3, <1>7, <1>9
  <2>3. worker'.batch \in Ids(mem') => DOMAIN worker'.items \subseteq Batch(mem', worker'.batch).expected
    BY <1>5, <1>7, <1>9, <2>1
  <2> QED
    BY <1>9, <2>1, <2>2, <2>3 DEF Job
<1>13. AllHonest'
  BY <1>1, <1>9 DEF QInv, AllHonest, Honest, HasCopy
<1>14. ASSUME ~stopping, NEW e \in seen PROVE Fate(e)' /\ Listed(e)'
  <2>1. e \in Files /\ ~InWork(e)
    BY <1>1, FreeHas DEF QInv, InWork
  <2>2. Fate(e)
    BY <1>14 DEF QInv, Watched
  <2>3. Listed(e)' /\ CopyTrue(e)'
    BY <1>9 DEF Listed, CopyTrue, HasCopy
  <2>4. CASE e = f
    BY <1>8, <1>9, <2>3, <2>4 DEF Fate, InWork
  <2>5. CASE e # f
    <3>1. Aside(e) => Aside(e)'
      BY <1>1, <1>6, <2>1, <2>5 DEF Aside
    <3>2. Waits(e) => Waits(e)'
      BY <1>1, <1>7 DEF Waits, Ids, Batch
    <3> QED
      BY <1>1, <2>1, <2>2, <2>3, <3>1, <3>2 DEF Fate
  <2> QED
    BY <2>4, <2>5
<1>15. Watched'
  BY <1>1, <1>14 DEF Watched
<1> QED
  BY <1>1, <1>6, <1>11, <1>12, <1>13, <1>15, QInvPrimed DEF QInv
------------------------------------------------------------------------------
(* The worker gives up, or ends a group.                                   *)

LEMMA SaveFailsQ == ASSUME QInv, IInv, SaveFails PROVE QInv'
<1>1. /\ group' = group /\ cloud' = cloud /\ records' = records /\ page' = page
      /\ stopping' = stopping /\ seen' = seen
      /\ worker.pc \in {"send", "sent", "delete", "asked"}
  BY DEF SaveFails
<1>2. ASSUME NEW f \in Files, NEW v, At(f, v),
             Finish(Failed(mem, f, v, worker.batch), f, records)
      PROVE  QInv'
  <2> DEFINE m == Failed(mem, f, v, worker.batch)
  <2>1. v \in Nat \ {0} /\ Sane(mem) /\ group \in [Files -> Groups]
    BY <1>2, AtIs DEF QInv
  <2>2. Sane(m) /\ Onward(mem, m) /\ Served(m, f)
    BY <2>1, FailedIs
  <2>3. Finish(m, f, records)
    BY <1>2
  <2> HIDE DEF m
  <2> QED
    BY <1>1, <1>2, <2>2, <2>3, FileOnSame
<1>3. ASSUME worker.mode = "flush",
             mem' = LET b == Batch(mem, worker.batch)
                    IN Put(mem, [b EXCEPT !.due = @ \ b.flushing, !.flushing = {}]),
             worker' = Free
      PROVE  QInv'
  <2> DEFINE id == worker.batch
             a == Batch(mem, id)
             b == [a EXCEPT !.due = @ \ a.flushing, !.flushing = {}]
  <2>1. mem' = Put(mem, b)
    BY <1>3
  <2>2. id \in Ids(mem) /\ a \in Batches /\ a.id = id
    BY <1>3, BatchIs DEF QInv, Sane, Job
  <2> HIDE DEF a
  <2>3. /\ b \in Batches /\ b.id = id /\ b.expected = a.expected /\ b.context = a.context
        /\ b.results = a.results /\ b.strays = a.strays
        /\ b.flushed = a.flushed /\ b.flushing = {}
    BY <2>2 DEF Batches
  <2> HIDE DEF b
  <2>4. Sane(mem') /\ Onward(mem, mem')
    BY <2>1, <2>2, <2>3, PutOnward DEF a, QInv
  <2>5. Rests
    BY <1>3 DEF Rests
  <2>6. Members(mem', worker')
    <3>1. \A f \in Files : \A x \in Ids(mem) : InHand(worker, f, x) => InHand(Free, f, x)
      BY <1>3 DEF InHand
    <3> QED
      BY <1>3, <2>4, <3>1, MembersKept DEF QInv, Onward
  <2>7. ASSUME ~stopping, NEW e \in seen PROVE SafeIn(mem', records', e)
    <3>1. e \in Files /\ ~InWork(e)
      BY <1>3 DEF QInv, InWork
    <3>2. SafeIn(mem, records', e)
      BY <1>1, <2>7, <3>1, OthersSafe
    <3> QED
      BY <2>4, <2>7, <3>1, <3>2, SafeOn
  <2>8. Honest(records')
    BY <1>1 DEF QInv, AllHonest
  <2> QED
    BY <1>1, <2>4, <2>5, <2>6, <2>7, <2>8, RestsQ
<1> QED
  BY <1>2, <1>3, Zenon DEF SaveFails

\* What was not sent to every target is queued anew, or given up.
LEMMA RetriedIs ==
    ASSUME QInv, IInv, worker.mode = "flush"
    PROVE  LET q == Retried(mem) IN
           /\ Sane(q) /\ Onward(mem, q)
           /\ \A f \in DOMAIN worker.items : worker.copy[f].done \/ Served(q, f)
<1> DEFINE n == NewId(mem)
           late == {f \in DOMAIN worker.items : ~worker.copy[f].done}
           o == Open(mem, n)
           r == AllFailed(late, n, o)
           q == Retried(mem)
<1>1. q = IF late = {} THEN mem ELSE Seal(r, n)
  BY Zenon DEF Retried, AllFailed
<1>2. /\ \A f \in late : worker.items[f] \in Nat \ {0}
      /\ late \in SUBSET Files /\ DOMAIN worker.items \subseteq Files
      /\ Sane(mem) /\ group \in [Files -> Groups]
  BY DEF QInv, Job, IInv, Types, Worker
<1>3. n \in Nat \ {0} /\ n \notin Ids(mem)
  BY <1>2, NewIdIs DEF Sane
<1>4. \A f \in DOMAIN worker.items : f \in late \/ worker.copy[f].done
  OBVIOUS
<1> HIDE DEF n, late, q
<1>5. /\ Sane(o) /\ Ids(o) = Ids(mem) \cup {n}
      /\ \A x \in Ids(mem) : Batch(o, x) = Batch(mem, x)
      /\ Batch(o, n).expected = {}
      /\ o.pending = mem.pending /\ o.home = mem.home /\ o.retry = mem.retry /\ o.late = mem.late
  BY <1>2, <1>3, OpenIs
<1> HIDE DEF o
<1>6. Onward(mem, o)
  BY <1>5 DEF Onward, Kept
<1>7. Sane(r) /\ Onward(o, r) /\ \A f \in late : Served(r, f)
  BY <1>2, <1>5, AllFailedIs
<1> HIDE DEF r
<1>8. Onward(mem, r)
  BY <1>2, <1>5, <1>6, <1>7, OnwardAgain
<1>9. Sane(Seal(r, n)) /\ Onward(mem, Seal(r, n)) /\ \A f \in late : Served(Seal(r, n), f)
  BY <1>2, <1>3, <1>7, <1>8, SealIs
<1>10. Sane(q) /\ Onward(mem, q) /\ \A f \in late : Served(q, f)
  <2>1. CASE late = {}
    BY <1>1, <1>2, <2>1, OnwardSame
  <2>2. CASE late # {}
    BY <1>1, <1>9, <2>2
  <2> QED
    BY <2>1, <2>2
<1> QED
  BY <1>4, <1>10 DEF q

\* The group is flushed, the batch goes with its last.
LEMMA ClosedIs ==
    ASSUME NEW m, Sane(m), NEW w, Members(m, w), NEW id \in Ids(m), NEW g \in Groups
    PROVE  LET a == Batch(m, id)
               n == Put(m, [a EXCEPT !.flushing = @ \ {g}, !.flushed = @ \cup {g}])
               q == Seal(n, id) IN
           /\ Sane(q) /\ Members(q, w)
           /\ \A f \in Files : AsideIn(m, f) => AsideIn(q, f)
           /\ \A f \in Files : WaitsIn(m, f) =>
                WaitsIn(q, f) \/ (group[f] = g /\ a.context[f] # 0)
           /\ a.flushing \ {g} # {} => q = n /\ id \in Ids(q)
<1> DEFINE a == Batch(m, id)
           b == [a EXCEPT !.flushing = @ \ {g}, !.flushed = @ \cup {g}]
           n == Put(m, b)
           q == Seal(n, id)
<1>1. a \in Batches /\ a.id = id /\ BatchSane(m, a)
  BY BatchIs DEF Sane
<1> HIDE DEF a
<1>2. /\ b \in Batches /\ b.id = id /\ b.expected = a.expected /\ b.context = a.context
      /\ b.results = a.results /\ b.strays = a.strays
      /\ b.flushed = a.flushed \cup {g} /\ b.flushing = a.flushing \ {g}
  BY <1>1 DEF Batches
<1> HIDE DEF b
<1>3. Sane(n)
  <2>1. b.flushing \subseteq GroupsOf(b) \ b.flushed
    BY <1>1, <1>2 DEF BatchSane, GroupsOf
  <2>2. \A e \in Files : b.context[e] # 0 => e \in b.expected
    BY <1>1, <1>2 DEF BatchSane
  <2> QED
    BY <1>2, <2>1, <2>2, PutSane DEF a
<1>4. /\ Ids(n) = Ids(m)
      /\ \A x \in Ids(m) : Batch(n, x) = IF x = id THEN b ELSE Batch(m, x)
      /\ n.pending = m.pending /\ n.home = m.home /\ n.retry = m.retry /\ n.late = m.late
  BY <1>2, PutIs DEF Sane
<1>5. Batch(n, id) = b /\ id \in Ids(n)
  BY <1>4
<1>6. Members(n, w)
  BY <1>2, <1>4 DEF Members, a
<1>7. \/ q = n /\ ~(GroupsOf(b) \subseteq b.flushed)
      \/ q = Drop(n, id) /\ GroupsOf(b) \subseteq b.flushed
  BY <1>5, Zenon DEF Seal
<1> HIDE DEF n, q
<1>8. \A f \in Files : AsideIn(m, f) => AsideIn(n, f)
  BY <1>4 DEF AsideIn
<1>9. \A f \in Files : WaitsIn(m, f) => WaitsIn(n, f) \/ (group[f] = g /\ a.context[f] # 0)
  BY <1>2, <1>4 DEF WaitsIn, a
<1>10. CASE q = n
  BY <1>3, <1>5, <1>6, <1>8, <1>9, <1>10 DEF a, b, n, q
<1>11. CASE q = Drop(n, id) /\ GroupsOf(b) \subseteq b.flushed
  <2>1. /\ Ids(q) = Ids(n) \ {id}
        /\ \A x \in Ids(q) : Batch(q, x) = Batch(n, x)
        /\ q.pending = n.pending /\ q.retry = n.retry /\ q.late = n.late
        /\ \A f \in Files : q.home[f] = IF n.home[f] = id THEN 0 ELSE n.home[f]
    BY <1>3, <1>5, <1>11, DropIs DEF Sane
  <2>2. Sane(q)
    BY <1>3, <1>5, <1>11, DropSane
  <2>3. \A x \in Ids(n) : \A f \in Batch(n, x).expected : f \in Files
    BY <1>3, BatchIs DEF Sane, Batches
  <2>4. Members(q, w)
    BY <1>6, <2>1, <2>3 DEF Members
  <2>5. \A f \in Files : AsideIn(n, f) => AsideIn(q, f)
    BY <2>1 DEF AsideIn
  <2>6. \A f \in Files : b.context[f] # 0 => group[f] \in b.flushed
    BY <1>1, <1>2, <1>11 DEF BatchSane, GroupsOf
  <2>7. \A f \in Files : WaitsIn(n, f) => WaitsIn(q, f)
    BY <1>5, <2>1, <2>6 DEF WaitsIn
  <2>8. a.flushing \ {g} = {}
    BY <1>1, <1>2, <1>11 DEF BatchSane, GroupsOf
  <2>9. /\ Sane(q) /\ Members(q, w)
        /\ \A f \in Files : AsideIn(m, f) => AsideIn(q, f)
        /\ \A f \in Files : WaitsIn(m, f) => WaitsIn(q, f) \/ (group[f] = g /\ a.context[f] # 0)
        /\ a.flushing \ {g} = {}
    BY <1>8, <1>9, <2>2, <2>4, <2>5, <2>7, <2>8
  <2> QED
    BY <2>9 DEF a, b, n, q
<1> QED
  BY <1>7, <1>10, <1>11

LEMMA EndGroupQ == ASSUME QInv, IInv, EndGroup PROVE QInv'
<1> DEFINE m == Retried(mem)
           id == worker.batch
           g == worker.group
           a == Batch(m, id)
           n == Put(m, [a EXCEPT !.flushing = @ \ {g}, !.flushed = @ \cup {g}])
           q == Seal(n, id)
<1>1. /\ group' = group /\ cloud' = cloud /\ records' = records /\ page' = page
      /\ stopping' = stopping /\ seen' = seen
      /\ worker.pc = "close" \/ (worker.pc = "delete" /\ worker.mode = "flush")
  BY DEF EndGroup, history, excuses
<1>2. /\ mem' = q
      /\ \/ worker' = Free
         \/ \E h \in a.flushing \ {g} : worker' = Flushing(n, id, h, records)
  BY Zenon DEF EndGroup
<1>3. worker.mode = "flush" /\ id \in Ids(mem) /\ g \in Groups
  <2>1. worker.mode = "flush"
    BY <1>1, FreeHas DEF QInv, Job
  <2> QED
    BY <2>1 DEF QInv, Job
<1>4. HasCopy
  BY <1>1 DEF HasCopy
<1>5. /\ Sane(m) /\ Onward(mem, m)
      /\ \A f \in DOMAIN worker.items : worker.copy[f].done \/ Served(m, f)
  BY <1>3, RetriedIs
<1> HIDE DEF m
<1>6. /\ id \in Ids(m) /\ a.context = Batch(mem, id).context
  BY <1>3, <1>5 DEF Onward, Kept
<1>7. Members(m, Free)
  <2>1. \A f \in Files : \A x \in Ids(mem) : InHand(worker, f, x) => InHand(Free, f, x)
    BY <1>3 DEF InHand
  <2> QED
    BY <1>5, <2>1, MembersKept DEF QInv, Onward
<1>8. a.flushing \subseteq Groups
  BY <1>5, <1>6, BatchIs DEF Sane, Batches
<1>9. /\ Sane(q) /\ Members(q, Free)
      /\ \A f \in Files : AsideIn(m, f) => AsideIn(q, f)
      /\ \A f \in Files : WaitsIn(m, f) => WaitsIn(q, f) \/ (group[f] = g /\ a.context[f] # 0)
      /\ a.flushing \ {g} # {} => q = n /\ id \in Ids(q)
  BY <1>3, <1>5, <1>6, <1>7, ClosedIs
<1> HIDE DEF a, n, q
<1>10. Rests
  <2>1. CASE worker' = Free
    BY <2>1 DEF Rests
  <2>2. ASSUME NEW h \in a.flushing \ {g}, worker' = Flushing(n, id, h, records) PROVE Rests
    <3>1. mem' = n /\ id \in Ids(mem') /\ h \in Groups
      BY <1>2, <1>8, <1>9
    <3> QED
      BY <1>1, <2>2, <3>1 DEF Rests
  <2> QED
    BY <1>2, <2>1, <2>2
<1>11. Members(mem', worker')
  <2>1. Members(mem', Free)
    BY <1>2, <1>9
  <2> QED
    BY <1>1, <1>10, <2>1, FreeHas, MembersRest
<1>12. ASSUME ~stopping, NEW e \in seen PROVE SafeIn(mem', records', e)
  <2>1. e \in Files /\ ~InWork(e)
    BY <1>3 DEF QInv, InWork
  <2>2. Fate(e) /\ Listed(e)
    BY <1>12 DEF QInv, Watched
  <2>3. SafeIn(mem, records, e)
    BY <1>12, <2>1, OthersSafe
  <2>4. SafeIn(m, records, e)
    BY <1>5, <1>12, <2>1, <2>3, SafeOn
  <2>5. AsideIn(m, e) => SafeIn(mem', records', e)
    BY <1>2, <1>9, <2>1 DEF SafeIn
  <2>6. Aside(e) => AsideIn(m, e)
    BY <1>5, <1>12, <2>1 DEF Aside, AsideIn, Onward, Kept
  <2>7. CASE group[e] = g /\ a.context[e] # 0
    <3>1. e \in DOMAIN worker.items \/ Aside(e) \/ records[e].done
      BY <1>3, <1>6, <2>2, <2>7 DEF Listed
    <3>2. CASE Aside(e) \/ records[e].done
      BY <1>1, <2>5, <2>6, <3>2 DEF SafeIn
    <3>3. CASE e \in DOMAIN worker.items /\ ~Aside(e)
      <4>1. worker.copy[e] = records[e]
        BY <1>4, <2>1, <2>2, <3>3 DEF Fate, CopyTrue
      <4>2. records[e].done \/ Served(m, e)
        BY <1>5, <3>3, <4>1
      <4>3. records[e].done \/ AsideIn(m, e)
        BY <1>12, <4>2 DEF Served, AsideIn
      <4> QED
        BY <1>1, <2>5, <4>3 DEF SafeIn
    <3> QED
      BY <3>1, <3>2, <3>3
  <2>8. CASE ~(group[e] = g /\ a.context[e] # 0)
    BY <1>1, <1>2, <1>9, <2>1, <2>4, <2>8 DEF SafeIn
  <2> QED
    BY <2>7, <2>8
<1>13. Sane(mem') /\ Honest(records')
  BY <1>1, <1>2, <1>9 DEF QInv, AllHonest
<1> QED
  BY <1>1, <1>10, <1>11, <1>12, <1>13, RestsQ
------------------------------------------------------------------------------
(* An instance starts.                                                     *)

\* A memory with nothing in it.
Empty(retry) ==
    [pending |-> [f \in Files |-> 0], home |-> [f \in Files |-> 0],
     batches |-> <<>>, retry |-> retry, late |-> {}]

LEMMA EmptyIs ==
    ASSUME NEW r \in [Files -> Retries]
    PROVE  Sane(Empty(r)) /\ Ids(Empty(r)) = {}
<1> DEFINE m == Empty(r)
<1>1. /\ m.pending = [f \in Files |-> 0] /\ m.home = [f \in Files |-> 0]
      /\ m.batches = <<>> /\ m \in Mems
  BY DEF Empty, Mems
<1> HIDE DEF m
<1>2. DOMAIN m.batches = {}
  BY <1>1
<1>3. Ids(m) = {} /\ Unique(m)
  BY <1>2 DEF Ids, Unique
<1>4. \A f \in Files : m.home[f] = 0
  BY <1>1
<1>5. Sane(m)
  BY <1>1, <1>3, <1>4 DEF Sane
<1> QED
  BY <1>3, <1>5 DEF m

\* An instance begins with what it queues itself.
LEMMA StartsQ ==
    ASSUME QInv, IInv, group' = group, records' = records, mem' \in Restored, worker' = Free,
           stopping' = FALSE, seen' = {}, page'.on => page.on /\ page'.copy = page.copy
    PROVE  QInv'
<1> DEFINE again == {f \in Files : records[f].state = "check_retry" /\
                       records[f].checks < DeleteLimit /\ records[f].asks < DeleteLimit}
           o == Empty(mem.retry)
           q == AllAnew(again, o)
<1>1. mem' = o \/ mem' = q
  BY Zenon DEF Restored, AllAnew, Empty
<1>2. Sane(o) /\ Ids(o) = {} /\ group \in [Files -> Groups]
  BY EmptyIs DEF QInv, Sane, Mems
<1>3. \A f \in again : records[f].ver \in Nat \ {0}
  BY DEF QInv, AllHonest, Honest, IInv, Types, AreRecords, IsRecord
<1>4. again \in SUBSET Files
  OBVIOUS
<1> HIDE DEF again, o
<1>5. Sane(q) /\ Onward(o, q)
  BY <1>2, <1>3, <1>4, AllAnewIs
<1> HIDE DEF q
<1>6. Sane(mem') /\ Onward(o, mem')
  BY <1>1, <1>2, <1>5, OnwardSame
<1>7. \A id \in Ids(mem') : \A f \in Batch(mem', id).expected :
        mem'.pending[f] # 0 /\ mem'.home[f] = id
  BY <1>2, <1>6 DEF Onward, Kept
<1>8. Members(mem', worker')
  BY <1>7 DEF Members
<1>9. Job(mem', worker') /\ ~HasCopy'
  BY FreeHas DEF Job, HasCopy
<1>10. AllHonest'
  BY <1>9 DEF QInv, AllHonest, Honest
<1>11. Watched'
  BY DEF Watched
<1> QED
  BY <1>2, <1>6, <1>8, <1>9, <1>10, <1>11, QInvPrimed

LEMMA RestartQ == ASSUME QInv, IInv, Restart PROVE QInv'
<1>1. /\ group' = group /\ records' = records /\ mem' \in Restored /\ worker' = Free
      /\ stopping' = FALSE /\ seen' = {} /\ page' = [page EXCEPT !.excludes = FALSE]
  BY DEF Restart
<1>2. page'.on = page.on /\ page'.copy = page.copy
  BY <1>1 DEF IInv, Types
<1> QED
  BY <1>1, <1>2, StartsQ

LEMMA CrashQ == ASSUME QInv, IInv, Crash PROVE QInv'
<1>1. /\ group' = group /\ records' = records /\ mem' \in Restored /\ worker' = Free
      /\ stopping' = FALSE /\ seen' = {} /\ page' = Away
  BY DEF Crash
<1>2. ~page'.on
  BY <1>1 DEF Away
<1> QED
  BY <1>1, <1>2, StartsQ

LEMMA InitQ == ASSUME Init PROVE QInv
<1>1. /\ group \in [Files -> Groups] /\ records = [f \in Files |-> NoRecord]
      /\ worker = Free /\ page = Away /\ stopping = FALSE /\ seen = {}
      /\ mem = Empty([f \in Files |-> NoRetry])
  BY Zenon DEF Init, Empty
<1>2. NoRetry \in Retries
  BY DEF NoRetry, Retries
<1>3. Sane(mem) /\ Ids(mem) = {}
  BY <1>1, <1>2, EmptyIs
<1>4. Members(mem, worker)
  BY <1>3 DEF Members
<1>5. Job(mem, worker) /\ ~HasCopy
  BY <1>1, FreeHas DEF Job, HasCopy
<1>6. NoRecord.state = "" /\ ~NoRecord.done /\ ~page.on
  BY <1>1, Zenon DEF NoRecord, Away
<1>7. \A f \in Files : records[f] = NoRecord
  BY <1>1
<1>8. AllHonest
  BY <1>5, <1>6, <1>7 DEF AllHonest, Honest
<1>9. Watched
  BY <1>1 DEF Watched
<1> QED
  BY <1>1, <1>3, <1>4, <1>5, <1>8, <1>9 DEF QInv
------------------------------------------------------------------------------
(* Every step, and the theorem.                                            *)

LEMMA NextQ == IInv /\ QInv /\ [Next]_vars => QInv'
<1> SUFFICES ASSUME IInv, QInv, [Next]_vars PROVE QInv'
  OBVIOUS
<1>1. CASE Window \/ Stop \/ PageReads \/ PageWrites
  BY <1>1, WindowQ, StopQ, PageReadsQ, PageWritesQ
<1>2. CASE FlushReady \/ FlushBlind \/ EndGroup \/ SaveFails
  BY <1>2, FlushReadyQ, FlushBlindQ, EndGroupQ, SaveFailsQ
<1>3. CASE Send \/ SendFails \/ EndSend
  BY <1>3, SendQ, SendFailsQ, EndSendQ
<1>4. CASE Restart \/ Crash
  BY <1>4, RestartQ, CrashQ
<1>5. CASE \E f \in Files : \/ Take(f) \/ Checkpoint(f) \/ PutOff(f) \/ Prepare(f) \/ Block(f)
                            \/ CheckFails(f) \/ AskNothing(f) \/ Ask(f) \/ Answer(f) \/ Change(f)
  BY <1>5, TakeQ, CheckpointQ, PutOffQ, PrepareQ, BlockQ, CheckFailsQ,
     AskNothingQ, AskQ, AnswerQ, ChangeQ
<1>6. CASE \E f \in Files, v \in Versions \ {0} :
             \/ Skip(f, v) \/ TooYoung(f, v) \/ Changed(f, v) \/ ReadFails(f, v)
             \/ ReadBreaks(f, v) \/ HashStops(f, v) \/ EndFile(f, v)
  BY <1>6, LastSteps
<1>7. CASE \E f \in Files, v \in Versions \ {0} :
             \/ SentBefore(f, v) \/ KeepLink(f, v) \/ StartHash(f, v) \/ Hashed(f, v)
  BY <1>7, SentBeforeQ, KeepLinkQ, StartHashQ, HashedQ
<1>8. CASE \E found \in (SUBSET Files) \ {{}} : Discover(found)
  BY <1>8, DiscoverQ
<1>9. CASE UNCHANGED vars
  <2>1. /\ group' = group /\ cloud' = cloud /\ records' = records /\ mem' = mem
        /\ worker' = worker /\ page' = page /\ stopping' = stopping /\ seen' = seen
    BY <1>9 DEF vars
  <2>2. AllHonest'
    BY <2>1 DEF QInv, AllHonest, Honest, HasCopy
  <2> QED
    BY <2>1, <2>2, OnwardSame, OutsideQ DEF QInv
<1> QED
  BY <1>1, <1>2, <1>3, <1>4, <1>5, <1>6, <1>7, <1>8, <1>9 DEF Next

\* "单文件失败会转移到后续重试批次": through failures, retries, merges of batches and the
\* windows of other groups, a file that was queued keeps a way to be sent, unless it
\* waits with a stray, came late, or lost its record to delete_source or to a flush that
\* could not read it.
THEOREM ForgetsOnlyStrays == Spec => []OnlyStraysAreForgotten
<1>1. Init => IInv /\ QInv
  BY InitInv, InitQ
<1>2. (IInv /\ QInv) /\ [Next]_vars => (IInv /\ QInv)'
  BY NextInv, NextQ
<1>3. IInv /\ QInv => OnlyStraysAreForgotten
  BY QueueSafe
<1> QED
  BY <1>1, <1>2, <1>3, PTL DEF Spec
=============================================================================
