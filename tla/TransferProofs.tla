--------------------------- MODULE TransferProofs ---------------------------
(***************************************************************************)
(* Proofs about two ends of a transfer: BatchCoordinator, which gathers    *)
(* the steps in the cloud, for every set of operations, every grouping and *)
(* every batch size; and TransferPostprocess, which makes the library      *)
(* follow, for every set of events and paths, every number of failures and *)
(* of writes from outside.                                                 *)
(***************************************************************************)
EXTENDS BatchCoordinator, TransferPostprocess, SequenceTheorems, TLAPS

(***************************************************************************)
(* BatchCoordinator.                                                       *)
(***************************************************************************)
\* Queueing an operation that is not queued yet.
LEMMA AppendFacts ==
    ASSUME NEW S, NEW s \in Seq(S), NEW e \in S
    PROVE  /\ Append(s, e) \in Seq(S)
           /\ Append(s, e) # <<>>
           /\ Range(Append(s, e)) = Range(s) \union {e}
           /\ IsInjective(s) /\ e \notin Range(s) => IsInjective(Append(s, e))
<1>1. /\ Append(s, e) \in Seq(S)
      /\ DOMAIN Append(s, e) = 1 .. Len(s) + 1
      /\ \A i \in 1 .. Len(s) : Append(s, e)[i] = s[i]
      /\ Append(s, e)[Len(s) + 1] = e
      /\ DOMAIN s = 1 .. Len(s) /\ Len(s) \in Nat
      /\ Append(s, e) # <<>>
  OBVIOUS
<1>2. Range(Append(s, e)) = Range(s) \union {e}
  <2>1. Range(Append(s, e)) \subseteq Range(s) \union {e}
    BY <1>1 DEF Range
  <2>2. Range(s) \union {e} \subseteq Range(Append(s, e))
    BY <1>1 DEF Range
  <2> QED
    BY <2>1, <2>2
<1>3. ASSUME IsInjective(s), e \notin Range(s) PROVE IsInjective(Append(s, e))
  <2>1. \A i \in 1 .. Len(s) : s[i] # e
    BY <1>1, <1>3 DEF Range
  <2> QED
    BY <1>1, <1>3, <2>1 DEF IsInjective
<1> QED
  BY <1>1, <1>2, <1>3

\* Cutting a queue without repetitions in two.
LEMMA SplitFacts ==
    ASSUME NEW S, NEW s \in Seq(S), IsInjective(s), NEW n \in 0 .. Len(s)
    PROVE  /\ SubSeq(s, n + 1, Len(s)) \in Seq(S)
           /\ Range(SubSeq(s, 1, n)) \subseteq S
           /\ Range(s) = Range(SubSeq(s, 1, n)) \union Range(SubSeq(s, n + 1, Len(s)))
           /\ Range(SubSeq(s, 1, n)) \cap Range(SubSeq(s, n + 1, Len(s))) = {}
           /\ IsInjective(SubSeq(s, n + 1, Len(s)))
<1> DEFINE a == SubSeq(s, 1, n)
           b == SubSeq(s, n + 1, Len(s))
<1>1. /\ Len(s) \in Nat /\ n \in Nat /\ n <= Len(s)
      /\ DOMAIN s = 1 .. Len(s)
      /\ \A i \in 1 .. Len(s) : s[i] \in S
  BY LenProperties
<1>2. /\ a \in Seq(S) /\ Len(a) = n /\ DOMAIN a = 1 .. n
      /\ \A i \in 1 .. n : a[i] = s[i]
  OBVIOUS
<1>3. /\ b \in Seq(S) /\ Len(b) = Len(s) - n /\ DOMAIN b = 1 .. Len(s) - n
      /\ \A i \in 1 .. Len(s) - n : b[i] = s[i + n]
  OBVIOUS
<1> HIDE DEF a, b
<1>4. Range(a) \subseteq S
  BY <1>1, <1>2 DEF Range
<1>5. Range(s) \subseteq Range(a) \union Range(b)
  <2> SUFFICES ASSUME NEW i \in 1 .. Len(s) PROVE s[i] \in Range(a) \union Range(b)
    BY <1>1 DEF Range
  <2>1. CASE i <= n
    BY <1>1, <1>2, <2>1 DEF Range
  <2>2. CASE i > n
    <3>1. i - n \in DOMAIN b /\ b[i - n] = s[i]
      BY <1>1, <1>3, <2>2
    <3> QED
      BY <3>1 DEF Range
  <2> QED
    BY <1>1, <2>1, <2>2
<1>6. Range(a) \union Range(b) \subseteq Range(s)
  <2>1. Range(a) \subseteq Range(s)
    BY <1>1, <1>2 DEF Range
  <2>2. Range(b) \subseteq Range(s)
    <3> SUFFICES ASSUME NEW i \in 1 .. Len(s) - n PROVE b[i] \in Range(s)
      BY <1>3 DEF Range
    <3>1. i + n \in DOMAIN s /\ b[i] = s[i + n]
      BY <1>1, <1>3
    <3> QED
      BY <3>1 DEF Range
  <2> QED
    BY <2>1, <2>2
<1>7. Range(a) \cap Range(b) = {}
  <2> SUFFICES ASSUME NEW i \in 1 .. n, NEW j \in 1 .. Len(s) - n, a[i] = b[j]
               PROVE  FALSE
    BY <1>2, <1>3 DEF Range
  <2>1. s[i] = s[j + n] /\ i \in DOMAIN s /\ j + n \in DOMAIN s /\ i # j + n
    BY <1>1, <1>2, <1>3
  <2> QED
    BY <2>1 DEF IsInjective
<1>8. IsInjective(b)
  <2> SUFFICES ASSUME NEW i \in 1 .. Len(s) - n, NEW j \in 1 .. Len(s) - n, b[i] = b[j]
               PROVE  i = j
    BY <1>3 DEF IsInjective
  <2>1. s[i + n] = s[j + n] /\ i + n \in DOMAIN s /\ j + n \in DOMAIN s
    BY <1>1, <1>3
  <2>2. i + n = j + n
    BY <2>1 DEF IsInjective
  <2> QED
    BY <1>1, <2>2
<1> QED
  BY <1>3, <1>4, <1>5, <1>6, <1>7, <1>8 DEF a, b

------------------------------------------------------------------------------
LEMMA InitInv == Init => IInv
<1> SUFFICES ASSUME Init PROVE IInv
  OBVIOUS
<1> USE DEF Init
<1>1. TypeOK
  <2>1. <<>> \in Seq(Ops)
    OBVIOUS
  <2>2. thread \in [Ops -> ThreadStates]
    BY DEF ThreadStates
  <2> QED
    BY <2>1, <2>2 DEF TypeOK
<1>2. Range(<<>>) = {} /\ IsInjective(<<>>)
  BY DEF Range, IsInjective
<1>3. NobodyForgotten /\ OnePlace /\ PendingHasWorker
  BY <1>2 DEF NobodyForgotten, OnePlace, PendingHasWorker, Accepted, Settled, InWork
<1>4. OneServer /\ ShutdownIsBarrier /\ Threads /\ Joining /\ Returning
  BY DEF OneServer, ShutdownIsBarrier, Threads, Joining, Returning, InWork
<1> QED
  BY <1>1, <1>3, <1>4 DEF IInv

\* A step of the worker that only moves operations on or answers them.
LEMMA WorkStep ==
    ASSUME IInv, NEW w \in Ops, thread[w] = "working",
           UNCHANGED <<submitting, thread, caller, left, stop>>,
           batch' \in [Ops -> SUBSET Ops], grouped' \in [Ops -> SUBSET Ops],
           running' \in [Ops -> SUBSET Ops],
           result' \in [Ops -> {"none", "ok", "error"}],
           owned' \in [Ops -> BOOLEAN],
           \A v \in Ops \ {w} : /\ batch'[v] = batch[v] /\ grouped'[v] = grouped[v]
                                /\ running'[v] = running[v],
           InWork(w)' \subseteq InWork(w),
           Settled' = Settled \union (InWork(w) \ InWork(w)'),
           batch'[w] \cap (grouped'[w] \union running'[w]) = {},
           grouped'[w] \cap running'[w] = {}
    PROVE  IInv'
<1> USE DEF submitting, stop
<1>1. worker = w /\ w # NoWorker
  BY NoWorkerAssumption DEF IInv, OneServer
<1>2. TypeOK'
  BY DEF IInv, TypeOK
<1>3. \A v \in Ops \ {w} : InWork(v)' = InWork(v)
  BY DEF InWork
<1>4. Accepted' = Accepted
  BY DEF Accepted
<1>5. NobodyForgotten'
  <2>1. Accepted = Settled \union Range(pending) \union InWork(w)
    BY <1>1 DEF IInv, NobodyForgotten
  <2>2. Accepted' = Settled' \union Range(pending) \union InWork(w)'
    BY <1>4, <2>1
  <2> QED
    BY <1>1, <2>2 DEF NobodyForgotten
<1>6. OnePlace'
  <2>1. \A v \in Ops \ {w} : InWork(v) = {}
    BY <1>1 DEF IInv, OneServer
  <2>2. \A v \in Ops : InWork(v)' \cap (Settled' \union Range(pending)) = {}
    BY <1>3, <2>1 DEF IInv, OnePlace
  <2>3. Range(pending) \cap Settled' = {}
    BY DEF IInv, OnePlace
  <2>4. \A v \in Ops : /\ batch'[v] \cap (grouped'[v] \union running'[v]) = {}
                       /\ grouped'[v] \cap running'[v] = {}
    BY DEF IInv, OnePlace
  <2> QED
    BY <2>2, <2>3, <2>4 DEF IInv, OnePlace
<1>7. PendingHasWorker'
  BY DEF IInv, PendingHasWorker
<1>8. OneServer'
  BY <1>1, <1>3 DEF IInv, OneServer
<1>9. ShutdownIsBarrier'
  <2>1. InWork(w) \subseteq Accepted
    BY <1>1 DEF IInv, NobodyForgotten
  <2>2. Accepted = Settled => Settled' = Settled
    BY <2>1
  <2> QED
    BY <1>4, <2>2 DEF IInv, ShutdownIsBarrier
<1>10. Threads'
  BY <1>3 DEF IInv, Threads
<1>11. Joining' /\ Returning'
  BY DEF IInv, Joining, Returning
<1> QED
  BY <1>2, <1>5, <1>6, <1>7, <1>8, <1>9, <1>10, <1>11 DEF IInv

LEMMA ValidateInv ==
    ASSUME IInv, NEW w \in Ops, NEW o \in Ops, Validate(w, o) PROVE IInv'
<1> USE DEF Validate
<1>1. /\ batch \in [Ops -> SUBSET Ops] /\ grouped \in [Ops -> SUBSET Ops]
      /\ running \in [Ops -> SUBSET Ops] /\ owned \in [Ops -> BOOLEAN]
      /\ result \in [Ops -> {"none", "ok", "error"}]
  BY DEF IInv, TypeOK
<1>2. /\ batch[w] \cap (grouped[w] \union running[w]) = {}
      /\ grouped[w] \cap running[w] = {}
      /\ o \in batch[w] /\ result[o] = "none"
  BY DEF IInv, OnePlace, InWork, Settled
<1>3. batch' = [batch EXCEPT ![w] = batch[w] \ {o}] /\ running' = running
  OBVIOUS
<1>4. CASE grouped' = [grouped EXCEPT ![w] = grouped[w] \union {o}] /\ result' = result
  <2>1. InWork(w)' = InWork(w)
    BY <1>1, <1>2, <1>3, <1>4 DEF InWork
  <2>2. Settled' = Settled
    BY <1>4 DEF Settled
  <2> QED
    BY <1>1, <1>2, <1>3, <1>4, <2>1, <2>2, WorkStep
<1>5. CASE result' = [result EXCEPT ![o] = "error"] /\ grouped' = grouped
  <2>1. InWork(w)' = InWork(w) \ {o} /\ o \in InWork(w)
    BY <1>1, <1>2, <1>3, <1>5 DEF InWork
  <2>2. Settled' = Settled \union {o}
    BY <1>1, <1>5 DEF Settled
  <2> QED
    BY <1>1, <1>2, <1>3, <1>5, <2>1, <2>2, WorkStep
<1> QED
  BY <1>4, <1>5

LEMMA ExecuteGroupInv ==
    ASSUME IInv, NEW w \in Ops, NEW k \in Keys, ExecuteGroup(w, k) PROVE IInv'
<1> USE DEF ExecuteGroup
<1> DEFINE group == Group(w, k)
           valid == {o \in group : owned[o]}
<1>1. /\ batch \in [Ops -> SUBSET Ops] /\ grouped \in [Ops -> SUBSET Ops]
      /\ running \in [Ops -> SUBSET Ops] /\ owned \in [Ops -> BOOLEAN]
      /\ result \in [Ops -> {"none", "ok", "error"}]
      /\ grouped[w] \in SUBSET Ops
  BY DEF IInv, TypeOK
<1>2. group \subseteq grouped[w] /\ valid \subseteq group
  BY DEF Group
<1>3. /\ running' = [running EXCEPT ![w] = valid]
      /\ grouped' = [grouped EXCEPT ![w] = grouped[w] \ group]
      /\ result' = [o \in Ops |-> IF o \in group \ valid THEN "error" ELSE result[o]]
      /\ batch' = batch /\ batch[w] = {} /\ running[w] = {}
  OBVIOUS
<1> HIDE DEF valid, group
<1>4. \A o \in grouped[w] : result[o] = "none"
  BY <1>1 DEF IInv, OnePlace, InWork, Settled
<1>5. /\ running'[w] = valid /\ grouped'[w] = grouped[w] \ group
      /\ running' \in [Ops -> SUBSET Ops] /\ grouped' \in [Ops -> SUBSET Ops]
      /\ \A v \in Ops \ {w} : grouped'[v] = grouped[v] /\ running'[v] = running[v]
  BY <1>1, <1>2, <1>3
<1>6. InWork(w) = grouped[w] /\ InWork(w)' = grouped[w] \ (group \ valid)
  BY <1>2, <1>3, <1>5 DEF InWork
<1>7. Settled' = Settled \union (group \ valid)
  <2>1. \A o \in Ops : result'[o] # "none" <=> result[o] # "none" \/ o \in group \ valid
    BY <1>3
  <2> QED
    BY <1>1, <1>2, <2>1 DEF Settled
<1>8. result' \in [Ops -> {"none", "ok", "error"}]
  BY <1>1, <1>3
<1> QED
  BY <1>1, <1>2, <1>3, <1>5, <1>6, <1>7, <1>8, WorkStep

LEMMA AnswerInv ==
    ASSUME IInv, NEW w \in Ops, NEW A \in SUBSET Ops, A \subseteq running[w],
           running[w] # {},
           running' = [running EXCEPT ![w] = running[w] \ A],
           result' \in [Ops -> {"none", "ok", "error"}],
           \A o \in Ops \ A : result'[o] = result[o],
           \A o \in A : result'[o] # "none",
           UNCHANGED <<submitting, thread, batch, grouped, owned, caller, left, stop>>
    PROVE  IInv'
<1>1. /\ batch \in [Ops -> SUBSET Ops] /\ grouped \in [Ops -> SUBSET Ops]
      /\ running \in [Ops -> SUBSET Ops] /\ owned \in [Ops -> BOOLEAN]
  BY DEF IInv, TypeOK
<1>2. thread[w] = "working"
  BY DEF IInv, Threads, InWork
<1>3. /\ batch[w] \cap (grouped[w] \union running[w]) = {}
      /\ grouped[w] \cap running[w] = {}
  BY DEF IInv, OnePlace
<1>4. /\ running' \in [Ops -> SUBSET Ops] /\ running'[w] = running[w] \ A
      /\ \A v \in Ops \ {w} : running'[v] = running[v]
  BY <1>1
<1>5. InWork(w)' = InWork(w) \ A /\ A \subseteq InWork(w)
  BY <1>3, <1>4 DEF InWork
<1>6. Settled' = Settled \union A
  BY DEF Settled
<1> QED
  BY <1>1, <1>2, <1>3, <1>4, <1>5, <1>6, WorkStep

LEMMA AnswerOneInv ==
    ASSUME IInv, NEW w \in Ops, NEW o \in Ops, AnswerOne(w, o) PROVE IInv'
<1>1. PICK r \in {"ok", "error"} : result' = [result EXCEPT ![o] = r]
  BY DEF AnswerOne
<1>2. /\ result \in [Ops -> {"none", "ok", "error"}]
      /\ o \in running[w] /\ running' = [running EXCEPT ![w] = running[w] \ {o}]
  BY DEF AnswerOne, IInv, TypeOK
<1>3. /\ result' \in [Ops -> {"none", "ok", "error"}]
      /\ \A p \in Ops \ {o} : result'[p] = result[p]
      /\ \A p \in {o} : result'[p] # "none"
      /\ {o} \in SUBSET Ops /\ {o} \subseteq running[w] /\ running[w] # {}
  BY <1>1, <1>2
<1> QED
  BY <1>2, <1>3, AnswerInv DEF AnswerOne

LEMMA AnswerRestInv == ASSUME IInv, NEW w \in Ops, AnswerRest(w) PROVE IInv'
<1>1. /\ result \in [Ops -> {"none", "ok", "error"}] /\ running[w] \in SUBSET Ops
      /\ running[w] # {} /\ running[w] \ running[w] = {}
  BY DEF AnswerRest, IInv, TypeOK
<1>2. running' = [running EXCEPT ![w] = running[w] \ running[w]]
  BY <1>1 DEF AnswerRest
<1>3. /\ result' \in [Ops -> {"none", "ok", "error"}]
      /\ \A p \in Ops \ running[w] : result'[p] = result[p]
      /\ \A p \in running[w] : result'[p] # "none"
  BY <1>1 DEF AnswerRest
<1> QED
  BY <1>1, <1>2, <1>3, AnswerInv DEF AnswerRest

\* Steps that touch neither the queue, nor the work, nor the answers.
LEMMA BatchEndsInv == ASSUME IInv, NEW w \in Ops, BatchEnds(w) PROVE IInv'
<1> USE DEF BatchEnds, submitting, work, stop
<1>1. /\ worker = w /\ thread' = [thread EXCEPT ![w] = "top"] /\ InWork(w) = {}
      /\ thread \in [Ops -> ThreadStates] /\ w # NoWorker
  BY NoWorkerAssumption DEF IInv, TypeOK, OneServer, InWork
<1>2. TypeOK'
  BY <1>1 DEF IInv, TypeOK, ThreadStates
<1>3. NobodyForgotten' /\ OnePlace' /\ ShutdownIsBarrier' /\ Returning'
  BY DEF IInv, NobodyForgotten, OnePlace, ShutdownIsBarrier, Returning, InWork,
         Accepted, Settled
<1>4. PendingHasWorker' /\ OneServer'
  BY <1>1 DEF IInv, PendingHasWorker, OneServer, InWork
<1>5. Threads' /\ Joining'
  BY <1>1 DEF IInv, Threads, Joining, InWork
<1> QED
  BY <1>2, <1>3, <1>4, <1>5 DEF IInv

LEMMA ThreadEndsInv == ASSUME IInv, NEW w \in Ops, ThreadEnds(w) PROVE IInv'
<1> USE DEF ThreadEnds, submitting, work, stop
<1>1. /\ worker # w /\ thread' = [thread EXCEPT ![w] = "dead"]
      /\ thread \in [Ops -> ThreadStates]
  BY NoWorkerAssumption DEF IInv, TypeOK, Threads
<1>2. TypeOK'
  BY <1>1 DEF IInv, TypeOK, ThreadStates
<1>3. NobodyForgotten' /\ OnePlace' /\ ShutdownIsBarrier' /\ Returning'
  BY DEF IInv, NobodyForgotten, OnePlace, ShutdownIsBarrier, Returning, InWork,
         Accepted, Settled
<1>4. PendingHasWorker' /\ OneServer'
  BY <1>1 DEF IInv, TypeOK, PendingHasWorker, OneServer, InWork
<1>5. Threads' /\ Joining'
  BY <1>1 DEF IInv, TypeOK, Threads, Joining, InWork
<1> QED
  BY <1>2, <1>3, <1>4, <1>5 DEF IInv

LEMMA RetireInv == ASSUME IInv, NEW w \in Ops, Retire(w) PROVE IInv'
<1> USE DEF Retire, work, stop
<1>1. /\ worker = w /\ w # NoWorker /\ thread' = [thread EXCEPT ![w] = "leaving"]
      /\ thread \in [Ops -> ThreadStates] /\ InWork(w) = {} /\ worker' = NoWorker
      /\ pending = <<>> /\ pending' = <<>>
  BY NoWorkerAssumption DEF IInv, TypeOK, OneServer, Threads
<1>2. TypeOK'
  BY <1>1 DEF IInv, TypeOK, ThreadStates
<1>3. NobodyForgotten' /\ ShutdownIsBarrier'
  BY <1>1 DEF IInv, NobodyForgotten, ShutdownIsBarrier, InWork, Accepted, Settled
<1>4. OnePlace' /\ Returning'
  BY DEF IInv, OnePlace, Returning, InWork, Settled
<1>5. PendingHasWorker' /\ OneServer'
  BY <1>1 DEF IInv, PendingHasWorker, OneServer, InWork
<1>6. Threads' /\ Joining'
  BY <1>1 DEF IInv, TypeOK, Threads, Joining, InWork
<1> QED
  BY <1>2, <1>3, <1>4, <1>5, <1>6 DEF IInv

LEMMA TakeInv == ASSUME IInv, NEW w \in Ops, Take(w) PROVE IInv'
<1> USE DEF Take, stop
<1> DEFINE a == Range(SubSeq(pending, 1, BatchSize))
           b == SubSeq(pending, BatchSize + 1, Len(pending))
<1>1. /\ worker = w /\ w # NoWorker /\ InWork(w) = {}
      /\ thread \in [Ops -> ThreadStates] /\ pending \in Seq(Ops)
      /\ batch \in [Ops -> SUBSET Ops]
      /\ batch[w] = {} /\ grouped[w] = {} /\ running[w] = {}
  BY NoWorkerAssumption DEF IInv, TypeOK, OneServer, Threads, InWork
<1>2. BatchSize \in 0 .. Len(pending)
  BY <1>1, MaxSizeAssumption, LenProperties DEF BatchSize
<1>3. /\ b \in Seq(Ops) /\ a \subseteq Ops
      /\ Range(pending) = a \union Range(b) /\ a \cap Range(b) = {}
      /\ IsInjective(b)
  BY <1>1, <1>2, SplitFacts DEF IInv, OnePlace
<1>4. /\ batch' = [batch EXCEPT ![w] = a] /\ pending' = b
      /\ thread' = [thread EXCEPT ![w] = "working"]
      /\ worker' = worker /\ grouped' = grouped /\ running' = running
      /\ result' = result /\ owned' = owned /\ caller' = caller /\ left' = left
      /\ due' = FALSE
      /\ closing' = closing /\ pc' = pc /\ joins' = joins /\ reported' = reported
  OBVIOUS
<1> HIDE DEF a, b
<1>5. TypeOK'
  <2>1. thread' \in [Ops -> ThreadStates]
    BY <1>1, <1>4 DEF ThreadStates
  <2>2. batch' \in [Ops -> SUBSET Ops]
    BY <1>1, <1>3, <1>4
  <2>3. /\ pending' \in Seq(Ops) /\ due' \in BOOLEAN
        /\ worker' \in Ops \union {NoWorker}
        /\ grouped' \in [Ops -> SUBSET Ops] /\ running' \in [Ops -> SUBSET Ops]
    BY <1>3, <1>4 DEF IInv, TypeOK
  <2>4. /\ result' \in [Ops -> {"none", "ok", "error"}] /\ owned' \in [Ops -> BOOLEAN]
        /\ caller' \in [Ops -> {"idle", "waiting", "returned"}] /\ left' \subseteq Ops
    BY <1>4 DEF IInv, TypeOK
  <2>5. /\ closing' \in BOOLEAN /\ reported' \in BOOLEAN
        /\ pc' \in [Stoppers -> {"out", "join"}]
        /\ joins' \in [Stoppers -> Ops \union {NoWorker}]
    BY <1>4 DEF IInv, TypeOK
  <2> QED
    BY <2>1, <2>2, <2>3, <2>4, <2>5 DEF TypeOK
<1>6. InWork(w)' = a /\ \A v \in Ops \ {w} : InWork(v)' = InWork(v) /\ InWork(v) = {}
  BY <1>1, <1>4 DEF InWork, IInv, OneServer
<1>7. Accepted' = Accepted /\ Settled' = Settled
  BY <1>4 DEF Accepted, Settled
<1>8. NobodyForgotten'
  <2>1. Accepted = Settled \union Range(pending) \union {}
    BY <1>1 DEF IInv, NobodyForgotten
  <2>2. Accepted' = Settled' \union Range(b) \union a
    BY <1>3, <1>7, <2>1
  <2> QED
    BY <1>1, <1>4, <1>6, <2>2 DEF NobodyForgotten
<1>9. OnePlace'
  <2>1. Range(pending) \cap Settled = {}
    BY DEF IInv, OnePlace
  <2>2. Range(b) \cap Settled' = {} /\ a \cap Settled' = {}
    BY <1>3, <1>7, <2>1
  <2>3. \A v \in Ops : InWork(v)' \cap (Settled' \union Range(b)) = {}
    BY <1>3, <1>6, <2>2
  <2>4. \A v \in Ops : /\ batch'[v] \cap (grouped'[v] \union running'[v]) = {}
                       /\ grouped'[v] \cap running'[v] = {}
    BY <1>1, <1>4 DEF IInv, OnePlace
  <2> QED
    BY <1>3, <1>4, <2>2, <2>3, <2>4 DEF OnePlace
<1>10. PendingHasWorker' /\ OneServer'
  BY <1>1, <1>4, <1>6 DEF IInv, PendingHasWorker, OneServer
<1>11. Threads' /\ Joining'
  BY <1>1, <1>4, <1>6 DEF IInv, Threads, Joining
<1>12. ShutdownIsBarrier' /\ Returning'
  BY <1>4, <1>7 DEF IInv, ShutdownIsBarrier, Returning
<1> QED
  BY <1>5, <1>8, <1>9, <1>10, <1>11, <1>12 DEF IInv

\* A submit(): the operation becomes pending; whoever serves the queue goes on.
LEMMA SubmitInv == ASSUME IInv, NEW o \in Ops, Submit(o) PROVE IInv'
<1> USE NoWorkerAssumption DEF Submit, work, stop
<1>1. /\ caller[o] = "idle" /\ ~closing /\ pending' = Append(pending, o)
      /\ due' \in BOOLEAN
      /\ UNCHANGED <<batch, grouped, running, result, owned, closing, pc, joins, reported>>
  BY DEF SubmitToWorker, SubmitAndStart, SubmitUnstarted, Register, IInv, TypeOK
<1>2. /\ pending \in Seq(Ops) /\ thread \in [Ops -> ThreadStates]
      /\ caller \in [Ops -> {"idle", "waiting", "returned"}]
      /\ worker \in Ops \union {NoWorker} /\ left \subseteq Ops
  BY DEF IInv, TypeOK
<1>3. /\ thread[o] = "none" /\ o \notin Settled /\ o \notin Range(pending)
      /\ worker # o /\ InWork(o) = {}
  <2>1. thread[o] = "none"
    BY <1>1 DEF IInv, Threads
  <2>2. o \notin Accepted
    BY <1>1 DEF Accepted
  <2> QED
    BY <2>1, <2>2 DEF IInv, NobodyForgotten, Threads
<1>4. /\ pending' \in Seq(Ops) /\ pending' # <<>>
      /\ Range(pending') = Range(pending) \union {o} /\ IsInjective(pending')
  <2>1. IsInjective(pending)
    BY DEF IInv, OnePlace
  <2> QED
    BY <1>1, <1>2, <1>3, <2>1, AppendFacts
<1>5. PICK next \in {"waiting", "returned"} :
        /\ caller' = [caller EXCEPT ![o] = next]
        /\ left' = IF next = "returned" THEN left \union {o} ELSE left
        /\ \/ /\ Alive(worker) /\ worker' = worker /\ thread' = thread
              /\ next = "waiting"
           \/ /\ ~Alive(worker) /\ worker' = o
              /\ \E t \in {"top", "unstarted"} :
                    /\ thread' = [thread EXCEPT ![o] = t]
                    /\ t = "unstarted" <=> next = "returned"
  BY DEF SubmitToWorker, SubmitAndStart, SubmitUnstarted
<1>6. /\ InWork(o)' = {}
      /\ \A v \in Ops : InWork(v)' = InWork(v)
      /\ Settled' = Settled
  BY <1>1, <1>3 DEF InWork, Settled
<1>7. Accepted' = Accepted \union {o}
  BY <1>2, <1>5 DEF Accepted
<1>8. ~Alive(worker) => \A v \in Ops : InWork(v) = {} /\ thread[v] \notin {"top", "working"}
  BY <1>2 DEF IInv, OneServer, Alive, Threads
<1>9. TypeOK'
  <2>1. thread' \in [Ops -> ThreadStates]
    BY <1>2, <1>5 DEF ThreadStates
  <2>2. caller' \in [Ops -> {"idle", "waiting", "returned"}]
    BY <1>2, <1>5
  <2>3. left' \subseteq Ops /\ worker' \in Ops \union {NoWorker}
    BY <1>2, <1>5
  <2> QED
    BY <1>1, <1>4, <2>1, <2>2, <2>3 DEF IInv, TypeOK
<1>10. NobodyForgotten'
  <2>1. CASE Alive(worker) /\ worker' = worker
    <3>1. worker # NoWorker /\ InWork(worker)' = InWork(worker)
      BY <1>2, <1>6, <2>1 DEF Alive
    <3>2. Accepted = Settled \union Range(pending) \union InWork(worker)
      BY <3>1 DEF IInv, NobodyForgotten
    <3>3. Accepted' = Settled' \union Range(pending') \union InWork(worker)'
      BY <1>4, <1>6, <1>7, <3>1, <3>2
    <3>4. InWork(worker') = InWork(worker)
      BY <2>1
    <3> QED
      BY <2>1, <3>1, <3>3 DEF NobodyForgotten, InWork
  <2>2. CASE ~Alive(worker) /\ worker' = o
    <3>1. Accepted = Settled \union Range(pending)
      BY <1>2, <1>8, <2>2 DEF IInv, NobodyForgotten
    <3> QED
      BY <1>4, <1>6, <1>7, <2>2, <3>1 DEF NobodyForgotten
  <2> QED
    BY <1>5, <2>1, <2>2
<1>11. OnePlace'
  <2>1. \A v \in Ops : o \notin InWork(v)
    <3>1. o \notin Accepted
      BY <1>1 DEF Accepted
    <3> QED
      BY <3>1 DEF IInv, NobodyForgotten, OneServer
  <2>2. \A v \in Ops : InWork(v)' \cap (Settled' \union Range(pending')) = {}
    BY <1>4, <1>6, <2>1 DEF IInv, OnePlace
  <2>3. Range(pending') \cap Settled' = {}
    BY <1>3, <1>4, <1>6 DEF IInv, OnePlace
  <2>4. \A v \in Ops : /\ batch'[v] \cap (grouped'[v] \union running'[v]) = {}
                       /\ grouped'[v] \cap running'[v] = {}
    BY <1>1 DEF IInv, OnePlace
  <2> QED
    BY <1>4, <2>2, <2>3, <2>4 DEF OnePlace
<1>12. PendingHasWorker' /\ OneServer'
  <2>1. CASE Alive(worker) /\ worker' = worker /\ thread' = thread /\ left' = left
    <3>1. thread[worker] \in {"top", "working"}
      BY <2>1 DEF Alive, IInv, Threads
    <3> QED
      BY <1>6, <2>1, <3>1 DEF IInv, PendingHasWorker, OneServer, Alive
  <2>2. ASSUME ~Alive(worker), worker' = o, NEW t \in {"top", "unstarted"},
               thread' = [thread EXCEPT ![o] = t], t = "unstarted" => o \in left'
        PROVE  PendingHasWorker' /\ OneServer'
    BY <1>2, <1>6, <1>8, <2>2 DEF PendingHasWorker, OneServer
  <2> QED
    BY <1>5, <2>1, <2>2
<1>13. Threads'
  <2>1. CASE worker' = worker /\ thread' = thread /\ left' = left
    BY <1>2, <1>5, <1>6, <2>1 DEF IInv, Threads
  <2>2. ASSUME worker' = o, NEW t \in {"top", "unstarted"},
               thread' = [thread EXCEPT ![o] = t], t = "unstarted" => o \in left'
        PROVE  Threads'
    BY <1>2, <1>3, <1>5, <1>6, <2>2 DEF IInv, Threads
  <2> QED
    BY <1>5, <2>1, <2>2
<1>14. Joining'
  BY <1>1 DEF IInv, Joining
<1>15. ShutdownIsBarrier'
  BY <1>1 DEF IInv, ShutdownIsBarrier
<1>16. Returning'
  BY <1>2, <1>5, <1>6 DEF IInv, Returning
<1> QED
  BY <1>9, <1>10, <1>11, <1>12, <1>13, <1>14, <1>15, <1>16 DEF IInv

\* Steps that leave the queue, the worker and what it has in hand alone.
LEMMA AnsweredInv == ASSUME IInv, NEW o \in Ops, Answered(o) PROVE IInv'
<1> USE DEF Answered, submitting, work, stop
<1>1. /\ caller \in [Ops -> {"idle", "waiting", "returned"}]
      /\ caller' = [caller EXCEPT ![o] = "returned"] /\ caller[o] = "waiting"
      /\ o \in Settled
  BY DEF IInv, TypeOK, Settled
<1>2. TypeOK'
  BY <1>1 DEF IInv, TypeOK
<1>3. Accepted' = Accepted /\ Settled' = Settled /\ \A w \in Ops : InWork(w)' = InWork(w)
  BY <1>1 DEF Accepted, Settled, InWork
<1>4. NobodyForgotten'
  BY <1>3 DEF IInv, NobodyForgotten, InWork
<1>5. OnePlace' /\ PendingHasWorker' /\ OneServer' /\ ShutdownIsBarrier'
  BY <1>3 DEF IInv, OnePlace, PendingHasWorker, OneServer, ShutdownIsBarrier
<1>6. Threads' /\ Joining'
  BY <1>1, <1>3 DEF IInv, Threads, Joining
<1>7. Returning'
  BY <1>1, <1>3 DEF IInv, Returning
<1> QED
  BY <1>2, <1>4, <1>5, <1>6, <1>7 DEF IInv

LEMMA OutsideInv ==
    ASSUME IInv, DelayPasses \/ \E o \in Ops : LeaseLost(o) PROVE IInv'
<1>1. /\ UNCHANGED <<pending, worker, thread, work, result, caller, left, stop>>
      /\ due' \in BOOLEAN /\ owned' \in [Ops -> BOOLEAN]
  BY DEF DelayPasses, LeaseLost, submitting, IInv, TypeOK
<1> USE <1>1 DEF work, stop
<1>2. TypeOK'
  BY DEF IInv, TypeOK
<1>3. NobodyForgotten' /\ OnePlace' /\ ShutdownIsBarrier' /\ Returning'
  BY DEF IInv, NobodyForgotten, OnePlace, ShutdownIsBarrier, Returning, InWork,
         Accepted, Settled
<1>4. PendingHasWorker' /\ OneServer' /\ Threads' /\ Joining'
  BY DEF IInv, PendingHasWorker, OneServer, Threads, Joining, InWork
<1> QED
  BY <1>2, <1>3, <1>4 DEF IInv

\* A shutdown reports only when there is nothing left to do: without a worker
\* nothing can be pending or in hand.
LEMMA NoWorkerNoWork ==
    ASSUME IInv, worker = NoWorker PROVE Accepted = Settled
<1>1. pending = <<>>
  BY DEF IInv, PendingHasWorker
<1>2. Range(pending) = {}
  BY <1>1 DEF Range
<1> QED
  BY <1>2 DEF IInv, NobodyForgotten

LEMMA ShutdownInv == ASSUME IInv, NEW s \in Stoppers, Shutdown(s) PROVE IInv'
<1> USE DEF Shutdown, submitting, work
<1>1. /\ pc \in [Stoppers -> {"out", "join"}] /\ joins \in [Stoppers -> Ops \union {NoWorker}]
      /\ worker \in Ops \union {NoWorker} /\ thread \in [Ops -> ThreadStates]
  BY DEF IInv, TypeOK
<1>2. closing' = TRUE
  OBVIOUS
<1>3. TypeOK'
  BY <1>1 DEF IInv, TypeOK
<1>4. Accepted' = Accepted /\ Settled' = Settled /\ \A w \in Ops : InWork(w)' = InWork(w)
  BY DEF Accepted, Settled, InWork
<1>5. NobodyForgotten'
  BY <1>4 DEF IInv, NobodyForgotten, InWork
<1>6. OnePlace' /\ PendingHasWorker' /\ OneServer' /\ Threads' /\ Returning'
  BY <1>4 DEF IInv, OnePlace, PendingHasWorker, OneServer, Threads, Returning
<1>7. Joining'
  BY <1>1, <1>2 DEF IInv, Joining, Threads
<1>8. ShutdownIsBarrier'
  <2>1. reported' => reported \/ worker = NoWorker
    OBVIOUS
  <2>2. reported \/ worker = NoWorker => Accepted = Settled
    BY NoWorkerNoWork DEF IInv, ShutdownIsBarrier
  <2> QED
    BY <1>2, <1>4, <2>1, <2>2 DEF ShutdownIsBarrier
<1> QED
  BY <1>3, <1>5, <1>6, <1>7, <1>8 DEF IInv

LEMMA ShutdownFromWorkerInv ==
    ASSUME IInv, NEW w \in Ops, ShutdownFromWorker(w) PROVE IInv'
<1> USE DEF ShutdownFromWorker, submitting, work
<1>1. TypeOK'
  BY DEF IInv, TypeOK
<1>2. NobodyForgotten' /\ OnePlace' /\ ShutdownIsBarrier' /\ Returning'
  BY DEF IInv, NobodyForgotten, OnePlace, ShutdownIsBarrier, Returning, InWork,
         Accepted, Settled
<1>3. PendingHasWorker' /\ OneServer' /\ Threads' /\ Joining'
  BY DEF IInv, PendingHasWorker, OneServer, Threads, Joining, InWork
<1> QED
  BY <1>1, <1>2, <1>3 DEF IInv

LEMMA ShutdownJoinedInv == ASSUME IInv, NEW s \in Stoppers, ShutdownJoined(s) PROVE IInv'
<1> USE DEF ShutdownJoined, submitting, work
<1>1. /\ pc \in [Stoppers -> {"out", "join"}] /\ joins \in [Stoppers -> Ops \union {NoWorker}]
      /\ pc' = [pc EXCEPT ![s] = "out"] /\ joins' = [joins EXCEPT ![s] = NoWorker]
      /\ closing' = closing /\ closing
      /\ reported' = (reported \/ ~Alive(joins[s]))
  BY DEF IInv, TypeOK, Joining
<1>2. TypeOK'
  <2>1. Alive(joins[s]) \in BOOLEAN
    BY DEF Alive
  <2> QED
    BY <1>1, <2>1 DEF IInv, TypeOK
<1>3. Accepted' = Accepted /\ Settled' = Settled /\ \A w \in Ops : InWork(w)' = InWork(w)
  BY DEF Accepted, Settled, InWork
<1>4. NobodyForgotten'
  BY <1>3 DEF IInv, NobodyForgotten, InWork
<1>5. OnePlace' /\ PendingHasWorker' /\ OneServer' /\ Threads' /\ Returning'
  BY <1>3 DEF IInv, OnePlace, PendingHasWorker, OneServer, Threads, Returning
<1>6. Joining'
  BY <1>1 DEF IInv, Joining
<1>7. ShutdownIsBarrier'
  <2>1. ~Alive(joins[s]) => worker = NoWorker
    BY DEF IInv, Joining, Threads, Alive
  <2>2. CASE reported
    BY <1>1, <1>3, <2>2 DEF IInv, ShutdownIsBarrier
  <2>3. CASE ~Alive(joins[s])
    <3>1. Accepted = Settled
      BY <2>1, <2>3, NoWorkerNoWork
    <3> QED
      BY <1>1, <1>3, <3>1 DEF ShutdownIsBarrier
  <2>4. CASE ~reported /\ Alive(joins[s])
    <3>1. ~reported'
      BY <1>1, <2>4
    <3> QED
      BY <3>1 DEF ShutdownIsBarrier
  <2> QED
    BY <2>2, <2>3, <2>4
<1> QED
  BY <1>2, <1>4, <1>5, <1>6, <1>7 DEF IInv

------------------------------------------------------------------------------
LEMMA StepInv == IInv /\ [Next]_vars => IInv'
<1> SUFFICES ASSUME IInv, [Next]_vars PROVE IInv'
  OBVIOUS
<1>1. ASSUME NEW o \in Ops, Submit(o) \/ Answered(o) \/ LeaseLost(o) PROVE IInv'
  BY <1>1, SubmitInv, AnsweredInv, OutsideInv
<1>2. ASSUME NEW w \in Ops, Run(w) PROVE IInv'
  BY <1>2, RetireInv, TakeInv, AnswerRestInv, BatchEndsInv, ThreadEndsInv, ValidateInv,
     AnswerOneInv, ExecuteGroupInv DEF Run
<1>3. ASSUME NEW s \in Stoppers, Shutdown(s) \/ ShutdownJoined(s) PROVE IInv'
  BY <1>3, ShutdownInv, ShutdownJoinedInv
<1>4. CASE UNCHANGED vars
  BY <1>4 DEF vars, IInv, TypeOK, NobodyForgotten, OnePlace, PendingHasWorker, OneServer,
     ShutdownIsBarrier, Threads, Joining, Returning, Accepted, Settled, InWork
<1> QED
  BY <1>1, <1>2, <1>3, <1>4, OutsideInv, ShutdownFromWorkerInv DEF Next

\* The invariant of batch.py: every operation is in one place, one thread serves
\* them, and the lock's blocks keep the two in step.
THEOREM Invariance == Spec => []IInv
<1> QED
  BY InitInv, StepInv, PTL DEF Spec

\* Every variable keeps its type.
THEOREM TypeCorrect == Spec => []TypeOK
<1>1. IInv => TypeOK
  BY DEF IInv
<1> QED
  BY <1>1, Invariance, PTL

\* An operation taken over by submit() is answered, pending, or in the hands of
\* the worker the coordinator names, whoever stops, loses leases or fails to start.
THEOREM NobodyIsForgotten == Spec => [](NobodyForgotten /\ OnePlace /\ PendingHasWorker)
<1>1. IInv => NobodyForgotten /\ OnePlace /\ PendingHasWorker
  BY DEF IInv
<1> QED
  BY <1>1, Invariance, PTL

\* A shutdown() that returned True left nobody without an answer, now and later.
THEOREM StopIsBarrier == Spec => []ShutdownIsBarrier
<1>1. IInv => ShutdownIsBarrier
  BY DEF IInv
<1> QED
  BY <1>1, Invariance, PTL

\* The cloud is called for an operation only while its submitter waits for it (or
\* after its submit() failed to start the worker).
THEOREM CallsAreAwaited == Spec => AnswerIsFinal
<1> DEFINE Awaited == \A w, o \in Ops : o \in running'[w] \ running[w] =>
                                            caller[o] = "waiting" \/ o \in left
<1>1. ASSUME IInv, Next PROVE Awaited
  <2> SUFFICES ASSUME NEW w \in Ops, NEW o \in Ops, o \in running'[w] \ running[w]
               PROVE  caller[o] = "waiting" \/ o \in left
    OBVIOUS
  <2>1. running \in [Ops -> SUBSET Ops] /\ caller \in [Ops -> {"idle", "waiting", "returned"}]
    BY <1>1 DEF IInv, TypeOK
  <2>2. PICK v \in Ops : Run(v) /\ running' # running
    BY <1>1, <2>1 DEF Next, DelayPasses, Submit, Answered, LeaseLost, ShutdownFromWorker,
       Shutdown, ShutdownJoined, work
  <2>3. o \in grouped[v]
    <3>1. PICK k \in Keys : ExecuteGroup(v, k)
      BY <2>1, <2>2 DEF Run, Retire, Take, AnswerRest, BatchEnds, ThreadEnds, Validate,
         AnswerOne, work
    <3> QED
      BY <2>1, <3>1 DEF ExecuteGroup, Group
  <2>4. o \in Accepted /\ o \notin Settled
    <3>1. o \in InWork(v)
      BY <2>3 DEF InWork
    <3>2. worker = v /\ v # NoWorker
      BY <1>1, <3>1, NoWorkerAssumption DEF IInv, OneServer
    <3> QED
      BY <1>1, <3>1, <3>2 DEF IInv, NobodyForgotten, OnePlace
  <2> QED
    BY <1>1, <2>1, <2>4 DEF IInv, Returning, Accepted
<1>2. ASSUME UNCHANGED vars PROVE Awaited
  BY <1>2 DEF vars
<1>3. IInv /\ [Next]_vars => [Awaited]_vars
  BY <1>1, <1>2
<1> QED
  BY <1>3, Invariance, PTL DEF Spec, AnswerIsFinal

------------------------------------------------------------------------------
\* Steps that answer operations in hand settle them in the abstract barrier.
LEMMA SettleStep ==
    ASSUME IInv, NEW T \in SUBSET Ops, T \subseteq Accepted \ Settled,
           UNCHANGED <<caller, stop>>, Settled' = Settled \union T
    PROVE  Barrier!Next
<1>1. Accepted' = Accepted /\ Phase' = Phase
  BY DEF Accepted, Phase, stop
<1>2. Barrier!Settle(T)
  BY <1>1 DEF Barrier!Settle
<1> QED
  BY <1>2 DEF Barrier!Next

LEMMA InHand ==
    ASSUME IInv, NEW w \in Ops, NEW T \in SUBSET InWork(w)
    PROVE  T \subseteq Accepted \ Settled
<1>1. CASE T = {}
  BY <1>1
<1>2. CASE T # {}
  <2>1. worker = w /\ w # NoWorker
    BY <1>2, NoWorkerAssumption DEF IInv, OneServer
  <2> QED
    BY <2>1 DEF IInv, NobodyForgotten, OnePlace
<1> QED
  BY <1>1, <1>2

LEMMA RunBarrier ==
    ASSUME IInv, NEW w \in Ops, Run(w)
    PROVE  Barrier!Next \/ UNCHANGED <<Accepted, Settled, Phase>>
<1>1. UNCHANGED <<caller, stop>>
  BY DEF Run, Retire, Take, AnswerRest, BatchEnds, ThreadEnds, Validate, AnswerOne,
     ExecuteGroup
<1>2. UNCHANGED result => UNCHANGED <<Accepted, Settled, Phase>>
  BY <1>1 DEF Accepted, Settled, Phase, stop
<1>3. /\ result \in [Ops -> {"none", "ok", "error"}]
      /\ batch[w] \subseteq Ops /\ grouped[w] \subseteq Ops /\ running[w] \subseteq Ops
  BY DEF IInv, TypeOK
<1>4. ASSUME NEW T \in SUBSET Ops, T \subseteq InWork(w), Settled' = Settled \union T
      PROVE  Barrier!Next
  BY <1>1, <1>4, InHand, SettleStep
<1>5. CASE AnswerRest(w)
  <2>1. \A o \in Ops : result'[o] # "none" <=> result[o] # "none" \/ o \in running[w]
    BY <1>5 DEF AnswerRest
  <2>2. Settled' = Settled \union running[w] /\ running[w] \subseteq InWork(w)
    BY <1>3, <2>1 DEF Settled, InWork
  <2> QED
    BY <1>3, <1>4, <2>2
<1>6. ASSUME NEW o \in Ops, Validate(w, o), result' # result PROVE Barrier!Next
  <2>1. result' = [result EXCEPT ![o] = "error"] /\ o \in batch[w]
    BY <1>6 DEF Validate
  <2>2. Settled' = Settled \union {o} /\ {o} \subseteq InWork(w) /\ {o} \in SUBSET Ops
    BY <1>3, <2>1 DEF Settled, InWork
  <2> QED
    BY <1>4, <2>2
<1>7. ASSUME NEW o \in Ops, AnswerOne(w, o) PROVE Barrier!Next
  <2>1. PICK r \in {"ok", "error"} : result' = [result EXCEPT ![o] = r]
    BY <1>7 DEF AnswerOne
  <2>2. Settled' = Settled \union {o} /\ {o} \subseteq InWork(w) /\ {o} \in SUBSET Ops
    BY <1>3, <1>7, <2>1 DEF AnswerOne, Settled, InWork
  <2> QED
    BY <1>4, <2>2
<1>8. ASSUME NEW k \in Keys, ExecuteGroup(w, k) PROVE Barrier!Next
  <2> DEFINE T == Group(w, k) \ {o \in Group(w, k) : owned[o]}
  <2>1. T \subseteq InWork(w) /\ T \subseteq Ops
    BY <1>3 DEF Group, InWork
  <2>2. result' = [o \in Ops |-> IF o \in T THEN "error" ELSE result[o]]
    BY <1>8 DEF ExecuteGroup
  <2> HIDE DEF T
  <2>3. \A o \in Ops : result'[o] # "none" <=> result[o] # "none" \/ o \in T
    BY <2>2
  <2>4. Settled' = Settled \union T
    BY <2>1, <2>3 DEF Settled
  <2> QED
    BY <1>4, <2>1, <2>4
<1>9. CASE Retire(w) \/ Take(w) \/ BatchEnds(w) \/ ThreadEnds(w)
  BY <1>2, <1>9 DEF Retire, Take, BatchEnds, ThreadEnds
<1> QED
  BY <1>2, <1>5, <1>6, <1>7, <1>8, <1>9 DEF Run

LEMMA BarrierStep ==
    IInv /\ IInv' /\ [Next]_vars => [Barrier!Next]_<<Accepted, Settled, Phase>>
<1> SUFFICES ASSUME IInv, IInv', [Next]_vars
             PROVE  Barrier!Next \/ UNCHANGED <<Accepted, Settled, Phase>>
  OBVIOUS
<1>1. ASSUME NEW o \in Ops, Submit(o) PROVE Barrier!Next
  <2>1. /\ caller[o] = "idle" /\ ~closing /\ UNCHANGED <<result, stop>>
        /\ \E n \in {"waiting", "returned"} : caller' = [caller EXCEPT ![o] = n]
    BY <1>1 DEF Submit, SubmitToWorker, SubmitAndStart, SubmitUnstarted, Register
  <2>2. caller \in [Ops -> {"idle", "waiting", "returned"}] /\ ~reported
    BY <2>1 DEF IInv, TypeOK, ShutdownIsBarrier
  <2>3. o \notin Accepted /\ Accepted' = Accepted \union {o} /\ Settled' = Settled
    BY <2>1, <2>2 DEF Accepted, Settled
  <2>4. Phase \in {"fresh", "open"} /\ Phase' = "open"
    BY <2>1, <2>2, <2>3 DEF Phase, stop
  <2>5. Barrier!Accept(o)
    BY <2>3, <2>4 DEF Barrier!Accept
  <2> QED
    BY <2>5 DEF Barrier!Next
<1>2. ASSUME UNCHANGED <<result, stop>>, Accepted' = Accepted
      PROVE  UNCHANGED <<Accepted, Settled, Phase>>
  BY <1>2 DEF Settled, Phase, stop
<1>3. ASSUME NEW o \in Ops, Answered(o) \/ LeaseLost(o)
      PROVE  UNCHANGED <<Accepted, Settled, Phase>>
  BY <1>2, <1>3 DEF Answered, LeaseLost, Accepted, IInv, TypeOK
<1>4. CASE DelayPasses
  BY <1>2, <1>4 DEF DelayPasses, Accepted
<1>5. /\ closing \in BOOLEAN /\ reported \in BOOLEAN /\ reported' \in BOOLEAN
      /\ reported => closing
      /\ worker = NoWorker => Accepted = Settled
  BY NoWorkerNoWork DEF IInv, TypeOK, ShutdownIsBarrier
<1>6. ASSUME result' = result, caller' = caller, closing' = TRUE,
             \/ reported' = reported
             \/ reported' = TRUE /\ Accepted = Settled
      PROVE  Barrier!Next \/ UNCHANGED <<Accepted, Settled, Phase>>
  <2>1. Accepted' = Accepted /\ Settled' = Settled
    BY <1>6 DEF Accepted, Settled
  <2>2. CASE reported' = reported
    <3>1. CASE closing
      BY <1>5, <1>6, <2>1, <2>2, <3>1 DEF Phase
    <3>2. CASE ~closing
      <4>1. ~reported /\ ~reported' /\ closing'
        BY <1>5, <1>6, <2>2, <3>2
      <4>2. Phase \in {"fresh", "open"} /\ Phase' = "draining"
        BY <3>2, <4>1 DEF Phase
      <4>3. Barrier!Close
        BY <2>1, <4>2 DEF Barrier!Close
      <4> QED
        BY <4>3 DEF Barrier!Next
    <3> QED
      BY <3>1, <3>2
  <2>3. CASE reported' = TRUE /\ ~reported
    <3>1. Barrier!ReportStopped
      BY <1>5, <1>6, <2>1, <2>3 DEF Phase, Barrier!ReportStopped
    <3> QED
      BY <3>1 DEF Barrier!Next
  <2> QED
    BY <1>6, <1>5, <2>2, <2>3
<1>7. ASSUME NEW s \in Stoppers, Shutdown(s)
      PROVE  Barrier!Next \/ UNCHANGED <<Accepted, Settled, Phase>>
  <2>1. /\ result' = result /\ caller' = caller /\ closing' = TRUE
        /\ reported' = reported \/ reported' = (reported \/ worker = NoWorker)
    BY <1>7 DEF Shutdown
  <2>2. reported' = reported \/ (reported' = TRUE /\ Accepted = Settled)
    <3>1. CASE reported' = reported
      BY <3>1
    <3>2. CASE reported' = (reported \/ worker = NoWorker) /\ worker = NoWorker
      BY <1>5, <3>2
    <3>3. CASE reported' = (reported \/ worker = NoWorker) /\ worker # NoWorker
      <4>1. reported' <=> reported
        BY <3>3
      <4> QED
        BY <1>5, <4>1
    <3> QED
      BY <2>1, <3>1, <3>2, <3>3
  <2> QED
    BY <1>6, <2>1, <2>2
<1>8. ASSUME NEW s \in Stoppers, ShutdownJoined(s)
      PROVE  Barrier!Next \/ UNCHANGED <<Accepted, Settled, Phase>>
  <2>1. result' = result /\ caller' = caller /\ closing' = TRUE
    BY <1>5, <1>8 DEF ShutdownJoined, IInv, Joining
  <2>2. ~Alive(joins[s]) => worker = NoWorker
    BY <1>8 DEF ShutdownJoined, IInv, Joining, Threads, Alive
  <2>3. reported' = (reported \/ ~Alive(joins[s]))
    BY <1>8 DEF ShutdownJoined
  <2>4. reported' = reported \/ (reported' = TRUE /\ Accepted = Settled)
    <3>1. CASE Alive(joins[s])
      <4>1. reported' <=> reported
        BY <2>3, <3>1
      <4> QED
        BY <1>5, <4>1
    <3>2. CASE ~Alive(joins[s])
      BY <1>5, <2>2, <2>3, <3>2
    <3> QED
      BY <3>1, <3>2
  <2> QED
    BY <1>6, <2>1, <2>4
<1>9. ASSUME NEW w \in Ops, ShutdownFromWorker(w)
      PROVE  Barrier!Next \/ UNCHANGED <<Accepted, Settled, Phase>>
  <2>1. result' = result /\ caller' = caller /\ closing' = TRUE /\ reported' = reported
    BY <1>9 DEF ShutdownFromWorker
  <2> QED
    BY <1>6, <2>1
<1>10. CASE UNCHANGED vars
  BY <1>2, <1>10 DEF vars, stop, Accepted
<1> QED
  BY <1>1, <1>3, <1>4, <1>7, <1>8, <1>9, <1>10, RunBarrier DEF Next

\* The coordinator implements the drain barrier (its safety part).
THEOREM CoordinatorImplementsBarrier == Spec => ImplementsBarrier
<1>1. Init => Barrier!Init
  BY DEF Init, Barrier!Init, Accepted, Settled, Phase
<1>2. IInv /\ IInv' /\ [Next]_vars => [Barrier!Next]_(Barrier!vars)
  BY BarrierStep DEF Barrier!vars
<1> QED
  BY <1>1, <1>2, Invariance, PTL DEF Spec, Barrier!Spec, ImplementsBarrier

------------------------------------------------------------------------------
(***************************************************************************)
(* TransferPostprocess.  The inductive invariant PostInv has five parts:   *)
(*   Sane       types; the plan in memory, the plan in the store and the   *)
(*              place in run() agree;                                      *)
(*   Accounts   files and owners in the library are on record;             *)
(*   Effective  effects follow the file;                                   *)
(*   Careful    only files the plan saw, or late ones, are about to go;    *)
(*   Faithful   every path is served by the library, or an event that is   *)
(*              open is on the way to it.                                  *)
(***************************************************************************)

\* What holds of every plan of an event, in the store and in memory.
Coherent(e, plan) ==
    /\ plan.before # None => plan.before.by # e
    /\ plan.prepared # None => plan.prepared.by = e
    /\ Started(plan) => plan.sized
    /\ plan.cleans => Source[e] # None /\ plan.oldBefore # None
    /\ plan.written => plan.prepared # None
    /\ plan.cleaned => plan.written /\ plan.cleans
    /\ plan.effects # {} => plan.written

Writing == {"write", "stage", "confirm", "recheck", "rejected", "publish", "published"}
Cleaning == {"output", "delete", "gone", "still", "reread", "unlink", "unlinked"}
Closing == {"directories", "effects", "effectOutput", "effect", "effectDone"}

Stored ==
    \A e \in Events : store[e] # None => e \in happened /\ Coherent(e, store[e].plan)

Signed == \A e \in Events : staged[e] # None => staged[e].by = e

\* The plan in memory is the one in the store, but for an effect not yet noted.
Loaded ==
    IF lock = None THEN step = "free" /\ mem = None /\ seen = None
    ELSE /\ step # "free" /\ mem # None
         /\ store[lock] # None /\ store[lock].state = "pending"
         /\ Coherent(lock, mem)
         /\ IF step = "effectDone"
            THEN store[lock].plan = [mem EXCEPT !.effects = store[lock].plan.effects]
            ELSE store[lock].plan = mem

\* What the plan says of the work done agrees with where run() is.
Placed ==
    /\ step = "size" => ~mem.sized /\ ~Started(mem)
    /\ step \notin {"free", "size"} => mem.sized
    /\ step \in Writing => ~mem.written
    /\ step \in {"confirm", "recheck", "publish"} => staged[lock] = mem.prepared
    /\ step \in {"confirm", "recheck", "publish", "published"} => mem.prepared # None
    /\ step \in Cleaning => mem.written /\ mem.cleans /\ ~mem.cleaned
    /\ step \in Closing => mem.written /\ (mem.cleans => mem.cleaned)
    /\ step \in {"gone", "still", "reread", "unlink", "unlinked"} => seen \in {None, mem.oldBefore}
    /\ step = "unlink" => seen # None

Sane == PostTypeOK /\ Stored /\ Signed /\ Loaded /\ Placed

\* What is about to be replaced is not the event's own.
Foreign ==
    step \in {"stage", "confirm", "recheck", "publish"} /\ file[Target[lock]] # None =>
        file[Target[lock]].by # lock

Noted ==
    /\ \A e \in Events : store[e] # None => store[e].plan.effects \subseteq ran[e]
    /\ lock # None => mem.effects \subseteq ran[lock]

Accounts == NothingUnaccounted /\ OwnerIsOnRecord /\ Foreign
Effective == EffectsFollowFile /\ Noted

\* What is about to go is what the plan saw, or was written too late to be seen.
Guarded ==
    /\ step = "publish" => file[Target[lock]] \in {mem.before, None} \union late
    /\ step = "unlink" => file[Source[lock]] \in {mem.oldBefore, None} \union late
Careful == OnlyLateWritesAreLost /\ Guarded

\* The event that made the cloud at p what it is has not been handled yet.
Fresh(p) ==
    \E x \in happened :
        /\ store[x] = None
        /\ IF cloud[p] = None THEN Source[x] = p
           ELSE Target[x] = p /\ File[x] = cloud[p]

\* The library has at p what the cloud has.
Served(p) ==
    IF cloud[p] = None THEN file[p] = None
    ELSE file[p] # None /\ file[p].by # Outside /\ File[file[p].by] = cloud[p]

\* An open event is going to write p, ...
Coming(x, p) ==
    /\ cloud[p] # None /\ Target[x] = p /\ File[x] = cloud[p]
    /\ store[x] # None /\ store[x].state = "pending"
    /\ ~store[x].plan.written /\ AsPlanned(x, store[x].plan)
    /\ lock = x => step \notin {"rejected", "published"}

\* ... or an event that is not done has planned to delete what is there.
Leaving(x, p) ==
    /\ cloud[p] = None /\ Source[x] = p
    /\ store[x] # None /\ store[x].state # "done"
    /\ store[x].plan.cleans /\ ~store[x].plan.cleaned
    /\ file[p] = store[x].plan.oldBefore /\ owner[p] = store[x].plan.oldOwner

Ours == Paths \ (touched \union removed)

Fate ==
    \A p \in Ours :
        Fresh(p) \/ Served(p) \/ \E x \in happened : Coming(x, p) \/ Leaving(x, p)

\* A check of the cloud by the event that runs still holds, or a newer event is out.
Checked ==
    /\ step \in Writing \ {"rejected"} /\ Target[lock] \in Ours =>
          cloud[Target[lock]] = File[lock] \/ Fresh(Target[lock])
    /\ step \in {"still", "reread", "unlink", "unlinked"} /\ Source[lock] \in Ours =>
          cloud[Source[lock]] = None \/ Fresh(Source[lock])

\* Nobody comes between what the event that runs read of a path and its use.
Held ==
    /\ step \in {"gone", "still", "reread", "unlink"} /\ Source[lock] \in Ours =>
          file[Source[lock]] = seen
    /\ step = "unlinked" /\ Source[lock] \in Ours => file[Source[lock]] = None

Recycled == \A p \in Paths : bin[p] # None => p \in removed

Faithful == Fate /\ Checked /\ Held /\ Recycled

------------------------------------------------------------------------------
(* Plans and the store.                                                    *)

\* A plan is changed in one place.
LEMMA PlanUpdates ==
    ASSUME NEW plan \in Plans, NEW stamp \in Stamps, NEW some \in SUBSET Effects
    PROVE  /\ [plan EXCEPT !.sized = TRUE] \in Plans
           /\ [plan EXCEPT !.prepared = stamp] \in Plans
           /\ [plan EXCEPT !.written = TRUE] \in Plans
           /\ [plan EXCEPT !.cleaned = TRUE] \in Plans
           /\ [plan EXCEPT !.effects = some] \in Plans
BY DEF Plans

\* What a look at a stamp, an owner or an entry tells.
LEMMA Looks ==
    ASSUME PostTypeOK
    PROVE  /\ \A p \in Paths : /\ file[p] # None => file[p] \in Stamps
                               /\ owner[p] # None => owner[p] \in Owners
           /\ \A e \in Events : /\ staged[e] # None => staged[e] \in Stamps
                                /\ store[e] # None => /\ store[e] \in Entries
                                                      /\ store[e].plan \in Plans
                                                      /\ store[e].state \in States
           /\ mem # None => mem \in Plans
           /\ lock # None => lock \in Events /\ Target[lock] \in Paths
BY EventAssumption DEF PostTypeOK, WorldTypeOK, RunTypeOK, Entries

\* Saving changes one entry.
LEMMA SaveFacts ==
    ASSUME PostTypeOK, NEW e \in Events, NEW plan \in Plans, NEW state \in States,
           Save(e, plan, state)
    PROVE  /\ store' \in [Events -> Entries \union {None}]
           /\ store'[e] # None /\ store'[e].state = state /\ store'[e].plan = plan
           /\ \A f \in Events : f # e => store'[f] = store[f]
<1>1. [state |-> state, plan |-> plan] \in Entries
  BY DEF Entries
<1>2. store \in [Events -> Entries \union {None}]
  BY DEF PostTypeOK, RunTypeOK
<1> QED
  BY <1>1, <1>2, RecordAssumption DEF Save
------------------------------------------------------------------------------
(* The four ways a step of run() may end.                                  *)

\* It goes on with the same plan, ...
LEMMA GotoSane ==
    ASSUME Sane, NEW e \in Events, NEW next \in PCs \ {"free", "effectDone"},
           lock = e, step # "effectDone",
           WorldTypeOK', Signed', UNCHANGED <<happened, mem, store>>, Goto(next),
           seen' \in Stamps \union {None}, Placed'
    PROVE  Sane'
<1>1. lock # None /\ lock' = lock /\ step' = next
  BY NoneAssumption DEF Goto
<1>2. RunTypeOK'
  BY <1>1 DEF Sane, PostTypeOK, RunTypeOK
<1>3. Stored'
  BY DEF Sane, Stored
<1>4. Loaded'
  BY <1>1 DEF Sane, Loaded
<1> QED
  BY <1>2, <1>3, <1>4 DEF Sane, PostTypeOK

\* ... or with one that is saved first, ...
LEMMA CheckpointSane ==
    ASSUME Sane, NEW e \in happened, NEW next \in PCs \ {"free", "effectDone"},
           NEW plan \in Plans, Coherent(e, plan),
           WorldTypeOK', Signed', UNCHANGED happened, Checkpoint(e, plan),
           lock' = e, step' = next,
           seen' \in Stamps \union {None}, Placed'
    PROVE  Sane'
<1>1. e \in Events /\ e # None /\ PostTypeOK
  BY NoneAssumption DEF Sane, PostTypeOK, WorldTypeOK
<1>2. mem' = plan /\ mem' # None /\ "pending" \in States /\ Save(e, plan, "pending")
  BY RecordAssumption DEF Checkpoint, States
<1>3. /\ store' \in [Events -> Entries \union {None}]
      /\ store'[e] # None /\ store'[e].state = "pending" /\ store'[e].plan = plan
      /\ \A f \in Events : f # e => store'[f] = store[f]
  BY <1>1, <1>2, SaveFacts
<1>4. RunTypeOK'
  BY <1>1, <1>2, <1>3 DEF RunTypeOK
<1>5. Stored'
  BY <1>1, <1>3 DEF Sane, Stored, Coherent, Started
<1>6. Loaded'
  BY <1>1, <1>2, <1>3 DEF Loaded, Coherent, Started
<1> QED
  BY <1>4, <1>5, <1>6 DEF Sane, PostTypeOK

\* ... or the event is superseded or done, ...
LEMMA EndSane ==
    ASSUME Sane, NEW e \in Events, NEW state \in {"superseded", "done"}, lock = e,
           WorldTypeOK', Signed', UNCHANGED happened, Save(e, mem, state), Release
    PROVE  Sane'
<1>1. PostTypeOK /\ e # None /\ mem \in Plans /\ Coherent(e, mem) /\ state \in States
      /\ e \in happened
  BY Looks, NoneAssumption DEF Sane, Loaded, States, Stored
<1>2. /\ store' \in [Events -> Entries \union {None}]
      /\ store'[e] # None /\ store'[e].plan = mem
      /\ \A f \in Events : f # e => store'[f] = store[f]
  BY <1>1, SaveFacts
<1>3. lock' = None /\ step' = "free" /\ mem' = None /\ seen' = None
  BY DEF Release
<1>4. RunTypeOK'
  BY <1>2, <1>3 DEF RunTypeOK, PCs
<1>5. Stored'
  BY <1>1, <1>2 DEF Sane, Stored, Coherent, Started
<1>6. Loaded' /\ Placed'
  BY <1>3 DEF Loaded, Placed, Writing, Cleaning, Closing
<1> QED
  BY <1>4, <1>5, <1>6 DEF Sane, PostTypeOK

\* ... or run() is left as it is.
LEMMA ReleaseSane ==
    ASSUME Sane, WorldTypeOK', Signed', UNCHANGED <<happened, store>>, Release
    PROVE  Sane'
<1>1. lock' = None /\ step' = "free" /\ mem' = None /\ seen' = None
  BY DEF Release
<1>2. RunTypeOK'
  BY <1>1 DEF Sane, PostTypeOK, RunTypeOK, PCs
<1>3. Stored'
  BY DEF Sane, Stored
<1>4. Loaded' /\ Placed'
  BY <1>1 DEF Loaded, Placed, Writing, Cleaning, Closing
<1> QED
  BY <1>2, <1>3, <1>4 DEF Sane, PostTypeOK

------------------------------------------------------------------------------
(* The store, the plan in memory and the place in run() agree.             *)

\* A step that leaves the cloud, the library and the histories alone.
LEMMA WorldSame ==
    ASSUME Sane, UNCHANGED <<disk, owner, ran, lost>>, Running
    PROVE  WorldTypeOK' /\ Signed' /\ UNCHANGED happened
BY DEF Sane, PostTypeOK, WorldTypeOK, Signed, Running, disk, outer

\* A check that sends run() on or ends it.
LEMMA RequireCurrentSane ==
    ASSUME Sane, NEW e \in Events, NEW label \in PCs \ {"free", "effectDone"},
           NEW next \in PCs \ {"free", "effectDone"}, RequireCurrent(e, label, next),
           Goto(next) /\ UNCHANGED <<mem, seen, staged>> => Placed'
    PROVE  Sane'
<1>1. WorldTypeOK' /\ Signed' /\ UNCHANGED <<happened, staged>> /\ At(e, label)
  BY WorldSame DEF RequireCurrent, disk
<1>2. CASE Goto(next) /\ UNCHANGED <<mem, seen, store>>
  BY <1>1, <1>2, GotoSane DEF Sane, PostTypeOK, RunTypeOK, At
<1>3. CASE Supersede(e)
  BY <1>1, <1>3, EndSane DEF Supersede, At
<1> QED
  BY <1>2, <1>3 DEF RequireCurrent

LEMMA RequireOutputSane ==
    ASSUME Sane, NEW e \in Events, NEW label \in PCs \ {"free", "effectDone"},
           NEW next \in PCs \ {"free", "effectDone"}, RequireOutput(e, label, next),
           Goto(next) /\ UNCHANGED <<mem, seen, staged>> => Placed'
    PROVE  Sane'
<1>1. WorldTypeOK' /\ Signed' /\ UNCHANGED <<happened, staged>> /\ At(e, label)
  BY WorldSame DEF RequireOutput, disk
<1>2. CASE Goto(next) /\ UNCHANGED <<mem, seen, store>>
  BY <1>1, <1>2, GotoSane DEF Sane, PostTypeOK, RunTypeOK, At
<1>3. CASE Supersede(e)
  BY <1>1, <1>3, EndSane DEF Supersede, At
<1> QED
  BY <1>2, <1>3 DEF RequireOutput

\* The plan of the event that runs.
LEMMA PlanInHand ==
    ASSUME Sane, NEW e \in Events, lock = e
    PROVE  /\ mem \in Plans /\ Coherent(e, mem) /\ e \in happened /\ e # None
           /\ store[e] # None /\ store[e].state = "pending"
           /\ step # "effectDone" => store[e].plan = mem
BY Looks, NoneAssumption DEF Sane, Loaded, Stored

LEMMA BuildIsPlan ==
    ASSUME PostTypeOK, NEW e \in Events
    PROVE  Build(e) \in Plans
<1>1. /\ file[Target[e]] \in Stamps \union {None} /\ owner[Target[e]] \in Owners \union {None}
      /\ Source[e] # None => /\ file[Source[e]] \in Stamps \union {None}
                             /\ owner[Source[e]] \in Owners \union {None}
  BY EventAssumption DEF PostTypeOK, WorldTypeOK
<1> QED
  BY <1>1 DEF Build, Plans

\* The plan is made before the event has put anything into the library.
LEMMA BuildCoherent ==
    ASSUME Sane, NothingUnaccounted, NEW e \in Events, store[e] = None
    PROVE  Coherent(e, Build(e))
<1>1. file[Target[e]] # None => file[Target[e]].by # e
  BY EventAssumption, OutsideAssumption DEF NothingUnaccounted
<1> QED
  BY <1>1 DEF Coherent, Build, Started

LEMMA BeginSane ==
    ASSUME Sane, NothingUnaccounted, NEW e \in Events, Begin(e)
    PROVE  Sane'
<1>1. WorldTypeOK' /\ Signed' /\ UNCHANGED happened /\ e \in happened /\ lock' = e
      /\ e # None /\ PostTypeOK /\ seen' = seen /\ seen = None
  BY WorldSame, NoneAssumption DEF Begin, Sane, Loaded
<1>2. CASE store[e] = None /\ Checkpoint(e, Build(e)) /\ step' = Resume(Build(e))
  <2>1. Build(e) \in Plans /\ Coherent(e, Build(e))
    BY <1>1, <1>2, BuildIsPlan, BuildCoherent
  <2>2. step' = "size" /\ mem' = Build(e)
    BY <1>2 DEF Resume, Build, Started, Checkpoint
  <2>3. Placed'
    BY <2>2 DEF Placed, Build, Started, Writing, Cleaning, Closing
  <2>4. "size" \in PCs \ {"free", "effectDone"}
    BY DEF PCs
  <2> QED
    BY <1>1, <1>2, <2>1, <2>2, <2>3, <2>4, CheckpointSane
<1>3. CASE /\ store[e] # None /\ store[e].state = "pending" /\ mem' = store[e].plan
           /\ step' = Resume(store[e].plan) /\ UNCHANGED store
  <2>1. store[e].plan \in Plans /\ Coherent(e, store[e].plan)
    BY <1>1, <1>3, Looks DEF Sane, Stored
  <2>2. step' \in {"size", "check"} /\ (step' = "check" => mem'.sized)
        /\ (step' = "size" => ~mem'.sized /\ ~Started(mem'))
    BY <1>3, <2>1 DEF Resume, Coherent
  <2>3. Placed'
    BY <2>2 DEF Placed, Writing, Cleaning, Closing, Started
  <2>4. RunTypeOK'
    BY <1>1, <1>3, <2>1, <2>2 DEF PostTypeOK, RunTypeOK, PCs
  <2>5. Stored'
    BY <1>1, <1>3 DEF Sane, Stored
  <2>6. mem' # None
    BY <1>3, <2>1, RecordAssumption
  <2>7. Loaded'
    BY <1>1, <1>3, <2>1, <2>2, <2>6 DEF Loaded
  <2> QED
    BY <1>1, <2>3, <2>4, <2>5, <2>7 DEF Sane, PostTypeOK
<1> QED
  BY <1>2, <1>3 DEF Begin

LEMMA RetrySane ==
    ASSUME Sane, NEW e \in Events, RetrySuperseded(e)
    PROVE  Sane'
<1> DEFINE plan == [store[e].plan EXCEPT !.sized = TRUE]
<1>1. WorldTypeOK' /\ Signed' /\ UNCHANGED happened /\ e \in happened
      /\ PostTypeOK /\ seen' = seen /\ seen = None
      /\ store[e].plan \in Plans /\ Coherent(e, store[e].plan)
  BY WorldSame, Looks DEF RetrySuperseded, Sane, Loaded, Stored
<1>2. plan \in Plans /\ plan.sized /\ Coherent(e, plan)
  BY <1>1 DEF Plans, Coherent, Started
<1>3. Checkpoint(e, plan) /\ lock' = e /\ step' = "check"
  BY DEF RetrySuperseded
<1>4. mem' = plan
  BY <1>3 DEF Checkpoint
<1> HIDE DEF plan
<1>5. Placed'
  BY <1>2, <1>3, <1>4 DEF Placed, Writing, Cleaning, Closing
<1>6. "check" \in PCs \ {"free", "effectDone"}
  BY DEF PCs
<1> QED
  BY <1>1, <1>2, <1>3, <1>5, <1>6, CheckpointSane

LEMMA SizeSane ==
    ASSUME Sane, NEW e \in Events, Size(e)
    PROVE  Sane'
<1> DEFINE plan == [mem EXCEPT !.sized = TRUE]
<1>1. WorldTypeOK' /\ Signed' /\ UNCHANGED happened /\ lock = e /\ step = "size"
  BY WorldSame DEF Size, At
<1>2. CASE Checkpoint(e, plan) /\ Goto("check") /\ UNCHANGED seen
  <2>1. mem \in Plans /\ Coherent(e, mem) /\ e \in happened
    BY <1>1, PlanInHand
  <2>2. plan \in Plans /\ plan.sized /\ Coherent(e, plan)
    BY <2>1 DEF Plans, Coherent, Started
  <2>3. mem' = plan /\ step' = "check" /\ lock' = e
    BY <1>1, <1>2 DEF Checkpoint, Goto
  <2> HIDE DEF plan
  <2>4. Placed'
    BY <2>2, <2>3 DEF Placed, Writing, Cleaning, Closing
  <2>5. "check" \in PCs \ {"free", "effectDone"} /\ seen' \in Stamps \union {None}
    BY <1>2 DEF PCs, Sane, PostTypeOK, RunTypeOK
  <2> QED
    BY <1>1, <1>2, <2>1, <2>2, <2>3, <2>4, <2>5, CheckpointSane
<1>3. CASE Supersede(e)
  BY <1>1, <1>3, EndSane DEF Supersede
<1> QED
  BY <1>2, <1>3 DEF Size

LEMMA CheckSane ==
    ASSUME Sane, NEW e \in Events, Check(e)
    PROVE  Sane'
<1>1. "check" \in PCs \ {"free", "effectDone"} /\ "next" \in PCs \ {"free", "effectDone"}
  BY DEF PCs
<1>2. Goto("next") /\ UNCHANGED <<mem, seen, staged>> => Placed'
  BY DEF Check, RequireCurrent, At, Sane, Placed, Goto, Writing, Cleaning, Closing
<1> QED
  BY <1>1, <1>2, RequireCurrentSane DEF Check

LEMMA NextWriteSane ==
    ASSUME Sane, NEW e \in Events, NextWrite(e)
    PROVE  Sane'
<1>1. "next" \in PCs \ {"free", "effectDone"} /\ "write" \in PCs \ {"free", "effectDone"}
  BY DEF PCs
<1>2. Goto("write") /\ UNCHANGED <<mem, seen, staged>> => Placed'
  BY DEF NextWrite, At, Sane, Placed, Goto, Writing, Cleaning, Closing
<1> QED
  BY <1>1, <1>2, RequireCurrentSane DEF NextWrite

LEMMA NextDeleteSane ==
    ASSUME Sane, NEW e \in Events, NextDelete(e)
    PROVE  Sane'
<1>1. "next" \in PCs \ {"free", "effectDone"} /\ "output" \in PCs \ {"free", "effectDone"}
  BY DEF PCs
<1>2. Goto("output") /\ UNCHANGED <<mem, seen, staged>> => Placed'
  BY DEF NextDelete, At, Sane, Placed, Goto, Writing, Cleaning, Closing
<1> QED
  BY <1>1, <1>2, RequireCurrentSane DEF NextDelete

LEMMA NoOperationLeftSane ==
    ASSUME Sane, NEW e \in Events, NoOperationLeft(e)
    PROVE  Sane'
<1>1. WorldTypeOK' /\ Signed' /\ UNCHANGED happened
  BY WorldSame DEF NoOperationLeft, db
<1>2. Placed'
  BY DEF NoOperationLeft, At, Sane, Placed, Goto, Writing, Cleaning, Closing
<1>3. "directories" \in PCs \ {"free", "effectDone"} /\ seen' \in Stamps \union {None}
  BY DEF PCs, NoOperationLeft, Sane, PostTypeOK, RunTypeOK
<1> QED
  BY <1>1, <1>2, <1>3, GotoSane DEF NoOperationLeft, At, db
------------------------------------------------------------------------------
\* What CompleteFile does to the owners.
LEMMA OwnerType ==
    ASSUME Sane, NEW e \in Events, NEW p \in Paths, NEW stamp \in Stamps \union {None},
           NEW plan, CompleteFile(e, p, stamp, plan),
           UNCHANGED <<disk, ran, lost>>, Running
    PROVE  WorldTypeOK' /\ Signed' /\ UNCHANGED happened
<1>1. owner' = [owner EXCEPT ![p] = [event |-> e, file |-> stamp]]
  BY DEF CompleteFile
<1>2. owner' \in [Paths -> Owners \union {None}]
  BY <1>1 DEF Owners, Sane, PostTypeOK, WorldTypeOK
<1> QED
  BY <1>2 DEF Sane, PostTypeOK, WorldTypeOK, Signed, Running, disk, outer

\* The plan is carried out as far as the file is concerned.
LEMMA WrittenSane ==
    ASSUME Sane, NEW e \in Events, lock = e, step # "effectDone", step \in Writing,
           NEW stamp \in Stamps, mem.prepared # None,
           CompleteFile(e, Target[e], stamp, [mem EXCEPT !.written = TRUE]),
           Goto("next"), UNCHANGED <<seen, disk, ran, lost>>, Running
    PROVE  Sane'
<1> DEFINE plan == [mem EXCEPT !.written = TRUE]
<1>1. WorldTypeOK' /\ Signed' /\ UNCHANGED happened
  BY OwnerType, EventAssumption
<1>2. mem \in Plans /\ Coherent(e, mem) /\ e \in happened
  BY PlanInHand
<1>3. plan \in Plans /\ plan.sized = mem.sized
  BY <1>2 DEF Plans
<1>4. mem.sized
  BY DEF Sane, Placed, Writing
<1>5. Coherent(e, plan)
  BY <1>2, <1>3, <1>4 DEF Plans, Coherent, Started
<1>6. mem' = plan /\ step' = "next" /\ lock' = e /\ Checkpoint(e, plan)
  BY DEF CompleteFile, Checkpoint, Goto
<1> HIDE DEF plan
<1>7. Placed'
  BY <1>3, <1>4, <1>6 DEF Placed, Writing, Cleaning, Closing
<1>8. "next" \in PCs \ {"free", "effectDone"} /\ seen' \in Stamps \union {None}
  BY DEF PCs, Sane, PostTypeOK, RunTypeOK
<1> QED
  BY <1>1, <1>2, <1>3, <1>5, <1>6, <1>7, <1>8, CheckpointSane

\* _write() finds its own file, the planned one, or another.
LEMMA FoundSane ==
    ASSUME Sane, NEW e \in Events, Found(e)
    PROVE  Sane'
<1> DEFINE actual == file[Target[e]]
           mine == /\ mem.prepared # None /\ actual = mem.prepared
                   /\ owner[Target[e]] = mem.owner
<1>1. At(e, "write") /\ lock = e /\ step = "write"
  BY DEF Found, At
<1>2. CASE /\ mine
           /\ CompleteFile(e, Target[e], actual, [mem EXCEPT !.written = TRUE])
           /\ Goto("next") /\ UNCHANGED seen
  <2>1. actual \in Stamps /\ mem.prepared # None
    BY <1>1, <1>2, PlanInHand DEF Plans
  <2> QED
    BY <1>1, <1>2, <2>1, WrittenSane DEF Found, Writing
<1>3. ASSUME NEW next \in {"stage", "confirm"},
             next = "confirm" => mem.prepared # None /\ staged[e] = mem.prepared,
             Goto(next), UNCHANGED <<mem, seen, db>>
      PROVE  Sane'
  <2>1. WorldTypeOK' /\ Signed' /\ UNCHANGED happened
    BY <1>3, WorldSame DEF Found, db
  <2>2. Placed'
    BY <1>1, <1>3 DEF Found, Sane, Placed, Goto, disk, Writing, Cleaning, Closing
  <2>3. next \in PCs \ {"free", "effectDone"} /\ seen' \in Stamps \union {None}
    BY <1>3 DEF PCs, Sane, PostTypeOK, RunTypeOK
  <2> QED
    BY <1>1, <1>3, <2>1, <2>2, <2>3, GotoSane DEF db
<1>4. CASE Supersede(e) /\ UNCHANGED owner
  <2>1. WorldTypeOK' /\ Signed' /\ UNCHANGED happened
    BY <1>4, WorldSame DEF Found
  <2> QED
    BY <1>1, <1>4, <2>1, EndSane DEF Supersede
<1> QED
  BY <1>2, <1>3, <1>4 DEF Found

LEMMA StageSane ==
    ASSUME Sane, NEW e \in Events, Stage(e)
    PROVE  Sane'
<1> DEFINE new == [by |-> e, n |-> made[e] + 1]
           plan == [mem EXCEPT !.prepared = new]
<1>1. /\ lock = e /\ step = "stage" /\ staged' = [staged EXCEPT ![e] = new]
      /\ Checkpoint(e, plan) /\ Goto("confirm") /\ made' = [made EXCEPT ![e] = @ + 1]
      /\ UNCHANGED <<file, owner, seen, ran, lost>> /\ Running
  BY DEF Stage, At
<1>2. new \in Stamps /\ new # None
  BY RecordAssumption DEF Stamps, Sane, PostTypeOK, WorldTypeOK
<1>3. WorldTypeOK' /\ Signed' /\ UNCHANGED happened
  BY <1>1, <1>2 DEF Sane, PostTypeOK, WorldTypeOK, Signed, Running, outer
<1>4. mem \in Plans /\ Coherent(e, mem) /\ e \in happened /\ mem.sized /\ ~mem.written
  BY <1>1, PlanInHand DEF Sane, Placed, Writing
<1>5. plan \in Plans /\ Coherent(e, plan) /\ plan.sized /\ ~plan.written /\ plan.prepared = new
  BY <1>2, <1>4 DEF Plans, Coherent, Started
<1>6. mem' = plan /\ step' = "confirm" /\ lock' = e /\ staged'[e] = new
  BY <1>1 DEF Checkpoint, Goto, Sane, PostTypeOK, WorldTypeOK
<1> HIDE DEF plan, new
<1>7. Placed'
  BY <1>2, <1>5, <1>6 DEF Placed, Writing, Cleaning, Closing
<1>8. "confirm" \in PCs \ {"free", "effectDone"} /\ seen' \in Stamps \union {None}
  BY <1>1 DEF PCs, Sane, PostTypeOK, RunTypeOK
<1> QED
  BY <1>1, <1>3, <1>4, <1>5, <1>6, <1>7, <1>8, CheckpointSane

\* A look at the cloud or at the path that lets the file through or discards it.
LEMMA LookSane ==
    ASSUME Sane, NEW e \in Events, lock = e, NEW next \in {"recheck", "publish"},
           step = IF next = "recheck" THEN "confirm" ELSE "recheck",
           (Goto(next) /\ UNCHANGED disk) \/ Discard(e),
           UNCHANGED <<mem, seen, db, ran, lost>>, Running
    PROVE  Sane'
<1>1. /\ next \in PCs \ {"free", "effectDone"} /\ "rejected" \in PCs \ {"free", "effectDone"}
      /\ seen' \in Stamps \union {None}
  BY DEF PCs, Sane, PostTypeOK, RunTypeOK
<1>2. CASE Goto(next) /\ UNCHANGED disk
  <2>1. WorldTypeOK' /\ Signed' /\ UNCHANGED happened
    BY <1>2, WorldSame DEF db
  <2>2. Placed'
    BY <1>2 DEF Sane, Placed, Goto, disk, Writing, Cleaning, Closing
  <2> QED
    BY <1>1, <1>2, <2>1, <2>2, GotoSane DEF db
<1>3. CASE Discard(e)
  <2>1. WorldTypeOK' /\ Signed' /\ UNCHANGED happened
    BY <1>3 DEF Discard, Sane, PostTypeOK, WorldTypeOK, Signed, Running, outer, db
  <2>2. Placed'
    BY <1>3 DEF Discard, Sane, Placed, Goto, Writing, Cleaning, Closing
  <2> QED
    BY <1>1, <1>3, <2>1, <2>2, GotoSane DEF db, Discard
<1> QED
  BY <1>2, <1>3

LEMMA ConfirmSane ==
    ASSUME Sane, NEW e \in Events, Confirm(e)
    PROVE  Sane'
BY LookSane DEF Confirm, At

LEMMA RecheckSane ==
    ASSUME Sane, NEW e \in Events, Recheck(e)
    PROVE  Sane'
BY LookSane DEF Recheck, At

LEMMA RejectedSane ==
    ASSUME Sane, NEW e \in Events, Rejected(e)
    PROVE  Sane'
<1>1. WorldTypeOK' /\ Signed' /\ UNCHANGED happened
  BY WorldSame DEF Rejected
<1> QED
  BY <1>1, EndSane DEF Rejected, At, Supersede

LEMMA PublishSane ==
    ASSUME Sane, NEW e \in Events, Publish(e)
    PROVE  Sane'
<1>1. /\ lock = e /\ step = "publish" /\ staged[e] = mem.prepared /\ mem.prepared # None
      /\ file' = [file EXCEPT ![Target[e]] = staged[e]] /\ staged' = [staged EXCEPT ![e] = None]
      /\ Goto("published") /\ UNCHANGED <<made, db, mem, seen, ran>> /\ Running
  BY DEF Publish, At, Sane, Placed
<1>2. lost' \subseteq Stamps
  BY EventAssumption DEF Publish, Losing, Sane, PostTypeOK, WorldTypeOK
<1>3. WorldTypeOK' /\ Signed' /\ UNCHANGED happened
  BY <1>1, <1>2 DEF Sane, PostTypeOK, WorldTypeOK, Signed, Running, outer, db
<1>4. Placed'
  BY <1>1 DEF Sane, Placed, Goto, Writing, Cleaning, Closing
<1>5. "published" \in PCs \ {"free", "effectDone"} /\ seen' \in Stamps \union {None}
  BY <1>1 DEF PCs, Sane, PostTypeOK, RunTypeOK
<1> QED
  BY <1>1, <1>3, <1>4, <1>5, GotoSane DEF db

LEMMA PublishedSane ==
    ASSUME Sane, NEW e \in Events, Published(e)
    PROVE  Sane'
<1>1. /\ lock = e /\ step = "published" /\ mem.prepared # None /\ mem.prepared \in Stamps
      /\ UNCHANGED <<disk, ran, lost>> /\ Running
  BY PlanInHand DEF Published, At, Sane, Placed, Plans
<1>2. CASE /\ CompleteFile(e, Target[e], mem.prepared, [mem EXCEPT !.written = TRUE])
           /\ Goto("next") /\ UNCHANGED seen
  BY <1>1, <1>2, WrittenSane DEF Writing
<1>3. CASE Supersede(e) /\ UNCHANGED owner
  <2>1. WorldTypeOK' /\ Signed' /\ UNCHANGED happened
    BY <1>1, <1>3, WorldSame
  <2> QED
    BY <1>1, <1>3, <2>1, EndSane DEF Supersede
<1> QED
  BY <1>2, <1>3 DEF Published
------------------------------------------------------------------------------
LEMMA OutputSane ==
    ASSUME Sane, NEW e \in Events, Output(e)
    PROVE  Sane'
<1>1. "output" \in PCs \ {"free", "effectDone"} /\ "delete" \in PCs \ {"free", "effectDone"}
  BY DEF PCs
<1>2. Goto("delete") /\ UNCHANGED <<mem, seen, staged>> => Placed'
  BY DEF Output, RequireOutput, At, Sane, Placed, Goto, Writing, Cleaning, Closing
<1> QED
  BY <1>1, <1>2, RequireOutputSane DEF Output

\* The deletion is done with, as carried out or as dropped.
LEMMA CleanedSane ==
    ASSUME Sane, NEW e \in Events, lock = e, step \in Cleaning,
           WorldTypeOK', Signed', UNCHANGED happened,
           Checkpoint(e, [mem EXCEPT !.cleaned = TRUE]), Goto("next"), seen' = None
    PROVE  Sane'
<1> DEFINE plan == [mem EXCEPT !.cleaned = TRUE]
<1>1. mem \in Plans /\ Coherent(e, mem) /\ e \in happened /\ mem.sized /\ mem.written
      /\ mem.cleans
  BY PlanInHand DEF Sane, Placed, Cleaning
<1>2. plan \in Plans /\ Coherent(e, plan) /\ plan.sized
  BY <1>1 DEF Plans, Coherent, Started
<1>3. mem' = plan /\ step' = "next" /\ lock' = e
  BY DEF Checkpoint, Goto
<1> HIDE DEF plan
<1>4. Placed'
  BY <1>2, <1>3 DEF Placed, Writing, Cleaning, Closing
<1>5. "next" \in PCs \ {"free", "effectDone"}
  BY DEF PCs
<1>6. Checkpoint(e, plan)
  BY DEF plan
<1> QED
  BY <1>1, <1>2, <1>3, <1>4, <1>5, <1>6, CheckpointSane

LEMMA SkipSane ==
    ASSUME Sane, NEW e \in Events, lock = e, step \in Cleaning, Skip(e),
           UNCHANGED <<disk, owner, ran, lost>>, Running
    PROVE  Sane'
BY WorldSame, CleanedSane DEF Skip

LEMMA DeleteSane ==
    ASSUME Sane, NEW e \in Events, Delete(e)
    PROVE  Sane'
<1> DEFINE actual == file[Source[e]]
           same == actual \in {None, mem.oldBefore} /\ owner[Source[e]] = mem.oldOwner
<1>1. /\ lock = e /\ step = "delete" /\ WorldTypeOK' /\ Signed' /\ UNCHANGED happened
      /\ UNCHANGED <<disk, owner, ran, lost>> /\ Running
  BY WorldSame DEF Delete, At
<1>2. CASE same /\ seen' = actual /\ Goto("gone") /\ UNCHANGED <<mem, store>>
  <2>1. Placed'
    BY <1>1, <1>2 DEF Sane, Placed, Goto, Writing, Cleaning, Closing
  <2>2. "gone" \in PCs \ {"free", "effectDone"} /\ seen' \in Stamps \union {None}
    BY <1>1, <1>2, PlanInHand DEF PCs, Plans
  <2> QED
    BY <1>1, <1>2, <2>1, <2>2, GotoSane
<1>3. CASE Skip(e)
  BY <1>1, <1>3, SkipSane DEF Cleaning
<1> QED
  BY <1>2, <1>3 DEF Delete

LEMMA GoneSane ==
    ASSUME Sane, NEW e \in Events, Gone(e)
    PROVE  Sane'
<1>1. /\ lock = e /\ step = "gone" /\ WorldTypeOK' /\ Signed' /\ UNCHANGED happened
      /\ UNCHANGED <<disk, owner, ran, lost>> /\ Running
  BY WorldSame DEF Gone, At
<1>2. CASE Goto("still") /\ UNCHANGED <<mem, seen, store>>
  <2>1. Placed'
    BY <1>1, <1>2 DEF Sane, Placed, Goto, Writing, Cleaning, Closing
  <2>2. "still" \in PCs \ {"free", "effectDone"} /\ seen' \in Stamps \union {None}
    BY <1>2 DEF PCs, Sane, PostTypeOK, RunTypeOK
  <2> QED
    BY <1>1, <1>2, <2>1, <2>2, GotoSane
<1>3. CASE Skip(e)
  BY <1>1, <1>3, SkipSane DEF Cleaning
<1> QED
  BY <1>2, <1>3 DEF Gone

LEMMA StillSane ==
    ASSUME Sane, NEW e \in Events, Still(e)
    PROVE  Sane'
<1>1. /\ lock = e /\ step = "still" /\ WorldTypeOK' /\ Signed' /\ UNCHANGED happened
      /\ UNCHANGED store
  BY WorldSame DEF Still, At, db
<1>2. CASE Goto("reread") /\ UNCHANGED <<mem, seen>>
  <2>1. Placed'
    BY <1>1, <1>2 DEF Sane, Placed, Goto, Writing, Cleaning, Closing
  <2>2. "reread" \in PCs \ {"free", "effectDone"} /\ seen' \in Stamps \union {None}
    BY <1>2 DEF PCs, Sane, PostTypeOK, RunTypeOK
  <2> QED
    BY <1>1, <1>2, <2>1, <2>2, GotoSane
<1>3. CASE Release
  BY <1>1, <1>3, ReleaseSane
<1> QED
  BY <1>2, <1>3 DEF Still

LEMMA RereadSane ==
    ASSUME Sane, NEW e \in Events, Reread(e)
    PROVE  Sane'
<1>1. /\ lock = e /\ step = "reread" /\ WorldTypeOK' /\ Signed' /\ UNCHANGED happened
      /\ UNCHANGED <<disk, owner, ran, lost>> /\ Running
  BY WorldSame DEF Reread, At
<1>2. ASSUME NEW next \in {"unlinked", "unlink"}, next = "unlink" => seen # None,
             Goto(next), UNCHANGED <<mem, seen, store>>
      PROVE  Sane'
  <2>1. Placed'
    BY <1>1, <1>2 DEF Sane, Placed, Goto, Writing, Cleaning, Closing
  <2>2. next \in PCs \ {"free", "effectDone"} /\ seen' \in Stamps \union {None}
    BY <1>2 DEF PCs, Sane, PostTypeOK, RunTypeOK
  <2> QED
    BY <1>1, <1>2, <2>1, <2>2, GotoSane
<1>3. CASE Skip(e)
  BY <1>1, <1>3, SkipSane DEF Cleaning
<1> QED
  BY <1>2, <1>3 DEF Reread

LEMMA UnlinkSane ==
    ASSUME Sane, NEW e \in Events, Unlink(e)
    PROVE  Sane'
<1>1. lock = e /\ step = "unlink" /\ UNCHANGED <<staged, made, db, ran>> /\ Running
      /\ Source[e] \in Paths
  BY PlanInHand, EventAssumption DEF Unlink, At, Sane, Placed, Cleaning, Coherent
<1>2. CASE /\ file' = [file EXCEPT ![Source[e]] = None]
           /\ Losing(Source[e], mem.oldBefore)
           /\ Goto("unlinked") /\ UNCHANGED <<mem, seen>>
  <2>1. lost' \subseteq Stamps
    BY <1>1, <1>2 DEF Losing, Sane, PostTypeOK, WorldTypeOK
  <2>2. WorldTypeOK' /\ Signed' /\ UNCHANGED happened
    BY <1>1, <1>2, <2>1 DEF Sane, PostTypeOK, WorldTypeOK, Signed, Running, outer, db
  <2>3. Placed'
    BY <1>1, <1>2 DEF Sane, Placed, Goto, Writing, Cleaning, Closing
  <2>4. "unlinked" \in PCs \ {"free", "effectDone"} /\ seen' \in Stamps \union {None}
    BY <1>2 DEF PCs, Sane, PostTypeOK, RunTypeOK
  <2> QED
    BY <1>1, <1>2, <2>2, <2>3, <2>4, GotoSane DEF db
<1>3. CASE Release /\ UNCHANGED <<file, lost>>
  <2>1. WorldTypeOK' /\ Signed' /\ UNCHANGED happened
    BY <1>1, <1>3, WorldSame DEF disk, db
  <2> QED
    BY <1>1, <1>3, <2>1, ReleaseSane DEF db
<1> QED
  BY <1>2, <1>3 DEF Unlink

LEMMA UnlinkedSane ==
    ASSUME Sane, NEW e \in Events, Unlinked(e)
    PROVE  Sane'
<1>1. lock = e /\ step = "unlinked" /\ Source[e] \in Paths
  BY PlanInHand, EventAssumption DEF Unlinked, At, Sane, Placed, Cleaning, Coherent
<1>2. WorldTypeOK' /\ Signed' /\ UNCHANGED happened
  BY <1>1, OwnerType DEF Unlinked
<1> QED
  BY <1>1, <1>2, CleanedSane DEF Unlinked, CompleteFile, Cleaning

------------------------------------------------------------------------------
LEMMA DirectoriesSane ==
    ASSUME Sane, NEW e \in Events, Directories(e)
    PROVE  Sane'
<1>1. /\ "directories" \in PCs \ {"free", "effectDone"}
      /\ "effects" \in PCs \ {"free", "effectDone"}
      /\ lock = e /\ step = "directories"
  BY DEF PCs, Directories, At
<1>2. Goto("effects") /\ UNCHANGED <<mem, seen, staged>> => Placed'
  BY <1>1 DEF Sane, Placed, Goto, Writing, Cleaning, Closing
<1>3. CASE RequireCurrent(e, "directories", "effects")
  BY <1>1, <1>2, <1>3, RequireCurrentSane
<1>4. CASE Goto("effects") /\ UNCHANGED <<mem, seen, disk, db, ran, lost>> /\ Running
  <2>1. WorldTypeOK' /\ Signed' /\ UNCHANGED happened
    BY <1>4, WorldSame DEF db
  <2>2. seen' \in Stamps \union {None}
    BY <1>4 DEF Sane, PostTypeOK, RunTypeOK
  <2> QED
    BY <1>1, <1>2, <1>4, <2>1, <2>2, GotoSane DEF db, disk
<1> QED
  BY <1>3, <1>4 DEF Directories

LEMMA EffectCheckSane ==
    ASSUME Sane, NEW e \in Events, EffectCheck(e)
    PROVE  Sane'
<1>1. /\ "effectOutput" \in PCs \ {"free", "effectDone"}
      /\ "effects" \in PCs \ {"free", "effectDone"}
  BY DEF PCs
<1>2. Goto("effectOutput") /\ UNCHANGED <<mem, seen, staged>> => Placed'
  BY DEF EffectCheck, At, Sane, Placed, Goto, Writing, Cleaning, Closing
<1> QED
  BY <1>1, <1>2, RequireCurrentSane DEF EffectCheck

LEMMA EffectOutputSane ==
    ASSUME Sane, NEW e \in Events, EffectOutput(e)
    PROVE  Sane'
<1>1. /\ "effectOutput" \in PCs \ {"free", "effectDone"}
      /\ "effect" \in PCs \ {"free", "effectDone"}
  BY DEF PCs
<1>2. Goto("effect") /\ UNCHANGED <<mem, seen, staged>> => Placed'
  BY DEF EffectOutput, RequireOutput, At, Sane, Placed, Goto, Writing, Cleaning, Closing
<1> QED
  BY <1>1, <1>2, RequireOutputSane DEF EffectOutput

\* The one step in which the plan in memory runs ahead of the store.
LEMMA EffectSane ==
    ASSUME Sane, NEW e \in Events, Effect(e)
    PROVE  Sane'
<1>1. PICK x \in Effects \ mem.effects :
          /\ ran' = [ran EXCEPT ![e] = @ \union {x}]
          /\ mem' = [mem EXCEPT !.effects = @ \union {x}]
  BY DEF Effect
<1>2. /\ lock = e /\ step = "effect" /\ Goto("effectDone")
      /\ UNCHANGED <<seen, disk, db, lost>> /\ Running
  BY DEF Effect, At
<1>3. mem \in Plans /\ Coherent(e, mem) /\ e # None /\ store[e] # None
      /\ store[e].state = "pending" /\ store[e].plan = mem /\ mem.sized /\ mem.written
  BY <1>2, PlanInHand DEF Sane, Placed, Closing
<1>4. mem' \in Plans /\ mem = [mem' EXCEPT !.effects = mem.effects]
  BY <1>1, <1>3 DEF Plans
<1>5. /\ mem'.written = mem.written /\ mem'.cleans = mem.cleans /\ mem'.sized = mem.sized
      /\ mem'.cleaned = mem.cleaned
  BY <1>1, <1>3 DEF Plans
<1>6. Coherent(e, mem')
  BY <1>1, <1>3 DEF Plans, Coherent, Started
<1>7. mem' # None
  BY <1>4, RecordAssumption
<1>8. WorldTypeOK' /\ Signed' /\ UNCHANGED happened
  BY <1>1, <1>2 DEF Sane, PostTypeOK, WorldTypeOK, Signed, Running, outer, db, disk
<1>9. RunTypeOK'
  BY <1>2, <1>4 DEF Sane, PostTypeOK, RunTypeOK, Goto, db, PCs
<1>10. Stored'
  BY <1>2, <1>8 DEF Sane, Stored, db
<1>11. Loaded'
  BY <1>2, <1>3, <1>4, <1>6, <1>7 DEF Loaded, Goto, db
<1>12. Placed'
  BY <1>2, <1>5 DEF Sane, Placed, Goto, Writing, Cleaning, Closing
<1> QED
  BY <1>8, <1>9, <1>10, <1>11, <1>12 DEF Sane, PostTypeOK

LEMMA EffectDoneSane ==
    ASSUME Sane, NEW e \in Events, EffectDone(e)
    PROVE  Sane'
<1>1. /\ lock = e /\ step = "effectDone" /\ Checkpoint(e, mem) /\ Goto("effects")
      /\ UNCHANGED seen
  BY DEF EffectDone, At
<1>2. WorldTypeOK' /\ Signed' /\ UNCHANGED happened
  BY WorldSame DEF EffectDone
<1>3. mem \in Plans /\ Coherent(e, mem) /\ e \in happened
  BY <1>1, PlanInHand
<1>4. mem' = mem /\ step' = "effects" /\ lock' = e
  BY <1>1 DEF Checkpoint, Goto
<1>5. Placed'
  BY <1>1, <1>4 DEF Sane, Placed, Writing, Cleaning, Closing
<1>6. "effects" \in PCs \ {"free", "effectDone"} /\ seen' \in Stamps \union {None}
  BY <1>1 DEF PCs, Sane, PostTypeOK, RunTypeOK
<1> QED
  BY <1>1, <1>2, <1>3, <1>4, <1>5, <1>6, CheckpointSane

LEMMA FinishSane ==
    ASSUME Sane, NEW e \in Events, Finish(e)
    PROVE  Sane'
<1>1. WorldTypeOK' /\ Signed' /\ UNCHANGED happened
  BY WorldSame DEF Finish
<1> QED
  BY <1>1, EndSane DEF Finish, At

LEMMA FailSane ==
    ASSUME Sane, Fail
    PROVE  Sane'
<1>1. WorldTypeOK' /\ Signed' /\ UNCHANGED <<happened, store>>
  BY DEF Fail, Sane, PostTypeOK, WorldTypeOK, Signed, outer, db, disk
<1> QED
  BY <1>1, ReleaseSane DEF Fail

\* Transfers, the user and other writers.
LEMMA OutsideSane ==
    ASSUME Sane, WorldTypeOK', happened \subseteq happened', UNCHANGED <<staged, store, local>>
    PROVE  Sane'
<1>1. RunTypeOK'
  BY DEF Sane, PostTypeOK, RunTypeOK, local
<1>2. Stored' /\ Signed'
  BY DEF Sane, Stored, Signed
<1>3. Loaded' /\ Placed'
  BY DEF Sane, Loaded, Placed, local
<1> QED
  BY <1>1, <1>2, <1>3 DEF Sane, PostTypeOK

LEMMA TransferSane ==
    ASSUME Sane, NEW e \in Events, Transfer(e)
    PROVE  Sane'
<1>1. cloud' \in [Paths -> Files \union {None}]
  BY EventAssumption DEF Transfer, Sane, PostTypeOK, WorldTypeOK
<1>2. WorldTypeOK'
  BY <1>1 DEF Transfer, Sane, PostTypeOK, WorldTypeOK, disk, db
<1> QED
  BY <1>2, OutsideSane DEF Transfer, disk, db

LEMMA CloudSane ==
    ASSUME Sane, NEW p \in Paths, CloudRemove(p) \/ CloudRestore(p)
    PROVE  Sane'
<1>1. cloud' \in [Paths -> Files \union {None}] /\ bin' \in [Paths -> Files \union {None}]
  BY DEF CloudRemove, CloudRestore, Sane, PostTypeOK, WorldTypeOK
<1>2. WorldTypeOK'
  BY <1>1 DEF CloudRemove, CloudRestore, Sane, PostTypeOK, WorldTypeOK, disk, db
<1> QED
  BY <1>2, OutsideSane DEF CloudRemove, CloudRestore, disk, db

LEMMA OutsideWriteSane ==
    ASSUME Sane, NEW p \in Paths, OutsideWrite(p)
    PROVE  Sane'
<1> DEFINE new == [by |-> Outside, n |-> outside + 1]
<1>1. new \in Stamps /\ outside' \in Nat
  BY DEF OutsideWrite, Stamps, Sane, PostTypeOK, WorldTypeOK
<1>2. file' \in [Paths -> Stamps \union {None}] /\ late' \subseteq Stamps
  BY <1>1 DEF OutsideWrite, Sane, PostTypeOK, WorldTypeOK
<1>3. WorldTypeOK'
  BY <1>1, <1>2 DEF OutsideWrite, Sane, PostTypeOK, WorldTypeOK, db
<1> QED
  BY <1>3, OutsideSane DEF OutsideWrite, db

LEMMA InitSane == PostInit => Sane
BY DEF PostInit, Sane, PostTypeOK, WorldTypeOK, RunTypeOK, Stored, Signed, Loaded, Placed,
       PCs, Writing, Cleaning, Closing

LEMMA StutterSane ==
    ASSUME Sane, UNCHANGED postVars
    PROVE  Sane'
BY DEF postVars, Sane, PostTypeOK, WorldTypeOK, RunTypeOK, Stored, Signed, Loaded, Placed

LEMMA RunSane ==
    ASSUME Sane, NothingUnaccounted, NEW e \in Events, RunEvent(e)
    PROVE  Sane'
BY BeginSane, SizeSane, CheckSane, NextWriteSane, NextDeleteSane, NoOperationLeftSane,
   FoundSane, StageSane, ConfirmSane, RecheckSane, RejectedSane, PublishSane, PublishedSane,
   OutputSane, DeleteSane, GoneSane, StillSane, RereadSane, UnlinkSane, UnlinkedSane,
   DirectoriesSane, EffectCheckSane, EffectOutputSane, EffectSane, EffectDoneSane, FinishSane
   DEF RunEvent, Write, Cleanup

LEMMA NextSane ==
    ASSUME Sane, NothingUnaccounted, [PostNext]_postVars
    PROVE  Sane'
BY RunSane, RetrySane, TransferSane, CloudSane, OutsideWriteSane, FailSane, StutterSane
   DEF PostNext

------------------------------------------------------------------------------
(* The library's files and the owners are on record.                       *)

\* Nothing that is on record of an event's work is taken back.
Keeps ==
    \A f \in Events : store[f] # None =>
        /\ store'[f] # None
        /\ store'[f].plan.prepared = store[f].plan.prepared
        /\ store[f].plan.written => store'[f].plan.written
        /\ store[f].plan.cleaned => store'[f].plan.cleaned

LEMMA SaveKeeps ==
    ASSUME Sane, NEW e \in Events, NEW plan \in Plans, NEW state \in States,
           Save(e, plan, state),
           store[e] # None => /\ plan.prepared = store[e].plan.prepared
                              /\ store[e].plan.written => plan.written
                              /\ store[e].plan.cleaned => plan.cleaned
    PROVE  Keeps
BY SaveFacts DEF Keeps, Sane

\* The event that runs saves its plan, with nothing but progress in it.
LEMMA ProgressKeeps ==
    ASSUME Sane, NEW e \in Events, lock = e, NEW state \in States,
           NEW plan \in {mem, [mem EXCEPT !.sized = TRUE], [mem EXCEPT !.written = TRUE],
                         [mem EXCEPT !.cleaned = TRUE]},
           Save(e, plan, state)
    PROVE  Keeps
<1>1. /\ mem \in Plans /\ store[e].plan.prepared = mem.prepared
      /\ store[e].plan.written = mem.written /\ store[e].plan.cleaned = mem.cleaned
  BY PlanInHand DEF Sane, Loaded, Plans
<1>2. /\ plan \in Plans /\ plan.prepared = mem.prepared
      /\ mem.written => plan.written
      /\ mem.cleaned => plan.cleaned
  BY <1>1 DEF Plans
<1> QED
  BY <1>1, <1>2, SaveKeeps

LEMMA KeepingAccounts ==
    ASSUME Accounts, WorldTypeOK, Keeps, UNCHANGED <<file, owner>>, Foreign'
    PROVE  Accounts'
<1>1. NothingUnaccounted'
  BY DEF Accounts, NothingUnaccounted, Keeps, WorldTypeOK, Stamps
<1>2. OwnerIsOnRecord'
  BY DEF Accounts, OwnerIsOnRecord, Keeps, WorldTypeOK, Owners
<1> QED
  BY <1>1, <1>2 DEF Accounts

\* The steps of run() that touch neither the library nor the owners, and that do not
\* lead to the publication.
QuietStep(e) ==
    \/ Size(e) \/ Check(e) \/ NextWrite(e) \/ NextDelete(e) \/ NoOperationLeft(e)
    \/ Rejected(e) \/ Output(e) \/ Delete(e) \/ Gone(e) \/ Still(e) \/ Reread(e)
    \/ Directories(e) \/ EffectCheck(e) \/ EffectOutput(e) \/ EffectDone(e) \/ Finish(e)

LEMMA QuietShape ==
    ASSUME Sane, NEW e \in Events, QuietStep(e)
    PROVE  /\ lock = e /\ UNCHANGED <<disk, owner, ran, lost>> /\ Running
           /\ step \notin {"write", "stage", "confirm", "recheck", "publish", "published"}
           /\ step' \notin {"stage", "confirm", "recheck", "publish", "published"}
           /\ \/ UNCHANGED store
              \/ \E plan \in {mem, [mem EXCEPT !.sized = TRUE], [mem EXCEPT !.cleaned = TRUE]},
                    state \in States : Save(e, plan, state)
<1>1. "superseded" \in States /\ "pending" \in States /\ "done" \in States
  BY DEF States
<1>2. CASE Size(e)
  BY <1>1, <1>2 DEF Size, At, Checkpoint, Supersede, Goto, Release
<1>3. CASE Check(e) \/ NextWrite(e) \/ NextDelete(e) \/ EffectCheck(e)
  BY <1>1, <1>3 DEF Check, NextWrite, NextDelete, EffectCheck, RequireCurrent, At, Supersede,
                    Goto, Release
<1>4. CASE NoOperationLeft(e) \/ Rejected(e)
  BY <1>1, <1>4 DEF NoOperationLeft, Rejected, At, Supersede, Goto, Release, db
<1>5. CASE Output(e) \/ EffectOutput(e)
  BY <1>1, <1>5 DEF Output, EffectOutput, RequireOutput, At, Supersede, Goto, Release
<1>6. CASE Delete(e) \/ Gone(e) \/ Still(e)
  BY <1>1, <1>6 DEF Delete, Gone, Still, At, Skip, Checkpoint, Goto, Release, db
<1>7. CASE Reread(e)
  BY <1>1, <1>7 DEF Reread, At, Skip, Checkpoint, Goto
<1>8. CASE Directories(e)
  BY <1>1, <1>8 DEF Directories, RequireCurrent, At, Supersede, Goto, Release, db
<1>9. CASE EffectDone(e) \/ Finish(e)
  BY <1>1, <1>9 DEF EffectDone, Finish, At, Checkpoint, Goto, Release
<1> QED
  BY <1>2, <1>3, <1>4, <1>5, <1>6, <1>7, <1>8, <1>9 DEF QuietStep

LEMMA QuietAccounts ==
    ASSUME Sane, Accounts, NEW e \in Events, QuietStep(e)
    PROVE  Accounts'
<1>1. Keeps
  BY QuietShape, ProgressKeeps DEF Keeps
<1>2. UNCHANGED <<file, owner>> /\ Foreign'
  BY QuietShape DEF Foreign, disk
<1> QED
  BY <1>1, <1>2, KeepingAccounts DEF Sane, PostTypeOK

LEMMA BeginAccounts ==
    ASSUME Sane, Accounts, NEW e \in Events, Begin(e) \/ RetrySuperseded(e)
    PROVE  Accounts'
<1>1. UNCHANGED <<file, owner>> /\ step' \in {"size", "check"}
  BY DEF Begin, RetrySuperseded, disk, Resume
<1>2. CASE UNCHANGED store
  BY <1>1, <1>2, KeepingAccounts DEF Keeps, Foreign, Sane, PostTypeOK
<1>3. CASE store[e] = None /\ Checkpoint(e, Build(e))
  <2>1. Keeps
    BY <1>3, SaveKeeps, BuildIsPlan DEF Checkpoint, States, Sane
  <2> QED
    BY <1>1, <2>1, KeepingAccounts DEF Foreign, Sane, PostTypeOK
<1>4. CASE store[e] # None /\ Checkpoint(e, [store[e].plan EXCEPT !.sized = TRUE])
  <2> DEFINE plan == [store[e].plan EXCEPT !.sized = TRUE]
  <2>1. store[e].plan \in Plans
    BY <1>4, Looks DEF Sane
  <2>2. /\ plan \in Plans /\ plan.prepared = store[e].plan.prepared
        /\ plan.written = store[e].plan.written /\ plan.cleaned = store[e].plan.cleaned
    BY <2>1 DEF Plans
  <2>3. Keeps
    BY <1>4, <2>2, SaveKeeps DEF Checkpoint, States
  <2> QED
    BY <1>1, <2>3, KeepingAccounts DEF Foreign, Sane, PostTypeOK
<1> QED
  BY <1>2, <1>3, <1>4 DEF Begin, RetrySuperseded

\* The event becomes the owner of a path, and its plan says why.
LEMMA CompleteAccounts ==
    ASSUME Sane, Accounts, NEW e \in Events, lock = e, NEW p \in Paths,
           NEW stamp \in Stamps \union {None},
           NEW plan \in {[mem EXCEPT !.written = TRUE], [mem EXCEPT !.cleaned = TRUE]},
           CompleteFile(e, p, stamp, plan), Goto("next"), UNCHANGED file,
           \/ p = Target[e] /\ plan.written /\ stamp = mem.prepared
           \/ p = Source[e] /\ plan.cleaned /\ stamp = None
    PROVE  Accounts'
<1>1. mem \in Plans
  BY PlanInHand
<1>2. plan \in Plans /\ plan.prepared = mem.prepared
  BY <1>1 DEF Plans
<1>3. Save(e, plan, "pending") /\ "pending" \in States
  BY DEF CompleteFile, Checkpoint, States
<1>4. Keeps
  BY <1>3, ProgressKeeps
<1>5. store'[e] # None /\ store'[e].plan = plan
  BY <1>2, <1>3, SaveFacts DEF Sane
<1>6. owner' = [owner EXCEPT ![p] = [event |-> e, file |-> stamp]]
  BY DEF CompleteFile
<1>7. NothingUnaccounted'
  BY <1>4 DEF Accounts, NothingUnaccounted, Keeps, Sane, PostTypeOK, WorldTypeOK, Stamps
<1>8. OwnerIsOnRecord'
  <2> SUFFICES ASSUME NEW q \in Paths, owner'[q] # None
               PROVE  /\ store'[owner'[q].event] # None
                      /\ \/ /\ q = Target[owner'[q].event]
                            /\ store'[owner'[q].event].plan.written
                            /\ owner'[q].file = store'[owner'[q].event].plan.prepared
                         \/ /\ q = Source[owner'[q].event]
                            /\ store'[owner'[q].event].plan.cleaned
                            /\ owner'[q].file = None
    BY DEF OwnerIsOnRecord
  <2>1. CASE q = p
    BY <1>2, <1>5, <1>6, <2>1 DEF Sane, PostTypeOK, WorldTypeOK
  <2>2. CASE q # p
    <3>1. owner'[q] = owner[q] /\ owner[q].event \in Events
      BY <1>6, <2>2 DEF Sane, PostTypeOK, WorldTypeOK, Owners
    <3> QED
      BY <1>4, <3>1 DEF Accounts, OwnerIsOnRecord, Keeps
  <2> QED
    BY <2>1, <2>2
<1>9. Foreign'
  BY DEF Foreign, Goto
<1> QED
  BY <1>7, <1>8, <1>9 DEF Accounts

LEMMA FoundAccounts ==
    ASSUME Sane, Accounts, NEW e \in Events, Found(e)
    PROVE  Accounts'
<1> DEFINE actual == file[Target[e]]
           mine == /\ mem.prepared # None /\ actual = mem.prepared
                   /\ owner[Target[e]] = mem.owner
<1>1. /\ lock = e /\ step = "write" /\ UNCHANGED file /\ Target[e] \in Paths
      /\ mem \in Plans /\ Coherent(e, mem)
  BY PlanInHand, EventAssumption DEF Found, At, disk
<1>2. CASE /\ mine
           /\ CompleteFile(e, Target[e], actual, [mem EXCEPT !.written = TRUE])
           /\ Goto("next")
  <2>1. actual \in Stamps \union {None} /\ [mem EXCEPT !.written = TRUE].written
    BY <1>1, <1>2 DEF Plans
  <2> QED
    BY <1>1, <1>2, <2>1, CompleteAccounts
<1>3. CASE ~mine /\ AsPlanned(e, mem) /\ UNCHANGED <<mem, seen, db>> /\ UNCHANGED lock
  <2>1. file[Target[e]] # None => file[Target[e]].by # e
    BY <1>1, <1>3 DEF AsPlanned, Coherent
  <2> QED
    BY <1>1, <1>3, <2>1, KeepingAccounts DEF Keeps, Foreign, db, Sane, PostTypeOK
<1>4. CASE Supersede(e) /\ UNCHANGED owner
  <2>1. Keeps
    BY <1>1, <1>4, ProgressKeeps DEF Supersede, States
  <2>2. Foreign'
    BY <1>4 DEF Supersede, Release, Foreign
  <2> QED
    BY <1>1, <1>4, <2>1, <2>2, KeepingAccounts DEF Sane, PostTypeOK
<1> QED
  BY <1>2, <1>3, <1>4 DEF Found, Goto

\* A new .part file takes the place of one that is nowhere in the library.
LEMMA StageAccounts ==
    ASSUME Sane, Accounts, NEW e \in Events, Stage(e)
    PROVE  Accounts'
<1> DEFINE new == [by |-> e, n |-> made[e] + 1]
           plan == [mem EXCEPT !.prepared = new]
<1>1. /\ lock = e /\ step = "stage" /\ Save(e, plan, "pending") /\ Goto("confirm")
      /\ UNCHANGED <<file, owner>> /\ new \in Stamps /\ "pending" \in States
  BY DEF Stage, At, Checkpoint, States, Stamps, Sane, PostTypeOK, WorldTypeOK
<1>2. /\ mem \in Plans /\ store[e].plan = mem /\ ~mem.written
  BY <1>1, PlanInHand DEF Sane, Placed, Writing
<1>3. /\ plan \in Plans /\ plan.written = mem.written /\ plan.cleaned = mem.cleaned
  BY <1>1, <1>2 DEF Plans
<1>4. /\ store'[e] # None /\ store'[e].plan = plan
      /\ \A f \in Events : f # e => store'[f] = store[f]
  BY <1>1, <1>3, SaveFacts DEF Sane
<1> HIDE DEF plan
<1>5. \A p \in Paths : file[p] # None => file[p].by # e
  BY <1>1, OutsideAssumption DEF Accounts, NothingUnaccounted, Foreign
<1>6. NothingUnaccounted'
  BY <1>1, <1>4, <1>5 DEF Accounts, NothingUnaccounted, Sane, PostTypeOK, WorldTypeOK, Stamps
<1>7. OwnerIsOnRecord'
  BY <1>1, <1>2, <1>3, <1>4
     DEF Accounts, OwnerIsOnRecord, Sane, PostTypeOK, WorldTypeOK, Owners
<1>8. Foreign'
  BY <1>1 DEF Accounts, Foreign, Goto
<1> QED
  BY <1>6, <1>7, <1>8 DEF Accounts

LEMMA LookAccounts ==
    ASSUME Sane, Accounts, NEW e \in Events, Confirm(e) \/ Recheck(e)
    PROVE  Accounts'
<1>1. UNCHANGED <<file, db, lock>> /\ step \in {"confirm", "recheck"}
  BY DEF Confirm, Recheck, Discard, Goto, disk, At
<1>2. Foreign'
  BY <1>1 DEF Accounts, Foreign
<1> QED
  BY <1>1, <1>2, KeepingAccounts DEF Keeps, db, Sane, PostTypeOK

LEMMA PublishAccounts ==
    ASSUME Sane, Accounts, NEW e \in Events, Publish(e)
    PROVE  Accounts'
<1>1. /\ lock = e /\ step = "publish" /\ file' = [file EXCEPT ![Target[e]] = staged[e]]
      /\ UNCHANGED db /\ step' = "published"
      /\ store[e] # None /\ store[e].plan = mem /\ staged[e] = mem.prepared
      /\ mem.prepared # None /\ staged[e].by = e
  BY PlanInHand DEF Publish, At, Goto, Sane, Placed, Signed
<1>2. NothingUnaccounted'
  <2> SUFFICES ASSUME NEW p \in Paths, file'[p] # None, file'[p].by # Outside
               PROVE  /\ p = Target[file'[p].by]
                      /\ store[file'[p].by] # None
                      /\ store[file'[p].by].plan.prepared = file'[p]
    BY <1>1 DEF NothingUnaccounted, db
  <2>1. CASE p = Target[e]
    BY <1>1, <2>1 DEF Sane, PostTypeOK, WorldTypeOK
  <2>2. CASE p # Target[e]
    BY <1>1, <2>2 DEF Accounts, NothingUnaccounted, Sane, PostTypeOK, WorldTypeOK
  <2> QED
    BY <2>1, <2>2
<1>3. OwnerIsOnRecord' /\ Foreign'
  BY <1>1 DEF Accounts, OwnerIsOnRecord, Foreign, db
<1> QED
  BY <1>2, <1>3 DEF Accounts

LEMMA PublishedAccounts ==
    ASSUME Sane, Accounts, NEW e \in Events, Published(e)
    PROVE  Accounts'
<1>1. /\ lock = e /\ UNCHANGED file /\ Target[e] \in Paths /\ mem \in Plans
  BY PlanInHand, EventAssumption DEF Published, At, disk
<1>2. CASE /\ CompleteFile(e, Target[e], mem.prepared, [mem EXCEPT !.written = TRUE])
           /\ Goto("next")
  <2>1. mem.prepared \in Stamps \union {None} /\ [mem EXCEPT !.written = TRUE].written
    BY <1>1 DEF Plans
  <2> QED
    BY <1>1, <1>2, <2>1, CompleteAccounts
<1>3. CASE Supersede(e) /\ UNCHANGED owner
  <2>1. Keeps
    BY <1>1, <1>3, ProgressKeeps DEF Supersede, States
  <2>2. Foreign'
    BY <1>3 DEF Supersede, Release, Foreign
  <2> QED
    BY <1>1, <1>3, <2>1, <2>2, KeepingAccounts DEF Sane, PostTypeOK
<1> QED
  BY <1>2, <1>3 DEF Published

LEMMA UnlinkAccounts ==
    ASSUME Sane, Accounts, NEW e \in Events, Unlink(e)
    PROVE  Accounts'
<1>1. UNCHANGED db /\ step' \notin {"stage", "confirm", "recheck", "publish"}
      /\ (file' = [file EXCEPT ![Source[e]] = None] \/ UNCHANGED file)
  BY DEF Unlink, Goto, Release
<1>2. \A p \in Paths : file'[p] # None => file'[p] = file[p]
  BY <1>1 DEF Sane, PostTypeOK, WorldTypeOK
<1>3. NothingUnaccounted'
  BY <1>1, <1>2 DEF Accounts, NothingUnaccounted, db
<1>4. OwnerIsOnRecord' /\ Foreign'
  BY <1>1 DEF Accounts, OwnerIsOnRecord, Foreign, db
<1> QED
  BY <1>3, <1>4 DEF Accounts

LEMMA UnlinkedAccounts ==
    ASSUME Sane, Accounts, NEW e \in Events, Unlinked(e)
    PROVE  Accounts'
<1>1. /\ lock = e /\ UNCHANGED file /\ mem \in Plans /\ Source[e] \in Paths
  BY PlanInHand, EventAssumption DEF Unlinked, At, disk, Sane, Placed, Cleaning, Coherent
<1>2. [mem EXCEPT !.cleaned = TRUE].cleaned
  BY <1>1 DEF Plans
<1> QED
  BY <1>1, <1>2, CompleteAccounts DEF Unlinked

LEMMA EffectAccounts ==
    ASSUME Sane, Accounts, NEW e \in Events, Effect(e) \/ Transfer(e)
    PROVE  Accounts'
<1>1. UNCHANGED <<file, db>> /\ Foreign'
  BY DEF Effect, Transfer, disk, Goto, Foreign, Accounts, local
<1> QED
  BY <1>1, KeepingAccounts DEF Keeps, db, Sane, PostTypeOK

LEMMA CloudAccounts ==
    ASSUME Sane, Accounts, NEW p \in Paths, CloudRemove(p) \/ CloudRestore(p)
    PROVE  Accounts'
<1>1. UNCHANGED <<file, db>> /\ Foreign'
  BY DEF CloudRemove, CloudRestore, disk, Foreign, Accounts, local
<1> QED
  BY <1>1, KeepingAccounts DEF Keeps, db, Sane, PostTypeOK

LEMMA OutsideWriteAccounts ==
    ASSUME Sane, Accounts, NEW p \in Paths, OutsideWrite(p)
    PROVE  Accounts'
<1>1. UNCHANGED <<db, local>>
  BY DEF OutsideWrite
<1>2. \A q \in Paths : file'[q] # None => file'[q] = file[q] \/ file'[q].by = Outside
  BY DEF OutsideWrite, Sane, PostTypeOK, WorldTypeOK
<1>3. NothingUnaccounted'
  BY <1>1, <1>2 DEF Accounts, NothingUnaccounted, db
<1>4. Foreign'
  BY <1>1, <1>2, Looks, OutsideAssumption DEF Accounts, Foreign, local, Sane, Loaded
<1>5. OwnerIsOnRecord'
  BY <1>1 DEF Accounts, OwnerIsOnRecord, db
<1> QED
  BY <1>3, <1>4, <1>5 DEF Accounts

LEMMA FailAccounts ==
    ASSUME Sane, Accounts, Fail \/ UNCHANGED postVars
    PROVE  Accounts'
<1>1. UNCHANGED <<file, db>> /\ Foreign'
  BY DEF Fail, Release, disk, Foreign, Accounts, postVars, db
<1> QED
  BY <1>1, KeepingAccounts DEF Keeps, db, Sane, PostTypeOK

LEMMA InitAccounts == PostInit => Accounts
BY DEF PostInit, Accounts, NothingUnaccounted, OwnerIsOnRecord, Foreign

\* run() in the parts the proofs tell apart.
LEMMA RunSplit ==
    ASSUME NEW e \in Events, RunEvent(e)
    PROVE  \/ QuietStep(e) \/ Begin(e) \/ Found(e) \/ Stage(e) \/ Confirm(e) \/ Recheck(e)
           \/ Publish(e) \/ Published(e) \/ Unlink(e) \/ Unlinked(e) \/ Effect(e)
BY DEF RunEvent, Write, Cleanup, QuietStep

LEMMA NextAccounts ==
    ASSUME Sane, Accounts, [PostNext]_postVars
    PROVE  Accounts'
BY RunSplit, QuietAccounts, BeginAccounts, FoundAccounts, StageAccounts, LookAccounts,
   PublishAccounts, PublishedAccounts, UnlinkAccounts, UnlinkedAccounts, EffectAccounts,
   CloudAccounts, OutsideWriteAccounts, FailAccounts
   DEF PostNext

------------------------------------------------------------------------------
(* What is replaced or deleted.                                            *)

LEMMA SameCareful ==
    ASSUME Careful, UNCHANGED <<lost, late>>, step' \notin {"publish", "unlink"}
    PROVE  Careful'
BY DEF Careful, OnlyLateWritesAreLost, Guarded

LEMMA RunCareful ==
    ASSUME Sane, Careful, NEW e \in Events, RunEvent(e)
    PROVE  Careful'
<1>1. CASE QuietStep(e) /\ ~Reread(e)
  <2>1. step' # "unlink"
    BY <1>1 DEF QuietStep, Size, Check, NextWrite, NextDelete, NoOperationLeft, Rejected,
           Output, Delete, Gone, Still, Directories, EffectCheck, EffectOutput, EffectDone,
           Finish, RequireCurrent, RequireOutput, Supersede, Skip, Goto, Release
  <2> QED
    BY <1>1, <2>1, QuietShape, SameCareful DEF Running
<1>2. CASE Reread(e)
  <2>1. lock = e /\ step = "reread" /\ UNCHANGED <<file, lost, late>> /\ step' # "publish"
        /\ seen \in {None, mem.oldBefore}
    BY <1>2 DEF Reread, At, disk, Running, Goto, Skip, Sane, Placed
  <2>2. step' = "unlink" => file[Source[e]] = seen /\ UNCHANGED <<mem, lock>>
    BY <1>2 DEF Reread, Goto, Skip
  <2> QED
    BY <2>1, <2>2 DEF Careful, OnlyLateWritesAreLost, Guarded
<1>3. CASE Begin(e) \/ Found(e) \/ Stage(e) \/ Confirm(e) \/ Published(e) \/ Unlinked(e)
           \/ Effect(e)
  BY <1>3, SameCareful
     DEF Begin, Resume, Found, Stage, Confirm, Discard, Published, Unlinked, Effect, Running,
         Goto, Supersede, Release
<1>4. CASE Recheck(e)
  BY <1>4 DEF Recheck, At, Goto, Discard, Running, disk, Careful, OnlyLateWritesAreLost,
          Guarded
<1>5. CASE Publish(e)
  <2>1. /\ lock = e /\ step = "publish" /\ step' = "published" /\ late' = late
        /\ lost' = lost \union ({file[Target[e]]} \ {mem.before, None})
    BY <1>5 DEF Publish, At, Goto, Running, Losing
  <2> QED
    BY <2>1 DEF Careful, OnlyLateWritesAreLost, Guarded
<1>6. CASE Unlink(e)
  <2>1. /\ lock = e /\ step = "unlink" /\ step' \in {"unlinked", "free"} /\ late' = late
        /\ \/ lost' = lost \union ({file[Source[e]]} \ {mem.oldBefore, None})
           \/ lost' = lost
    BY <1>6 DEF Unlink, At, Goto, Running, Losing, Release
  <2> QED
    BY <2>1 DEF Careful, OnlyLateWritesAreLost, Guarded
<1> QED
  BY <1>1, <1>2, <1>3, <1>4, <1>5, <1>6, RunSplit

\* A write between the last look and the system call is one of the late ones.
LEMMA OutsideWriteCareful ==
    ASSUME Sane, Careful, NEW p \in Paths, OutsideWrite(p)
    PROVE  Careful'
<1>1. UNCHANGED <<lost, local>> /\ late \subseteq late'
  BY DEF OutsideWrite
<1>2. \A q \in Paths : \/ file'[q] = file[q] \/ file'[q] = None
                       \/ InWindow(q) => file'[q] \in late'
  BY DEF OutsideWrite, Sane, PostTypeOK, WorldTypeOK
<1>3. step = "publish" => Target[lock] \in Paths /\ InWindow(Target[lock])
  BY EventAssumption, NoneAssumption DEF InWindow, Sane, Loaded, PostTypeOK, RunTypeOK
<1>4. step = "unlink" => Source[lock] \in Paths /\ InWindow(Source[lock])
  BY EventAssumption, NoneAssumption
     DEF InWindow, Sane, Loaded, Placed, Cleaning, Coherent, PostTypeOK, RunTypeOK
<1> QED
  BY <1>1, <1>2, <1>3, <1>4 DEF Careful, OnlyLateWritesAreLost, Guarded, local

LEMMA NextCareful ==
    ASSUME Sane, Careful, [PostNext]_postVars
    PROVE  Careful'
<1>1. CASE \E e \in Events : Transfer(e)
  BY <1>1 DEF Transfer, disk, local, Careful, OnlyLateWritesAreLost, Guarded
<1>2. CASE \E p \in Paths : CloudRemove(p) \/ CloudRestore(p)
  BY <1>2 DEF CloudRemove, CloudRestore, disk, local, Careful, OnlyLateWritesAreLost, Guarded
<1>3. CASE \E e \in Events : RetrySuperseded(e)
  BY <1>3, SameCareful DEF RetrySuperseded, Running
<1>4. CASE Fail
  BY <1>4, SameCareful DEF Fail, Release
<1>5. CASE UNCHANGED postVars
  BY <1>5 DEF postVars, Careful, OnlyLateWritesAreLost, Guarded
<1> QED
  BY <1>1, <1>2, <1>3, <1>4, <1>5, RunCareful, OutsideWriteCareful DEF PostNext

LEMMA InitCareful == PostInit => Careful
BY DEF PostInit, Careful, OnlyLateWritesAreLost, Guarded
------------------------------------------------------------------------------
(* Effects.                                                                *)

\* What run() leaves of the effects of the other events, and how it ends.
LEMMA SaveEffective ==
    ASSUME Sane, Effective, NEW e \in Events, NEW plan \in Plans, NEW state \in States,
           Save(e, plan, state), UNCHANGED ran,
           plan.effects \subseteq ran[e],
           ran[e] # {} => plan.written,
           state = "done" => ran[e] = Effects,
           lock' # None => mem'.effects \subseteq ran[lock']
    PROVE  Effective'
<1>1. /\ store'[e] # None /\ store'[e].state = state /\ store'[e].plan = plan
      /\ \A f \in Events : f # e => store'[f] = store[f]
  BY SaveFacts DEF Sane
<1>2. EffectsFollowFile'
  BY <1>1 DEF Effective, EffectsFollowFile
<1>3. Noted'
  BY <1>1 DEF Effective, Noted
<1> QED
  BY <1>2, <1>3 DEF Effective

LEMMA SameEffective ==
    ASSUME Effective, UNCHANGED <<ran, store>>,
           lock' # None => mem'.effects \subseteq ran[lock']
    PROVE  Effective'
BY DEF Effective, EffectsFollowFile, Noted

LEMMA ProgressEffective ==
    ASSUME Sane, Effective, NEW e \in Events, lock = e, NEW state \in {"pending", "superseded"},
           NEW plan \in {mem, [mem EXCEPT !.sized = TRUE], [mem EXCEPT !.written = TRUE],
                         [mem EXCEPT !.cleaned = TRUE]},
           Save(e, plan, state), UNCHANGED ran,
           lock' = None \/ (lock' = e /\ mem' = plan)
    PROVE  Effective'
<1>1. /\ mem \in Plans /\ e # None /\ store[e] # None /\ store[e].plan.written = mem.written
  BY PlanInHand DEF Sane, Loaded, Plans
<1>2. /\ plan \in Plans /\ plan.effects = mem.effects
      /\ mem.written => plan.written
  BY <1>1 DEF Plans
<1>3. /\ mem.effects \subseteq ran[e]
      /\ ran[e] # {} => mem.written
  BY <1>1 DEF Effective, EffectsFollowFile, Noted
<1>4. state \in States /\ state # "done"
  BY DEF States
<1> QED
  BY <1>1, <1>2, <1>3, <1>4, SaveEffective

LEMMA RunEffective ==
    ASSUME Sane, Effective, NEW e \in Events, RunEvent(e)
    PROVE  Effective'
<1>1. lock = e => e # None /\ mem.effects \subseteq ran[e]
  BY NoneAssumption DEF Effective, Noted
<1>2. ASSUME NEW label, NEW next, RequireCurrent(e, label, next) \/ RequireOutput(e, label, next)
      PROVE  Effective'
  BY <1>1, <1>2, ProgressEffective, SameEffective
     DEF RequireCurrent, RequireOutput, At, Supersede, Goto, Release
<1>3. CASE Check(e) \/ NextWrite(e) \/ NextDelete(e) \/ Output(e) \/ EffectCheck(e)
           \/ EffectOutput(e)
  BY <1>2, <1>3 DEF Check, NextWrite, NextDelete, Output, EffectCheck, EffectOutput
<1>4. CASE NoOperationLeft(e) \/ Still(e) \/ Confirm(e) \/ Recheck(e) \/ Publish(e) \/ Unlink(e)
  BY <1>1, <1>4, SameEffective
     DEF NoOperationLeft, Still, Confirm, Recheck, Publish, Unlink, At, Goto, Release, Discard, db
<1>5. CASE Size(e) \/ Rejected(e)
  BY <1>5, ProgressEffective
     DEF Size, Rejected, At, Supersede, Checkpoint, Goto, Release
<1>6. CASE Found(e) \/ Published(e)
  BY <1>1, <1>6, ProgressEffective, SameEffective
     DEF Found, Published, At, CompleteFile, Supersede, Checkpoint, Goto, Release, db
<1>7. CASE Delete(e) \/ Gone(e) \/ Reread(e) \/ Unlinked(e)
  BY <1>1, <1>7, ProgressEffective, SameEffective
     DEF Delete, Gone, Reread, Unlinked, At, Skip, CompleteFile, Checkpoint, Goto
<1>8. CASE Directories(e)
  BY <1>1, <1>2, <1>8, SameEffective DEF Directories, At, Goto, db
<1>9. CASE Stage(e)
  <2> DEFINE plan == [mem EXCEPT !.prepared = [by |-> e, n |-> made[e] + 1]]
  <2>1. lock = e /\ Checkpoint(e, plan) /\ Goto("confirm") /\ UNCHANGED ran
        /\ step = "stage"
    BY <1>9 DEF Stage, At
  <2>2. mem \in Plans /\ store[e] # None /\ store[e].plan = mem
        /\ [by |-> e, n |-> made[e] + 1] \in Stamps
    BY <2>1, PlanInHand DEF Stamps, Sane, PostTypeOK, WorldTypeOK
  <2>3. plan \in Plans /\ plan.effects = mem.effects /\ plan.written = mem.written
    BY <2>2 DEF Plans
  <2>4. ran[e] # {} => mem.written
    BY <2>2 DEF Effective, EffectsFollowFile
  <2> QED
    BY <1>1, <2>1, <2>2, <2>3, <2>4, SaveEffective DEF Checkpoint, Goto, States
<1>10. CASE Effect(e)
  <2>1. PICK x \in Effects \ mem.effects :
            /\ ran' = [ran EXCEPT ![e] = @ \union {x}]
            /\ mem' = [mem EXCEPT !.effects = @ \union {x}]
    BY <1>10 DEF Effect
  <2>2. lock = e /\ lock' = e /\ UNCHANGED store /\ step = "effect"
    BY <1>10 DEF Effect, At, Goto, db
  <2>3. mem \in Plans /\ store[e] # None /\ store[e].plan = mem /\ mem.written
        /\ store[e].state = "pending"
    BY <2>2, PlanInHand DEF Sane, Placed, Closing
  <2>4. ran'[e] = ran[e] \union {x} /\ mem'.effects = mem.effects \union {x}
        /\ \A f \in Events : f # e => ran'[f] = ran[f]
    BY <2>1, <2>3 DEF Plans, Sane, PostTypeOK, WorldTypeOK
  <2>5. EffectsFollowFile'
    BY <2>2, <2>3, <2>4 DEF Effective, EffectsFollowFile
  <2>6. Noted'
    BY <1>1, <2>2, <2>4 DEF Effective, Noted
  <2> QED
    BY <2>5, <2>6 DEF Effective
<1>11. CASE EffectDone(e) \/ Finish(e)
  <2>1. lock = e /\ step \in {"effectDone", "effects"} /\ UNCHANGED ran
    BY <1>11 DEF EffectDone, Finish, At
  <2>2. mem \in Plans /\ mem.written
    BY <2>1, PlanInHand DEF Sane, Placed, Closing
  <2>3. CASE EffectDone(e)
    BY <1>1, <2>1, <2>2, <2>3, SaveEffective DEF EffectDone, Checkpoint, Goto, States
  <2>4. CASE Finish(e)
    <3>1. ran[e] = Effects
      BY <1>1, <2>1, <2>4 DEF Finish, Sane, PostTypeOK, WorldTypeOK
    <3> QED
      BY <1>1, <2>1, <2>2, <2>4, <3>1, SaveEffective DEF Finish, Release, States
  <2> QED
    BY <1>11, <2>3, <2>4
<1>12. CASE Begin(e)
  <2>1. UNCHANGED ran /\ lock' = e
    BY <1>12 DEF Begin
  <2>2. CASE store[e] = None /\ Checkpoint(e, Build(e))
    <3>1. Build(e) \in Plans /\ Build(e).effects = {} /\ ran[e] = {}
      BY <2>2, BuildIsPlan DEF Build, Effective, EffectsFollowFile, Sane
    <3> QED
      BY <2>1, <2>2, <3>1, SaveEffective DEF Checkpoint, States
  <2>3. CASE store[e] # None /\ mem' = store[e].plan /\ UNCHANGED store
    BY <2>1, <2>3, SameEffective DEF Effective, EffectsFollowFile
  <2> QED
    BY <1>12, <2>2, <2>3 DEF Begin
<1> QED
  BY <1>3, <1>4, <1>5, <1>6, <1>7, <1>8, <1>9, <1>10, <1>11, <1>12, RunSplit DEF QuietStep

LEMMA RetryEffective ==
    ASSUME Sane, Effective, NEW e \in Events, RetrySuperseded(e)
    PROVE  Effective'
<1> DEFINE plan == [store[e].plan EXCEPT !.sized = TRUE]
<1>1. store[e] # None /\ store[e].plan \in Plans /\ lock' = e /\ Checkpoint(e, plan)
      /\ UNCHANGED ran
  BY Looks DEF RetrySuperseded, Sane
<1>2. plan \in Plans /\ plan.effects = store[e].plan.effects
      /\ plan.written = store[e].plan.written
  BY <1>1 DEF Plans
<1>3. /\ store[e].plan.effects \subseteq ran[e]
      /\ ran[e] # {} => store[e].plan.written
  BY <1>1 DEF Effective, EffectsFollowFile
<1> QED
  BY <1>1, <1>2, <1>3, SaveEffective DEF Checkpoint, States

LEMMA NextEffective ==
    ASSUME Sane, Effective, [PostNext]_postVars
    PROVE  Effective'
<1>1. CASE \E e \in Events : Transfer(e)
  BY <1>1, SameEffective DEF Transfer, db, local, Effective, Noted
<1>2. CASE \E p \in Paths : CloudRemove(p) \/ CloudRestore(p) \/ OutsideWrite(p)
  BY <1>2, SameEffective DEF CloudRemove, CloudRestore, OutsideWrite, db, local, Effective, Noted
<1>3. CASE Fail
  BY <1>3, SameEffective DEF Fail, Release, db
<1>4. CASE UNCHANGED postVars
  BY <1>4, SameEffective DEF postVars, Effective, Noted
<1> QED
  BY <1>1, <1>2, <1>3, <1>4, RunEffective, RetryEffective DEF PostNext

LEMMA InitEffective == PostInit => Effective
BY DEF PostInit, Effective, EffectsFollowFile, Noted

------------------------------------------------------------------------------
(* The library follows the cloud.                                          *)

\* A path is on its way as long as its cloud file stays and nobody takes up the event.
LEMMA FreshKept ==
    ASSUME NEW p \in Paths, Fresh(p), cloud'[p] = cloud[p], happened \subseteq happened',
           \A x \in happened : store[x] = None => store'[x] = None
    PROVE  Fresh(p)'
BY DEF Fresh

\* A step of the event that runs: what matters of a path is as before, or the path is
\* served, or a newer event is out.
LEMMA StepFate ==
    ASSUME Sane, Fate, NEW e \in Events, lock = e, lock' \in {e, None},
           UNCHANGED <<cloud, happened, touched, removed>>,
           store'[e] # None, \A f \in Events : f # e => store'[f] = store[f],
           \A q \in Ours : \/ file'[q] = file[q] /\ owner'[q] = owner[q]
                           \/ Fresh(q) \/ Served(q)',
           \A q \in Ours : Coming(e, q) => Coming(e, q)' \/ Fresh(q) \/ Served(q)',
           \A q \in Ours : Leaving(e, q) => Leaving(e, q)' \/ Fresh(q) \/ Served(q)'
    PROVE  Fate'
<1> SUFFICES ASSUME NEW q \in Ours
             PROVE  \/ Fresh(q)' \/ Served(q)'
                    \/ \E x \in happened' : Coming(x, q)' \/ Leaving(x, q)'
  BY DEF Fate, Ours
<1>1. q \in Paths /\ store[e] # None /\ happened \subseteq Events
  BY PlanInHand DEF Ours, Sane, PostTypeOK, WorldTypeOK
<1>2. CASE Fresh(q)
  <2>1. \A x \in happened : store[x] = None => store'[x] = None
    BY <1>1
  <2> QED
    BY <1>1, <1>2, <2>1, FreshKept
<1>3. CASE ~Fresh(q) /\ ~Served(q)'
  <2>1. file'[q] = file[q] /\ owner'[q] = owner[q]
    BY <1>3
  <2>2. ~Served(q)
    BY <1>3, <2>1 DEF Served
  <2>3. PICK x \in happened : Coming(x, q) \/ Leaving(x, q)
    BY <1>3, <2>2 DEF Fate
  <2>4. CASE x = e
    BY <1>3, <2>3, <2>4
  <2>5. CASE x # e
    <3>1. store'[x] = store[x] /\ lock' # x
      BY <1>1, <2>5, NoneAssumption
    <3> QED
      BY <2>1, <2>3, <3>1 DEF Coming, Leaving, AsPlanned
  <2> QED
    BY <2>4, <2>5
<1> QED
  BY <1>2, <1>3

\* The plan in memory tells whether the event that runs is coming or leaving.
LEMMA OwnEntry ==
    ASSUME Sane, NEW e \in Events, lock = e, NEW q
    PROVE  /\ mem \in Plans /\ store[e] # None /\ store[e].state = "pending"
           /\ store[e].plan.written = mem.written /\ store[e].plan.before = mem.before
           /\ store[e].plan.owner = mem.owner
           /\ store[e].plan.cleans = mem.cleans /\ store[e].plan.cleaned = mem.cleaned
           /\ store[e].plan.oldBefore = mem.oldBefore
           /\ store[e].plan.oldOwner = mem.oldOwner
           /\ Coming(e, q) =>
                 /\ q = Target[e] /\ Matches(e) /\ ~mem.written /\ AsPlanned(e, mem)
                 /\ step \notin {"size", "rejected", "published"} => IsCurrent(e)
                 /\ step \notin {"rejected", "published"}
           /\ Leaving(e, q) =>
                 /\ q = Source[e] /\ cloud[q] = None /\ mem.cleans /\ ~mem.cleaned
                 /\ file[q] = mem.oldBefore /\ owner[q] = mem.oldOwner
<1>1. /\ mem \in Plans /\ store[e] # None /\ store[e].state = "pending"
      /\ \/ store[e].plan = mem
         \/ store[e].plan = [mem EXCEPT !.effects = store[e].plan.effects]
  BY PlanInHand DEF Sane, Loaded
<1>2. /\ store[e].plan.written = mem.written /\ store[e].plan.before = mem.before
      /\ store[e].plan.owner = mem.owner
      /\ store[e].plan.cleans = mem.cleans /\ store[e].plan.cleaned = mem.cleaned
      /\ store[e].plan.oldBefore = mem.oldBefore
      /\ store[e].plan.oldOwner = mem.oldOwner
  BY <1>1 DEF Plans
<1>3. step \notin {"free", "size"} => mem.sized
  BY DEF Sane, Placed
<1>4. step # "free"
  BY NoneAssumption DEF Sane, Loaded
<1> QED
  BY <1>1, <1>2, <1>3, <1>4 DEF Coming, Leaving, AsPlanned, Matches, IsCurrent

\* Where the cloud, the file and the owner of a path stay, an entry that stays is coming
\* or leaving as before.
LEMMA EntryKept ==
    ASSUME NEW x \in Events, NEW q \in Paths, cloud'[q] = cloud[q], file'[q] = file[q],
           owner'[q] = owner[q], store'[x] = store[x]
    PROVE  /\ Coming(x, q) /\ (lock' = x => step' \notin {"rejected", "published"})
              => Coming(x, q)'
           /\ Leaving(x, q) => Leaving(x, q)'
BY DEF Coming, Leaving, AsPlanned

\* Saving a plan that froze the same files and owners, with what was done so far.
LEMMA SaveFate ==
    ASSUME Sane, NEW e \in Events, lock = e, NEW plan \in Plans, NEW state \in States,
           Save(e, plan, state), NEW q \in Paths,
           cloud'[q] = cloud[q], file'[q] = file[q], owner'[q] = owner[q],
           plan.before = mem.before, plan.owner = mem.owner, plan.cleans = mem.cleans,
           plan.oldBefore = mem.oldBefore, plan.oldOwner = mem.oldOwner
    PROVE  /\ /\ Coming(e, q) /\ ~plan.written /\ state = "pending"
              /\ lock' = e => step' \notin {"rejected", "published"}
              => Coming(e, q)'
           /\ Leaving(e, q) /\ ~plan.cleaned /\ state # "done" => Leaving(e, q)'
<1>1. store'[e] # None /\ store'[e].state = state /\ store'[e].plan = plan
  BY SaveFacts DEF Sane
<1>2. /\ store[e].plan.before = mem.before
      /\ store[e].plan.owner = mem.owner
      /\ store[e].plan.oldBefore = mem.oldBefore
      /\ store[e].plan.oldOwner = mem.oldOwner /\ store[e].plan.cleans = mem.cleans
  BY OwnEntry
<1> QED
  BY <1>1, <1>2 DEF Coming, Leaving, AsPlanned

\* Fields that progress leaves alone.
LEMMA ProgressFields ==
    ASSUME NEW old \in Plans, NEW stamp,
           NEW plan \in {old, [old EXCEPT !.sized = TRUE], [old EXCEPT !.written = TRUE],
                         [old EXCEPT !.cleaned = TRUE], [old EXCEPT !.prepared = stamp]}
    PROVE  /\ plan.before = old.before /\ plan.owner = old.owner /\ plan.cleans = old.cleans
           /\ plan.oldBefore = old.oldBefore /\ plan.oldOwner = old.oldOwner
           /\ plan.written = old.written \/ plan = [old EXCEPT !.written = TRUE]
           /\ plan.cleaned = old.cleaned \/ plan = [old EXCEPT !.cleaned = TRUE]
BY DEF Plans

\* Checks and bookkeeping end neither.
LEMMA QuietComing ==
    ASSUME Sane, NEW e \in Events, QuietStep(e), NEW q \in Paths, Coming(e, q)
    PROVE  Coming(e, q)'
<1>1. /\ lock = e /\ UNCHANGED <<cloud, file, owner>> /\ lock' \in {e, None}
  BY QuietShape DEF QuietStep, Size, Check, NextWrite, NextDelete, NoOperationLeft, Rejected,
           Output, Delete, Gone, Still, Reread, Directories, EffectCheck, EffectOutput,
           EffectDone, Finish, RequireCurrent, RequireOutput, Supersede, Skip, Goto, Release,
           Running, outer, disk
<1>2. /\ mem \in Plans /\ Matches(e) /\ ~mem.written
      /\ step # "size" => IsCurrent(e)
      /\ step \notin {"rejected", "published"}
  BY <1>1, OwnEntry
<1>3. step \notin Cleaning \union Closing
  BY <1>2 DEF Sane, Placed
<1>4. CASE Size(e)
  <2> DEFINE plan == [mem EXCEPT !.sized = TRUE]
  <2>1. Save(e, plan, "pending") /\ step' = "check" /\ "pending" \in States
    BY <1>2, <1>4 DEF Size, Checkpoint, Goto, States
  <2>2. plan \in Plans /\ ~plan.written
    BY <1>2 DEF Plans
  <2> QED
    BY <1>1, <1>2, <2>1, <2>2, ProgressFields, SaveFate
<1>5. CASE Check(e) \/ NextWrite(e) \/ NextDelete(e)
  BY <1>1, <1>2, <1>5, EntryKept DEF Check, NextWrite, NextDelete, RequireCurrent, At, Goto
<1>6. ~Output(e) /\ ~Delete(e) /\ ~Gone(e) /\ ~Still(e) /\ ~Reread(e)
  BY <1>3 DEF Output, RequireOutput, Delete, Gone, Still, Reread, At, Cleaning
<1>7. ~Directories(e) /\ ~EffectCheck(e) /\ ~EffectOutput(e) /\ ~EffectDone(e) /\ ~Finish(e)
  BY <1>3 DEF Directories, EffectCheck, EffectOutput, RequireOutput, EffectDone, Finish, At,
              Closing
<1>8. ~NoOperationLeft(e) /\ ~Rejected(e)
  BY <1>2 DEF NoOperationLeft, Rejected, At
<1> QED
  BY <1>4, <1>5, <1>6, <1>7, <1>8 DEF QuietStep

LEMMA QuietLeaving ==
    ASSUME Sane, Held, NEW e \in Events, QuietStep(e), NEW q \in Ours, Leaving(e, q)
    PROVE  Leaving(e, q)'
<1>1. /\ lock = e /\ UNCHANGED <<cloud, file, owner>> /\ lock' \in {e, None}
  BY QuietShape DEF QuietStep, Size, Check, NextWrite, NextDelete, NoOperationLeft, Rejected,
           Output, Delete, Gone, Still, Reread, Directories, EffectCheck, EffectOutput,
           EffectDone, Finish, RequireCurrent, RequireOutput, Supersede, Skip, Goto, Release,
           Running, outer, disk
<1>2. /\ q \in Paths /\ mem \in Plans /\ q = Source[e] /\ cloud[q] = None
      /\ mem.cleans /\ ~mem.cleaned
      /\ file[q] = mem.oldBefore /\ owner[q] = mem.oldOwner
  BY <1>1, OwnEntry DEF Ours
<1>3. step \notin Closing
  BY <1>2 DEF Sane, Placed
<1>4. ASSUME NEW state \in {"pending", "superseded"},
             NEW plan \in {mem, [mem EXCEPT !.sized = TRUE]}, Save(e, plan, state)
      PROVE  Leaving(e, q)'
  <2>1. plan \in Plans /\ ~plan.cleaned /\ state \in States /\ state # "done"
    BY <1>2 DEF Plans, States
  <2>2. /\ plan.before = mem.before /\ plan.owner = mem.owner /\ plan.cleans = mem.cleans
        /\ plan.oldBefore = mem.oldBefore /\ plan.oldOwner = mem.oldOwner
    BY <1>2 DEF Plans
  <2> QED
    BY <1>1, <1>2, <1>4, <2>1, <2>2, SaveFate
<1>5. CASE UNCHANGED store
  BY <1>1, <1>2, <1>5, EntryKept
<1>6. CASE Size(e) \/ Check(e) \/ NextWrite(e) \/ NextDelete(e) \/ Rejected(e) \/ Output(e)
  BY <1>4, <1>5, <1>6 DEF Size, Check, NextWrite, NextDelete, Rejected, Output, RequireCurrent,
                          RequireOutput, Checkpoint, Supersede
<1>7. CASE NoOperationLeft(e) \/ Still(e)
  BY <1>5, <1>7 DEF NoOperationLeft, Still, db
<1>8. CASE Delete(e) \/ Gone(e)
  BY <1>2, <1>5, <1>8 DEF Delete, Gone
<1>9. CASE Reread(e)
  BY <1>1, <1>2, <1>5, <1>9 DEF Reread, At, Held
<1>10. ~Directories(e) /\ ~EffectCheck(e) /\ ~EffectOutput(e) /\ ~EffectDone(e) /\ ~Finish(e)
  BY <1>3 DEF Directories, EffectCheck, EffectOutput, RequireOutput, EffectDone, Finish, At,
              Closing
<1> QED
  BY <1>6, <1>7, <1>8, <1>9, <1>10 DEF QuietStep

\* Other entries stay, and an entry that was made stays made.
LEMMA OtherEntries ==
    ASSUME Sane, NEW e \in Events, lock = e,
           \/ UNCHANGED store
           \/ \E plan \in Plans, state \in States : Save(e, plan, state)
    PROVE  store'[e] # None /\ \A f \in Events : f # e => store'[f] = store[f]
BY PlanInHand, SaveFacts DEF Sane

LEMMA QuietFate ==
    ASSUME Sane, Faithful, NEW e \in Events, QuietStep(e)
    PROVE  Fate'
<1>1. /\ lock = e /\ UNCHANGED <<cloud, happened, touched, removed, file, owner>>
      /\ lock' \in {e, None}
  BY QuietShape DEF QuietStep, Size, Check, NextWrite, NextDelete, NoOperationLeft, Rejected,
           Output, Delete, Gone, Still, Reread, Directories, EffectCheck, EffectOutput,
           EffectDone, Finish, RequireCurrent, RequireOutput, Supersede, Skip, Goto, Release,
           Running, outer, disk
<1>2. mem \in Plans
  BY <1>1, PlanInHand
<1>3. store'[e] # None /\ \A f \in Events : f # e => store'[f] = store[f]
  <2>1. /\ mem \in Plans /\ [mem EXCEPT !.sized = TRUE] \in Plans
        /\ [mem EXCEPT !.cleaned = TRUE] \in Plans
    BY <1>2 DEF Plans
  <2>2. \/ UNCHANGED store
        \/ \E plan \in Plans, state \in States : Save(e, plan, state)
    BY <2>1, QuietShape
  <2> QED
    BY <1>1, <2>2, OtherEntries
<1>4. \A q \in Ours : Coming(e, q) => Coming(e, q)'
  BY QuietComing DEF Ours
<1>5. \A q \in Ours : Leaving(e, q) => Leaving(e, q)'
  BY QuietLeaving DEF Faithful
<1> QED
  BY <1>1, <1>3, <1>4, <1>5, StepFate DEF Faithful

LEMMA FoundFate ==
    ASSUME Sane, Faithful, NEW e \in Events, Found(e)
    PROVE  Fate'
<1>1. /\ lock = e /\ step = "write" /\ UNCHANGED <<cloud, happened, touched, removed, file>>
      /\ lock' \in {e, None}
  BY DEF Found, At, Goto, Supersede, Release, Running, outer, disk
<1>2. mem \in Plans /\ Coherent(e, mem) /\ store[e] # None /\ ~mem.written
  BY <1>1, PlanInHand DEF Sane, Placed, Writing
<1>3. {"pending", "superseded"} \subseteq States
  BY DEF States
<1>4. CASE /\ mem.prepared # None /\ file[Target[e]] = mem.prepared
           /\ CompleteFile(e, Target[e], file[Target[e]], [mem EXCEPT !.written = TRUE])
           /\ Goto("next")
  <2> DEFINE plan == [mem EXCEPT !.written = TRUE]
  <2>1. plan \in Plans /\ plan.cleaned = mem.cleaned /\ Save(e, plan, "pending")
    BY <1>2, <1>4 DEF Plans, CompleteFile, Checkpoint
  <2>2. /\ plan.before = mem.before /\ plan.owner = mem.owner /\ plan.cleans = mem.cleans
        /\ plan.oldBefore = mem.oldBefore /\ plan.oldOwner = mem.oldOwner
    BY <1>2 DEF Plans
  <2>3. store'[e] # None /\ \A f \in Events : f # e => store'[f] = store[f]
    BY <1>1, <1>3, <2>1, OtherEntries
  <2>4. ASSUME NEW q \in Ours, q = Target[e]
        PROVE  Fresh(q) \/ Served(q)'
    <3>1. cloud[q] = File[e] \/ Fresh(q)
      BY <1>1, <2>4 DEF Faithful, Checked, Writing
    <3>2. file[q] # None /\ file[q].by = e /\ e # Outside /\ File[e] # None
      BY <1>2, <1>4, <2>4, EventAssumption, NoneAssumption, OutsideAssumption DEF Coherent
    <3> QED
      BY <1>1, <3>1, <3>2 DEF Served
  <2>5. \A q \in Ours : q # Target[e] => owner'[q] = owner[q]
    BY <1>4 DEF CompleteFile, Ours, Sane, PostTypeOK, WorldTypeOK
  <2>6. ASSUME NEW q \in Ours, Coming(e, q)
        PROVE  Fresh(q) \/ Served(q)'
    BY <1>1, <2>4, <2>6, OwnEntry
  <2>7. ASSUME NEW q \in Ours, Leaving(e, q)
        PROVE  Leaving(e, q)' \/ Fresh(q) \/ Served(q)'
    <3>1. q \in Paths /\ ~mem.cleaned
      BY <1>1, <2>7, OwnEntry DEF Ours
    <3> QED
      BY <1>1, <1>3, <2>1, <2>2, <2>4, <2>5, <2>7, <3>1, SaveFate
  <2> QED
    BY <1>1, <2>3, <2>4, <2>5, <2>6, <2>7, StepFate DEF Faithful
<1>5. CASE /\ UNCHANGED db
           /\ Goto(IF mem.prepared = None \/ staged[e] # mem.prepared
                   THEN "stage" ELSE "confirm")
  <2>1. UNCHANGED <<owner, store>> /\ step' \notin {"rejected", "published"}
    BY <1>5 DEF db, Goto
  <2>2. \A q \in Ours : /\ Coming(e, q) => Coming(e, q)'
                        /\ Leaving(e, q) => Leaving(e, q)'
    BY <1>1, <2>1, EntryKept DEF Ours
  <2> QED
    BY <1>1, <1>2, <2>1, <2>2, StepFate DEF Faithful
<1>6. CASE ~AsPlanned(e, mem) /\ Supersede(e) /\ UNCHANGED owner
  <2>1. Save(e, mem, "superseded")
    BY <1>6 DEF Supersede
  <2>2. store'[e] # None /\ \A f \in Events : f # e => store'[f] = store[f]
    BY <1>1, <1>2, <1>3, <2>1, OtherEntries
  <2>3. \A q \in Ours : ~Coming(e, q)
    BY <1>1, <1>6, OwnEntry
  <2>4. \A q \in Ours : Leaving(e, q) => ~mem.cleaned
    BY <1>1, OwnEntry
  <2>5. \A q \in Ours : Leaving(e, q) => Leaving(e, q)'
    BY <1>1, <1>2, <1>3, <1>6, <2>1, <2>4, SaveFate DEF Ours
  <2> QED
    BY <1>1, <1>6, <2>2, <2>3, <2>5, StepFate DEF Faithful
<1> QED
  BY <1>4, <1>5, <1>6 DEF Found

LEMMA StageFate ==
    ASSUME Sane, Faithful, NEW e \in Events, Stage(e)
    PROVE  Fate'
<1> DEFINE new == [by |-> e, n |-> made[e] + 1]
           plan == [mem EXCEPT !.prepared = new]
<1>1. /\ lock = e /\ step = "stage" /\ lock' = e /\ step' = "confirm"
      /\ UNCHANGED <<cloud, happened, touched, removed, file, owner>>
      /\ Save(e, plan, "pending")
  BY DEF Stage, At, Goto, Checkpoint, Running, outer
<1>2. mem \in Plans /\ ~mem.written
  BY <1>1, PlanInHand DEF Sane, Placed, Writing
<1>3. /\ plan \in Plans /\ plan.written = mem.written /\ plan.cleaned = mem.cleaned
      /\ plan.before = mem.before /\ plan.owner = mem.owner /\ plan.cleans = mem.cleans
      /\ plan.oldBefore = mem.oldBefore /\ plan.oldOwner = mem.oldOwner
  <2>1. new \in Stamps
    BY DEF Stamps, Sane, PostTypeOK, WorldTypeOK
  <2> QED
    BY <1>2, <2>1 DEF Plans
<1>4. "pending" \in States
  BY DEF States
<1>5. store'[e] # None /\ \A f \in Events : f # e => store'[f] = store[f]
  BY <1>1, <1>3, <1>4, OtherEntries
<1>6. \A q \in Ours : Leaving(e, q) => ~mem.cleaned
  BY <1>1, OwnEntry
<1>7. \A q \in Ours : /\ Coming(e, q) => Coming(e, q)'
                      /\ Leaving(e, q) => Leaving(e, q)'
  BY <1>1, <1>2, <1>3, <1>4, <1>6, SaveFate DEF Ours
<1> QED
  BY <1>1, <1>5, <1>7, StepFate DEF Faithful

\* Whether the last looks are passed or not.
LEMMA LookFate ==
    ASSUME Sane, Faithful, NEW e \in Events, Confirm(e) \/ Recheck(e)
    PROVE  Fate'
<1>1. /\ lock = e /\ lock' = e
      /\ UNCHANGED <<cloud, happened, touched, removed, file, owner, store>>
  BY DEF Confirm, Recheck, At, Goto, Discard, Running, outer, disk, db
<1>2. ASSUME NEW q \in Ours, Coming(e, q)
      PROVE  step' \notin {"rejected", "published"}
  <2>1. /\ AsPlanned(e, mem)
        /\ step \notin {"size", "rejected", "published"} => IsCurrent(e)
    BY <1>1, <1>2, OwnEntry
  <2> QED
    BY <2>1 DEF Confirm, Recheck, At, Goto, AsPlanned
<1>3. \A q \in Ours : /\ Coming(e, q) => Coming(e, q)'
                      /\ Leaving(e, q) => Leaving(e, q)'
  BY <1>1, <1>2, EntryKept DEF Ours
<1>4. store'[e] # None
  BY <1>1, PlanInHand
<1> QED
  BY <1>1, <1>3, <1>4, StepFate DEF Faithful

LEMMA PublishFate ==
    ASSUME Sane, Faithful, NEW e \in Events, Publish(e)
    PROVE  Fate'
<1>1. /\ lock = e /\ lock' = e /\ step = "publish"
      /\ UNCHANGED <<cloud, happened, touched, removed, owner, store>>
      /\ file' = [file EXCEPT ![Target[e]] = staged[e]]
  BY DEF Publish, At, Goto, Running, outer, db
<1>2. staged[e] # None /\ staged[e].by = e /\ store[e] # None
  BY <1>1, PlanInHand DEF Sane, Placed, Signed
<1>3. ASSUME NEW q \in Ours, q = Target[e]
      PROVE  Fresh(q) \/ Served(q)'
  <2>1. cloud[q] = File[e] \/ Fresh(q)
    BY <1>1, <1>3 DEF Faithful, Checked, Writing
  <2>2. file'[q] = staged[e]
    BY <1>1, <1>3 DEF Ours, Sane, PostTypeOK, WorldTypeOK
  <2> QED
    BY <1>1, <1>2, <2>1, <2>2, EventAssumption, NoneAssumption, OutsideAssumption DEF Served
<1>4. \A q \in Ours : q # Target[e] => file'[q] = file[q]
  BY <1>1 DEF Ours, Sane, PostTypeOK, WorldTypeOK
<1>5. \A q \in Ours : Coming(e, q) => q = Target[e]
  BY <1>1, OwnEntry
<1>6. \A q \in Ours : Leaving(e, q) => Leaving(e, q)' \/ Fresh(q) \/ Served(q)'
  BY <1>1, <1>3, <1>4, EntryKept DEF Ours
<1> QED
  BY <1>1, <1>2, <1>3, <1>4, <1>5, <1>6, StepFate DEF Faithful

LEMMA PublishedFate ==
    ASSUME Sane, Faithful, NEW e \in Events, Published(e)
    PROVE  Fate'
<1>1. /\ lock = e /\ step = "published" /\ UNCHANGED <<cloud, happened, touched, removed, file>>
      /\ lock' \in {e, None}
  BY DEF Published, At, Goto, Supersede, Release, Running, outer, disk
<1>2. /\ mem \in Plans /\ Coherent(e, mem) /\ store[e] # None /\ ~mem.written
      /\ mem.prepared # None
  BY <1>1, PlanInHand DEF Sane, Placed, Writing
<1>3. {"pending", "superseded"} \subseteq States
  BY DEF States
<1>4. \A q \in Ours : ~Coming(e, q)
  BY <1>1, OwnEntry
<1>5. \A q \in Ours : Leaving(e, q) => ~mem.cleaned
  BY <1>1, OwnEntry
<1>6. CASE /\ file[Target[e]] = mem.prepared
           /\ CompleteFile(e, Target[e], mem.prepared, [mem EXCEPT !.written = TRUE])
           /\ Goto("next")
  <2> DEFINE plan == [mem EXCEPT !.written = TRUE]
  <2>1. plan \in Plans /\ plan.cleaned = mem.cleaned /\ Save(e, plan, "pending")
    BY <1>2, <1>6 DEF Plans, CompleteFile, Checkpoint
  <2>2. /\ plan.before = mem.before /\ plan.owner = mem.owner /\ plan.cleans = mem.cleans
        /\ plan.oldBefore = mem.oldBefore /\ plan.oldOwner = mem.oldOwner
    BY <1>2 DEF Plans
  <2>3. store'[e] # None /\ \A f \in Events : f # e => store'[f] = store[f]
    BY <1>1, <1>3, <2>1, OtherEntries
  <2>4. ASSUME NEW q \in Ours, q = Target[e]
        PROVE  Fresh(q) \/ Served(q)'
    <3>1. cloud[q] = File[e] \/ Fresh(q)
      BY <1>1, <2>4 DEF Faithful, Checked, Writing
    <3>2. file[q] # None /\ file[q].by = e /\ e # Outside /\ File[e] # None
      BY <1>2, <1>6, <2>4, EventAssumption, NoneAssumption, OutsideAssumption DEF Coherent
    <3> QED
      BY <1>1, <3>1, <3>2 DEF Served
  <2>5. \A q \in Ours : q # Target[e] => owner'[q] = owner[q]
    BY <1>6 DEF CompleteFile, Ours, Sane, PostTypeOK, WorldTypeOK
  <2>6. \A q \in Ours : Leaving(e, q) => Leaving(e, q)' \/ Fresh(q) \/ Served(q)'
    BY <1>1, <1>3, <1>5, <2>1, <2>2, <2>4, <2>5, SaveFate DEF Ours
  <2> QED
    BY <1>1, <1>4, <2>3, <2>4, <2>5, <2>6, StepFate DEF Faithful
<1>7. CASE Supersede(e) /\ UNCHANGED owner
  <2>1. Save(e, mem, "superseded")
    BY <1>7 DEF Supersede
  <2>2. store'[e] # None /\ \A f \in Events : f # e => store'[f] = store[f]
    BY <1>1, <1>2, <1>3, <2>1, OtherEntries
  <2>3. \A q \in Ours : Leaving(e, q) => Leaving(e, q)'
    BY <1>1, <1>2, <1>3, <1>5, <1>7, <2>1, SaveFate DEF Ours
  <2> QED
    BY <1>1, <1>4, <1>7, <2>2, <2>3, StepFate DEF Faithful
<1> QED
  BY <1>6, <1>7 DEF Published

\* An event that deletes has written its file.
LEMMA CleaningComesNot ==
    ASSUME Sane, NEW e \in Events, lock = e, step \in Cleaning \union Closing, NEW q
    PROVE  ~Coming(e, q)
BY OwnEntry DEF Sane, Placed

LEMMA UnlinkFate ==
    ASSUME Sane, Faithful, NEW e \in Events, Unlink(e)
    PROVE  Fate'
<1>1. /\ lock = e /\ lock' \in {e, None} /\ step = "unlink"
      /\ UNCHANGED <<cloud, happened, touched, removed, owner, store>>
      /\ file' \in {file, [file EXCEPT ![Source[e]] = None]}
  BY DEF Unlink, At, Goto, Release, Running, outer, db
<1>2. store[e] # None
  BY <1>1, PlanInHand
<1>3. \A q \in Ours : ~Coming(e, q)
  BY <1>1, CleaningComesNot DEF Cleaning
<1>4. ASSUME NEW q \in Ours, file'[q] # file[q]
      PROVE  Fresh(q) \/ Served(q)'
  <2>1. q = Source[e] /\ file'[q] = None
    BY <1>1, <1>4 DEF Ours, Sane, PostTypeOK, WorldTypeOK
  <2>2. cloud[q] = None \/ Fresh(q)
    BY <1>1, <1>4, <2>1 DEF Faithful, Checked
  <2> QED
    BY <1>1, <2>1, <2>2 DEF Served
<1>5. \A q \in Ours : Leaving(e, q) => Leaving(e, q)' \/ Fresh(q) \/ Served(q)'
  BY <1>1, <1>4, EntryKept DEF Ours
<1> QED
  BY <1>1, <1>2, <1>3, <1>4, <1>5, StepFate DEF Faithful

LEMMA UnlinkedFate ==
    ASSUME Sane, Faithful, NEW e \in Events, Unlinked(e)
    PROVE  Fate'
<1> DEFINE plan == [mem EXCEPT !.cleaned = TRUE]
<1>1. /\ lock = e /\ lock' = e /\ step = "unlinked"
      /\ UNCHANGED <<cloud, happened, touched, removed, file>>
      /\ owner' = [owner EXCEPT ![Source[e]] = [event |-> e, file |-> None]]
      /\ Save(e, plan, "pending")
  BY DEF Unlinked, At, CompleteFile, Checkpoint, Goto, Running, outer, disk
<1>2. mem \in Plans
  BY <1>1, PlanInHand
<1>3. plan \in Plans /\ "pending" \in States
  BY <1>2 DEF Plans, States
<1>4. store'[e] # None /\ \A f \in Events : f # e => store'[f] = store[f]
  BY <1>1, <1>3, OtherEntries
<1>5. \A q \in Ours : ~Coming(e, q)
  BY <1>1, CleaningComesNot DEF Cleaning
<1>6. ASSUME NEW q \in Ours, q = Source[e]
      PROVE  Fresh(q) \/ Served(q)'
  <2>1. file[q] = None
    BY <1>1, <1>6 DEF Faithful, Held
  <2>2. cloud[q] = None \/ Fresh(q)
    BY <1>1, <1>6 DEF Faithful, Checked
  <2> QED
    BY <1>1, <2>1, <2>2 DEF Served
<1>7. \A q \in Ours : q # Source[e] => owner'[q] = owner[q]
  BY <1>1 DEF Ours, Sane, PostTypeOK, WorldTypeOK
<1>8. \A q \in Ours : Leaving(e, q) => q = Source[e]
  BY <1>1, OwnEntry
<1> QED
  BY <1>1, <1>4, <1>5, <1>6, <1>7, <1>8, StepFate DEF Faithful

LEMMA EffectFate ==
    ASSUME Sane, Faithful, NEW e \in Events, Effect(e)
    PROVE  Fate'
<1>1. /\ lock = e /\ lock' = e /\ step = "effect"
      /\ UNCHANGED <<cloud, happened, touched, removed, file, owner, store>>
  BY DEF Effect, At, Goto, Running, outer, disk, db
<1>2. store[e] # None
  BY <1>1, PlanInHand
<1>3. \A q \in Ours : ~Coming(e, q)
  BY <1>1, CleaningComesNot DEF Closing
<1>4. \A q \in Ours : Leaving(e, q) => Leaving(e, q)'
  BY <1>1, EntryKept DEF Ours
<1> QED
  BY <1>1, <1>2, <1>3, <1>4, StepFate DEF Faithful

\* Taking up an event: its plan has in hand what made it fresh.
LEMMA BeginFate ==
    ASSUME Sane, Fate, NEW e \in Events, Begin(e)
    PROVE  Fate'
<1>1. /\ lock = None /\ lock' = e /\ e \in happened /\ e # None
      /\ UNCHANGED <<cloud, happened, touched, removed, file, owner>>
      /\ step' \in {"size", "check"}
  BY NoneAssumption DEF Begin, Running, outer, disk, Resume
<1>2. SUFFICES ASSUME NEW q \in Ours
               PROVE  \/ Fresh(q)' \/ Served(q)'
                      \/ \E x \in happened' : Coming(x, q)' \/ Leaving(x, q)'
  BY <1>1 DEF Fate, Ours
<1>3. q \in Paths /\ happened \subseteq Events
  BY DEF Ours, Sane, PostTypeOK, WorldTypeOK
<1>4. CASE UNCHANGED store
  <2>1. \A x \in happened : /\ Coming(x, q) => Coming(x, q)'
                            /\ Leaving(x, q) => Leaving(x, q)'
    BY <1>1, <1>3, <1>4, EntryKept
  <2> QED
    BY <1>1, <1>2, <1>3, <1>4, <2>1, FreshKept DEF Fate, Served
<1>5. CASE store[e] = None /\ Checkpoint(e, Build(e))
  <2> DEFINE plan == Build(e)
  <2>1. /\ store'[e] # None /\ store'[e].state = "pending" /\ store'[e].plan = plan
        /\ \A f \in Events : f # e => store'[f] = store[f]
    BY <1>5, BuildIsPlan, SaveFacts DEF Checkpoint, States, Sane
  <2>2. CASE Served(q)
    BY <1>1, <2>2 DEF Served
  <2>3. ASSUME NEW x \in happened, Coming(x, q) \/ Leaving(x, q)
        PROVE  Coming(x, q)' \/ Leaving(x, q)'
    <3>1. x # e
      BY <1>5, <2>3 DEF Coming, Leaving
    <3> QED
      BY <1>1, <1>3, <2>1, <2>3, <3>1, EntryKept
  <2>4. ASSUME NEW x \in happened, store[x] = None, x # e,
               IF cloud[q] = None THEN Source[x] = q ELSE Target[x] = q /\ File[x] = cloud[q]
        PROVE  Fresh(q)'
    BY <1>1, <1>3, <2>1, <2>4 DEF Fresh
  <2>5. CASE cloud[q] # None /\ Target[e] = q /\ File[e] = cloud[q]
    <3>1. ~plan.written /\ plan.before = file[q] /\ plan.owner = owner[q]
      BY <2>5 DEF Build
    <3>2. Coming(e, q)'
      BY <1>1, <2>1, <2>5, <3>1 DEF Coming, AsPlanned
    <3> QED
      BY <1>1, <3>2
  <2>6. CASE cloud[q] = None /\ Source[e] = q /\ file[q] # None
    <3>1. /\ plan.cleans /\ ~plan.cleaned
          /\ plan.oldBefore = file[q] /\ plan.oldOwner = owner[q]
      BY <1>3, <2>6, NoneAssumption DEF Build
    <3>2. Leaving(e, q)'
      BY <1>1, <2>1, <2>6, <3>1 DEF Leaving
    <3> QED
      BY <1>1, <3>2
  <2>7. CASE cloud[q] = None /\ file[q] = None
    BY <1>1, <2>7 DEF Served
  <2> QED
    BY <1>1, <2>2, <2>3, <2>4, <2>5, <2>6, <2>7 DEF Fate, Fresh
<1> QED
  BY <1>4, <1>5 DEF Begin

\* A superseded entry was not coming; it is leaving when revived if it was before.
LEMMA RetryFate ==
    ASSUME Sane, Fate, NEW e \in Events, RetrySuperseded(e)
    PROVE  Fate'
<1> DEFINE plan == [store[e].plan EXCEPT !.sized = TRUE]
<1>1. /\ lock = None /\ lock' = e /\ e # None /\ store[e] # None /\ step' = "check"
      /\ store[e].state = "superseded"
      /\ UNCHANGED <<cloud, happened, touched, removed, file, owner>>
      /\ Save(e, plan, "pending")
  BY NoneAssumption DEF RetrySuperseded, Checkpoint, Running, outer, disk
<1>2. SUFFICES ASSUME NEW q \in Ours
               PROVE  \/ Fresh(q)' \/ Served(q)'
                      \/ \E x \in happened' : Coming(x, q)' \/ Leaving(x, q)'
  BY <1>1 DEF Fate, Ours
<1>3. q \in Paths /\ happened \subseteq Events /\ store[e].plan \in Plans
  BY <1>1, Looks DEF Ours, Sane, PostTypeOK, WorldTypeOK
<1>4. /\ plan \in Plans /\ plan.cleans = store[e].plan.cleans
      /\ plan.cleaned = store[e].plan.cleaned /\ plan.oldBefore = store[e].plan.oldBefore
      /\ plan.oldOwner = store[e].plan.oldOwner
  BY <1>3 DEF Plans
<1>5. /\ store'[e] # None /\ store'[e].state = "pending" /\ store'[e].plan = plan
      /\ \A f \in Events : f # e => store'[f] = store[f]
  BY <1>1, <1>4, SaveFacts DEF States, Sane
<1>6. Fresh(q) => Fresh(q)'
  BY <1>1, <1>3, <1>5, FreshKept
<1>7. Served(q) => Served(q)'
  BY <1>1 DEF Served
<1>8. ~Coming(e, q) /\ (Leaving(e, q) => Leaving(e, q)')
  BY <1>1, <1>4, <1>5 DEF Coming, Leaving
<1>9. \A x \in happened : x # e => /\ Coming(x, q) => Coming(x, q)'
                                   /\ Leaving(x, q) => Leaving(x, q)'
  BY <1>1, <1>3, <1>5, EntryKept
<1> QED
  BY <1>1, <1>6, <1>7, <1>8, <1>9 DEF Fate

\* What happens outside run(): a path stays as it is, gets a new event, or is none of ours.
LEMMA OuterFate ==
    ASSUME Sane, Fate, happened \subseteq happened', Ours' \subseteq Ours,
           UNCHANGED <<owner, store>>, lock' = None \/ UNCHANGED <<lock, step>>,
           \A q \in Ours' : Fresh(q)' \/ (cloud'[q] = cloud[q] /\ file'[q] = file[q])
    PROVE  Fate'
<1> SUFFICES ASSUME NEW q \in Ours', ~Fresh(q)'
             PROVE  \/ Served(q)'
                    \/ \E x \in happened' : Coming(x, q)' \/ Leaving(x, q)'
  BY DEF Fate
<1>1. q \in Ours /\ q \in Paths /\ happened \subseteq Events
  BY DEF Ours, Sane, PostTypeOK, WorldTypeOK
<1>2. cloud'[q] = cloud[q] /\ file'[q] = file[q]
  OBVIOUS
<1>3. ~Fresh(q)
  BY <1>1, <1>2, FreshKept
<1>4. CASE Served(q)
  BY <1>2, <1>4 DEF Served
<1>5. CASE \E x \in happened : Coming(x, q) \/ Leaving(x, q)
  <2>1. PICK x \in happened : Coming(x, q) \/ Leaving(x, q)
    BY <1>5
  <2>2. Coming(x, q) => (lock' = x => step' \notin {"rejected", "published"})
    BY <1>1, NoneAssumption DEF Coming
  <2> QED
    BY <1>1, <1>2, <2>1, <2>2, EntryKept
<1> QED
  BY <1>1, <1>3, <1>4, <1>5 DEF Fate

\* A transfer leaves a path alone, or the path has a new event.
LEMMA TransferFresh ==
    ASSUME Sane, NEW e \in Events, Transfer(e), NEW q \in Paths
    PROVE  Fresh(q)' \/ (cloud'[q] = cloud[q] /\ (Fresh(q) => Fresh(q)'))
<1>1. e \notin happened /\ e \in happened' /\ happened \subseteq happened' /\ UNCHANGED store
  BY DEF Transfer, db
<1>2. store'[e] = None
  BY <1>1 DEF Sane, Stored
<1>3. File[e] # None /\ Source[e] # Target[e]
  BY EventAssumption, NoneAssumption
<1>4. cloud'[q] = IF q = Target[e] THEN File[e] ELSE IF q = Source[e] THEN None ELSE cloud[q]
  BY DEF Transfer
<1>5. q \in {Target[e], Source[e]} => Fresh(q)'
  BY <1>1, <1>2, <1>3, <1>4 DEF Fresh
<1>6. q \notin {Target[e], Source[e]} => cloud'[q] = cloud[q]
  BY <1>4
<1> QED
  BY <1>1, <1>5, <1>6, FreshKept

LEMMA TransferFate ==
    ASSUME Sane, Fate, NEW e \in Events, Transfer(e)
    PROVE  Fate'
<1>1. /\ happened \subseteq happened' /\ Ours' = Ours
      /\ UNCHANGED <<owner, store, lock, step, file>>
  BY DEF Transfer, disk, db, local, Ours
<1>2. \A q \in Ours : Fresh(q)' \/ cloud'[q] = cloud[q]
  BY TransferFresh DEF Ours
<1> QED
  BY <1>1, <1>2, OuterFate

\* Outside run() but for transfers, our paths stay as they are in the cloud and the library.
LEMMA OuterShape ==
    ASSUME Sane, Recycled,
           (\E p \in Paths : CloudRemove(p) \/ CloudRestore(p) \/ OutsideWrite(p))
           \/ UNCHANGED postVars
    PROVE  /\ UNCHANGED <<happened, owner, store, lock, step, mem, seen>>
           /\ Ours' \subseteq Ours
           /\ \A q \in Ours' : cloud'[q] = cloud[q] /\ file'[q] = file[q]
           /\ Recycled'
<1> USE DEF db, local, disk, Ours
<1>1. /\ cloud \in [Paths -> Files \union {None}] /\ bin \in [Paths -> Files \union {None}]
      /\ file \in [Paths -> Stamps \union {None}]
  BY DEF Sane, PostTypeOK, WorldTypeOK
<1>2. ASSUME NEW p \in Paths, CloudRemove(p)
      PROVE  /\ UNCHANGED <<happened, owner, store, lock, step, mem, seen>>
             /\ Ours' \subseteq Ours
             /\ \A q \in Ours' : cloud'[q] = cloud[q] /\ file'[q] = file[q]
             /\ Recycled'
  BY <1>1, <1>2 DEF CloudRemove, Recycled
<1>3. ASSUME NEW p \in Paths, CloudRestore(p)
      PROVE  /\ UNCHANGED <<happened, owner, store, lock, step, mem, seen>>
             /\ Ours' \subseteq Ours
             /\ \A q \in Ours' : cloud'[q] = cloud[q] /\ file'[q] = file[q]
             /\ Recycled'
  BY <1>1, <1>3 DEF CloudRestore, Recycled
<1>4. ASSUME NEW p \in Paths, OutsideWrite(p)
      PROVE  /\ UNCHANGED <<happened, owner, store, lock, step, mem, seen>>
             /\ Ours' \subseteq Ours
             /\ \A q \in Ours' : cloud'[q] = cloud[q] /\ file'[q] = file[q]
             /\ Recycled'
  BY <1>1, <1>4 DEF OutsideWrite, Recycled
<1>5. CASE UNCHANGED postVars
  BY <1>5 DEF postVars, Recycled
<1> QED
  BY <1>2, <1>3, <1>4, <1>5

LEMMA NextFate ==
    ASSUME Sane, Faithful, [PostNext]_postVars
    PROVE  Fate'
<1>1. ASSUME NEW e \in Events, RunEvent(e)
      PROVE  Fate'
  BY <1>1, RunSplit, QuietFate, BeginFate, FoundFate, StageFate, LookFate, PublishFate,
     PublishedFate, UnlinkFate, UnlinkedFate, EffectFate DEF Faithful
<1>2. ASSUME NEW e \in Events, Transfer(e) \/ RetrySuperseded(e)
      PROVE  Fate'
  BY <1>2, TransferFate, RetryFate DEF Faithful
<1>3. CASE (\E p \in Paths : CloudRemove(p) \/ CloudRestore(p) \/ OutsideWrite(p))
           \/ UNCHANGED postVars
  BY <1>3, OuterShape, OuterFate DEF Faithful
<1>4. CASE Fail
  <2>1. UNCHANGED <<cloud, happened, touched, removed, file, owner, store>> /\ lock' = None
    BY <1>4 DEF Fail, Release, outer, disk, db
  <2> QED
    BY <2>1, OuterFate DEF Faithful, Ours
<1> QED
  BY <1>1, <1>2, <1>3, <1>4 DEF PostNext

------------------------------------------------------------------------------
(* A check holds until its use.                                            *)

\* A run of an event leaves fresh paths fresh, but for what its own Begin takes up.
LEMMA RunFresh ==
    ASSUME Sane, NEW e \in Events, RunEvent(e), lock = e, NEW p \in Paths, Fresh(p)
    PROVE  Fresh(p)'
<1>1. UNCHANGED <<cloud, happened>>
  BY QuietShape, RunSplit
     DEF Begin, Found, Stage, Confirm, Recheck, Publish, Published, Unlink, Unlinked, Effect,
         Running, outer
<1>2. mem \in Plans
  BY PlanInHand
<1>3. \/ UNCHANGED store
      \/ \E plan \in Plans, state \in States : Save(e, plan, state)
  <2>1. {"pending", "superseded"} \subseteq States
    BY DEF States
  <2>2. /\ [mem EXCEPT !.sized = TRUE] \in Plans /\ [mem EXCEPT !.written = TRUE] \in Plans
        /\ [mem EXCEPT !.cleaned = TRUE] \in Plans
    BY <1>2 DEF Plans
  <2>3. CASE QuietStep(e)
    BY <1>2, <2>2, <2>3, QuietShape
  <2>4. CASE Found(e) \/ Published(e)
    BY <1>2, <2>1, <2>2, <2>4 DEF Found, Published, CompleteFile, Checkpoint, Supersede, db
  <2>5. CASE Unlinked(e)
    BY <2>1, <2>2, <2>5 DEF Unlinked, CompleteFile, Checkpoint
  <2>6. CASE Stage(e)
    <3>1. [by |-> e, n |-> made[e] + 1] \in Stamps
      BY DEF Stamps, Sane, PostTypeOK, WorldTypeOK
    <3>2. [mem EXCEPT !.prepared = [by |-> e, n |-> made[e] + 1]] \in Plans
      BY <1>2, <3>1 DEF Plans
    <3> QED
      BY <2>1, <2>6, <3>2 DEF Stage, Checkpoint
  <2>7. CASE Confirm(e) \/ Recheck(e) \/ Publish(e) \/ Unlink(e) \/ Effect(e)
    BY <2>7 DEF Confirm, Recheck, Publish, Unlink, Effect, db
  <2>8. ~Begin(e)
    BY NoneAssumption DEF Begin
  <2> QED
    BY <2>3, <2>4, <2>5, <2>6, <2>7, <2>8, RunSplit
<1>4. store[e] # None /\ \A f \in Events : f # e => store'[f] = store[f]
  BY <1>3, PlanInHand, OtherEntries
<1>5. happened \subseteq Events
  BY DEF Sane, PostTypeOK, WorldTypeOK
<1> QED
  BY <1>1, <1>4, <1>5, FreshKept

\* Where a run is after a step tells what it has just looked at.
LEMMA StepFrom ==
    ASSUME Sane, NEW e \in Events, RunEvent(e), lock = e
    PROVE  /\ step' \in Writing \ {"rejected"} =>
                 step \in Writing \ {"rejected"} \/ Matches(e)
           /\ step' \in {"still", "reread", "unlink", "unlinked"} =>
                 step \in {"still", "reread", "unlink", "unlinked"} \/ cloud[Source[e]] = None
           /\ step' \in {"gone", "still", "reread", "unlink"} =>
                 /\ file' = file
                 /\ \/ step \in {"gone", "still", "reread", "unlink"} /\ seen' = seen
                    \/ seen' = file[Source[e]]
           /\ step' = "unlinked" =>
                 \/ step = "reread" /\ file' = file /\ file[Source[e]] = None
                 \/ step = "unlink" /\ file' = [file EXCEPT ![Source[e]] = None]
<1> USE DEF Writing, At, Goto, Release, Supersede
<1>1. CASE Size(e) \/ Rejected(e) \/ EffectDone(e) \/ Finish(e) \/ Effect(e) \/ NoOperationLeft(e)
  BY <1>1 DEF Size, Rejected, EffectDone, Finish, Effect, NoOperationLeft
<1>2. CASE Check(e) \/ NextWrite(e) \/ NextDelete(e) \/ Directories(e) \/ EffectCheck(e)
  BY <1>2 DEF Check, NextWrite, NextDelete, Directories, EffectCheck, RequireCurrent, IsCurrent
<1>3. CASE Output(e) \/ EffectOutput(e)
  BY <1>3 DEF Output, EffectOutput, RequireOutput
<1>4. CASE Delete(e) \/ Gone(e) \/ Still(e)
  BY <1>4 DEF Delete, Gone, Still, Skip, disk
<1>5. CASE Reread(e)
  BY <1>5 DEF Reread, Skip, disk
<1>6. CASE Unlink(e) \/ Unlinked(e)
  BY <1>6 DEF Unlink, Unlinked
<1>7. CASE Found(e)
  BY <1>7 DEF Found
<1>8. CASE Stage(e) \/ Confirm(e) \/ Recheck(e) \/ Publish(e) \/ Published(e)
  BY <1>8 DEF Stage, Confirm, Recheck, Publish, Published, Discard
<1>9. ~Begin(e)
  BY NoneAssumption DEF Begin
<1> QED
  BY <1>1, <1>2, <1>3, <1>4, <1>5, <1>6, <1>7, <1>8, <1>9 DEF RunEvent, Write, Cleanup

\* A run leaves the world outside the library alone.
LEMMA RunShape ==
    ASSUME Sane, NEW e \in Events, RunEvent(e)
    PROVE  /\ UNCHANGED <<cloud, happened, touched, removed, bin>>
           /\ \/ Begin(e) /\ step' \in {"size", "check"}
              \/ lock = e /\ lock' \in {e, None} /\ (lock' = None => step' = "free")
<1> USE DEF Running, outer, At, Goto, Release, Supersede
<1>1. CASE Begin(e)
  BY <1>1 DEF Begin, Resume
<1>2. CASE Size(e) \/ Rejected(e) \/ EffectDone(e) \/ Finish(e) \/ Effect(e) \/ NoOperationLeft(e)
  BY <1>2, NoneAssumption DEF Size, Rejected, EffectDone, Finish, Effect, NoOperationLeft
<1>3. CASE Check(e) \/ NextWrite(e) \/ NextDelete(e) \/ Directories(e) \/ EffectCheck(e)
  BY <1>3, NoneAssumption
     DEF Check, NextWrite, NextDelete, Directories, EffectCheck, RequireCurrent
<1>4. CASE Output(e) \/ EffectOutput(e)
  BY <1>4, NoneAssumption DEF Output, EffectOutput, RequireOutput
<1>5. CASE Cleanup(e) /\ ~Output(e)
  BY <1>5, NoneAssumption DEF Cleanup, Delete, Gone, Still, Reread, Unlink, Unlinked, Skip
<1>6. CASE Write(e) /\ ~Rejected(e)
  BY <1>6, NoneAssumption DEF Write, Found, Stage, Confirm, Recheck, Publish, Published, Discard
<1> QED
  BY <1>1, <1>2, <1>3, <1>4, <1>5, <1>6 DEF RunEvent, Write, Cleanup

LEMMA RunChecked ==
    ASSUME Sane, Faithful, NEW e \in Events, RunEvent(e)
    PROVE  Checked' /\ Held' /\ Recycled'
<1>1. Recycled' /\ Ours' = Ours /\ cloud' = cloud
  BY RunShape DEF Faithful, Recycled, Ours
<1>2. CASE step' \in {"size", "check", "free"}
  BY <1>1, <1>2 DEF Checked, Held, Writing
<1>3. CASE step' \notin {"size", "check", "free"}
  <2>1. lock = e /\ lock' = e
    BY <1>3, RunShape
  <2>2. \A p \in Ours : Fresh(p) => Fresh(p)'
    BY <2>1, RunFresh DEF Ours
  <2>3. Checked'
    <3>1. step' \in Writing \ {"rejected"} /\ Target[e] \in Ours =>
             cloud[Target[e]] = File[e] \/ Fresh(Target[e])
      BY <2>1, StepFrom DEF Faithful, Checked, Matches
    <3>2. step' \in {"still", "reread", "unlink", "unlinked"} /\ Source[e] \in Ours =>
             cloud[Source[e]] = None \/ Fresh(Source[e])
      BY <2>1, StepFrom DEF Faithful, Checked
    <3> QED
      BY <1>1, <2>1, <2>2, <3>1, <3>2 DEF Checked
  <2>4. Held'
    <3>1. step' \in {"gone", "still", "reread", "unlink"} /\ Source[e] \in Ours =>
             file'[Source[e]] = seen'
      BY <2>1, StepFrom DEF Faithful, Held
    <3>2. step' = "unlinked" /\ Source[e] \in Ours => file'[Source[e]] = None
      BY <2>1, StepFrom DEF Ours, Sane, PostTypeOK, WorldTypeOK
    <3> QED
      BY <1>1, <2>1, <3>1, <3>2 DEF Held
  <2> QED
    BY <1>1, <2>3, <2>4
<1> QED
  BY <1>2, <1>3

\* A step outside run() makes nothing stale, or brings a new event.
LEMMA OuterChecked ==
    ASSUME Sane, Faithful, UNCHANGED <<lock, step, seen>>, Ours' \subseteq Ours,
           \A q \in Ours' : /\ Fresh(q)' \/ (cloud'[q] = cloud[q] /\ (Fresh(q) => Fresh(q)'))
                            /\ file'[q] = file[q]
    PROVE  Checked' /\ Held'
<1>1. /\ step' \in Writing \ {"rejected"} /\ Target[lock'] \in Ours' =>
            cloud'[Target[lock']] = File[lock'] \/ Fresh(Target[lock])'
      /\ step' \in {"still", "reread", "unlink", "unlinked"} /\ Source[lock'] \in Ours' =>
            cloud'[Source[lock']] = None \/ Fresh(Source[lock])'
  BY DEF Faithful, Checked
<1>2. Target[lock'] = Target[lock] /\ Source[lock'] = Source[lock]
  OBVIOUS
<1>3. Checked'
  BY <1>1, <1>2 DEF Checked
<1>4. Held'
  BY DEF Faithful, Held
<1> QED
  BY <1>3, <1>4

LEMMA NextFaithful ==
    ASSUME Sane, Faithful, [PostNext]_postVars
    PROVE  Faithful'
<1>1. Fate'
  BY NextFate
<1>2. ASSUME NEW e \in Events, RunEvent(e)
      PROVE  Checked' /\ Held' /\ Recycled'
  BY <1>2, RunChecked
<1>3. ASSUME NEW e \in Events, Transfer(e)
      PROVE  Checked' /\ Held' /\ Recycled'
  <2>1. UNCHANGED <<lock, step, seen, file, touched, removed, bin>>
    BY <1>3 DEF Transfer, local, disk
  <2>2. Ours' = Ours /\ Recycled'
    BY <2>1 DEF Ours, Faithful, Recycled
  <2>3. \A q \in Ours' : Fresh(q)' \/ (cloud'[q] = cloud[q] /\ (Fresh(q) => Fresh(q)'))
    BY <1>3, <2>2, TransferFresh DEF Ours
  <2> QED
    BY <2>1, <2>2, <2>3, OuterChecked
<1>4. ASSUME NEW e \in Events, RetrySuperseded(e)
      PROVE  Checked' /\ Held' /\ Recycled'
  BY <1>4 DEF RetrySuperseded, Running, outer, Faithful, Recycled, Checked, Held, Writing
<1>5. CASE (\E p \in Paths : CloudRemove(p) \/ CloudRestore(p) \/ OutsideWrite(p))
           \/ UNCHANGED postVars
  <2>1. /\ UNCHANGED <<happened, store, lock, step, seen>> /\ Ours' \subseteq Ours
        /\ \A q \in Ours' : cloud'[q] = cloud[q] /\ file'[q] = file[q]
        /\ Recycled'
    BY <1>5, OuterShape DEF Faithful
  <2>2. \A q \in Ours' : Fresh(q) => Fresh(q)'
    BY <2>1, FreshKept DEF Ours, Sane, PostTypeOK, WorldTypeOK
  <2>3. Checked' /\ Held'
    BY <2>1, <2>2, OuterChecked
  <2> QED
    BY <1>1, <2>1, <2>3 DEF Faithful
<1>6. CASE Fail
  <2>1. step' = "free" /\ UNCHANGED <<bin, removed>>
    BY <1>6 DEF Fail, Release, outer
  <2> QED
    BY <1>1, <2>1 DEF Faithful, Recycled, Checked, Held, Writing
<1> QED
  BY <1>1, <1>2, <1>3, <1>4, <1>5, <1>6 DEF PostNext, Faithful

LEMMA InitFaithful == PostInit => Faithful
BY DEF PostInit, Faithful, Fate, Served, Ours, Checked, Held, Recycled, Writing

------------------------------------------------------------------------------
(* The theorems.                                                           *)

\* What holds in every state, and is kept by every step because all of it holds.
PostInv == Sane /\ Accounts /\ Effective /\ Careful /\ Faithful

LEMMA PostInitInv == PostInit => PostInv
BY InitSane, InitAccounts, InitEffective, InitCareful, InitFaithful DEF PostInv

LEMMA PostStepInv == PostInv /\ [PostNext]_postVars => PostInv'
BY NextSane, NextAccounts, NextEffective, NextCareful, NextFaithful DEF PostInv, Accounts

LEMMA PostInvariance == PostSpec => []PostInv
BY PostInitInv, PostStepInv, PTL DEF PostSpec

\* The store, the owners and the library tell one story, whatever run() is interrupted by
\* and whoever else writes the library (plan.py, ownership.py: complete_file).
THEOREM PostRecordsAgree == PostSpec => []RecordsAgree
<1>1. PostInv => RecordsAgree
  BY DEF PostInv, Sane, Accounts, RecordsAgree
<1> QED
  BY <1>1, PostInvariance, PTL

\* run() replaces and deletes only what its plan saw, but for what is written without the
\* lock between the last look and the system call (_write, _delete).
THEOREM PostLosesLateWritesOnly == PostSpec => []OnlyLateWritesAreLost
<1>1. PostInv => OnlyLateWritesAreLost
  BY DEF PostInv, Careful
<1> QED
  BY <1>1, PostInvariance, PTL

\* No effect before the file is written and on record; every effect before the event is
\* done; a checkpoint notes only effects that were produced (the end of run()).
THEOREM PostEffectsFollowFile == PostSpec => []EffectsFollowFile
<1>1. PostInv => EffectsFollowFile
  BY DEF PostInv, Effective
<1> QED
  BY <1>1, PostInvariance, PTL

\* The library follows the cloud, in whatever order events are delivered, resumed and
\* superseded: no path whose event has ended lacks the file of the cloud, and a file with
\* none in the cloud has an event that is not done.
THEOREM PostMirrorsCloud == PostSpec => []MirrorsCloud
<1>1. ASSUME PostInv, AtRest, NEW p \in Paths \ (touched \union removed), cloud[p] # None
      PROVE  file[p] # None /\ file[p].by # Outside /\ File[file[p].by] = cloud[p]
  <2>1. ~Fresh(p)
    BY <1>1 DEF AtRest, Ended, Fresh
  <2>2. \A x \in happened : ~Coming(x, p) /\ ~Leaving(x, p)
    BY <1>1 DEF AtRest, Ended, Coming, Leaving
  <2>3. Served(p)
    BY <1>1, <2>1, <2>2 DEF PostInv, Faithful, Fate, Ours
  <2> QED
    BY <1>1, <2>3 DEF Served
<1>2. ASSUME PostInv, NEW p \in Paths \ (touched \union removed), cloud[p] = None, file[p] # None
      PROVE  \E e \in happened : Source[e] = p /\ ~Done(e)
  <2>1. ~Served(p) /\ \A x \in happened : ~Coming(x, p)
    BY <1>2 DEF Served, Coming
  <2>2. Fresh(p) \/ \E x \in happened : Leaving(x, p)
    BY <1>2, <2>1 DEF PostInv, Faithful, Fate, Ours
  <2> QED
    BY <1>2, <2>2 DEF Fresh, Leaving, Done
<1>3. PostInv => MirrorsCloud
  BY <1>1, <1>2 DEF MirrorsCloud, NothingMissing, NothingLeftBehind
<1> QED
  BY <1>3, PostInvariance, PTL
=============================================================================
