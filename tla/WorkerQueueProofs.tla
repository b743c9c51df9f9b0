-------------------------- MODULE WorkerQueueProofs --------------------------
(***************************************************************************)
(* Proofs about WorkerQueue, for every set of tasks and callers and every  *)
(* bound on generations.                                                   *)
(***************************************************************************)
EXTENDS WorkerQueue, TLAPS

USE MaxGenAssumption

\* What Append adds to the elements of a queue (Queue.put_nowait).
LEMMA AppendRange ==
    ASSUME NEW S, NEW s \in Seq(S), NEW e \in S
    PROVE  /\ Append(s, e) \in Seq(S)
           /\ Len(Append(s, e)) = Len(s) + 1
           /\ Range(Append(s, e)) = Range(s) \union {e}
<1>1. /\ Append(s, e) \in Seq(S)
      /\ Len(Append(s, e)) = Len(s) + 1
      /\ DOMAIN Append(s, e) = 1 .. Len(s) + 1
      /\ \A i \in 1 .. Len(s) : Append(s, e)[i] = s[i]
      /\ Append(s, e)[Len(s) + 1] = e
  OBVIOUS
<1>2. DOMAIN s = 1 .. Len(s) /\ Len(s) \in Nat
  OBVIOUS
<1>3. Range(Append(s, e)) \subseteq Range(s) \union {e}
  BY <1>1, <1>2 DEF Range
<1>4. Range(s) \union {e} \subseteq Range(Append(s, e))
  BY <1>1, <1>2 DEF Range
<1> QED
  BY <1>1, <1>3, <1>4

\* What Queue.get takes away from them.
LEMMA TailRange ==
    ASSUME NEW S, NEW s \in Seq(S), s # <<>>
    PROVE  /\ Head(s) \in S /\ Head(s) = s[1]
           /\ Tail(s) \in Seq(S)
           /\ Len(s) \in Nat /\ Len(s) > 0
           /\ Len(Tail(s)) = Len(s) - 1
           /\ \A i \in DOMAIN Tail(s) : i + 1 \in DOMAIN s /\ Tail(s)[i] = s[i + 1]
           /\ Range(s) = {Head(s)} \union Range(Tail(s))
<1>1. /\ Head(s) \in S /\ Head(s) = s[1]
      /\ Tail(s) \in Seq(S)
      /\ Len(s) \in Nat /\ Len(s) > 0
      /\ Len(Tail(s)) = Len(s) - 1
      /\ DOMAIN s = 1 .. Len(s)
      /\ DOMAIN Tail(s) = 1 .. Len(s) - 1
      /\ \A i \in 1 .. Len(s) - 1 : Tail(s)[i] = s[i + 1]
  OBVIOUS
<1>2. Range(s) \subseteq {Head(s)} \union Range(Tail(s))
  <2> SUFFICES ASSUME NEW i \in 1 .. Len(s), i # 1
               PROVE  s[i] \in Range(Tail(s))
    BY <1>1 DEF Range
  <2>1. i - 1 \in DOMAIN Tail(s) /\ Tail(s)[i - 1] = s[i]
    BY <1>1
  <2> QED
    BY <2>1 DEF Range
<1>3. {Head(s)} \union Range(Tail(s)) \subseteq Range(s)
  BY <1>1 DEF Range
<1> QED
  BY <1>1, <1>2, <1>3

\* The state an object is created in satisfies the invariant.
LEMMA InitInv == Init => IInv
<1> SUFFICES ASSUME Init PROVE IInv
  OBVIOUS
<1> USE DEF Init
<1>1. TypeOK
  <2>1. items \in [Gens -> Seq(Tasks \union {Sentinel})]
    <3>1. <<>> \in Seq(Tasks \union {Sentinel})
      OBVIOUS
    <3> QED
      BY <3>1
  <2>2. thread \in [Gens -> ThreadStates]
    BY DEF ThreadStates
  <2>3. 0 \in Ref
    BY DEF Ref
  <2> QED
    BY <2>1, <2>2, <2>3 DEF TypeOK
<1>2. Generations /\ Counting /\ Working /\ Stoppers
  BY DEF Generations, Counting, Working, Stoppers, LiveStates
<1>3. SentinelLast /\ NoTaskLost /\ settled \subseteq accepted
  BY DEF SentinelLast, NoTaskLost, Pending
<1>4. DiscoveryFollowsStop /\ CleanExit
  BY DEF DiscoveryFollowsStop, CleanExit, Alive
<1> QED
  BY <1>1, <1>2, <1>3, <1>4 DEF IInv

\* A thread that runs is the current one and there is a queue it drains.
LEMMA LiveIsCurrent ==
    ASSUME IInv, NEW g \in Gens, thread[g] \in LiveStates
    PROVE  /\ g = queue /\ g = worker /\ g = made /\ queue # 0
           /\ thread[g] # "starting" => mine[g] = g
           /\ Alive(worker)
  BY DEF IInv, TypeOK, Generations, Working, LiveStates, Alive, Gens, Ref

LEMMA AliveIsLive ==
    ASSUME IInv, Alive(worker)
    PROVE  /\ queue \in Gens /\ worker = queue /\ queue # 0 /\ queue = made
           /\ thread[queue] \in LiveStates
  BY DEF IInv, TypeOK, Generations, Alive, Gens, Ref

\* What putting an item does to the queues.
LEMMA PutFacts ==
    ASSUME IInv, NEW g \in Gens, NEW e \in Tasks \union {Sentinel}, Put(g, e)
    PROVE  /\ items' \in [Gens -> Seq(Tasks \union {Sentinel})]
           /\ unfinished' \in [Gens -> Nat]
           /\ unfinished'[g] = unfinished[g] + 1
           /\ Len(items[g]) \in Nat
           /\ Len(items'[g]) = Len(items[g]) + 1
           /\ DOMAIN items[g] = 1 .. Len(items[g])
           /\ DOMAIN items'[g] = 1 .. Len(items[g]) + 1
           /\ \A i \in 1 .. Len(items[g]) : items'[g][i] = items[g][i]
           /\ items'[g][Len(items[g]) + 1] = e
           /\ Range(items'[g]) = Range(items[g]) \union {e}
           /\ \A h \in Gens : h # g => items'[h] = items[h] /\ unfinished'[h] = unfinished[h]
<1> DEFINE s == items[g]
<1>1. s \in Seq(Tasks \union {Sentinel}) /\ unfinished[g] \in Nat
  BY DEF IInv, TypeOK
<1>2. /\ items'[g] = Append(s, e)
      /\ unfinished'[g] = unfinished[g] + 1
      /\ \A h \in Gens : h # g => items'[h] = items[h] /\ unfinished'[h] = unfinished[h]
      /\ DOMAIN items' = Gens /\ DOMAIN unfinished' = Gens
      /\ items' = [h \in Gens |-> items'[h]]
      /\ unfinished' = [h \in Gens |-> unfinished'[h]]
  BY DEF Put, IInv, TypeOK
<1>3. /\ Append(s, e) \in Seq(Tasks \union {Sentinel})
      /\ Len(Append(s, e)) = Len(s) + 1
      /\ Range(Append(s, e)) = Range(s) \union {e}
  BY <1>1, AppendRange
<1>4. /\ Len(s) \in Nat /\ DOMAIN s = 1 .. Len(s)
      /\ DOMAIN Append(s, e) = 1 .. Len(s) + 1
      /\ \A i \in 1 .. Len(s) : Append(s, e)[i] = s[i]
      /\ Append(s, e)[Len(s) + 1] = e
  BY <1>1
<1>5. /\ items' \in [Gens -> Seq(Tasks \union {Sentinel})]
      /\ unfinished' \in [Gens -> Nat]
  <2>1. items' \in [Gens -> Seq(Tasks \union {Sentinel})]
    <3>1. \A h \in Gens : items'[h] \in Seq(Tasks \union {Sentinel})
      BY <1>2, <1>3 DEF IInv, TypeOK
    <3> QED
      BY <1>2, <3>1
  <2>2. unfinished' \in [Gens -> Nat]
    <3>1. unfinished \in [Gens -> Nat] /\ unfinished[g] + 1 \in Nat
      BY <1>1 DEF IInv, TypeOK
    <3>2. unfinished' = [unfinished EXCEPT ![g] = unfinished[g] + 1]
      BY DEF Put
    <3> QED
      BY <3>1, <3>2
  <2> QED
    BY <2>1, <2>2
<1> QED
  BY <1>2, <1>3, <1>4, <1>5

\* What taking an item does to them.
LEMMA TakeFacts ==
    ASSUME IInv, NEW g \in Gens, items[g] # <<>>,
           items' = [items EXCEPT ![g] = Tail(@)]
    PROVE  /\ items' \in [Gens -> Seq(Tasks \union {Sentinel})]
           /\ Head(items[g]) \in Tasks \union {Sentinel}
           /\ Head(items[g]) = items[g][1] /\ 1 \in DOMAIN items[g]
           /\ Len(items[g]) \in Nat /\ Len(items[g]) > 0
           /\ Len(items'[g]) = Len(items[g]) - 1
           /\ \A i \in DOMAIN items'[g] :
                  i \in Nat /\ i + 1 \in DOMAIN items[g] /\ items'[g][i] = items[g][i + 1]
           /\ Range(items[g]) = {Head(items[g])} \union Range(items'[g])
           /\ Len(items[g]) = 1 => items'[g] = <<>>
           /\ \A h \in Gens : h # g => items'[h] = items[h]
<1> DEFINE s == items[g]
<1>1. s \in Seq(Tasks \union {Sentinel})
  BY DEF IInv, TypeOK
<1>2. /\ items'[g] = Tail(s)
      /\ \A h \in Gens : h # g => items'[h] = items[h]
      /\ items' = [h \in Gens |-> items'[h]]
  BY DEF IInv, TypeOK
<1>3. /\ Head(s) \in Tasks \union {Sentinel} /\ Head(s) = s[1]
      /\ Tail(s) \in Seq(Tasks \union {Sentinel})
      /\ Len(s) \in Nat /\ Len(s) > 0
      /\ Len(Tail(s)) = Len(s) - 1
      /\ \A i \in DOMAIN Tail(s) : i + 1 \in DOMAIN s /\ Tail(s)[i] = s[i + 1]
      /\ Range(s) = {Head(s)} \union Range(Tail(s))
  BY <1>1, TailRange
<1>4. /\ DOMAIN s = 1 .. Len(s) /\ DOMAIN Tail(s) = 1 .. Len(Tail(s))
      /\ Len(s) = 1 => Tail(s) = <<>>
  BY <1>1, <1>3
<1>5. items' \in [Gens -> Seq(Tasks \union {Sentinel})]
  BY <1>2, <1>3 DEF IInv, TypeOK
<1> QED
  BY <1>2, <1>3, <1>4, <1>5

\* _request_stop_locked keeps the invariant, whoever calls it.
LEMMA RequestStopInv ==
    ASSUME IInv, RequestStop, UNCHANGED <<threads, history>>
    PROVE  /\ items' \in [Gens -> Seq(Tasks \union {Sentinel})]
           /\ unfinished' \in [Gens -> Nat]
           /\ Generations' /\ Counting' /\ Working' /\ SentinelLast'
           /\ NoTaskLost' /\ DiscoveryFollowsStop' /\ CleanExit'
<1> USE DEF RequestStop, threads, history
<1>1. CASE Alive(worker) /\ ~stopping
  <2>1. /\ worker \in Gens /\ queue = worker /\ queue # 0
        /\ queue \in Gens /\ thread[queue] \in LiveStates
    BY <1>1, AliveIsLive
  <2>2. Put(queue, Sentinel)
    BY <1>1
  <2>3. /\ items' \in [Gens -> Seq(Tasks \union {Sentinel})]
        /\ unfinished' \in [Gens -> Nat]
        /\ unfinished'[queue] = unfinished[queue] + 1
        /\ Len(items[queue]) \in Nat
        /\ Len(items'[queue]) = Len(items[queue]) + 1
        /\ DOMAIN items[queue] = 1 .. Len(items[queue])
        /\ DOMAIN items'[queue] = 1 .. Len(items[queue]) + 1
        /\ \A i \in 1 .. Len(items[queue]) : items'[queue][i] = items[queue][i]
        /\ Range(items'[queue]) = Range(items[queue]) \union {Sentinel}
        /\ \A h \in Gens : h # queue => items'[h] = items[h] /\ unfinished'[h] = unfinished[h]
    BY <2>1, <2>2, PutFacts
  <2>4. Generations'
    BY <2>1, <2>3 DEF IInv, Generations
  <2>5. Counting'
    BY <2>1, <2>3 DEF IInv, Counting, TypeOK
  <2>6. Working'
    BY <1>1, <2>1, <2>3 DEF IInv, Working
  <2>7. SentinelLast'
    BY <1>1, <2>1, <2>3 DEF IInv, SentinelLast
  <2>8. NoTaskLost'
    BY <2>1, <2>3 DEF IInv, NoTaskLost, Pending, Waiting, InHand
  <2>9. DiscoveryFollowsStop' /\ CleanExit'
    BY <1>1, <2>1, <2>3 DEF IInv, DiscoveryFollowsStop, CleanExit, Working, LiveStates
  <2> QED
    BY <2>3, <2>4, <2>5, <2>6, <2>7, <2>8, <2>9
<1>2. CASE ~(Alive(worker) /\ ~stopping)
  <2>1. UNCHANGED queues /\ UNCHANGED <<queue, worker, made>> /\ stopping' = TRUE
    BY <1>2
  <2>2. items' \in [Gens -> Seq(Tasks \union {Sentinel})] /\ unfinished' \in [Gens -> Nat]
    BY <2>1 DEF IInv, TypeOK, queues
  <2>3. Generations' /\ Counting' /\ Working'
    BY <2>1 DEF IInv, Generations, Counting, Working, queues
  <2>4. SentinelLast' /\ NoTaskLost'
    BY <2>1 DEF IInv, SentinelLast, NoTaskLost, Pending, Waiting, InHand, queues
  <2>5. DiscoveryFollowsStop' /\ CleanExit'
    BY <2>1 DEF IInv, DiscoveryFollowsStop, CleanExit, queues
  <2> QED
    BY <2>2, <2>3, <2>4, <2>5
<1> QED
  BY <1>1, <1>2
------------------------------------------------------------------------------
(* One lemma per group of actions: each keeps the invariant. *)

LEMMA StopFromWorkerInv ==
    ASSUME IInv, NEW g \in Gens, StopFromWorker(g)
    PROVE  IInv'
<1>1. RequestStop /\ UNCHANGED <<threads, callers, history>>
  BY DEF StopFromWorker
<1>2. /\ items' \in [Gens -> Seq(Tasks \union {Sentinel})]
      /\ unfinished' \in [Gens -> Nat]
      /\ Generations' /\ Counting' /\ Working' /\ SentinelLast'
      /\ NoTaskLost' /\ DiscoveryFollowsStop' /\ CleanExit'
  BY <1>1, RequestStopInv
<1>3. TypeOK'
  BY <1>1, <1>2 DEF IInv, TypeOK, RequestStop, threads, callers, history
<1>4. Stoppers'
  BY <1>1 DEF IInv, Stoppers, RequestStop, callers
<1> QED
  BY <1>1, <1>2, <1>3, <1>4 DEF IInv, history

LEMMA StopRequestInv ==
    ASSUME IInv, NEW c \in Callers, StopRequest(c)
    PROVE  IInv'
<1>1. RequestStop /\ UNCHANGED <<threads, history>>
  BY DEF StopRequest
<1>2. /\ items' \in [Gens -> Seq(Tasks \union {Sentinel})]
      /\ unfinished' \in [Gens -> Nat]
      /\ Generations' /\ Counting' /\ Working' /\ SentinelLast'
      /\ NoTaskLost' /\ DiscoveryFollowsStop' /\ CleanExit'
  BY <1>1, RequestStopInv
<1>3. TypeOK'
  BY <1>1, <1>2 DEF IInv, TypeOK, RequestStop, StopRequest, threads, history
<1>4. Stoppers'
  BY NamesAssumption DEF IInv, TypeOK, Stoppers, RequestStop, StopRequest
<1> QED
  BY <1>1, <1>2, <1>3, <1>4 DEF IInv, history

LEMMA StopJoinedInv ==
    ASSUME IInv, NEW c \in Callers, StopJoined(c)
    PROVE  IInv'
<1> USE DEF StopJoined, fields, queues, threads, history
<1>1. TypeOK'
  BY DEF IInv, TypeOK
<1>2. Stoppers'
  BY DEF IInv, TypeOK, Stoppers
<1>3. Generations' /\ Counting' /\ Working' /\ SentinelLast'
  BY DEF IInv, Generations, Counting, Working, SentinelLast
<1>4. NoTaskLost' /\ DiscoveryFollowsStop' /\ CleanExit' /\ (settled \subseteq accepted)'
  BY DEF IInv, NoTaskLost, Pending, Waiting, InHand, DiscoveryFollowsStop,
         CleanExit, Alive
<1> QED
  BY <1>1, <1>2, <1>3, <1>4 DEF IInv

\* The block that may report True.  What it drops has ended and is settled.
LEMMA StopSettleInv ==
    ASSUME IInv, NEW c \in Callers, StopSettle(c)
    PROVE  IInv'
<1> USE DEF StopSettle, queues, threads, history
<1>1. stopQueue[c] = queue /\ stopWorker[c] = worker /\ lifecycle = c /\ stopping
  BY DEF IInv, Stoppers
<1>2. TypeOK'
  BY DEF IInv, TypeOK, Ref
<1>3. \A d \in Callers : d # c => pc[d] = "out"
  BY <1>1 DEF IInv, TypeOK, Stoppers
<1>4. Stoppers'
  BY <1>3 DEF IInv, TypeOK, Stoppers
<1>5. SentinelLast' /\ Counting' /\ Working' /\ CleanExit'
  BY DEF IInv, SentinelLast, Counting, Working, CleanExit
<1>6. CASE ~Drained(c)
  <2>1. UNCHANGED <<queue, worker, thread>>
    BY <1>6
  <2>2. Generations' /\ NoTaskLost' /\ DiscoveryFollowsStop'
    BY <2>1 DEF IInv, Generations, NoTaskLost, Pending, Waiting, InHand,
                DiscoveryFollowsStop, Alive
  <2> QED
    BY <1>2, <1>4, <1>5, <2>2 DEF IInv
<1>7. CASE Drained(c)
  <2>1. queue' = 0 /\ worker' = 0
    BY <1>7
  <2>2. /\ queue = worker
        /\ queue # 0 => queue \in Gens /\ thread[queue] \notin LiveStates
                                        /\ unfinished[queue] = 0
    BY <1>1, <1>7 DEF Drained, Alive, Unsettled, IInv, TypeOK, Generations, Gens, Ref
  <2>3. queue # 0 => items[queue] = <<>> /\ hand[queue] = NoOne
    <3> SUFFICES ASSUME queue # 0 PROVE items[queue] = <<>> /\ hand[queue] = NoOne
      OBVIOUS
    <3>1. items[queue] \in Seq(Tasks \union {Sentinel})
      BY <2>2 DEF IInv, TypeOK
    <3>2. thread[queue] # "busy"
      BY <2>2 DEF LiveStates
    <3>3. Len(items[queue]) = 0
      BY <2>2, <3>1, <3>2 DEF IInv, Counting
    <3> QED
      BY <2>2, <3>1, <3>2, <3>3 DEF IInv, Counting
  <2>4. Generations'
    BY <2>1, <2>2, <2>3 DEF IInv, Generations, TypeOK
  <2>5. Pending = {}
    BY <2>2, <2>3 DEF Pending, Waiting, InHand, Range
  <2>6. NoTaskLost'
    BY <2>1, <2>5 DEF IInv, NoTaskLost, Pending
  <2>7. DiscoveryFollowsStop'
    BY <2>1 DEF DiscoveryFollowsStop, Alive
  <2> QED
    BY <1>2, <1>4, <1>5, <2>4, <2>6, <2>7 DEF IInv
<1> QED
  BY <1>6, <1>7

LEMMA EnqueueInv ==
    ASSUME IInv, NEW t \in Tasks, Enqueue(t)
    PROVE  IInv'
<1> USE NamesAssumption DEF Enqueue, fields, threads, callers
<1>1. /\ worker = queue /\ queue # 0 /\ queue \in Gens
      /\ thread[queue] \in LiveStates
  BY AliveIsLive
<1>2. /\ items' \in [Gens -> Seq(Tasks \union {Sentinel})]
      /\ unfinished' \in [Gens -> Nat]
      /\ unfinished'[queue] = unfinished[queue] + 1
      /\ Len(items[queue]) \in Nat
      /\ Len(items'[queue]) = Len(items[queue]) + 1
      /\ DOMAIN items[queue] = 1 .. Len(items[queue])
      /\ DOMAIN items'[queue] = 1 .. Len(items[queue]) + 1
      /\ \A i \in 1 .. Len(items[queue]) : items'[queue][i] = items[queue][i]
      /\ items'[queue][Len(items[queue]) + 1] = t
      /\ Range(items'[queue]) = Range(items[queue]) \union {t}
      /\ \A h \in Gens : h # queue => items'[h] = items[h] /\ unfinished'[h] = unfinished[h]
  BY <1>1, PutFacts
<1>3. TypeOK'
  BY <1>2 DEF IInv, TypeOK
<1>4. Generations' /\ Stoppers'
  BY <1>1, <1>2 DEF IInv, Generations, Stoppers
<1>5. Counting'
  BY <1>1, <1>2 DEF IInv, Counting, TypeOK
<1>6. Working'
  BY <1>1, <1>2 DEF IInv, Working
<1>7. SentinelLast'
  <2> SUFFICES ASSUME NEW g \in Gens, NEW i \in DOMAIN items'[g],
                      items'[g][i] = Sentinel
               PROVE  i = Len(items'[g]) /\ stopping'
    BY DEF SentinelLast
  <2>1. CASE g # queue
    BY <1>2, <2>1 DEF IInv, SentinelLast
  <2>2. CASE g = queue
    <3>1. i \in 1 .. Len(items[queue]) \/ i = Len(items[queue]) + 1
      BY <1>2, <2>2
    <3>2. items[queue][i] = Sentinel /\ i \in DOMAIN items[queue]
      BY <1>2, <2>2, <3>1
    <3> QED
      BY <1>1, <3>2 DEF IInv, SentinelLast
  <2> QED
    BY <2>1, <2>2
<1>8. NoTaskLost' /\ (settled \subseteq accepted)'
  BY <1>1, <1>2 DEF IInv, NoTaskLost, Pending, Waiting, InHand
<1>9. DiscoveryFollowsStop' /\ CleanExit'
  BY <1>1, <1>2 DEF IInv, DiscoveryFollowsStop, CleanExit, Alive, Working, LiveStates
<1> QED
  BY <1>3, <1>4, <1>5, <1>6, <1>7, <1>8, <1>9 DEF IInv
\* Creating a pair: at that moment everything accepted before is settled, so
\* nothing is forgotten with the queue that is replaced.
LEMMA CreateFacts ==
    ASSUME IInv, MayCreate
    PROVE  /\ made + 1 \in Gens
           /\ \A g \in Gens : /\ thread[g] \notin LiveStates
                               /\ items[g] = <<>> /\ unfinished[g] = 0
                               /\ hand[g] = NoOne
           /\ accepted = settled
<1>1. made + 1 \in Gens
  BY DEF MayCreate, IInv, TypeOK, Gens, Ref
<1>2. queue # 0 => /\ queue \in Gens /\ thread[queue] \notin LiveStates
                   /\ unfinished[queue] = 0
  BY DEF MayCreate, Alive, Unsettled, IInv, TypeOK, Generations, Gens, Ref
<1>3. queue # 0 => items[queue] = <<>> /\ hand[queue] = NoOne
  <2> SUFFICES ASSUME queue # 0 PROVE items[queue] = <<>> /\ hand[queue] = NoOne
    OBVIOUS
  <2>1. items[queue] \in Seq(Tasks \union {Sentinel})
    BY <1>2 DEF IInv, TypeOK
  <2>2. thread[queue] # "busy"
    BY <1>2 DEF LiveStates
  <2>3. Len(items[queue]) = 0
    BY <1>2, <2>1, <2>2 DEF IInv, Counting
  <2> QED
    BY <1>2, <2>1, <2>2, <2>3 DEF IInv, Counting
<1>4. \A g \in Gens : /\ thread[g] \notin LiveStates
                      /\ items[g] = <<>> /\ unfinished[g] = 0
                      /\ hand[g] = NoOne
  <2> SUFFICES ASSUME NEW g \in Gens
               PROVE  /\ thread[g] \notin LiveStates
                      /\ items[g] = <<>> /\ unfinished[g] = 0
                      /\ hand[g] = NoOne
    OBVIOUS
  <2>1. CASE g = queue
    BY <1>2, <1>3, <2>1 DEF Gens
  <2>2. CASE g # queue
    BY <2>2 DEF IInv, Generations
  <2> QED
    BY <2>1, <2>2
<1>5. Pending = {}
  BY <1>2, <1>3 DEF Pending, Waiting, InHand, Range
<1> QED
  BY <1>1, <1>4, <1>5 DEF IInv, NoTaskLost

LEMMA CreateInv ==
    ASSUME IInv, MayCreate, NEW outcome \in {"starting", "unstarted"},
           Create(outcome), UNCHANGED callers, settled' = settled,
           \/ UNCHANGED queues /\ UNCHANGED accepted
           \/ \E t \in Tasks : /\ Put(made + 1, t)
                               /\ accepted' = accepted \union {t}
                               /\ outcome = "starting",
           \A c \in Callers : pc[c] = "out"
    PROVE  IInv'
<1> USE NamesAssumption DEF Create, callers
<1>1. /\ made + 1 \in Gens
      /\ \A g \in Gens : /\ thread[g] \notin LiveStates
                          /\ items[g] = <<>> /\ unfinished[g] = 0
                          /\ hand[g] = NoOne
      /\ accepted = settled
  BY CreateFacts
<1>2. /\ thread' \in [Gens -> ThreadStates]
      /\ thread'[made + 1] = outcome
      /\ \A g \in Gens : g # made + 1 => thread'[g] = thread[g]
      /\ queue' = made + 1 /\ queue' \in Gens /\ queue' # 0
      /\ worker' = made + 1 /\ made' = made + 1 /\ made \in Nat
      /\ stopping' = FALSE /\ discoveryStop' = FALSE
      /\ hand' = hand /\ mine' = mine
  <2>1. made \in Nat /\ made + 1 # 0 /\ thread \in [Gens -> ThreadStates]
    BY DEF IInv, TypeOK, Ref
  <2>2. outcome \in ThreadStates
    BY DEF ThreadStates, LiveStates
  <2>3. thread' = [thread EXCEPT ![made + 1] = outcome]
    OBVIOUS
  <2>4. /\ thread' \in [Gens -> ThreadStates]
        /\ thread'[made + 1] = outcome
        /\ \A g \in Gens : g # made + 1 => thread'[g] = thread[g]
    BY <1>1, <2>1, <2>2, <2>3
  <2> QED
    BY <1>1, <2>1, <2>4
<1>3. Stoppers'
  BY DEF Stoppers
<1>3a. /\ made + 1 \in Ref /\ FALSE \in BOOLEAN
      /\ pc' = pc /\ lifecycle' = lifecycle /\ stopQueue' = stopQueue
      /\ stopWorker' = stopWorker
  BY <1>1 DEF Gens, Ref
<1>4. CASE UNCHANGED queues /\ UNCHANGED accepted
  <2>1. items' = items /\ unfinished' = unfinished /\ accepted' = accepted
    BY <1>4 DEF queues
  <2>2. TypeOK'
    BY <1>3a, <1>2, <2>1 DEF IInv, TypeOK
  <2>3. Generations'
    BY <1>1, <1>2, <2>1 DEF IInv, Generations, TypeOK
  <2>4. Counting' /\ Working'
    BY <1>1, <1>2, <2>1 DEF IInv, Counting, Working, LiveStates
  <2>5. SentinelLast'
    BY <1>1, <2>1 DEF SentinelLast
  <2>6. NoTaskLost' /\ (settled \subseteq accepted)'
    BY <1>1, <1>2, <2>1 DEF NoTaskLost, Pending, Waiting, InHand, Range
  <2>7. DiscoveryFollowsStop' /\ CleanExit'
    BY <1>1, <1>2, <2>1 DEF DiscoveryFollowsStop, CleanExit
  <2> QED
    BY <1>3, <2>2, <2>3, <2>4, <2>5, <2>6, <2>7 DEF IInv
<1>5. ASSUME NEW t \in Tasks, Put(made + 1, t), accepted' = accepted \union {t},
             outcome = "starting"
      PROVE  IInv'
  <2>1. /\ items' \in [Gens -> Seq(Tasks \union {Sentinel})]
        /\ unfinished' \in [Gens -> Nat]
        /\ unfinished'[made + 1] = unfinished[made + 1] + 1
        /\ Len(items'[made + 1]) = Len(items[made + 1]) + 1
        /\ DOMAIN items'[made + 1] = 1 .. Len(items[made + 1]) + 1
        /\ items'[made + 1][Len(items[made + 1]) + 1] = t
        /\ Range(items'[made + 1]) = Range(items[made + 1]) \union {t}
        /\ \A h \in Gens : h # made + 1 => items'[h] = items[h] /\ unfinished'[h] = unfinished[h]
    BY <1>1, <1>5, PutFacts
  <2>2. items[made + 1] = <<>> /\ Len(items[made + 1]) = 0
    BY <1>1
  <2>3. TypeOK'
    BY <1>3a, <1>2, <1>5, <2>1 DEF IInv, TypeOK
  <2>4. Generations'
    BY <1>1, <1>2, <2>1 DEF IInv, Generations, TypeOK
  <2>5. Counting' /\ Working'
    BY <1>1, <1>2, <1>5, <2>1, <2>2 DEF IInv, TypeOK, Counting, Working, LiveStates
  <2>6. SentinelLast'
    <3> SUFFICES ASSUME NEW g \in Gens, NEW i \in DOMAIN items'[g],
                        items'[g][i] = Sentinel
                 PROVE  FALSE
      BY DEF SentinelLast
    <3>1. CASE g # made + 1
      <4>1. items'[g] = <<>>
        BY <1>1, <2>1, <3>1
      <4>2. DOMAIN <<>> = {}
        OBVIOUS
      <4> QED
        BY <4>1, <4>2
    <3>2. CASE g = made + 1
      BY <2>1, <2>2, <3>2
    <3> QED
      BY <3>1, <3>2
  <2>7. Range(items'[made + 1]) = {t}
    BY <2>1, <2>2 DEF Range
  <2>8. NoTaskLost' /\ (settled \subseteq accepted)'
    BY <1>1, <1>2, <1>5, <2>7 DEF NoTaskLost, Pending, Waiting, InHand
  <2>9. DiscoveryFollowsStop' /\ CleanExit'
    BY <1>1, <1>2, <1>5, <2>1 DEF IInv, DiscoveryFollowsStop, CleanExit
  <2> QED
    BY <1>3, <2>3, <2>4, <2>5, <2>6, <2>8, <2>9 DEF IInv
<1> QED
  BY <1>4, <1>5

\* A start that is refused clears the subclass's event at most, when no worker
\* is there to read it.
LEMMA RefusedInv ==
    ASSUME IInv, ~Alive(worker), UNCHANGED <<queue, worker, stopping, made, threads>>,
           discoveryStop' = FALSE, UNCHANGED <<queues, callers, history>>
    PROVE  IInv'
<1> USE DEF threads, queues, callers, history
<1>1. TypeOK' /\ Stoppers'
  BY DEF IInv, TypeOK, Stoppers
<1>2. Generations' /\ Counting' /\ Working' /\ SentinelLast'
  BY DEF IInv, Generations, Counting, Working, SentinelLast
<1>3. NoTaskLost' /\ DiscoveryFollowsStop' /\ CleanExit' /\ (settled \subseteq accepted)'
  BY DEF IInv, NoTaskLost, Pending, Waiting, InHand, DiscoveryFollowsStop,
         CleanExit, Alive
<1> QED
  BY <1>1, <1>2, <1>3 DEF IInv

LEMMA StartInv == ASSUME IInv, Start PROVE IInv'
<1>1. \A c \in Callers : pc[c] = "out"
  BY NamesAssumption DEF Start, IInv, Stoppers
<1>2. CASE MayCreate /\ \E outcome \in {"starting", "unstarted"} : Create(outcome)
  BY <1>1, <1>2, CreateInv DEF Start, history
<1>3. CASE ~MayCreate \/ ~\E outcome \in {"starting", "unstarted"} : Create(outcome)
  BY <1>3, RefusedInv DEF Start
<1> QED
  BY <1>2, <1>3

LEMMA EnqueueLazilyInv ==
    ASSUME IInv, NEW t \in Tasks, EnqueueLazily(t) PROVE IInv'
<1>1. \A c \in Callers : pc[c] = "out"
  BY DEF EnqueueLazily, IInv, TypeOK, Stoppers
<1>2. CASE MayCreate /\ Create("starting") /\ Put(made + 1, t)
           /\ accepted' = accepted \union {t}
  BY <1>1, <1>2, CreateInv DEF EnqueueLazily
<1>3. CASE MayCreate /\ Create("unstarted") /\ UNCHANGED <<queues, accepted>>
  BY <1>1, <1>3, CreateInv DEF EnqueueLazily
<1>4. CASE /\ Unsettled(queue) /\ discoveryStop' = FALSE
           /\ UNCHANGED <<queue, worker, stopping, made, threads, queues, accepted>>
  BY <1>4, RefusedInv DEF EnqueueLazily, history
<1> QED
  BY <1>2, <1>3, <1>4 DEF EnqueueLazily
LEMMA WorkerBeginsInv ==
    ASSUME IInv, NEW g \in Gens, WorkerBegins(g) PROVE IInv'
<1> USE DEF WorkerBegins, fields, queues, callers, history
<1>1. /\ thread[g] \in LiveStates /\ g = queue /\ queue # 0
      /\ g = worker /\ Alive(worker)
  BY LiveIsCurrent DEF LiveStates
<1>2. thread' = [thread EXCEPT ![g] = "idle"] /\ mine' = [mine EXCEPT ![g] = g]
  BY <1>1
<1>3. TypeOK' /\ Stoppers'
  BY <1>2 DEF IInv, TypeOK, Stoppers, ThreadStates, LiveStates
<1>4. Generations' /\ SentinelLast'
  BY <1>1, <1>2 DEF IInv, TypeOK, Generations, SentinelLast
<1>5. Counting' /\ Working'
  BY <1>1, <1>2 DEF IInv, TypeOK, Counting, Working
<1>6. NoTaskLost' /\ CleanExit' /\ (settled \subseteq accepted)'
  BY <1>2 DEF IInv, TypeOK, NoTaskLost, Pending, Waiting, InHand, CleanExit
<1>7. DiscoveryFollowsStop'
  BY <1>1 DEF IInv, DiscoveryFollowsStop
<1> QED
  BY <1>3, <1>4, <1>5, <1>6, <1>7 DEF IInv

LEMMA TakesTaskInv ==
    ASSUME IInv, NEW g \in Gens, TakesTask(g) PROVE IInv'
<1> USE NamesAssumption DEF TakesTask, fields, callers, history
<1>1. /\ thread[g] \in LiveStates /\ g = queue /\ queue # 0 /\ mine[g] = g
      /\ g = worker /\ Alive(worker)
  BY LiveIsCurrent DEF LiveStates
<1>2. /\ items[g] # <<>> /\ Head(items[g]) # Sentinel
      /\ items' = [items EXCEPT ![g] = Tail(@)]
      /\ hand' = [hand EXCEPT ![g] = Head(items[g])]
      /\ thread' = [thread EXCEPT ![g] = "busy"]
  BY <1>1
<1>3. /\ items' \in [Gens -> Seq(Tasks \union {Sentinel})]
      /\ Head(items[g]) \in Tasks \union {Sentinel}
      /\ Len(items[g]) \in Nat /\ Len(items[g]) > 0
      /\ Len(items'[g]) = Len(items[g]) - 1
      /\ \A i \in DOMAIN items'[g] :
            i \in Nat /\ i + 1 \in DOMAIN items[g] /\ items'[g][i] = items[g][i + 1]
      /\ Range(items[g]) = {Head(items[g])} \union Range(items'[g])
      /\ \A h \in Gens : h # g => items'[h] = items[h]
  BY <1>2, TakeFacts
<1>4. TypeOK' /\ Stoppers'
  BY <1>2, <1>3 DEF IInv, TypeOK, Stoppers, ThreadStates, LiveStates
<1>5. Generations'
  BY <1>1, <1>2, <1>3 DEF IInv, TypeOK, Generations
<1>6. Counting' /\ Working'
  BY <1>1, <1>2, <1>3 DEF IInv, TypeOK, Counting, Working
<1>7. SentinelLast'
  BY <1>1, <1>2, <1>3 DEF IInv, SentinelLast
<1>8. hand[g] = NoOne
  BY DEF IInv, Counting
<1>9. NoTaskLost' /\ (settled \subseteq accepted)'
  BY <1>1, <1>2, <1>3, <1>8 DEF IInv, TypeOK, NoTaskLost, Pending, Waiting, InHand
<1>10. DiscoveryFollowsStop' /\ CleanExit'
  BY <1>1, <1>2 DEF IInv, TypeOK, DiscoveryFollowsStop, CleanExit
<1> QED
  BY <1>4, <1>5, <1>6, <1>7, <1>9, <1>10 DEF IInv

LEMMA TakesSentinelInv ==
    ASSUME IInv, NEW g \in Gens, TakesSentinel(g) PROVE IInv'
<1> USE NamesAssumption DEF TakesSentinel, fields, callers, history
<1>1. /\ thread[g] \in LiveStates /\ g = queue /\ queue # 0 /\ mine[g] = g
      /\ g = worker /\ Alive(worker)
  BY LiveIsCurrent DEF LiveStates
<1>2. /\ items[g] # <<>> /\ Head(items[g]) = Sentinel
      /\ items' = [items EXCEPT ![g] = Tail(@)]
      /\ unfinished' = [unfinished EXCEPT ![g] = unfinished[g] - 1]
      /\ thread' = [thread EXCEPT ![g] = "leaving"]
  BY <1>1
<1>3. /\ items' \in [Gens -> Seq(Tasks \union {Sentinel})]
      /\ Head(items[g]) = items[g][1] /\ 1 \in DOMAIN items[g]
      /\ Len(items[g]) \in Nat /\ Len(items[g]) > 0
      /\ Len(items'[g]) = Len(items[g]) - 1
      /\ Range(items[g]) = {Head(items[g])} \union Range(items'[g])
      /\ Len(items[g]) = 1 => items'[g] = <<>>
      /\ \A h \in Gens : h # g => items'[h] = items[h]
  BY <1>2, TakeFacts
<1>4. stopping /\ items'[g] = <<>> /\ Len(items[g]) = 1 /\ Len(items'[g]) = 0
  BY <1>2, <1>3 DEF IInv, SentinelLast
<1>5. unfinished[g] = 1
  BY <1>4 DEF IInv, Counting
<1>6. TypeOK' /\ Stoppers'
  BY <1>2, <1>3, <1>5 DEF IInv, TypeOK, Stoppers, ThreadStates, LiveStates
<1>7. Generations'
  BY <1>1, <1>2, <1>3 DEF IInv, TypeOK, Generations
<1>8. Counting' /\ Working'
  BY <1>1, <1>2, <1>3, <1>4, <1>5 DEF IInv, TypeOK, Counting, Working
<1>9. SentinelLast'
  BY <1>3, <1>4 DEF IInv, SentinelLast
<1>10. NoTaskLost' /\ (settled \subseteq accepted)'
  BY <1>1, <1>2, <1>3 DEF IInv, NoTaskLost, Pending, Waiting, InHand
<1>11. DiscoveryFollowsStop' /\ CleanExit'
  BY <1>1, <1>2, <1>5 DEF IInv, TypeOK, DiscoveryFollowsStop, CleanExit
<1> QED
  BY <1>6, <1>7, <1>8, <1>9, <1>10, <1>11 DEF IInv

LEMMA EndsTaskInv ==
    ASSUME IInv, NEW g \in Gens, EndsTask(g) PROVE IInv'
<1> USE NamesAssumption DEF EndsTask, fields, callers
<1>1. /\ thread[g] \in LiveStates /\ g = queue /\ queue # 0 /\ mine[g] = g
      /\ g = worker /\ Alive(worker)
  BY LiveIsCurrent DEF LiveStates
<1>2. PICK next \in {"idle", "dead"} :
         /\ thread' = [thread EXCEPT ![g] = next]
         /\ next = "dead" => MayDie
  OBVIOUS
<1>3. /\ unfinished' = [unfinished EXCEPT ![g] = unfinished[g] - 1]
      /\ hand' = [hand EXCEPT ![g] = NoOne]
      /\ hand[g] \in Tasks /\ items[g] \in Seq(Tasks \union {Sentinel})
      /\ unfinished[g] = Len(items[g]) + 1
  BY <1>1 DEF IInv, TypeOK, Counting
<1>4. TypeOK' /\ Stoppers'
  <2>1. /\ thread' \in [Gens -> ThreadStates]
        /\ hand' \in [Gens -> Tasks \union {NoOne}]
        /\ settled' \subseteq Tasks
    BY <1>2, <1>3 DEF IInv, TypeOK, ThreadStates, LiveStates
  <2>2. unfinished' \in [Gens -> Nat]
    <3>1. unfinished[g] - 1 = Len(items[g]) /\ Len(items[g]) \in Nat
      BY <1>3
    <3>2. unfinished \in [Gens -> Nat]
      BY DEF IInv, TypeOK
    <3>3. unfinished' = [unfinished EXCEPT ![g] = unfinished[g] - 1]
      BY <1>3
    <3> QED
      BY <3>1, <3>2, <3>3
  <2>3. TypeOK'
    BY <2>1, <2>2 DEF IInv, TypeOK
  <2>4. Stoppers'
    BY DEF IInv, Stoppers
  <2> QED
    BY <2>3, <2>4
<1>5. Generations' /\ SentinelLast'
  BY <1>1, <1>2, <1>3 DEF IInv, TypeOK, Generations, SentinelLast
<1>6. Counting' /\ Working'
  BY <1>1, <1>2, <1>3 DEF IInv, TypeOK, Counting, Working
<1>7. NoTaskLost' /\ (settled \subseteq accepted)'
  BY <1>1, <1>3 DEF IInv, TypeOK, NoTaskLost, Pending, Waiting, InHand
<1>8. DiscoveryFollowsStop' /\ CleanExit'
  BY <1>1, <1>2, <1>3 DEF IInv, TypeOK, DiscoveryFollowsStop, CleanExit
<1> QED
  BY <1>4, <1>5, <1>6, <1>7, <1>8 DEF IInv

LEMMA WorkerExitsInv ==
    ASSUME IInv, NEW g \in Gens, WorkerExits(g) PROVE IInv'
<1> USE DEF WorkerExits, fields, queues, callers, history
<1>1. /\ g = queue /\ queue # 0 /\ g = worker
  BY LiveIsCurrent DEF LiveStates
<1>2. TypeOK' /\ Stoppers'
  BY DEF IInv, TypeOK, Stoppers, ThreadStates
<1>3. Generations' /\ Counting' /\ Working'
  BY <1>1 DEF IInv, TypeOK, Generations, Counting, Working, LiveStates
<1>4. SentinelLast' /\ NoTaskLost' /\ (settled \subseteq accepted)'
  BY DEF IInv, SentinelLast, NoTaskLost, Pending, Waiting, InHand
<1>5. DiscoveryFollowsStop' /\ CleanExit'
  BY <1>1 DEF IInv, TypeOK, DiscoveryFollowsStop, CleanExit, Alive, LiveStates
<1> QED
  BY <1>2, <1>3, <1>4, <1>5 DEF IInv

LEMMA StepInv == IInv /\ [Next]_vars => IInv'
<1> SUFFICES ASSUME IInv, [Next]_vars PROVE IInv'
  OBVIOUS
<1>1. CASE Start
  BY <1>1, StartInv
<1>2. ASSUME NEW t \in Tasks, Enqueue(t) \/ EnqueueLazily(t) PROVE IInv'
  BY <1>2, EnqueueInv, EnqueueLazilyInv
<1>3. ASSUME NEW c \in Callers, Stop(c) PROVE IInv'
  BY <1>3, StopRequestInv, StopJoinedInv, StopSettleInv DEF Stop
<1>4. ASSUME NEW g \in Gens, StopFromWorker(g) \/ Worker(g) PROVE IInv'
  BY <1>4, StopFromWorkerInv, WorkerBeginsInv, TakesTaskInv, TakesSentinelInv,
     EndsTaskInv, WorkerExitsInv DEF Worker
<1>5. CASE UNCHANGED vars
  BY <1>5 DEF vars, IInv, TypeOK, Generations, Counting, Working, Stoppers,
     SentinelLast, NoTaskLost, Pending, Waiting, InHand, DiscoveryFollowsStop,
     CleanExit, Alive
<1> QED
  BY <1>1, <1>2, <1>3, <1>4, <1>5 DEF Next

------------------------------------------------------------------------------
\* The invariant of the queue: in particular its types, that no accepted task
\* is ever lost, that nothing stands behind the sentinel of a stop.
THEOREM Invariance == Spec => []IInv
<1> QED
  BY InitInv, StepInv, PTL DEF Spec

\* Type correctness.
THEOREM TypeCorrect == Spec => []TypeOK
<1>1. IInv => TypeOK
  BY DEF IInv
<1> QED
  BY <1>1, Invariance, PTL

\* No accepted task is lost, whatever starts, stops, deaths and failed thread
\* starts happen.
THEOREM TasksAreKept == Spec => []NoTaskLost
<1>1. IInv => NoTaskLost
  BY DEF IInv
<1> QED
  BY <1>1, Invariance, PTL

\* One worker at a time, and it drains the queue producers put into.
THEOREM WorkerIsCurrent == Spec => []OneWorker
<1>1. IInv => OneWorker
  BY LiveIsCurrent DEF OneWorker
<1> QED
  BY <1>1, Invariance, PTL

\* stop() that returned True left nothing unsettled and nobody running.
THEOREM StopIsBarrier == Spec => []StopBarrier
<1>1. IInv => StopBarrier
  BY LiveIsCurrent DEF StopBarrier, IInv, NoTaskLost, Pending
<1> QED
  BY <1>1, Invariance, PTL

\* Admission that was closed is opened again by a creating start only, when all
\* that was accepted before is settled.
THEOREM ReopeningIsClean == Spec => ReopensSettled
<1>1. IInv /\ [Next]_vars => [stopping /\ ~stopping' => made' = made + 1
                                                     /\ accepted = settled]_vars
  <2> SUFFICES ASSUME IInv, Next, stopping, ~stopping'
               PROVE  made' = made + 1 /\ accepted = settled
    BY DEF vars
  <2>1. CASE Start
    BY <2>1, CreateFacts DEF Start, Create
  <2>2. ASSUME NEW t \in Tasks, Enqueue(t) \/ EnqueueLazily(t) PROVE FALSE
    BY <2>2 DEF Enqueue, EnqueueLazily
  <2>3. ASSUME NEW c \in Callers, Stop(c) PROVE FALSE
    BY <2>3 DEF Stop, StopRequest, StopJoined, StopSettle, RequestStop, fields
  <2>4. ASSUME NEW g \in Gens, StopFromWorker(g) \/ Worker(g) PROVE FALSE
    BY <2>4 DEF StopFromWorker, RequestStop, Worker, WorkerBegins, TakesTask,
                TakesSentinel, EndsTask, WorkerExits, fields
  <2> QED
    BY <2>1, <2>2, <2>3, <2>4 DEF Next
<1> QED
  BY <1>1, Invariance, PTL DEF Spec, ReopensSettled
------------------------------------------------------------------------------
\* Every step of the queue is a step of the drain barrier or leaves it alone.
LEMMA BarrierStep == IInv /\ [Next]_vars => [Barrier!Next]_(Barrier!vars)
<1> SUFFICES ASSUME IInv, [Next]_vars PROVE [Barrier!Next]_(Barrier!vars)
  OBVIOUS
<1> USE DEF Barrier!Next, Barrier!vars
<1>1. ASSUME MayCreate, NEW outcome \in {"starting", "unstarted"}, Create(outcome),
             UNCHANGED history
      PROVE  [Barrier!Next]_(Barrier!vars)
  <2>1. accepted = settled
    BY <1>1, CreateFacts
  <2>2. Phase' = "open" /\ accepted' = accepted /\ settled' = settled
    BY <1>1, CreateFacts DEF Create, Phase, history, IInv, TypeOK, Gens
  <2>3. CASE Phase = "open"
    BY <2>2, <2>3
  <2>4. CASE Phase # "open"
    BY <2>1, <2>2, <2>4 DEF Barrier!Open
  <2> QED
    BY <2>3, <2>4
<1>2. ASSUME ~Alive(worker), UNCHANGED <<queue, stopping, history>>
      PROVE  [Barrier!Next]_(Barrier!vars)
  BY <1>2 DEF Phase, history
<1>3. CASE Start
  BY <1>1, <1>2, <1>3 DEF Start
<1>4. ASSUME NEW t \in Tasks, Enqueue(t) PROVE [Barrier!Next]_(Barrier!vars)
  <2>1. Phase = "open" /\ Phase' = "open"
    BY <1>4 DEF Enqueue, fields, Phase
  <2>2. Barrier!Accept(t)
    BY <1>4, <2>1 DEF Enqueue, Barrier!Accept
  <2> QED
    BY <2>2
<1>5. ASSUME NEW t \in Tasks, EnqueueLazily(t) PROVE [Barrier!Next]_(Barrier!vars)
  <2>1. Phase \in {"fresh", "open"}
    BY <1>5 DEF EnqueueLazily, Phase
  <2>2. CASE /\ MayCreate /\ Create("starting")
             /\ accepted' = accepted \union {t}
    <3>1. Phase' = "open"
      BY <2>2, CreateFacts DEF Create, Phase, Gens
    <3> QED
      BY <1>5, <2>1, <2>2, <3>1 DEF EnqueueLazily, Barrier!Accept
  <2>3. CASE MayCreate /\ Create("unstarted") /\ UNCHANGED accepted
    BY <1>1, <1>5, <2>3 DEF EnqueueLazily, history
  <2>4. CASE UNCHANGED <<queue, stopping, accepted>>
    BY <1>2, <1>5, <2>4 DEF EnqueueLazily, history
  <2> QED
    BY <1>5, <2>2, <2>3, <2>4 DEF EnqueueLazily
<1>6. ASSUME RequestStop, UNCHANGED history PROVE [Barrier!Next]_(Barrier!vars)
  <2>1. accepted' = accepted /\ settled' = settled
    BY <1>6 DEF history
  <2>2. queue' = queue /\ stopping' = TRUE
    BY <1>6 DEF RequestStop
  <2>3. CASE stopping
    BY <2>1, <2>2, <2>3 DEF Phase
  <2>4. CASE ~stopping /\ queue # 0
    BY <2>1, <2>2, <2>4 DEF Phase, Barrier!Close
  <2>5. CASE ~stopping /\ queue = 0
    BY <2>1, <2>2, <2>5 DEF Phase, Barrier!ReportStopped, IInv, NoTaskLost, Pending
  <2> QED
    BY <2>3, <2>4, <2>5
<1>7. ASSUME NEW c \in Callers, StopSettle(c) PROVE [Barrier!Next]_(Barrier!vars)
  <2>1. stopping /\ stopping' = stopping
    BY <1>7 DEF StopSettle, IInv, Stoppers
  <2>2. accepted' = accepted /\ settled' = settled
    BY <1>7 DEF StopSettle, history
  <2>3. CASE queue' = queue
    BY <2>1, <2>2, <2>3 DEF Phase
  <2>4. CASE queue' # queue
    <3>1. queue' = 0 /\ queue # 0
      BY <1>7, <2>4 DEF StopSettle
    <3>2. accepted = settled
      <4>1. IInv'
        BY <1>7, StopSettleInv
      <4>2. Pending' = {}
        BY <3>1 DEF Pending
      <4> QED
        BY <2>2, <4>1, <4>2 DEF IInv, NoTaskLost
    <3> QED
      BY <2>1, <2>2, <3>1, <3>2 DEF Phase, Barrier!ReportStopped
  <2> QED
    BY <2>3, <2>4
<1>8. ASSUME NEW g \in Gens, EndsTask(g) PROVE [Barrier!Next]_(Barrier!vars)
  <2>1. /\ Phase' = Phase /\ accepted' = accepted
        /\ settled' = settled \union {hand[g]}
    BY <1>8 DEF EndsTask, fields, Phase
  <2>2. g = queue /\ queue # 0
    BY <1>8, LiveIsCurrent DEF EndsTask, LiveStates
  <2>3. hand[g] \in Tasks /\ hand[g] \in accepted
    BY <1>8, <2>2 DEF EndsTask, IInv, TypeOK, Counting, NoTaskLost, Pending, InHand
  <2>4. CASE hand[g] \in settled
    BY <2>1, <2>4
  <2>5. CASE hand[g] \notin settled
    <3>1. {hand[g]} \in SUBSET Tasks /\ {hand[g]} \subseteq accepted \ settled
      BY <2>3, <2>5
    <3>2. Barrier!Settle({hand[g]})
      BY <2>1, <3>1 DEF Barrier!Settle
    <3> QED
      BY <3>1, <3>2
  <2> QED
    BY <2>4, <2>5
<1>9. ASSUME UNCHANGED <<queue, stopping, history>> PROVE [Barrier!Next]_(Barrier!vars)
  BY <1>9 DEF Phase, history
<1>10. ASSUME NEW c \in Callers, Stop(c) PROVE [Barrier!Next]_(Barrier!vars)
  BY <1>6, <1>7, <1>9, <1>10 DEF Stop, StopRequest, StopJoined, fields
<1>11. ASSUME NEW g \in Gens, StopFromWorker(g) \/ Worker(g)
       PROVE  [Barrier!Next]_(Barrier!vars)
  BY <1>6, <1>8, <1>9, <1>11 DEF StopFromWorker, Worker, WorkerBegins, TakesTask,
     TakesSentinel, WorkerExits, fields
<1>12. CASE UNCHANGED vars
  BY <1>9, <1>12 DEF vars, history
<1> QED
  BY <1>3, <1>4, <1>5, <1>10, <1>11, <1>12 DEF Next

\* The worker queue implements the drain barrier (its safety part; that accepted
\* tasks get settled under fairness is left to the runs).
THEOREM QueueImplementsBarrier == Spec => ImplementsBarrier
<1>1. Init => Barrier!Init
  BY DEF Init, Barrier!Init, Phase
<1> QED
  BY <1>1, BarrierStep, Invariance, PTL DEF Spec, Barrier!Spec, ImplementsBarrier
=============================================================================
