----------------------- MODULE ToolConfirmationProofs -----------------------
(***************************************************************************)
(* For every number of tokens, clicks, scheduled tasks, reloads and        *)
(* threads that do not start: the queues agree with the jobs, a            *)
(* confirmation is good once, and the message says what was done.          *)
(***************************************************************************)
EXTENDS ToolConfirmation, SequenceTheorems, TLAPS

------------------------------------------------------------------------------
(* The inductive invariant.                                                *)

\* A coordinator that is made is not closed before its plugin is stopped.
Lifecycle ==
    /\ closed \subseteq 1 .. current
    /\ life # "stopped" => current \notin closed
    /\ current + budget.reloads <= MaxReloads + 1

ScheduledJobs ==
    \A j \in Scheduled : job[j] \in {"none", "queued", "cancelled", "work", "end", "over"}

\* Before a request is let into a queue it has no job; some steps only Telegram takes; a
\* thread starts for what the page has queued.
Order(r) ==
    /\ pc[r] = "idle" <=> about[r] = None
    /\ pc[r] \in {"idle", "asked", "claim", "pick", "reserve", "again", "withdraw", "cancel",
                  "drop", "refuse"} => job[r] = "none"
    /\ pc[r] \in {"claim", "withdraw", "refuse", "wait"} => ~Page(r)
    /\ pc[r] = "spawn" => Page(r) /\ job[r] \in {"queued", "cancelled"}
    /\ pc[r] = "reject" => ~Cleanup(r) /\ job[r] \in {"none", "cancelled"}

\* A token whose preview is to come is unknown.
Untouched(t) ==
    /\ status[t] = "none" /\ told[t] = "none" /\ times[t] = 0
    /\ t \notin pending \union known
    /\ \A r \in Requests : about[r] # t

\* The message follows the status while it is known; a reload leaves neither.
MessageFollows(t) ==
    IF t \in known THEN told[t] = status[t] /\ status[t] # "none"
    ELSE t \notin pending /\ status[t] # "pending"

\* Who has taken the token out of _pending, and has not settled it.
Begun(r) == job[r] \in {"markAgain", "work"}
Holds(r) == Begun(r) \/ job[r] = "settle" \/ pc[r] = "cancel"
Holder(r, t) == about[r] = t /\ Holds(r)

\* A token is in _pending or has one holder.
Taken(t) ==
    /\ t \in pending => times[t] = 0 /\ \A r \in Requests : ~Holder(r, t)
    /\ \A r, s \in Requests : Holder(r, t) /\ Holder(s, t) => r = s
    /\ times[t] <= 1
    /\ t \in done => times[t] = 1
    /\ \A r \in Requests : about[r] = t /\ (Begun(r) \/ pc[r] = "cancel") => times[t] = 0

\* A request that has claimed its token.  The page's cleanups do not.
PageCleanup(r) == Page(r) /\ Cleanup(r)
Claimed(r) ==
    /\ about[r] \in Tokens /\ ~PageCleanup(r)
    /\ \/ pc[r] \in {"pick", "reserve", "again", "spawn", "wait", "reject"} \/ job[r] # "none"
       \/ pc[r] = "refuse" /\ Valid(about[r])

OneClaim(t) ==
    /\ \A r, s \in Requests : Claimed(r) /\ Claimed(s) /\ about[r] = t /\ about[s] = t => r = s
    /\ \A r \in Requests :
          about[r] = t /\ (Claimed(r) \/ job[r] \in Running \ {"mark"}) => status[t] # "pending"
    /\ times[t] > 0 => status[t] # "pending"

\* What succeeded is recorded with its job, and in the status once that has reported.
Successes ==
    /\ \A j \in Scheduled : outcome[j] = "failed"
    /\ \A r \in Requests : outcome[r] = "completed" =>
          /\ about[r] \in done /\ job[r] \in {"settle", "report", "end", "over"}
          /\ job[r] \in {"end", "over"} /\ about[r] \in known => status[about[r]] \in Final
    /\ \A t \in done : \E r \in Requests : about[r] = t /\ outcome[r] = "completed"
    /\ \A r \in Requests : job[r] = "settle" /\ about[r] \in done => outcome[r] = "completed"

\* A cleanup of the page that reports has taken its token, or found it gone.
PageReports == \A r \in Requests :
    about[r] \in Tokens /\ PageCleanup(r) /\ job[r] = "report" => ~Valid(about[r])

\* What is begun, or can still begin, is not said to be over.
Ready(r) ==
    \/ Begun(r)
    \/ /\ Valid(about[r])
       /\ \/ job[r] = "consume"
          \/ Claimed(r) /\ (pc[r] \in {"pick", "reserve", "again"} \/ job[r] = "queued")
ReadyIsOpen == \A r \in Requests :
    about[r] \in Tokens /\ Ready(r) =>
        told[about[r]] \notin Final \/ about[r] \in overruled \union doubted

IInv ==
    /\ WellFormed /\ Lifecycle /\ ScheduledJobs
    /\ \A r \in Requests : Order(r)
    /\ \A t \in budget.tokens : Untouched(t)
    /\ \A t \in Tokens : MessageFollows(t) /\ Taken(t) /\ OneClaim(t)
    /\ Successes /\ PageReports /\ ReadyIsOpen /\ OutcomeIsTrue

------------------------------------------------------------------------------
(* Types.                                                                  *)

\* Statuses, labels and states of jobs, spelled out; a job is a request or a task of the
\* scheduler.
LEMMA Names ==
    /\ {"none", "pending", "processing", "completed", "cancelled", "failed", "expired"} \subseteq Statuses
    /\ Labels = {"idle", "asked", "claim", "pick", "reserve", "again", "spawn", "mark", "wait",
                 "withdraw", "cancel", "drop", "reject", "refuse", "over"}
    /\ JobStates = {"none", "queued", "over", "cancelled", "mark", "consume", "markAgain", "work",
                    "settle", "report", "end"}
    /\ Requests \subseteq Jobs /\ Scheduled \subseteq Jobs /\ None \notin Tokens
BY NamesAssumption DEF Statuses, Final, Labels, JobStates, Running, Jobs

\* What has left "idle", or has a job, is about a token; only requests take the steps of a
\* confirmation.
LEMMA Places ==
    ASSUME IInv
    PROVE  /\ \A r \in Requests : pc[r] # "idle" => about[r] \in Tokens
           /\ \A j \in Jobs : job[j] \in {"mark", "consume", "markAgain", "settle", "report"} => j \in Requests
           /\ \A r \in Requests : job[r] # "none" => about[r] \in Tokens
BY DEF IInv, WellFormed, TypeOK, Order, ScheduledJobs, Jobs

\* The types of the variables that the proofs about behaviour use.
LEMMA Types ==
    ASSUME IInv
    PROVE  /\ job \in [Jobs -> JobStates] /\ outcome \in [Jobs -> {"completed", "failed"}]
           /\ home \in [Jobs -> Coordinators \union {None}]
           /\ status \in [Tokens -> Statuses] /\ told \in [Tokens -> Statuses]
           /\ pc \in [Requests -> Labels] /\ what \in [Requests -> Clicks]
           /\ about \in [Requests -> Tokens \union {None}] /\ seen \in [Requests -> Coordinators]
           /\ times \in [Tokens -> Nat] /\ pending \subseteq Tokens /\ done \subseteq Tokens
           /\ current \in Coordinators /\ budget \in Budgets
BY DEF IInv, WellFormed, TypeOK

\* An update within the range keeps the type of a function.
LEMMA Update == ASSUME NEW S, NEW T, NEW f \in [S -> T], NEW x, NEW y \in T
                PROVE  [f EXCEPT ![x] = y] \in [S -> T]
OBVIOUS

\* _set_cleanup_status keeps the types of the status and the message.
LEMMA PutType ==
    ASSUME TypeOK, NEW t, NEW s \in Statuses, Put(t, s)
    PROVE  status' \in [Tokens -> Statuses] /\ told' \in [Tokens -> Statuses]
<1>1. status \in [Tokens -> Statuses] /\ told \in [Tokens -> Statuses]
  BY DEF TypeOK
<1>2. status' = status \/ status' = [status EXCEPT ![t] = s]
  BY DEF Put
<1>3. told' = told \/ told' = [told EXCEPT ![t] = s]
  BY DEF Put
<1> QED
  BY <1>1, <1>2, <1>3, Update

\* And so does _finish_confirmation.
LEMMA FinishType ==
    ASSUME TypeOK, NEW t, NEW s \in Statuses, Finish(t, s)
    PROVE  status' \in [Tokens -> Statuses] /\ told' \in [Tokens -> Statuses]
BY PutType DEF Finish, TypeOK

\* And a request that gives its token up.
LEMMA FailType ==
    ASSUME TypeOK, NEW r, about[r] \in Tokens, Fail(r)
    PROVE  /\ status' \in [Tokens -> Statuses] /\ told' \in [Tokens -> Statuses]
           /\ doubted' \subseteq Tokens
<1>1. Finish(about[r], "failed") /\ (doubted' = doubted \/ doubted' = doubted \union {about[r]})
  BY DEF Fail
<1> QED
  BY <1>1, FinishType, Names DEF TypeOK

\* A request goes to a label.
LEMMA GotoType ==
    ASSUME TypeOK, NEW r, NEW l \in Labels, Goto(r, l) PROVE pc' \in [Requests -> Labels]
BY Update DEF TypeOK, Goto

\* A job goes to a state.
LEMMA StepType ==
    ASSUME TypeOK, NEW j, NEW l \in JobStates, Step(j, l) PROVE job' \in [Jobs -> JobStates]
BY Update DEF TypeOK, Step

\* A job records a result.
LEMMA ResultType ==
    ASSUME TypeOK, NEW j, NEW s \in {"completed", "failed"}, Result(j, s)
    PROVE  outcome' \in [Jobs -> {"completed", "failed"}]
BY Update DEF TypeOK, Result

\* A scenario keeps its tokens and counts what it spends.
LEMMA OnceType ==
    ASSUME TypeOK, NEW k \in {"clicks", "ticks", "reloads", "faults"}, Once(k)
    PROVE  /\ budget' \in Budgets /\ budget'.tokens = budget.tokens
           /\ budget'.reloads = IF k = "reloads" THEN budget.reloads - 1 ELSE budget.reloads
           /\ budget.reloads \in Nat /\ (k = "reloads" => budget.reloads > 0)
<1>0. budget \in Budgets /\ budget[k] > 0 /\ budget' = [budget EXCEPT ![k] = @ - 1]
  BY DEF TypeOK, Once
<1>1. CASE k = "clicks" BY <1>0, <1>1 DEF Budgets
<1>2. CASE k = "ticks" BY <1>0, <1>2 DEF Budgets
<1>3. CASE k = "reloads" BY <1>0, <1>3 DEF Budgets
<1>4. CASE k = "faults" BY <1>0, <1>4 DEF Budgets
<1> QED BY <1>1, <1>2, <1>3, <1>4

\* _reserve appends a job.
LEMMA QueueType ==
    ASSUME TypeOK, NEW j \in Jobs, NEW g \in Coordinators, Queue(j, g)
    PROVE  /\ waiting' \in [Coordinators -> Seq(Jobs)] /\ job' \in [Jobs -> JobStates]
           /\ home' \in [Jobs -> Coordinators \union {None}]
<1>1. Append(waiting[g], j) \in Seq(Jobs)
  BY DEF TypeOK
<1> QED
  BY <1>1, Names DEF TypeOK, Queue

\* remove() takes one job out of a queue that holds each job once, and nothing else.
LEMMA WithoutFacts ==
    ASSUME NEW S, NEW q \in Seq(S), NEW j \in Range(q), IsInjective(q)
    PROVE  /\ Without(q, j) \in Seq(S)
           /\ Range(Without(q, j)) = Range(q) \ {j}
           /\ IsInjective(Without(q, j))
<1>0. Len(q) \in Nat /\ DOMAIN q = 1 .. Len(q)
  OBVIOUS
<1>1. PICK n \in 1 .. Len(q) : n = (CHOOSE i \in DOMAIN q : q[i] = j) /\ q[n] = j
  BY DEF Range
<1> DEFINE a == SubSeq(q, 1, n - 1)
           b == SubSeq(q, n + 1, Len(q))
           w == Without(q, j)
<1>2. w = a \o b
  BY <1>1 DEF Without, RemoveAt
<1>3. /\ a \in Seq(S) /\ Len(a) = n - 1 /\ \A i \in 1 .. n - 1 : a[i] = q[i]
      /\ b \in Seq(S) /\ Len(b) = Len(q) - n /\ \A i \in 1 .. Len(q) - n : b[i] = q[n + i]
  BY <1>1
<1> HIDE DEF a, b, w
<1>4. /\ w \in Seq(S) /\ Len(w) = Len(q) - 1
      /\ \A i \in 1 .. Len(q) - 1 : w[i] = IF i < n THEN q[i] ELSE q[i + 1]
  <2>1. /\ w \in Seq(S) /\ Len(w) = Len(q) - 1
        /\ \A i \in 1 .. Len(w) : w[i] = IF i <= Len(a) THEN a[i] ELSE b[i - Len(a)]
    <3>1. Len(a) + Len(b) = Len(q) - 1 /\ Len(q) - 1 \in Nat
      BY <1>1, <1>3
    <3>2. /\ a \o b \in Seq(S) /\ Len(a \o b) = Len(a) + Len(b)
          /\ \A i \in 1 .. Len(a) + Len(b) : (a \o b)[i] = IF i <= Len(a) THEN a[i] ELSE b[i - Len(a)]
      <4>1. a \in Seq(S) /\ b \in Seq(S)
        BY <1>3
      <4> QED BY <4>1, ConcatProperties, Zenon
    <3> QED BY <3>1, <3>2, <1>2, Zenon
  <2>2. \A i \in 1 .. Len(q) - 1 : i < n => i <= Len(a) /\ a[i] = q[i]
    BY <1>1, <1>3
  <2>3. ASSUME NEW i \in 1 .. Len(q) - 1, ~(i < n) PROVE ~(i <= Len(a)) /\ b[i - Len(a)] = q[i + 1]
    <3> DEFINE m == i - Len(a)
    <3>1. m \in 1 .. Len(q) - n /\ n + m = i + 1 /\ ~(i <= Len(a))
      BY <2>3, <1>0, <1>1, <1>3
    <3> HIDE DEF m
    <3>2. b[m] = q[n + m]
      BY <3>1, <1>3
    <3> QED BY <3>1, <3>2 DEF m
  <2> QED BY <2>1, <2>2, <2>3
<1>5. DOMAIN w = 1 .. Len(q) - 1 /\ DOMAIN q = 1 .. Len(q)
  BY <1>4
<1>6. \A i \in 1 .. Len(q) - 1 : w[i] \in Range(q) \ {j}
  <2> TAKE i \in 1 .. Len(q) - 1
  <2>1. CASE i < n
    BY <2>1, <1>1, <1>4, <1>5 DEF Range, IsInjective
  <2>2. CASE ~(i < n)
    <3>1. i + 1 \in 1 .. Len(q) /\ i + 1 # n
      BY <2>2, <1>0
    <3>2. w[i] = q[i + 1]
      BY <2>2, <1>4
    <3> QED BY <3>1, <3>2, <1>0, <1>1 DEF Range, IsInjective
  <2> QED BY <2>1, <2>2
<1>7. \A i \in 1 .. Len(q) : q[i] # j => \E k \in 1 .. Len(q) - 1 : w[k] = q[i]
  <2> SUFFICES ASSUME NEW i \in 1 .. Len(q), i # n PROVE \E k \in 1 .. Len(q) - 1 : w[k] = q[i]
    BY <1>1
  <2>1. CASE i < n
    BY <2>1, <1>1, <1>4
  <2>2. CASE i > n
    <3>1. i - 1 \in 1 .. Len(q) - 1 /\ ~(i - 1 < n) /\ (i - 1) + 1 = i
      BY <2>2
    <3>2. w[i - 1] = q[i]
      BY <3>1, <1>4
    <3> QED BY <3>1, <3>2
  <2> QED BY <2>1, <2>2
<1>8. Range(w) = Range(q) \ {j}
  <2>1. Range(w) \subseteq Range(q) \ {j}
    BY <1>5, <1>6 DEF Range
  <2>2. Range(q) \ {j} \subseteq Range(w)
    BY <1>5, <1>7 DEF Range
  <2> QED BY <2>1, <2>2
<1>9. \A i, k \in DOMAIN w : w[i] = w[k] => i = k
  <2> SUFFICES ASSUME NEW i \in DOMAIN w, NEW k \in DOMAIN w, w[i] = w[k] PROVE i = k
    OBVIOUS
  <2> DEFINE Place(m) == IF m < n THEN m ELSE m + 1
  <2>1. \A m \in DOMAIN w : Place(m) \in DOMAIN q /\ w[m] = q[Place(m)]
    BY <1>1, <1>4, <1>5
  <2>2. q[Place(i)] = q[Place(k)]
    BY <2>1
  <2>3. Place(i) = Place(k)
    <3> HIDE DEF Place
    <3> QED BY <2>1, <2>2, <1>1 DEF IsInjective
  <2> QED BY <2>3, <1>1, <1>5
<1> QED BY <1>4, <1>8, <1>9 DEF w, IsInjective

\* A job that leaves its queue leaves the other queues alone.
LEMMA LeavesQueue ==
    ASSUME IInv, NEW j \in Jobs, job[j] = "queued", NEW g, g = home[j],
           waiting' = [waiting EXCEPT ![g] = Without(@, j)]
    PROVE  /\ waiting' \in [Coordinators -> Seq(Jobs)]
           /\ \A h \in Coordinators :
                 /\ Range(waiting'[h]) = Range(waiting[h]) \ (IF h = g THEN {j} ELSE {})
                 /\ IsInjective(waiting'[h])
                 /\ waiting[h] = <<>> => waiting'[h] = <<>>
<1>1. waiting \in [Coordinators -> Seq(Jobs)] /\ QueuesAgree
  BY DEF IInv, WellFormed, TypeOK
<1>2. ASSUME NEW h \in Coordinators, h = g
      PROVE  /\ waiting'[h] \in Seq(Jobs) /\ Range(waiting'[h]) = Range(waiting[h]) \ {j}
             /\ IsInjective(waiting'[h]) /\ waiting[h] # <<>>
  <2> DEFINE q == waiting[h]
  <2>1. q \in Seq(Jobs) /\ j \in Range(q) /\ IsInjective(q)
    BY <1>1, <1>2 DEF QueuesAgree
  <2>2. waiting'[h] = Without(q, j)
    BY <1>1, <1>2
  <2>3. q # <<>>
    BY <2>1 DEF Range
  <2> QED
    BY <2>1, <2>2, <2>3, WithoutFacts
<1>3. \A h \in Coordinators : h # g => waiting'[h] = waiting[h]
  BY <1>1
<1>4. waiting' \in [Coordinators -> Seq(Jobs)]
  BY <1>1, <1>2, <1>3
<1>5. \A h \in Coordinators : h # g => IsInjective(waiting'[h])
  BY <1>1, <1>3 DEF QueuesAgree
<1> QED
  BY <1>2, <1>3, <1>4, <1>5

\* A job reports, or leaves that to run().
LEMMA LastType == \A j : LastStep(j) \in {"end", "report"}
BY DEF LastStep

\* The steps of a request keep the types.
LEMMA RequestTypes == ASSUME IInv, NEW r \in Requests, RequestStep(r) \/ SpawnFails(r) PROVE TypeOK'
<1> USE DEF At, Says, plugin, coordinators, jobs, tokens, history
<1>0. TypeOK
  BY DEF IInv, WellFormed
<1>1. CASE Claim(r)
  BY <1>0, <1>1, Names, Places, PutType, GotoType, StepType DEF TypeOK, Claim
<1>2. CASE PageConfirms(r)
  BY <1>0, <1>2, Names, GotoType DEF TypeOK, PageConfirms
<1>3. CASE BotLooks(r)
  BY <1>0, <1>3, Names, GotoType DEF TypeOK, BotLooks
<1>4. CASE BotClaims(r)
  BY <1>0, <1>4, Names, PutType, GotoType DEF TypeOK, BotClaims
<1>5. CASE BotWithdraws(r)
  BY <1>0, <1>5, Names, GotoType DEF TypeOK, BotWithdraws
<1>6. CASE BotCancels(r)
  BY <1>0, <1>6, Names, PutType, GotoType DEF TypeOK, BotCancels
<1>7. CASE Cancel(r)
  BY <1>0, <1>7, Names, PutType, GotoType DEF TypeOK, Cancel
<1>8. CASE Drop(r)
  BY <1>0, <1>8, Names, GotoType DEF TypeOK, Drop
<1>9. CASE Pick(r)
  <2>1. seen' \in [Requests -> Coordinators] /\ pc' \in [Requests -> Labels]
    BY <1>0, <1>9, Names, GotoType DEF TypeOK, Pick
  <2> QED
    BY <1>0, <1>9, <2>1 DEF TypeOK, Pick
<1>10. CASE HandOver(r)
  <2>1. seen' \in [Requests -> Coordinators]
    BY <1>0, <1>10 DEF TypeOK, HandOver
  <2>2. pc' \in [Requests -> Labels]
    BY <1>0, <1>10, Names, GotoType DEF HandOver, Rejected
  <2> QED
    BY <1>0, <1>10, <2>1, <2>2 DEF TypeOK, HandOver
<1>11. CASE Reserve(r)
  BY <1>0, <1>11, Names, QueueType, GotoType DEF TypeOK, Reserve, Submitted, Rejected
<1>12. CASE Spawn(r)
  BY <1>0, <1>12, Names, GotoType DEF TypeOK, Spawn, Submitted
<1>13. CASE PageMarks(r)
  BY <1>0, <1>13, Names, PutType, GotoType DEF TypeOK, PageMarks
<1>14. CASE Reject(r)
  BY <1>0, <1>14, Names, PutType, GotoType DEF TypeOK, Reject
<1>15. CASE Refuse(r)
  BY <1>0, <1>15, Names, Places, FailType, GotoType DEF TypeOK, Refuse
<1>16. CASE BotReturns(r)
  <2>1. about[r] \in Tokens /\ outcome[r] \in Statuses
    BY <1>0, <1>16, Names, Places DEF TypeOK, BotReturns
  <2>2. /\ status' \in [Tokens -> Statuses] /\ told' \in [Tokens -> Statuses]
        /\ doubted' \subseteq Tokens
    BY <1>0, <1>16, <2>1, FailType, FinishType DEF TypeOK, BotReturns, Ends
  <2>3. pc' \in [Requests -> Labels]
    BY <1>0, <1>16, Names, GotoType DEF BotReturns
  <2> QED
    BY <1>0, <1>16, <2>2, <2>3 DEF TypeOK, BotReturns
<1>17. CASE SpawnFails(r)
  <2>1. pc' \in [Requests -> Labels] /\ budget' \in Budgets
    BY <1>0, <1>17, Names, GotoType, OnceType DEF SpawnFails, Rejected
  <2>2. job' \in [Jobs -> JobStates]
    BY <1>0, <1>17, Names DEF TypeOK, SpawnFails
  <2>4. abandoned' \subseteq Tokens
    BY <1>0, <1>17, Places DEF TypeOK, SpawnFails
  <2>3. waiting' \in [Coordinators -> Seq(Jobs)]
    <3>1. CASE waiting' = waiting
      BY <1>0, <3>1 DEF TypeOK
    <3>2. CASE waiting' = [waiting EXCEPT ![home[r]] = Without(@, r)] /\ job[r] = "queued"
      BY <1>0, <3>2, Names, LeavesQueue DEF TypeOK
    <3> QED
      BY <1>17, <3>1, <3>2 DEF SpawnFails, IInv, Order
  <2> QED
    BY <1>0, <1>17, <2>1, <2>2, <2>3, <2>4 DEF TypeOK, SpawnFails
<1> QED
  BY <1>1, <1>2, <1>3, <1>4, <1>5, <1>6, <1>7, <1>8, <1>9, <1>10, <1>11, <1>12, <1>13, <1>14,
     <1>15, <1>16, <1>17 DEF RequestStep

\* The steps of a job keep the types.
LEMMA JobTypes == ASSUME IInv, NEW j \in Jobs, JobStep(j) PROVE TypeOK'
<1> USE DEF Says, plugin, coordinators, tokens, requests, history
<1>0. TypeOK
  BY DEF IInv, WellFormed
<1>1. CASE StartJob(j)
  <2>1. waiting' \in [Coordinators -> Seq(Jobs)]
    BY <1>0, <1>1, LeavesQueue DEF TypeOK, StartJob
  <2>2. active' \in [Coordinators -> Jobs \union {None}]
    BY <1>0, <1>1 DEF TypeOK, StartJob
  <2>3. job' \in [Jobs -> JobStates]
    BY <1>0, <1>1, Names DEF TypeOK, StartJob, FirstStep
  <2> QED
    BY <1>0, <1>1, <2>1, <2>2, <2>3 DEF TypeOK, StartJob
<1>2. CASE JobMarks(j)
  BY <1>0, <1>2, Names, Places, PutType, StepType DEF TypeOK, JobMarks
<1>3. CASE Consume(j)
  <2>1. job' \in [Jobs -> JobStates]
    BY <1>0, <1>3, Names, StepType, LastType DEF Consume
  <2>2. outcome' \in [Jobs -> {"completed", "failed"}]
    BY <1>0, <1>3, ResultType DEF TypeOK, Consume
  <2> QED
    BY <1>0, <1>3, <2>1, <2>2 DEF TypeOK, Consume
<1>4. CASE Deny(j)
  <2>1. job' \in [Jobs -> JobStates] /\ outcome' \in [Jobs -> {"completed", "failed"}]
    BY <1>0, <1>4, Names, StepType, ResultType, LastType DEF Deny
  <2> QED
    BY <1>0, <1>4, <2>1 DEF TypeOK, Deny
<1>5. CASE JobMarksAgain(j)
  BY <1>0, <1>5, Names, PutType, StepType DEF TypeOK, JobMarksAgain
<1>6. CASE Work(j)
  <2>1. job' \in [Jobs -> JobStates]
    BY <1>0, <1>6, Names, StepType DEF Work
  <2>2. outcome' \in [Jobs -> {"completed", "failed"}]
    BY <1>0, <1>6, ResultType DEF TypeOK, Work
  <2>3. times' \in [Tokens -> Nat]
    BY <1>0, <1>6 DEF TypeOK, Work
  <2>4. done' \subseteq Tokens
    BY <1>0, <1>6, Places DEF TypeOK, Work, Jobs
  <2> QED
    BY <1>0, <1>6, <2>1, <2>2, <2>3, <2>4 DEF TypeOK, Work
<1>7. CASE Settle(j)
  <2>1. outcome[j] \in Statuses
    BY <1>0, Names DEF TypeOK
  <2> QED
    BY <1>0, <1>7, <2>1, Names, PutType, StepType, LastType DEF TypeOK, Settle
<1>8. CASE Report(j)
  <2>1. outcome[j] \in Statuses
    BY <1>0, Names DEF TypeOK
  <2> QED
    BY <1>0, <1>8, <2>1, Names, Places, FailType, FinishType, StepType DEF TypeOK, Report, Ends
<1>9. CASE EndJob(j)
  BY <1>0, <1>9, Names, StepType DEF TypeOK, EndJob
<1> QED
  BY <1>1, <1>2, <1>3, <1>4, <1>5, <1>6, <1>7, <1>8, <1>9 DEF JobStep

\* The steps of the plugin, and of what is around it, keep the types.
LEMMA OtherTypes ==
    ASSUME IInv, \/ Stop \/ Reopen \/ Reset \/ Prune \/ Tick
                 \/ \E t \in Tokens : Preview(t) \/ Expire(t) \/ PendingInfo(t)
                                      \/ \E w \in Clicks : Click(t, w)
    PROVE  TypeOK'
<1> USE DEF At, Says, plugin, coordinators, jobs, tokens, requests, history
<1>0. TypeOK
  BY DEF IInv, WellFormed
<1>1. CASE Stop
  <2>1. waiting' \in [Coordinators -> Seq(Jobs)]
    BY <1>0, <1>1 DEF TypeOK, Stop, Close
  <2>2. job' \in [Jobs -> JobStates]
    BY <1>0, <1>1, Names DEF TypeOK, Stop, Close
  <2>3. abandoned' \subseteq Tokens
    <3>1. \A r \in Requests : job[r] = "queued" => about[r] \in Tokens
      BY Places
    <3> QED
      BY <1>0, <1>1, <3>1 DEF TypeOK, Stop, Close
  <2> QED
    BY <1>0, <1>1, <2>1, <2>2, <2>3 DEF TypeOK, Stop, Close
<1>2. CASE Reopen
  <2>1. budget' \in Budgets /\ budget.reloads \in Nat /\ budget.reloads > 0
    <3>1. "reloads" \in {"clicks", "ticks", "reloads", "faults"} /\ Once("reloads")
      BY <1>2 DEF Reopen
    <3> QED
      BY <1>0, <3>1, OnceType
  <2>2. current' \in Coordinators
    BY <1>0, <1>2, <2>1, BoundAssumption DEF TypeOK, Reopen, IInv, Lifecycle, Coordinators
  <2> QED
    BY <1>0, <1>2, <2>1, <2>2 DEF TypeOK, Reopen
<1>3. CASE Reset
  BY <1>0, <1>3, Names DEF TypeOK, Reset
<1>4. CASE Prune
  BY <1>0, <1>4 DEF TypeOK, Prune
<1>5. CASE Tick
  BY <1>0, <1>5, Names, OnceType, QueueType DEF TypeOK, Tick
<1>6. ASSUME NEW t \in Tokens, Preview(t) PROVE TypeOK'
  <2>1. budget' \in Budgets
    BY <1>0, <1>6 DEF TypeOK, Preview, Budgets
  <2>2. status' \in [Tokens -> Statuses] /\ told' \in [Tokens -> Statuses]
    BY <1>0, <1>6, Names DEF TypeOK, Preview
  <2> QED
    BY <1>0, <1>6, <2>1, <2>2 DEF TypeOK, Preview
<1>7. ASSUME NEW t \in Tokens, Expire(t) PROVE TypeOK'
  BY <1>0, <1>7 DEF TypeOK, Expire
<1>8. ASSUME NEW t \in Tokens, PendingInfo(t) PROVE TypeOK'
  BY <1>0, <1>8, Names, PutType DEF TypeOK, PendingInfo
<1>9. ASSUME NEW t \in Tokens, NEW w \in Clicks, Click(t, w) PROVE TypeOK'
  BY <1>0, <1>9, Names, OnceType, GotoType DEF TypeOK, Click
<1> QED
  BY <1>1, <1>2, <1>3, <1>4, <1>5, <1>6, <1>7, <1>8, <1>9

\* Every step keeps the types.
LEMMA TypesStep == ASSUME IInv, Next PROVE TypeOK'
BY RequestTypes, JobTypes, OtherTypes DEF Next

------------------------------------------------------------------------------
(* The queues.                                                             *)

\* Appending to a queue that does not hold the job keeps it without repetitions.
LEMMA AppendFacts ==
    ASSUME NEW S, NEW q \in Seq(S), NEW e \in S
    PROVE  /\ Append(q, e) \in Seq(S) /\ Range(Append(q, e)) = Range(q) \union {e}
           /\ IsInjective(q) /\ e \notin Range(q) => IsInjective(Append(q, e))
<1>1. /\ Append(q, e) \in Seq(S) /\ Append(q, e)[Len(q) + 1] = e
      /\ DOMAIN Append(q, e) = 1 .. Len(q) + 1 /\ DOMAIN q = 1 .. Len(q) /\ Len(q) \in Nat
      /\ \A i \in 1 .. Len(q) : Append(q, e)[i] = q[i]
  OBVIOUS
<1>2. Range(Append(q, e)) \subseteq Range(q) \union {e}
  BY <1>1 DEF Range
<1>3. Range(q) \union {e} \subseteq Range(Append(q, e))
  BY <1>1 DEF Range
<1>4. ASSUME IsInjective(q), e \notin Range(q) PROVE IsInjective(Append(q, e))
  <2>1. \A i \in 1 .. Len(q) : q[i] # e
    BY <1>1, <1>4 DEF Range
  <2> QED
    BY <1>1, <1>4, <2>1 DEF IsInjective
<1> QED
  BY <1>1, <1>2, <1>3, <1>4

\* Jobs that do not wait, before and after.
LEMMA QueuesKept ==
    ASSUME IInv, UNCHANGED <<closed, waiting, home>>,
           \A j \in Jobs : job'[j] = "queued" <=> job[j] = "queued"
    PROVE  QueuesAgree'
BY DEF IInv, WellFormed, QueuesAgree

\* A job that had none joins a queue that is open.
LEMMA JoinsQueue ==
    ASSUME IInv, NEW j \in Jobs, job[j] = "none", NEW g \in Coordinators \ closed,
           Queue(j, g), closed' = closed
    PROVE  QueuesAgree'
<1>1. /\ waiting \in [Coordinators -> Seq(Jobs)] /\ job \in [Jobs -> JobStates]
      /\ home \in [Jobs -> Coordinators \union {None}] /\ QueuesAgree
  BY DEF IInv, WellFormed, TypeOK
<1>2. j \notin Range(waiting[g]) /\ IsInjective(waiting[g]) /\ waiting[g] \in Seq(Jobs)
  BY <1>1 DEF QueuesAgree
<1>3. Range(waiting'[g]) = Range(waiting[g]) \union {j} /\ IsInjective(waiting'[g])
  BY <1>1, <1>2, AppendFacts DEF Queue
<1>4. \A h \in Coordinators : h # g => waiting'[h] = waiting[h]
  BY <1>1 DEF Queue
<1>5. \A x \in Jobs : /\ job'[x] = IF x = j THEN "queued" ELSE job[x]
                      /\ home'[x] = IF x = j THEN g ELSE home[x]
  BY <1>1 DEF Queue
<1>6. ASSUME NEW h \in Coordinators
      PROVE  Range(waiting'[h]) = {x \in Jobs : job'[x] = "queued" /\ home'[x] = h}
  <2>1. Range(waiting[h]) = {x \in Jobs : job[x] = "queued" /\ home[x] = h}
    BY <1>1 DEF QueuesAgree
  <2>2. CASE h = g
    BY <2>1, <2>2, <1>3, <1>5
  <2>3. CASE h # g
    BY <2>1, <2>3, <1>4, <1>5
  <2> QED
    BY <2>2, <2>3
<1>7. ASSUME NEW h \in Coordinators
      PROVE  IsInjective(waiting'[h]) /\ (h \in closed => waiting'[h] = <<>>)
  BY <1>1, <1>3, <1>4 DEF QueuesAgree
<1> QED
  BY <1>6, <1>7 DEF QueuesAgree

\* The job that leaves its queue does not wait any more.
LEMMA QueueLeft ==
    ASSUME IInv, NEW j \in Jobs, job[j] = "queued",
           waiting' = [waiting EXCEPT ![home[j]] = Without(@, j)], UNCHANGED <<closed, home>>,
           job'[j] # "queued", \A x \in Jobs \ {j} : job'[x] = job[x]
    PROVE  QueuesAgree'
<1>1. QueuesAgree
  BY DEF IInv, WellFormed
<1>2. \A h \in Coordinators :
         /\ Range(waiting'[h]) = Range(waiting[h]) \ (IF h = home[j] THEN {j} ELSE {})
         /\ IsInjective(waiting'[h]) /\ (waiting[h] = <<>> => waiting'[h] = <<>>)
  BY LeavesQueue
<1>3. ASSUME NEW h \in Coordinators
      PROVE  Range(waiting'[h]) = {x \in Jobs : job'[x] = "queued" /\ home'[x] = h}
  <2>1. Range(waiting[h]) = {x \in Jobs : job[x] = "queued" /\ home[x] = h}
    BY <1>1 DEF QueuesAgree
  <2> QED
    BY <2>1, <1>2
<1> QED
  BY <1>1, <1>2, <1>3 DEF QueuesAgree

\* Every step keeps the queues in agreement with the jobs.
LEMMA QueuesStep == ASSUME IInv, Next PROVE QueuesAgree'
<1> USE DEF plugin, coordinators, jobs, tokens, requests, history
<1>1. CASE Stop
  <2>1. /\ waiting \in [Coordinators -> Seq(Jobs)] /\ job \in [Jobs -> JobStates] /\ QueuesAgree
    BY DEF IInv, WellFormed, TypeOK
  <2>2. /\ waiting' = [waiting EXCEPT ![current] = <<>>] /\ closed' = closed \union {current}
        /\ home' = home
        /\ \A j \in Jobs : job'[j] = IF job[j] = "queued" /\ home[j] = current THEN "cancelled" ELSE job[j]
    BY <1>1 DEF Stop, Close
  <2>3. Range(<<>>) = {} /\ IsInjective(<<>>)
    BY DEF Range, IsInjective
  <2>4. ASSUME NEW h \in Coordinators
        PROVE  Range(waiting'[h]) = {x \in Jobs : job'[x] = "queued" /\ home'[x] = h}
    <3>1. Range(waiting[h]) = {x \in Jobs : job[x] = "queued" /\ home[x] = h}
      BY <2>1 DEF QueuesAgree
    <3>2. CASE h = current
      BY <2>1, <2>2, <2>3, <3>2
    <3>3. CASE h # current
      BY <2>1, <2>2, <3>1, <3>3
    <3> QED
      BY <3>2, <3>3
  <2> QED
    BY <2>1, <2>2, <2>3, <2>4 DEF QueuesAgree
<1>2. CASE Tick
  <2>1. PICK s \in Scheduled : job[s] = "none" /\ Queue(s, current)
    BY <1>2 DEF Tick
  <2>2. current \in Coordinators \ closed /\ closed' = closed
    BY <1>2, Types DEF Tick, IInv, Lifecycle
  <2> QED
    BY <2>1, <2>2, Names, JoinsQueue
<1>3. ASSUME NEW r \in Requests, Reserve(r) PROVE QueuesAgree'
  <2>1. CASE UNCHANGED <<waiting, job, home>>
    BY <1>3, <2>1, QueuesKept DEF Reserve
  <2>2. CASE Queue(r, seen[r])
    <3>1. job[r] = "none" /\ seen[r] \in Coordinators \ closed /\ closed' = closed
      BY <1>3, Types DEF Reserve, IInv, Order
    <3> QED
      BY <2>2, <3>1, Names, JoinsQueue
  <2> QED
    BY <1>3, <2>1, <2>2 DEF Reserve
<1>4. ASSUME NEW r \in Requests, SpawnFails(r) PROVE QueuesAgree'
  <2>1. UNCHANGED <<closed, home>> /\ job[r] \in {"queued", "cancelled"}
    BY <1>4 DEF SpawnFails, At, IInv, Order
  <2>2. CASE job[r] = "cancelled"
    BY <1>4, <2>1, <2>2, QueuesKept DEF SpawnFails
  <2>3. CASE job[r] = "queued"
    BY <1>4, <2>1, <2>3, Names, Types, QueueLeft DEF SpawnFails
  <2> QED
    BY <2>1, <2>2, <2>3
<1>5. ASSUME NEW j \in Jobs, StartJob(j) PROVE QueuesAgree'
  <2>1. job[j] = "queued" /\ job'[j] # "queued" /\ \A x \in Jobs \ {j} : job'[x] = job[x]
    BY <1>5, Types DEF StartJob, FirstStep
  <2> QED
    BY <1>5, <2>1, QueueLeft DEF StartJob
<1>6. ASSUME NEW r \in Requests, RequestStep(r), ~Reserve(r) PROVE QueuesAgree'
  <2>1. UNCHANGED <<closed, waiting, home>>
    BY <1>6 DEF RequestStep, Claim, PageConfirms, BotLooks, BotClaims, BotWithdraws, BotCancels,
                Cancel, Drop, Pick, HandOver, Spawn, PageMarks, Reject, Refuse, BotReturns
  <2>2. UNCHANGED job \/ (job' = [job EXCEPT ![r] = "consume"] /\ At(r, "asked"))
    BY <1>6 DEF RequestStep, Claim, PageConfirms, BotLooks, BotClaims, BotWithdraws, BotCancels,
                Cancel, Drop, Pick, HandOver, Spawn, PageMarks, Reject, Refuse, BotReturns
  <2>3. At(r, "asked") => job[r] = "none"
    BY DEF At, IInv, Order
  <2> QED
    BY <2>1, <2>2, <2>3, Types, QueuesKept
<1>7. ASSUME NEW j \in Jobs, JobStep(j), ~StartJob(j) PROVE QueuesAgree'
  <2>1. /\ UNCHANGED <<closed, waiting, home>> /\ job[j] \in Running
        /\ \E l \in Running \union {"over"} : Step(j, l)
    BY <1>7 DEF JobStep, JobMarks, Consume, Deny, JobMarksAgain, Work, Settle, Report, EndJob,
                LastStep, Running
  <2>2. \A x \in Jobs : job'[x] = "queued" <=> job[x] = "queued"
    BY <2>1, Types DEF Step, Running
  <2> QED
    BY <2>1, <2>2, QueuesKept
<1>8. CASE \/ Reopen \/ Reset \/ Prune
           \/ \E t \in Tokens : Preview(t) \/ Expire(t) \/ PendingInfo(t)
                                \/ \E w \in Clicks : Click(t, w)
  <2>1. UNCHANGED <<closed, waiting, home, job>>
    BY <1>8 DEF Reopen, Reset, Prune, Preview, Expire, PendingInfo, Click
  <2> QED
    BY <2>1, QueuesKept
<1> QED
  BY <1>1, <1>2, <1>3, <1>4, <1>5, <1>6, <1>7, <1>8 DEF Next

\* Every step keeps the order of close() and init_plugin.
LEMMA LifecycleStep == ASSUME IInv, Next PROVE Lifecycle'
<1> USE DEF plugin, coordinators, jobs, tokens, requests, history
<1>1. CASE Stop
  <2>1. current \in Nat /\ current >= 1 /\ Lifecycle
    BY Types, BoundAssumption DEF Coordinators, IInv
  <2>2. /\ life' = "stopped" /\ closed' = closed \union {current}
        /\ current' = current /\ budget' = budget
    BY <1>1 DEF Stop, Close
  <2> QED
    BY <2>1, <2>2 DEF Lifecycle
<1>2. CASE Reopen
  <2>1. /\ current' = current + 1 /\ budget'.reloads = budget.reloads - 1 /\ closed' = closed
        /\ current \in Nat /\ budget.reloads \in Nat /\ MaxReloads \in Nat
    <3>1. Once("reloads") /\ TypeOK
      BY <1>2 DEF Reopen, IInv, WellFormed
    <3> QED
      BY <1>2, <3>1, OnceType, BoundAssumption DEF Reopen, TypeOK, Coordinators
  <2> QED
    BY <2>1 DEF IInv, Lifecycle
<1>3. CASE ~Stop /\ ~Reopen
  <2>1. UNCHANGED <<current, closed>> /\ (life' # "stopped" => life # "stopped")
    BY <1>3 DEF Next, Reset, Prune, Tick, Preview, Expire, PendingInfo, Click, SpawnFails,
                RequestStep, Claim, PageConfirms, BotLooks, BotClaims, BotWithdraws, BotCancels,
                Cancel, Drop, Pick, HandOver, Reserve, Spawn, PageMarks, Reject, Refuse, BotReturns,
                JobStep, StartJob, JobMarks, Consume, Deny, JobMarksAgain, Work, Settle, Report, EndJob
  <2>2. budget'.reloads = budget.reloads
    <3>1. \/ UNCHANGED budget \/ Once("clicks") \/ Once("ticks") \/ Once("faults")
          \/ \E t \in Tokens : budget' = [budget EXCEPT !.tokens = @ \ {t}]
      BY <1>3 DEF Next, Reset, Prune, Tick, Preview, Expire, PendingInfo, Click, SpawnFails,
                RequestStep, Claim, PageConfirms, BotLooks, BotClaims, BotWithdraws, BotCancels,
                Cancel, Drop, Pick, HandOver, Reserve, Spawn, PageMarks, Reject, Refuse, BotReturns,
                JobStep, StartJob, JobMarks, Consume, Deny, JobMarksAgain, Work, Settle, Report, EndJob
    <3>2. TypeOK
      BY DEF IInv, WellFormed
    <3>3. CASE \E t \in Tokens : budget' = [budget EXCEPT !.tokens = @ \ {t}]
      BY <3>2, <3>3 DEF TypeOK, Budgets
    <3> QED
      BY <3>1, <3>2, <3>3, OnceType
  <2> QED
    BY <2>1, <2>2 DEF IInv, Lifecycle
<1> QED
  BY <1>1, <1>2, <1>3

------------------------------------------------------------------------------
(* What a step leaves alone.                                               *)

\* _set_cleanup_status writes one token, and leaves a final status.
LEMMA PutFacts ==
    ASSUME IInv, NEW t \in Tokens, NEW s, Put(t, s)
    PROVE  /\ \A u \in Tokens \ {t} : status'[u] = status[u] /\ told'[u] = told[u]
           /\ \/ /\ status[t] \in Final /\ s # status[t]
                 /\ status'[t] = status[t] /\ told'[t] = told[t]
              \/ /\ status[t] \in Final => s = status[t]
                 /\ status'[t] = s /\ told'[t] = IF t \in known THEN s ELSE told[t]
BY Types DEF Put, Accepts

\* What a request or a job may say of its token.
Answers == Final \union {"processing"}
SaysOf(t) == UNCHANGED <<status, told>> \/ \E s \in Answers : Put(t, s)

\* Who reports an outcome says it of its own token.
LEMMA EndsSays ==
    ASSUME NEW r, NEW s \in {"completed", "failed"}, Ends(r, s)
    PROVE  SaysOf(about[r]) /\ doubted \subseteq doubted'
BY DEF Ends, Fail, Finish, SaysOf, Answers, Final

\* A step of a request is about its own token and its own job.
LEMMA RequestFrame ==
    ASSUME IInv, NEW r \in Requests, RequestStep(r) \/ SpawnFails(r)
    PROVE  /\ \A q \in Requests \ {r} : pc'[q] = pc[q]
           /\ pc[r] \notin {"idle", "over"} /\ about[r] \in Tokens
           /\ \A j \in Jobs \ {r} : job'[j] = job[j]
           /\ UNCHANGED <<what, about, outcome, times, done, overruled, known, stale>>
           /\ budget'.tokens = budget.tokens
           /\ pending' = pending \/ pending' = pending \ {about[r]}
           /\ SaysOf(about[r]) /\ doubted \subseteq doubted'
<1> USE DEF plugin, coordinators, jobs, tokens, history, At
<1>0. /\ TypeOK /\ outcome[r] \in {"completed", "failed"}
      /\ "processing" \in Answers /\ Final \subseteq Answers
  BY Types, Names DEF IInv, WellFormed, Answers
<1>1. /\ UNCHANGED <<what, about, outcome, times, done, overruled, known, stale>>
      /\ pc[r] \notin {"idle", "over"} /\ (pending' = pending \/ pending' = pending \ {about[r]})
  BY DEF RequestStep, Claim, PageConfirms, BotLooks, BotClaims, BotWithdraws, BotCancels, Cancel,
         Drop, Pick, HandOver, Reserve, Spawn, PageMarks, Reject, Refuse, BotReturns, SpawnFails
<1>2. \E l \in Labels : Goto(r, l)
  BY Names DEF Submitted, Rejected, RequestStep, Claim, PageConfirms, BotLooks, BotClaims,
         BotWithdraws, BotCancels, Cancel, Drop, Pick, HandOver, Reserve, Spawn, PageMarks, Reject,
         Refuse, BotReturns, SpawnFails
<1>3. \/ UNCHANGED job \/ job' = [job EXCEPT ![r] = "consume"] \/ job' = [job EXCEPT ![r] = "queued"]
      \/ job' = [job EXCEPT ![r] = "over"]
  BY DEF Queue, RequestStep, Claim, PageConfirms, BotLooks, BotClaims, BotWithdraws, BotCancels,
         Cancel, Drop, Pick, HandOver, Reserve, Spawn, PageMarks, Reject, Refuse, BotReturns,
         SpawnFails
<1>4. UNCHANGED budget \/ Once("faults")
  BY DEF RequestStep, Claim, PageConfirms, BotLooks, BotClaims, BotWithdraws, BotCancels, Cancel,
         Drop, Pick, HandOver, Reserve, Spawn, PageMarks, Reject, Refuse, BotReturns, SpawnFails
<1>5. budget'.tokens = budget.tokens
  BY <1>0, <1>4, OnceType
<1>6. \/ UNCHANGED <<status, told, doubted>>
      \/ \E s \in Answers : Put(about[r], s) /\ UNCHANGED doubted
      \/ Ends(r, "failed") \/ Ends(r, outcome[r])
  BY <1>0 DEF Says, Ends, Final, RequestStep, Claim, PageConfirms, BotLooks, BotClaims, BotWithdraws,
         BotCancels, Cancel, Drop, Pick, HandOver, Reserve, Spawn, PageMarks, Reject, Refuse,
         BotReturns, SpawnFails
<1>7. SaysOf(about[r]) /\ doubted \subseteq doubted'
  BY <1>0, <1>6, EndsSays DEF SaysOf
<1> QED
  BY <1>1, <1>2, <1>3, <1>5, <1>7, Types, Places DEF Goto

\* A step of a job is about the token of its request.
LEMMA JobFrame ==
    ASSUME IInv, NEW j \in Jobs, JobStep(j)
    PROVE  /\ UNCHANGED <<requests, budget, known, stale, life>>
           /\ \A x \in Jobs \ {j} : job'[x] = job[x] /\ outcome'[x] = outcome[x]
           /\ \/ /\ j \in Requests /\ about[j] \in Tokens /\ SaysOf(about[j])
                 /\ pending' = pending \/ pending' = pending \ {about[j]}
                 /\ \A t \in Tokens \ {about[j]} : times'[t] = times[t] /\ (t \in done' <=> t \in done)
              \/ j \notin Requests /\ UNCHANGED <<pending, status, told, outcome, times, done>>
           /\ overruled \subseteq overruled' /\ doubted \subseteq doubted'
<1> USE DEF plugin, coordinators, tokens, history
<1>0. outcome[j] \in {"completed", "failed"} /\ "processing" \in Answers /\ Final \subseteq Answers
  BY Types DEF Answers
<1>1. /\ UNCHANGED <<requests, budget, known, stale, life>> /\ overruled \subseteq overruled'
      /\ pending' = pending \/ pending' = pending \ {about[j]}
  BY DEF JobStep, StartJob, JobMarks, Consume, Deny, JobMarksAgain, Work, Settle, Report, EndJob
<1>2. \E l \in JobStates : Step(j, l)
  BY Names, LastType DEF FirstStep, Step, JobStep, StartJob, JobMarks, Consume, Deny,
         JobMarksAgain, Work, Settle, Report, EndJob
<1>3. UNCHANGED outcome \/ \E s \in {"completed", "failed"} : Result(j, s)
  BY DEF JobStep, StartJob, JobMarks, Consume, Deny, JobMarksAgain, Work, Settle, Report, EndJob
<1>4. j \notin Requests => UNCHANGED <<pending, status, told, outcome, times, done>>
  BY Places DEF Jobs, JobStep, StartJob, JobMarks, Consume, Deny, JobMarksAgain, Work, Settle,
         Report, EndJob
<1>5. \/ UNCHANGED <<status, told, doubted>>
      \/ \E s \in Answers : Put(about[j], s) /\ UNCHANGED doubted
      \/ Ends(j, outcome[j])
  BY <1>0 DEF Final, JobStep, StartJob, JobMarks, Consume, Deny, JobMarksAgain, Work, Settle,
         Report, EndJob
<1>6. SaysOf(about[j]) /\ doubted \subseteq doubted'
  BY <1>0, <1>5, EndsSays DEF SaysOf
<1>7. job[j] # "none"
  BY DEF JobStep, StartJob, JobMarks, Consume, Deny, JobMarksAgain, Work, Settle, Report, EndJob
<1>8. j \in Requests => about[j] \in Tokens
  BY <1>7, Places
<1>9. \A t \in Tokens \ {about[j]} : times'[t] = times[t] /\ (t \in done' <=> t \in done)
  BY Types DEF JobStep, StartJob, JobMarks, Consume, Deny, JobMarksAgain, Work, Settle, Report, EndJob
<1> QED
  BY <1>1, <1>2, <1>3, <1>4, <1>6, <1>8, <1>9, Types DEF Step, Result

\* The steps of the plugin, of time and of the page's look at what is pending.
Around == \/ Stop \/ Reopen \/ Prune \/ Tick \/ \E t \in Tokens : Expire(t) \/ PendingInfo(t)

\* What happens around the requests and jobs: it says nothing but that a pending token has
\* expired.
LEMMA AroundFrame ==
    ASSUME IInv, Around
    PROVE  /\ UNCHANGED <<pc, what, about, known, outcome, times, done, overruled, doubted>>
           /\ budget'.tokens = budget.tokens /\ pending' \subseteq pending /\ stale \subseteq stale'
           /\ \A r \in Requests : job'[r] = job[r] \/ (job[r] = "queued" /\ job'[r] = "cancelled")
           /\ \/ UNCHANGED <<status, told>>
              \/ \E t \in Tokens : /\ Put(t, "expired") /\ status[t] = "pending" /\ ~Valid(t)
                                   /\ UNCHANGED pending
<1> USE DEF plugin, coordinators, jobs, tokens, requests, history, Around
<1>1. /\ UNCHANGED <<pc, what, about, known, outcome, times, done, overruled, doubted>>
      /\ pending' \subseteq pending /\ stale \subseteq stale'
      /\ \/ UNCHANGED <<status, told>>
         \/ \E t \in Tokens : /\ Put(t, "expired") /\ status[t] = "pending" /\ ~Valid(t)
                              /\ UNCHANGED pending
  BY DEF Stop, Reopen, Prune, Tick, Expire, PendingInfo
<1>2. UNCHANGED budget \/ Once("reloads") \/ Once("ticks")
  BY DEF Stop, Reopen, Prune, Tick, Expire, PendingInfo
<1>3. budget'.tokens = budget.tokens
  BY <1>2, OnceType DEF IInv, WellFormed
<1>4. \A r \in Requests : job'[r] = job[r] \/ (job[r] = "queued" /\ job'[r] = "cancelled")
  BY Names, Types, NamesAssumption DEF Stop, Close, Reopen, Prune, Tick, Queue, Expire, PendingInfo
<1> QED
  BY <1>1, <1>3, <1>4

\* A task of the scheduler is queued, works and ends.
LEMMA ScheduledStep == ASSUME IInv, Next PROVE ScheduledJobs'
<1> USE DEF ScheduledJobs
<1>0. ScheduledJobs /\ Requests \intersect Scheduled = {}
  BY NamesAssumption DEF IInv
<1>1. ASSUME NEW r \in Requests, RequestStep(r) \/ SpawnFails(r) PROVE ScheduledJobs'
  BY <1>0, <1>1, RequestFrame, Names
<1>2. ASSUME NEW j \in Jobs, JobStep(j) PROVE ScheduledJobs'
  <2>1. CASE j \in Requests
    BY <1>0, <1>2, <2>1, JobFrame, Names
  <2>2. CASE j \in Scheduled
    <3>1. job'[j] \in {"work", "end", "over"}
      BY <1>0, <1>2, <2>2, Types DEF JobStep, StartJob, JobMarks, Consume, Deny, JobMarksAgain,
                                  Work, Settle, Report, EndJob, FirstStep, Step
    <3> QED
      BY <1>0, <1>2, <3>1, JobFrame, Names
  <2> QED
    BY <2>1, <2>2 DEF Jobs
<1>3. CASE Stop
  BY <1>0, <1>3, Names DEF Stop, Close
<1>4. CASE Tick
  BY <1>0, <1>4, Names, Types DEF Tick, Queue
<1>5. CASE \/ Reopen \/ Reset \/ Prune
           \/ \E t \in Tokens : Preview(t) \/ Expire(t) \/ PendingInfo(t)
                                \/ \E w \in Clicks : Click(t, w)
  BY <1>0, <1>5 DEF Reopen, Reset, Prune, Preview, Expire, PendingInfo, Click, jobs
<1> QED
  BY <1>1, <1>2, <1>3, <1>4, <1>5 DEF Next

\* Every step keeps the order of a request and its job.
LEMMA OrderStep == ASSUME IInv, Next PROVE (\A r \in Requests : Order(r))'
<1>0. \A r \in Requests : Order(r)
  BY DEF IInv
<1>1. ASSUME NEW r \in Requests, RequestStep(r) \/ SpawnFails(r) PROVE (\A q \in Requests : Order(q))'
  <2>1. \A q \in Requests \ {r} : Order(q)'
    BY <1>0, <1>1, RequestFrame, Names DEF Order, Page, Cleanup
  <2>2. Order(r)'
    <3> USE DEF Order, Page, Cleanup, At, Goto, plugin, coordinators, jobs
    <3>1. CASE Claim(r)
      BY <1>0, <3>1, Types, Names DEF Claim
    <3>2. CASE PageConfirms(r) \/ BotLooks(r) \/ BotClaims(r) \/ BotWithdraws(r) \/ BotCancels(r)
      BY <1>0, <3>2, Types, Names DEF PageConfirms, BotLooks, BotClaims, BotWithdraws, BotCancels
    <3>3. CASE Cancel(r) \/ Drop(r) \/ Pick(r) \/ PageMarks(r) \/ Reject(r) \/ Refuse(r) \/ BotReturns(r)
      BY <1>0, <3>3, Types, Names DEF Cancel, Drop, Pick, PageMarks, Reject, Refuse, BotReturns
    <3>4. CASE HandOver(r)
      BY <1>0, <3>4, Types, Names DEF HandOver, Rejected
    <3>5. CASE Reserve(r)
      BY <1>0, <3>5, Types, Names DEF Reserve, Submitted, Rejected, Queue
    <3>6. CASE Spawn(r)
      BY <1>0, <3>6, Types, Names DEF Spawn, Submitted
    <3>7. CASE SpawnFails(r)
      BY <1>0, <3>7, Types, Names DEF SpawnFails, Rejected
    <3> QED
      BY <1>1, <3>1, <3>2, <3>3, <3>4, <3>5, <3>6, <3>7 DEF RequestStep
  <2> QED
    BY <2>1, <2>2
<1>2. ASSUME NEW j \in Jobs, JobStep(j) PROVE (\A q \in Requests : Order(q))'
  <2>1. UNCHANGED <<pc, what, about>> /\ \A q \in Requests \ {j} : job'[q] = job[q]
    BY <1>2, JobFrame, Names DEF requests
  <2>2. job[j] \in Running \/ (job[j] = "queued" /\ (j \in Requests => pc[j] # "spawn"))
    BY <1>2 DEF JobStep, StartJob, JobMarks, Consume, Deny, JobMarksAgain, Work, Settle, Report,
                EndJob, Running, At
  <2> QED
    BY <1>0, <2>1, <2>2 DEF Order, Page, Cleanup, Running
<1>3. CASE Around
  BY <1>0, <1>3, AroundFrame DEF Order, Page, Cleanup
<1>4. CASE Reset \/ \E t \in Tokens : Preview(t)
  BY <1>0, <1>4 DEF Reset, Preview, jobs, requests, Order, Page, Cleanup
<1>5. ASSUME NEW t \in Tokens, NEW w \in Clicks, Click(t, w) PROVE (\A q \in Requests : Order(q))'
  BY <1>0, <1>5, Types, Names DEF Click, jobs, Order, Page, Cleanup, At, Goto
<1> QED
  BY <1>1, <1>2, <1>3, <1>4, <1>5 DEF Next, Around

\* What a step writes of a token that is nobody's stays as it is, and the message
\* follows the status.
LEMMA SaysKeeps ==
    ASSUME IInv, NEW t \in Tokens, SaysOf(t), known' = known, pending' \subseteq pending
    PROVE  /\ \A u \in Tokens \ {t} : status'[u] = status[u] /\ told'[u] = told[u]
           /\ \A u \in Tokens : MessageFollows(u)'
           /\ \A u \in Tokens : status[u] # "pending" => status'[u] # "pending"
           /\ \A u \in Tokens : status[u] \in Final => status'[u] = status[u]
<1>0. \A u \in Tokens : MessageFollows(u)
  BY DEF IInv
<1>1. CASE UNCHANGED <<status, told>>
  BY <1>0, <1>1 DEF MessageFollows
<1>2. ASSUME NEW s \in Answers, Put(t, s)
      PROVE  /\ \A u \in Tokens \ {t} : status'[u] = status[u] /\ told'[u] = told[u]
             /\ \A u \in Tokens : MessageFollows(u)'
             /\ \A u \in Tokens : status[u] # "pending" => status'[u] # "pending"
             /\ \A u \in Tokens : status[u] \in Final => status'[u] = status[u]
  <2>1. s # "none" /\ s # "pending"
    BY <1>2 DEF Answers, Final
  <2> QED
    BY <1>0, <1>2, <2>1, PutFacts DEF MessageFollows
<1> QED
  BY <1>1, <1>2 DEF SaysOf

\* Every step keeps the message at the status, while the token is known.
LEMMA MessageStep == ASSUME IInv, Next PROVE (\A u \in Tokens : MessageFollows(u))'
<1>0. \A u \in Tokens : MessageFollows(u)
  BY DEF IInv
<1>1. ASSUME NEW r \in Requests, RequestStep(r) \/ SpawnFails(r) PROVE (\A u \in Tokens : MessageFollows(u))'
  BY <1>1, RequestFrame, SaysKeeps
<1>2. ASSUME NEW j \in Jobs, JobStep(j) PROVE (\A u \in Tokens : MessageFollows(u))'
  BY <1>0, <1>2, JobFrame, SaysKeeps DEF MessageFollows
<1>3. CASE Around
  <2>1. CASE UNCHANGED <<status, told>>
    BY <1>0, <1>3, <2>1, AroundFrame DEF MessageFollows
  <2>2. ASSUME NEW t \in Tokens, Put(t, "expired") PROVE (\A u \in Tokens : MessageFollows(u))'
    <3>1. SaysOf(t)
      BY <2>2 DEF SaysOf, Answers, Final
    <3> QED
      BY <1>3, <3>1, AroundFrame, SaysKeeps
  <2> QED
    BY <1>3, <2>1, <2>2, AroundFrame
<1>4. CASE Reset
  BY <1>4 DEF Reset, MessageFollows
<1>5. ASSUME NEW t \in Tokens, Preview(t) PROVE (\A u \in Tokens : MessageFollows(u))'
  BY <1>0, <1>5, Types DEF Preview, MessageFollows
<1>6. ASSUME NEW t \in Tokens, NEW w \in Clicks, Click(t, w) PROVE (\A u \in Tokens : MessageFollows(u))'
  BY <1>0, <1>6 DEF Click, tokens, MessageFollows
<1> QED
  BY <1>1, <1>2, <1>3, <1>4, <1>5, <1>6 DEF Next, Around

\* A token whose preview is to come stays unknown.
LEMMA UntouchedStep == ASSUME IInv, Next PROVE (\A u \in budget.tokens : Untouched(u))'
<1>0. /\ \A u \in budget.tokens : Untouched(u) /\ u \in Tokens
  BY Types DEF IInv, Budgets
<1>1. ASSUME NEW r \in Requests, RequestStep(r) \/ SpawnFails(r) PROVE (\A u \in budget.tokens : Untouched(u))'
  <2>1. \A u \in budget.tokens : about[r] # u
    BY <1>0 DEF Untouched
  <2> QED
    BY <1>0, <1>1, <2>1, RequestFrame, SaysKeeps DEF Untouched
<1>2. ASSUME NEW j \in Jobs, JobStep(j) PROVE (\A u \in budget.tokens : Untouched(u))'
  <2>1. \A u \in budget.tokens : j \in Requests => about[j] # u
    BY <1>0 DEF Untouched
  <2> QED
    BY <1>0, <1>2, <2>1, JobFrame, SaysKeeps DEF Untouched, requests
<1>3. CASE Around
  <2>1. ASSUME NEW t \in Tokens, Put(t, "expired"), status[t] = "pending"
        PROVE  \A u \in budget.tokens : status'[u] = status[u] /\ told'[u] = told[u]
    BY <1>0, <2>1, PutFacts DEF Untouched
  <2>2. \A u \in budget.tokens : status'[u] = status[u] /\ told'[u] = told[u]
    BY <1>3, <2>1, AroundFrame
  <2> QED
    BY <1>0, <1>3, <2>2, AroundFrame DEF Untouched
<1>4. CASE Reset
  BY <1>0, <1>4 DEF Reset, Untouched, requests
<1>5. ASSUME NEW t \in Tokens, Preview(t) PROVE (\A u \in budget.tokens : Untouched(u))'
  <2>1. budget'.tokens = budget.tokens \ {t}
    BY <1>5, Types DEF Preview, Budgets
  <2> QED
    BY <1>0, <1>5, <2>1, Types DEF Preview, Untouched, requests, history
<1>6. ASSUME NEW t \in Tokens, NEW w \in Clicks, Click(t, w) PROVE (\A u \in budget.tokens : Untouched(u))'
  <2>1. budget'.tokens = budget.tokens
    <3>1. Once("clicks") /\ TypeOK
      BY <1>6 DEF Click, IInv, WellFormed
    <3> QED
      BY <3>1, OnceType
  <2> QED
    BY <1>0, <1>6, <2>1, Types DEF Click, Untouched, tokens, history
<1> QED
  BY <1>1, <1>2, <1>3, <1>4, <1>5, <1>6 DEF Next, Around

------------------------------------------------------------------------------
(* Tokens are taken once.                                                  *)

\* The step of a request, or of its job, that takes its token or holds it further, and
\* begins its operation only if it holds the token.
LEMMA TakenKept ==
    ASSUME IInv, NEW r \in Requests, NEW t \in Tokens, t = about[r], about' = about,
           pending' \subseteq pending,
           \A q \in Requests \ {r} : job'[q] = job[q] /\ pc'[q] = pc[q],
           \A u \in Tokens \ {t} : times'[u] = times[u] /\ (u \in done' <=> u \in done),
           Holds(r)' => Holds(r) \/ t \in pending \ pending',
           \/ /\ times'[t] = times[t] /\ (t \in done' <=> t \in done)
              /\ Begun(r)' \/ pc'[r] = "cancel" =>
                    Begun(r) \/ pc[r] = "cancel" \/ t \in pending \ pending'
           \/ /\ Begun(r) /\ ~Begun(r)' /\ pc'[r] # "cancel"
              /\ times'[t] = times[t] + 1 /\ (t \in done' => t \in done \/ times'[t] = 1)
    PROVE  \A u \in Tokens : Taken(u)'
<1>0. (\A u \in Tokens : Taken(u)) /\ \A u \in Tokens : times[u] \in Nat
  BY Types DEF IInv
<1>1. ASSUME NEW u \in Tokens, u # t PROVE Taken(u)'
  BY <1>0, <1>1 DEF Taken, Holder, Holds, Begun
<1>2. Taken(t)'
  <2>1. /\ t \in pending => times[t] = 0 /\ \A q \in Requests : ~Holder(q, t)
        /\ \A q, s \in Requests : Holder(q, t) /\ Holder(s, t) => q = s
        /\ times[t] <= 1 /\ (t \in done => times[t] = 1)
        /\ \A q \in Requests : about[q] = t /\ (Begun(q) \/ pc[q] = "cancel") => times[t] = 0
    BY <1>0 DEF Taken
  <2>2. \A q \in Requests \ {r} : /\ Holder(q, t)' <=> Holder(q, t)
                                  /\ Begun(q)' <=> Begun(q)
    BY DEF Holder, Holds, Begun
  <2>3. Holder(r, t)' => Holder(r, t) \/ t \in pending \ pending'
    BY DEF Holder
  <2>4. CASE /\ times'[t] = times[t] /\ (t \in done' <=> t \in done)
             /\ Begun(r)' \/ pc'[r] = "cancel" =>
                   Begun(r) \/ pc[r] = "cancel" \/ t \in pending \ pending'
    BY <2>1, <2>2, <2>3, <2>4 DEF Taken
  <2>5. CASE /\ Begun(r) /\ ~Begun(r)' /\ pc'[r] # "cancel"
             /\ times'[t] = times[t] + 1 /\ (t \in done' => t \in done \/ times'[t] = 1)
    <3>1. Holder(r, t) /\ t \notin pending /\ times'[t] = 1
      BY <2>1, <2>5 DEF Holder, Holds
    <3>2. \A q \in Requests \ {r} : ~(about[q] = t /\ (Begun(q) \/ pc[q] = "cancel"))
      BY <2>1, <3>1 DEF Holder, Holds
    <3> QED
      BY <2>1, <2>2, <2>3, <2>5, <3>1, <3>2 DEF Taken
  <2> QED
    BY <2>4, <2>5
<1> QED
  BY <1>1, <1>2

\* Every step leaves a token in _pending or with one holder.
LEMMA TakenStep == ASSUME IInv, Next PROVE (\A u \in Tokens : Taken(u))'
<1>0. (\A u \in Tokens : Taken(u)) /\ \A q \in Requests : Order(q)
  BY DEF IInv
<1>1. ASSUME NEW r \in Requests, RequestStep(r) \/ SpawnFails(r) PROVE (\A u \in Tokens : Taken(u))'
  <2>1. /\ job'[r] = job[r] \/ job'[r] \in {"consume", "queued", "over"}
        /\ pc'[r] = "cancel" => pc[r] = "cancel" \/ about[r] \in pending \ pending'
    BY <1>1, Types, Names DEF RequestStep, SpawnFails, Claim, PageConfirms, BotLooks, BotClaims,
       BotWithdraws, BotCancels, Cancel, Drop, Pick, HandOver, Reserve, Spawn, PageMarks, Reject,
       Refuse, BotReturns, Submitted, Rejected, Queue, Goto, At, jobs, Valid
  <2>2. /\ Holds(r)' => Holds(r) \/ about[r] \in pending \ pending'
        /\ Begun(r)' \/ pc'[r] = "cancel" =>
              Begun(r) \/ pc[r] = "cancel" \/ about[r] \in pending \ pending'
    BY <2>1 DEF Holds, Begun
  <2> QED
    BY <1>1, <2>2, RequestFrame, TakenKept, Names
<1>2. ASSUME NEW j \in Requests, JobStep(j) PROVE (\A u \in Tokens : Taken(u))'
  <2>1. /\ about[j] \in Tokens /\ about' = about /\ pc' = pc /\ pending' \subseteq pending
        /\ \A q \in Requests \ {j} : job'[q] = job[q]
        /\ \A u \in Tokens \ {about[j]} : times'[u] = times[u] /\ (u \in done' <=> u \in done)
    BY <1>2, JobFrame, Names DEF requests
  <2>2. CASE Work(j)
    <3>1. /\ Begun(j) /\ job'[j] \in {"settle", "report"}
          /\ \/ times' = times /\ done' = done
             \/ times'[about[j]] = times[about[j]] + 1 /\ done' \subseteq done \union {about[j]}
      BY <2>1, <2>2, Types, Names, NamesAssumption DEF Work, Begun, Step
    <3>2. /\ Holds(j)' => Holds(j)
          /\ ~Begun(j)' /\ (pc[j] = "cancel" => job[j] = "none")
      BY <1>0, <3>1 DEF Holds, Begun, Order
    <3>3. times[about[j]] = 0 /\ about[j] \notin done
      BY <1>0, <2>1, <3>1 DEF Taken
    <3> QED
      BY <2>1, <3>1, <3>2, <3>3, TakenKept DEF Begun
  <2>3. CASE ~Work(j)
    <3>1. /\ times' = times /\ done' = done
          /\ Holds(j)' => Holds(j) \/ about[j] \in pending \ pending'
          /\ Begun(j)' => Begun(j) \/ about[j] \in pending \ pending'
      BY <1>2, <2>1, <2>3, Types, Names, NamesAssumption DEF JobStep, StartJob, JobMarks, Consume,
         Deny, JobMarksAgain, Settle, Report, EndJob, FirstStep, LastStep, Step, Holds, Begun,
         history, Valid
    <3> QED
      BY <2>1, <3>1, TakenKept
  <2> QED
    BY <2>2, <2>3
<1>3. ASSUME NEW j \in Jobs \ Requests, JobStep(j) PROVE (\A u \in Tokens : Taken(u))'
  BY <1>0, <1>3, JobFrame, Names DEF requests, Taken, Holder, Holds, Begun
<1>4. CASE Around
  BY <1>0, <1>4, AroundFrame DEF Taken, Holder, Holds, Begun
<1>5. CASE Reset
  BY <1>0, <1>5 DEF Reset, jobs, requests, Taken, Holder, Holds, Begun
<1>6. ASSUME NEW t \in Tokens, Preview(t) PROVE (\A u \in Tokens : Taken(u))'
  <2>1. Untouched(t)
    BY <1>6 DEF Preview, IInv
  <2> QED
    BY <1>0, <1>6, <2>1 DEF Preview, jobs, requests, history, Taken, Holder, Holds, Begun, Untouched
<1>7. ASSUME NEW t \in Tokens, NEW w \in Clicks, Click(t, w) PROVE (\A u \in Tokens : Taken(u))'
  <2>1. PICK r \in Requests : /\ pc[r] = "idle" /\ pc' = [pc EXCEPT ![r] = "asked"]
                              /\ about' = [about EXCEPT ![r] = t]
    BY <1>7 DEF Click, At, Goto
  <2>2. \A q \in Requests \ {r} : pc'[q] = pc[q] /\ about'[q] = about[q]
    BY <2>1, Types
  <2>3. job[r] = "none" /\ pc'[r] = "asked" /\ UNCHANGED <<job, pending, times, done>>
    BY <1>0, <1>7, <2>1, Types DEF Click, jobs, tokens, history, Order
  <2>4. ~Holds(r)' /\ ~Holds(r)
    BY <2>1, <2>3 DEF Holds, Begun
  <2> QED
    BY <1>0, <2>2, <2>3, <2>4 DEF Taken, Holder, Holds, Begun
<1> QED
  BY <1>1, <1>2, <1>3, <1>4, <1>5, <1>6, <1>7 DEF Next, Around

------------------------------------------------------------------------------
(* Tokens are claimed once.                                                *)

Spoken(r) == Claimed(r) \/ job[r] \in Running \ {"mark"}

\* A step of a request or its job that does not claim, or claims what is pending.
LEMMA ClaimKept ==
    ASSUME IInv, NEW r \in Requests, NEW t \in Tokens, t = about[r],
           UNCHANGED <<what, about, known, stale>>, pending' \subseteq pending, SaysOf(t),
           \A q \in Requests \ {r} : job'[q] = job[q] /\ pc'[q] = pc[q],
           Claimed(r)' => Claimed(r) \/ (status[t] = "pending" /\ status'[t] # "pending"),
           Spoken(r)' => Spoken(r) \/ status'[t] # "pending",
           \A u \in Tokens : times'[u] > 0 => times[u] > 0 \/ status[u] # "pending"
    PROVE  \A u \in Tokens : OneClaim(u)'
<1>0. /\ \A u \in Tokens : OneClaim(u)
      /\ \A u \in Tokens : status[u] # "pending" => status'[u] # "pending"
  BY SaysKeeps DEF IInv
<1>1. \A q \in Requests \ {r} : (Claimed(q)' => Claimed(q)) /\ (Spoken(q)' => Spoken(q))
  BY DEF Claimed, Spoken, PageCleanup, Page, Cleanup, Valid
<1>2. ASSUME NEW u \in Tokens PROVE OneClaim(u)'
  <2>1. /\ \A q, s \in Requests : Claimed(q) /\ Claimed(s) /\ about[q] = u /\ about[s] = u => q = s
        /\ \A q \in Requests : about[q] = u /\ Spoken(q) => status[u] # "pending"
        /\ times[u] > 0 => status[u] # "pending"
    BY <1>0 DEF OneClaim, Spoken
  <2>2. \A q \in Requests : Claimed(q) => Spoken(q)
    BY DEF Spoken
  <2>3. \A q, s \in Requests : Claimed(q)' /\ Claimed(s)' /\ about'[q] = u /\ about'[s] = u => q = s
    BY <1>1, <2>1, <2>2
  <2>4. \A q \in Requests : about'[q] = u /\ Spoken(q)' => status'[u] # "pending"
    BY <1>0, <1>1, <2>1
  <2>5. times'[u] > 0 => status'[u] # "pending"
    BY <1>0, <2>1
  <2> QED
    BY <2>3, <2>4, <2>5 DEF OneClaim, Spoken
<1> QED
  BY <1>2

\* Whoever reads "pending" and puts something else has it.
LEMMA PutsPending ==
    ASSUME IInv, NEW t \in Tokens, NEW s \in Answers, Put(t, s) PROVE status'[t] # "pending"
BY PutFacts DEF Answers, Final

\* Every step leaves a token with one claim.
LEMMA OneClaimStep == ASSUME IInv, Next PROVE (\A u \in Tokens : OneClaim(u))'
<1>0. (\A u \in Tokens : OneClaim(u)) /\ \A q \in Requests : Order(q)
  BY DEF IInv
<1>1. ASSUME NEW r \in Requests, RequestStep(r) \/ SpawnFails(r) PROVE (\A u \in Tokens : OneClaim(u))'
  <2> DEFINE t == about[r]
  <2>0. /\ UNCHANGED <<what, about, known, stale, times>> /\ pending' \subseteq pending /\ t \in Tokens
        /\ SaysOf(t) /\ \A q \in Requests \ {r} : job'[q] = job[q] /\ pc'[q] = pc[q]
        /\ "processing" \in Answers
    BY <1>1, RequestFrame, Names DEF Answers
  <2>1. /\ Claimed(r)' => Claimed(r) \/ (status[t] = "pending" /\ status'[t] # "pending")
        /\ Spoken(r)' => Spoken(r) \/ status'[t] # "pending"
    <3> USE DEF Claimed, Spoken, PageCleanup, Page, Cleanup, At, Goto, jobs, plugin, coordinators
    <3>1. CASE Claim(r)
      BY <1>0, <2>0, <3>1, PutsPending, Types, Names DEF Claim, Running
    <3>2. CASE BotClaims(r)
      BY <1>0, <2>0, <3>2, PutsPending, Types, Names DEF BotClaims, Order
    <3>3. CASE PageConfirms(r) \/ BotLooks(r) \/ BotWithdraws(r) \/ BotCancels(r) \/ Cancel(r) \/ Drop(r)
      BY <2>0, <3>3, Types, Names DEF PageConfirms, BotLooks, BotWithdraws, BotCancels, Cancel, Drop, Valid
    <3>4. CASE Pick(r) \/ Spawn(r) \/ PageMarks(r) \/ Reject(r) \/ Refuse(r) \/ BotReturns(r)
      BY <2>0, <3>4, Types, Names DEF Pick, Spawn, Submitted, PageMarks, Reject, Refuse, BotReturns
    <3>5. CASE HandOver(r) \/ SpawnFails(r)
      BY <2>0, <3>5, Types, Names DEF HandOver, SpawnFails, Rejected, Running
    <3>6. CASE Reserve(r)
      BY <2>0, <3>6, Types, Names DEF Reserve, Submitted, Rejected, Queue, Running
    <3> QED
      BY <1>1, <3>1, <3>2, <3>3, <3>4, <3>5, <3>6 DEF RequestStep
  <2> QED
    BY <2>0, <2>1, ClaimKept
<1>2. ASSUME NEW j \in Requests, JobStep(j) PROVE (\A u \in Tokens : OneClaim(u))'
  <2> DEFINE t == about[j]
  <2>0. /\ UNCHANGED <<pc, what, about, known, stale>> /\ pending' \subseteq pending /\ t \in Tokens
        /\ SaysOf(t) /\ \A q \in Requests \ {j} : job'[q] = job[q]
    BY <1>2, JobFrame, Names DEF requests
  <2>1. Claimed(j)' => Claimed(j)
    BY <1>2, <2>0 DEF Claimed, PageCleanup, Page, Cleanup, Valid, JobStep, StartJob, JobMarks,
       Consume, Deny, JobMarksAgain, Work, Settle, Report, EndJob
  <2>2. Spoken(j)' => Spoken(j) \/ status'[t] # "pending"
    <3>1. CASE StartJob(j)
      <4>1. job'[j] = "mark" \/ (job'[j] = "consume" /\ ~PageCleanup(j))
        BY <3>1, Types, Names, NamesAssumption DEF StartJob, FirstStep, PageCleanup
      <4>2. ~PageCleanup(j) => Claimed(j)
        BY <2>0, <3>1 DEF StartJob, Claimed
      <4> QED
        BY <2>1, <4>1, <4>2 DEF Spoken
    <3>2. CASE JobMarks(j)
      <4>1. Put(t, "processing") /\ "processing" \in Answers
        BY <3>2 DEF JobMarks, Answers
      <4> QED
        BY <2>0, <4>1, PutsPending
    <3>3. CASE ~StartJob(j) /\ ~JobMarks(j)
      <4>1. job[j] \in Running \ {"mark"}
        BY <1>2, <3>3 DEF JobStep, Consume, Deny, JobMarksAgain, Work, Settle, Report, EndJob, Running
      <4> QED
        BY <4>1 DEF Spoken
    <3> QED
      BY <3>1, <3>2, <3>3
  <2>3. \A u \in Tokens : times'[u] > 0 => times[u] > 0 \/ status[u] # "pending"
    <3>1. CASE Work(j)
      <4>1. \A u \in Tokens \ {t} : times'[u] = times[u]
        BY <1>2, JobFrame, Names
      <4>2. status[t] # "pending"
        <5>1. job[j] \in Running \ {"mark"} /\ OneClaim(t)
          BY <1>0, <2>0, <3>1 DEF Work, Running
        <5> QED
          BY <5>1 DEF OneClaim
      <4> QED
        BY <4>1, <4>2
    <3>2. CASE ~Work(j)
      BY <1>2, <3>2 DEF JobStep, StartJob, JobMarks, Consume, Deny, JobMarksAgain, Settle, Report,
         EndJob, history
    <3> QED
      BY <3>1, <3>2
  <2> QED
    BY <2>0, <2>1, <2>2, <2>3, ClaimKept
<1>3. ASSUME NEW j \in Jobs \ Requests, JobStep(j) PROVE (\A u \in Tokens : OneClaim(u))'
  BY <1>0, <1>3, JobFrame, Names DEF requests, OneClaim, Claimed, PageCleanup, Page, Cleanup, Valid
<1>4. CASE Around
  <2>1. \A u \in Tokens : status[u] # "pending" => status'[u] # "pending"
    <3>1. ASSUME NEW t \in Tokens, Put(t, "expired")
          PROVE  \A u \in Tokens : status[u] # "pending" => status'[u] # "pending"
      BY <3>1, PutFacts
    <3> QED
      BY <1>4, <3>1, AroundFrame
  <2>2. \A q \in Requests : (Claimed(q)' => Claimed(q)) /\ (Spoken(q)' => Spoken(q))
    BY <1>4, AroundFrame DEF Claimed, Spoken, PageCleanup, Page, Cleanup, Valid, Running
  <2> QED
    BY <1>0, <1>4, <2>1, <2>2, AroundFrame DEF OneClaim, Spoken
<1>5. CASE Reset
  BY <1>0, <1>5, Types DEF Reset, jobs, requests, OneClaim, Claimed, PageCleanup, Page, Cleanup, Valid
<1>6. ASSUME NEW t \in Tokens, Preview(t) PROVE (\A u \in Tokens : OneClaim(u))'
  <2>1. Untouched(t)
    BY <1>6 DEF Preview, IInv
  <2>2. \A q \in Requests : about[q] # t => (Claimed(q)' => Claimed(q))
    BY <1>6 DEF Preview, jobs, requests, Claimed, PageCleanup, Page, Cleanup, Valid
  <2> QED
    BY <1>0, <1>6, <2>1, <2>2, Types DEF Preview, jobs, requests, history, OneClaim, Untouched
<1>7. ASSUME NEW t \in Tokens, NEW w \in Clicks, Click(t, w) PROVE (\A u \in Tokens : OneClaim(u))'
  <2>1. PICK r \in Requests : /\ pc[r] = "idle" /\ pc' = [pc EXCEPT ![r] = "asked"]
                              /\ about' = [about EXCEPT ![r] = t] /\ what' = [what EXCEPT ![r] = w]
    BY <1>7 DEF Click, At, Goto
  <2>2. \A q \in Requests \ {r} : pc'[q] = pc[q] /\ about'[q] = about[q] /\ what'[q] = what[q]
    BY <2>1, Types
  <2>3. job[r] = "none" /\ pc'[r] = "asked" /\ UNCHANGED <<job, pending, stale, status, times>>
    BY <1>0, <1>7, <2>1, Types DEF Click, jobs, tokens, history, Order
  <2>4. ~Claimed(r)' /\ job'[r] \notin Running
    BY <2>1, <2>3 DEF Claimed, Running
  <2>5. \A q \in Requests \ {r} : Claimed(q)' => Claimed(q)
    BY <2>2, <2>3 DEF Claimed, PageCleanup, Page, Cleanup, Valid
  <2> QED
    BY <1>0, <2>2, <2>3, <2>4, <2>5 DEF OneClaim
<1> QED
  BY <1>1, <1>2, <1>3, <1>4, <1>5, <1>6, <1>7 DEF Next, Around

------------------------------------------------------------------------------
(* The message is true.                                                    *)

\* Every step keeps what succeeded recorded.
LEMMA SuccessesStep == ASSUME IInv, Next PROVE Successes'
<1> USE DEF Successes
<1>0. Successes /\ \A q \in Requests : Order(q)
  BY DEF IInv
<1>1. ASSUME NEW r \in Requests, RequestStep(r) \/ SpawnFails(r) PROVE Successes'
  <2>1. /\ \A u \in Tokens : status[u] \in Final => status'[u] = status[u]
        /\ UNCHANGED <<about, outcome, done, known>> /\ \A j \in Jobs \ {r} : job'[j] = job[j]
    BY <1>1, RequestFrame, SaysKeeps
  <2>2. UNCHANGED job \/ (outcome[r] = "failed" /\ job'[r] # "settle")
    <3>1. UNCHANGED job \/ (job[r] \in {"none", "queued"} /\ job'[r] # "settle")
      <4>1. Order(r)
        BY <1>0
      <4>2. CASE Claim(r) \/ Reserve(r) \/ SpawnFails(r)
        BY <4>1, <4>2, Types, Names DEF Order, Claim, Reserve, SpawnFails, Queue, At, jobs
      <4>3. CASE ~Claim(r) /\ ~Reserve(r) /\ ~SpawnFails(r)
        BY <1>1, <4>3 DEF RequestStep, PageConfirms, BotLooks, BotClaims, BotWithdraws, BotCancels,
           Cancel, Drop, Pick, HandOver, Spawn, PageMarks, Reject, Refuse, BotReturns, jobs
      <4> QED
        BY <4>2, <4>3
    <3> QED
      BY <1>0, <3>1, Types, Names
  <2>3. \A j \in Scheduled : outcome'[j] = "failed"
    BY <1>0, <2>1
  <2>4. \A q \in Requests : outcome'[q] = "completed" =>
          /\ about'[q] \in done' /\ job'[q] \in {"settle", "report", "end", "over"}
          /\ job'[q] \in {"end", "over"} /\ about'[q] \in known' => status'[about'[q]] \in Final
    BY <1>0, <2>1, <2>2, Types, Names
  <2>5. \A q \in Requests : job'[q] = "settle" /\ about'[q] \in done' => outcome'[q] = "completed"
    BY <1>0, <2>1, <2>2, Types, Names
  <2> QED
    BY <1>0, <2>1, <2>3, <2>4, <2>5
<1>2. ASSUME NEW j \in Requests, JobStep(j) PROVE Successes'
  <2> DEFINE t == about[j]
  <2>0. /\ t \in Tokens /\ UNCHANGED <<about, known>>
        /\ \A x \in Jobs \ {j} : job'[x] = job[x] /\ outcome'[x] = outcome[x]
        /\ \A u \in Tokens \ {t} : u \in done' <=> u \in done
        /\ \A u \in Tokens : status[u] \in Final => status'[u] = status[u]
        /\ outcome[j] \in {"completed", "failed"} /\ Requests \intersect Scheduled = {}
    BY <1>2, JobFrame, SaysKeeps, Names, Types, NamesAssumption DEF requests
  <2>1. CASE Work(j)
    <3>1. /\ Holder(j, t) /\ times[t] = 0 /\ t \notin done /\ \A q \in Requests \ {j} : ~Holder(q, t)
      BY <1>2, <2>0, <2>1 DEF Work, Holder, Holds, Begun, IInv, Taken
    <3>2. /\ job'[j] \in {"settle", "report"} /\ done \subseteq done' /\ outcome[j] = "failed"
          /\ \/ outcome'[j] = "completed" /\ t \in done'
             \/ outcome'[j] = "failed" /\ t \notin done'
      BY <1>0, <2>0, <2>1, <3>1, Types, Names DEF Work, Step, Result
    <3>3. \A q \in Requests : job'[q] = "settle" /\ about'[q] \in done' => outcome'[q] = "completed"
      <4> SUFFICES ASSUME NEW q \in Requests, job'[q] = "settle", about'[q] \in done'
                   PROVE  outcome'[q] = "completed"
        OBVIOUS
      <4>1. CASE q = j
        BY <2>0, <3>2, <4>1
      <4>2. CASE q # j
        <5>1. job[q] = "settle" /\ outcome'[q] = outcome[q] /\ about'[q] = about[q]
          BY <2>0, <4>2, Names
        <5>2. about[q] # t
          BY <3>1, <4>2, <5>1 DEF Holder, Holds
        <5>3. about[q] \in done
          <6>1. about[q] \in Tokens \ {t}
            BY <5>1, <5>2, Places
          <6> QED
            BY <2>0, <5>1, <6>1
        <5> QED
          BY <1>0, <5>1, <5>3
      <4> QED
        BY <4>1, <4>2
    <3>4. \A q \in Requests : outcome'[q] = "completed" =>
            /\ about'[q] \in done' /\ job'[q] \in {"settle", "report", "end", "over"}
            /\ job'[q] \in {"end", "over"} /\ about'[q] \in known' => status'[about'[q]] \in Final
      BY <1>0, <2>0, <3>1, <3>2, Names, Types
    <3>5. \A u \in done' : \E q \in Requests : about'[q] = u /\ outcome'[q] = "completed"
      <4> SUFFICES ASSUME NEW u \in done' PROVE \E q \in Requests : about'[q] = u /\ outcome'[q] = "completed"
        OBVIOUS
      <4>1. CASE u = t
        BY <2>0, <3>2, <4>1
      <4>2. CASE u # t
        <5>1. u \in done
          BY <1>2, <2>0, <4>2, JobTypes, Names DEF TypeOK
        <5>2. PICK q \in Requests : about[q] = u /\ outcome[q] = "completed"
          BY <1>0, <5>1
        <5> QED
          BY <2>0, <4>2, <5>2, Names
      <4> QED
        BY <4>1, <4>2
    <3> QED
      BY <1>0, <2>0, <3>3, <3>4, <3>5, Names
  <2>2. CASE ~Work(j)
    <3>1. /\ done' = done
          /\ outcome'[j] = outcome[j] \/ (job[j] = "consume" /\ outcome'[j] = "failed")
      BY <1>2, <2>2, Types, Names DEF JobStep, StartJob, JobMarks, Consume, Deny, JobMarksAgain,
         Settle, Report, EndJob, Result, history
    <3>2. outcome'[j] = outcome[j]
      BY <1>0, <2>0, <3>1
    <3>3. outcome[j] = "completed" =>
            /\ job'[j] \in {"settle", "report", "end", "over"}
            /\ job'[j] \in {"end", "over"} /\ t \in known => status'[t] \in Final
      <4>1. CASE Settle(j)
        BY <1>0, <2>0, <4>1, PutFacts, Types, Names DEF Settle, Step, LastStep, Final
      <4>2. CASE Report(j)
        <5>1. t \in known => status[t] # "none"
          BY <2>0 DEF IInv, MessageFollows
        <5> QED
          BY <1>0, <2>0, <4>2, <5>1, PutFacts, Types, Names DEF Report, Ends, Finish, Step, Final
      <4>3. CASE EndJob(j)
        BY <1>0, <2>0, <4>3, Types, Names DEF EndJob, Step
      <4>4. CASE ~Settle(j) /\ ~Report(j) /\ ~EndJob(j)
        BY <1>0, <1>2, <2>2, <4>4 DEF JobStep, StartJob, JobMarks, Consume, Deny, JobMarksAgain
      <4> QED
        BY <4>1, <4>2, <4>3, <4>4
    <3>4. job'[j] # "settle"
      BY <1>2, <2>2, Types, Names DEF JobStep, StartJob, JobMarks, Consume, Deny, JobMarksAgain,
         Settle, Report, EndJob, FirstStep, LastStep, Step
    <3>5. \A q \in Requests : outcome'[q] = "completed" =>
            /\ about'[q] \in done' /\ job'[q] \in {"settle", "report", "end", "over"}
            /\ job'[q] \in {"end", "over"} /\ about'[q] \in known' => status'[about'[q]] \in Final
      <4> SUFFICES ASSUME NEW q \in Requests, outcome'[q] = "completed"
                   PROVE  /\ about'[q] \in done' /\ job'[q] \in {"settle", "report", "end", "over"}
                          /\ job'[q] \in {"end", "over"} /\ about'[q] \in known' => status'[about'[q]] \in Final
        OBVIOUS
      <4>1. CASE q = j
        BY <1>0, <2>0, <3>1, <3>2, <3>3, <4>1
      <4>2. CASE q # j
        <5>1. job'[q] = job[q] /\ outcome[q] = "completed" /\ about[q] \in done
          BY <1>0, <2>0, <4>2, Names
        <5>2. about[q] \in Tokens
          BY <5>1, Types
        <5> QED
          BY <1>0, <2>0, <3>1, <5>1, <5>2
      <4> QED
        BY <4>1, <4>2
    <3>6. \A q \in Requests : job'[q] = "settle" /\ about'[q] \in done' => outcome'[q] = "completed"
      BY <1>0, <2>0, <3>1, <3>2, <3>4, Names
    <3>7. outcome' = outcome
      <4>1. outcome' \in [Jobs -> {"completed", "failed"}]
        BY <1>2, JobTypes, Names DEF TypeOK
      <4> QED
        BY <2>0, <3>2, <4>1, Types, Names
    <3> QED
      BY <1>0, <2>0, <3>1, <3>5, <3>6, <3>7
  <2> QED
    BY <2>1, <2>2
<1>3. ASSUME NEW j \in Jobs \ Requests, JobStep(j) PROVE Successes'
  BY <1>0, <1>3, JobFrame, Names DEF requests
<1>4. CASE Around
  <2>1. \A u \in Tokens : status[u] \in Final => status'[u] = status[u]
    <3>1. ASSUME NEW t \in Tokens, Put(t, "expired")
          PROVE  \A u \in Tokens : status[u] \in Final => status'[u] = status[u]
      BY <3>1, PutFacts
    <3> QED
      BY <1>4, <3>1, AroundFrame
  <2> QED
    BY <1>0, <1>4, <2>1, AroundFrame, Types
<1>5. CASE Reset
  BY <1>0, <1>5 DEF Reset, jobs, requests
<1>6. ASSUME NEW t \in Tokens, Preview(t) PROVE Successes'
  <2>1. t \notin done
    BY <1>6 DEF Preview, IInv, Untouched, Taken
  <2> QED
    BY <1>0, <1>6, <2>1, Types DEF Preview, jobs, requests, history
<1>7. ASSUME NEW t \in Tokens, NEW w \in Clicks, Click(t, w) PROVE Successes'
  <2>1. PICK r \in Requests : pc[r] = "idle" /\ about' = [about EXCEPT ![r] = t]
    BY <1>7 DEF Click, At
  <2>2. job[r] = "none" /\ UNCHANGED <<job, outcome, known, status, done>>
    BY <1>0, <1>7, <2>1 DEF Click, jobs, tokens, history, Order
  <2> QED
    BY <1>0, <2>1, <2>2, Types
<1> QED
  BY <1>1, <1>2, <1>3, <1>4, <1>5, <1>6, <1>7 DEF Next, Around

\* Every step leaves the page's cleanups to report of a token that is gone.
LEMMA PageReportsStep == ASSUME IInv, Next PROVE PageReports'
<1> USE DEF PageReports, PageCleanup, Page, Cleanup
<1>0. PageReports /\ \A q \in Requests : Order(q)
  BY DEF IInv
<1>1. ASSUME NEW r \in Requests, RequestStep(r) \/ SpawnFails(r) PROVE PageReports'
  <2>1. job'[r] = job[r] \/ job'[r] # "report"
    BY <1>1, Types, Names DEF RequestStep, SpawnFails, Claim, PageConfirms, BotLooks, BotClaims,
       BotWithdraws, BotCancels, Cancel, Drop, Pick, HandOver, Reserve, Spawn, PageMarks, Reject,
       Refuse, BotReturns, Queue, jobs
  <2> QED
    BY <1>0, <1>1, <2>1, RequestFrame, Names DEF Valid
<1>2. ASSUME NEW j \in Requests, JobStep(j) PROVE PageReports'
  <2>1. /\ about[j] \in Tokens /\ UNCHANGED <<what, about, stale>> /\ pending' \subseteq pending
        /\ \A q \in Requests \ {j} : job'[q] = job[q]
    BY <1>2, JobFrame, Names DEF requests
  <2>2. PageCleanup(j) /\ job'[j] = "report" => ~Valid(about[j])'
    <3>1. CASE Settle(j)
      <4>1. about[j] \notin pending
        BY <2>1, <3>1 DEF Settle, IInv, Taken, Holder, Holds
      <4> QED
        BY <2>1, <4>1 DEF Valid
    <3>2. CASE ~Settle(j)
      BY <1>0, <1>2, <2>1, <3>2, Types, Names, NamesAssumption DEF JobStep, StartJob, JobMarks, Consume,
         Deny, JobMarksAgain, Work, Report, EndJob, FirstStep, LastStep, Step, Valid, tokens
    <3> QED
      BY <3>1, <3>2
  <2> QED
    BY <1>0, <2>1, <2>2 DEF Valid
<1>3. ASSUME NEW j \in Jobs \ Requests, JobStep(j) PROVE PageReports'
  BY <1>0, <1>3, JobFrame, Names DEF requests, Valid
<1>4. CASE Around
  BY <1>0, <1>4, AroundFrame DEF Valid
<1>5. CASE Reset
  BY <1>0, <1>5 DEF Reset, jobs, requests, Valid
<1>6. ASSUME NEW t \in Tokens, Preview(t) PROVE PageReports'
  <2>1. Untouched(t)
    BY <1>6 DEF Preview, IInv
  <2> QED
    BY <1>0, <1>6, <2>1 DEF Preview, jobs, requests, Untouched, Valid
<1>7. ASSUME NEW t \in Tokens, NEW w \in Clicks, Click(t, w) PROVE PageReports'
  <2>1. PICK r \in Requests : /\ pc[r] = "idle" /\ about' = [about EXCEPT ![r] = t]
                              /\ what' = [what EXCEPT ![r] = w]
    BY <1>7 DEF Click, At
  <2>2. job[r] = "none" /\ UNCHANGED <<job, pending, stale>>
    BY <1>0, <1>7, <2>1 DEF Click, jobs, tokens, Order
  <2>3. \A q \in Requests \ {r} : about'[q] = about[q] /\ what'[q] = what[q]
    BY <2>1, Types
  <2> QED
    BY <1>0, <2>2, <2>3 DEF Valid
<1> QED
  BY <1>1, <1>2, <1>3, <1>4, <1>5, <1>6, <1>7 DEF Next, Around

\* A request that gives its token up as failed, while another may have it in work.
LEMMA FailFacts ==
    ASSUME IInv, NEW r \in Requests, NEW t \in Tokens, t = about[r], Fail(r)
    PROVE  /\ told'[t] = told[t] \/ (told'[t] = "failed" /\ t \in known /\ status[t] \notin Final)
           /\ doubted \subseteq doubted'
           /\ (\E q \in Requests \ {r} : about[q] = t /\ job[q] \in Running) => t \in doubted'
<1>1. /\ Finish(t, "failed") /\ doubted \subseteq doubted'
      /\ (\E q \in Requests \ {r} : about[q] = t /\ job[q] \in Running) => t \in doubted'
  BY DEF Fail
<1>2. t \in known => told[t] = status[t]
  BY DEF IInv, MessageFollows
<1>3. ASSUME Put(t, "failed")
      PROVE  told'[t] = told[t] \/ (told'[t] = "failed" /\ t \in known /\ status[t] \notin Final)
  BY <1>2, <1>3, PutFacts
<1> QED
  BY <1>1, <1>3 DEF Finish

\* An operation that succeeded is reported, or still running.
LEMMA DoneRuns ==
    ASSUME IInv, NEW r \in Requests, NEW t \in Tokens, t = about[r], outcome[r] = "failed",
           Fail(r), t \in done
    PROVE  told'[t] = told[t] \/ t \in doubted'
<1>1. PICK q \in Requests : about[q] = t /\ outcome[q] = "completed"
  BY DEF IInv, Successes
<1>2. /\ job[q] \in {"settle", "report", "end", "over"}
      /\ job[q] \in {"end", "over"} /\ t \in known => status[t] \in Final
  BY <1>1 DEF IInv, Successes
<1>3. q # r
  BY <1>1
<1> QED
  BY <1>1, <1>2, <1>3, FailFacts DEF Running

\* A step of a request or its job keeps what is ready open, if it finds its token so, or
\* leaves nothing ready that it settles.
LEMMA ReadyKept ==
    ASSUME IInv, NEW r \in Requests, NEW t \in Tokens, t = about[r],
           UNCHANGED <<what, about, stale>>, pending' \subseteq pending, SaysOf(t),
           known' = known, overruled \subseteq overruled', doubted \subseteq doubted',
           \A q \in Requests \ {r} : job'[q] = job[q] /\ pc'[q] = pc[q],
           Ready(r)' => Ready(r) \/ told'[t] \notin Final \/ t \in overruled' \union doubted',
           \/ told'[t] = told[t] \/ told'[t] \notin Final \/ t \in overruled' \union doubted'
           \/ ~Ready(r)' /\ \A q \in Requests \ {r} : about[q] = t => ~Ready(q)
    PROVE  ReadyIsOpen'
<1>0. /\ ReadyIsOpen
      /\ \A u \in Tokens \ {t} : told'[u] = told[u]
  BY SaysKeeps DEF IInv
<1>1. \A q \in Requests \ {r} : Ready(q)' => Ready(q)
  BY DEF Ready, Begun, Claimed, PageCleanup, Page, Cleanup, Valid
<1>2. ASSUME NEW q \in Requests, about[q] \in Tokens, Ready(q)'
      PROVE  told'[about[q]] \notin Final \/ about[q] \in overruled' \union doubted'
  <2>1. CASE about[q] # t
    BY <1>0, <1>1, <1>2, <2>1 DEF ReadyIsOpen
  <2>2. CASE about[q] = t /\ q # r
    BY <1>0, <1>1, <1>2, <2>2 DEF ReadyIsOpen
  <2>3. CASE q = r
    BY <1>0, <1>2, <2>3 DEF ReadyIsOpen
  <2> QED
    BY <2>1, <2>2, <2>3
<1> QED
  BY <1>2 DEF ReadyIsOpen

\* Who is not ready: anybody but the one that has taken the token, anybody before it is
\* claimed or after it is done, and who does not run while another has claimed it.
LEMMA NotReady ==
    ASSUME IInv, NEW r \in Requests, NEW t \in Tokens, t = about[r]
    PROVE  /\ Holder(r, t) => \A q \in Requests \ {r} : about[q] = t => ~Ready(q)
           /\ status[t] = "pending" => \A q \in Requests : about[q] = t => ~Ready(q)
           /\ t \in done => \A q \in Requests : about[q] = t => ~Ready(q)
           /\ ~Valid(t) => \A q \in Requests : about[q] = t /\ job[q] \notin Running => ~Ready(q)
           /\ Claimed(r) => \A q \in Requests \ {r} :
                 about[q] = t /\ (job[q] \notin Running \/ ~Cleanup(r)) => ~Ready(q)
<1>0. Taken(t) /\ OneClaim(t) /\ t = about[r]
  BY DEF IInv
<1>1. ASSUME Holder(r, t), NEW q \in Requests \ {r}, about[q] = t PROVE ~Ready(q)
  BY <1>0, <1>1 DEF Taken, Ready, Holder, Holds, Valid
<1>2. ASSUME status[t] = "pending", NEW q \in Requests, about[q] = t PROVE ~Ready(q)
  <2>1. ~Claimed(q) /\ job[q] \notin {"consume", "markAgain", "work"}
    BY <1>0, <1>2 DEF OneClaim, Running
  <2> QED
    BY <2>1 DEF Ready, Begun
<1>3. ASSUME t \in done, NEW q \in Requests, about[q] = t PROVE ~Ready(q)
  BY <1>0, <1>3 DEF Taken, Ready, Begun, Valid
<1>4. ASSUME ~Valid(t), NEW q \in Requests, about[q] = t, job[q] \notin Running PROVE ~Ready(q)
  BY <1>4 DEF Ready, Begun, Running
<1>5. ASSUME Claimed(r), NEW q \in Requests \ {r}, about[q] = t, job[q] \notin Running \/ ~Cleanup(r)
      PROVE  ~Ready(q)
  <2>1. ~Claimed(q)
    BY <1>0, <1>5 DEF OneClaim
  <2>2. CASE job[q] \notin Running
    BY <2>1, <2>2 DEF Ready, Begun, Running
  <2>3. CASE ~Cleanup(r)
    <3>1. job[q] = "none"
      BY <1>0, <1>5, <2>1, <2>3 DEF Claimed, PageCleanup, Cleanup
    <3> QED
      BY <2>1, <3>1 DEF Ready, Begun
  <2> QED
    BY <1>5, <2>2, <2>3
<1> QED
  BY <1>1, <1>2, <1>3, <1>4, <1>5

\* Every step leaves open what can still begin.
LEMMA ReadyStep == ASSUME IInv, Next PROVE ReadyIsOpen'
<1>0. ReadyIsOpen /\ \A q \in Requests : Order(q)
  BY DEF IInv
<1>1. ASSUME NEW r \in Requests, RequestStep(r) \/ SpawnFails(r) PROVE ReadyIsOpen'
  <2> DEFINE t == about[r]
  <2>0. /\ UNCHANGED <<what, about, known, stale>> /\ pending' \subseteq pending /\ t \in Tokens
        /\ SaysOf(t) /\ \A q \in Requests \ {r} : job'[q] = job[q] /\ pc'[q] = pc[q]
        /\ overruled \subseteq overruled' /\ doubted \subseteq doubted'
    BY <1>1, RequestFrame, Names
  <2>1. Order(r) /\ Taken(t) /\ MessageFollows(t)
    BY <2>0 DEF IInv
  <2>2. /\ Ready(r)' => Ready(r) \/ told'[t] \notin Final \/ t \in overruled' \union doubted'
        /\ \/ told'[t] = told[t] \/ told'[t] \notin Final \/ t \in overruled' \union doubted'
           \/ ~Ready(r)' /\ \A q \in Requests \ {r} : about[q] = t => ~Ready(q)
    <3> USE DEF At, Goto, Says
    <3> DEFINE Waits == job'[r] = "none" /\ pc'[r] \notin {"pick", "reserve", "again"}
    <3>0. /\ Waits => ~Ready(r)'
          /\ \A s \in Answers : Put(t, s) => told'[t] = told[t] \/ told'[t] = s
          /\ \A s \in Answers : Put(t, s) /\ status[t] = "pending" => told'[t] = s
          /\ Answers = Final \union {"processing"} /\ "processing" \notin Final
          /\ Final = {"completed", "cancelled", "failed", "expired"}
      <4>1. \A s : Put(t, s) => told'[t] = told[t] \/ told'[t] = s
        BY <2>0, PutFacts
      <4>2. \A s : Put(t, s) /\ status[t] = "pending" => told'[t] = s
        BY <2>0, <2>1, PutFacts DEF MessageFollows, Final
      <4>3. Waits => ~Ready(r)'
        BY DEF Ready, Begun
      <4> QED
        BY <4>1, <4>2, <4>3 DEF Answers, Final
    <3>1. CASE Claim(r)
      <4>1. job[r] = "none"
        BY <2>1, <3>1 DEF Claim, Order
      <4>2. CASE status[t] = "pending" /\ Put(t, "processing")
        BY <3>0, <4>2
      <4>3. CASE status[t] = "pending" /\ Put(t, "expired") /\ Waits
        BY <2>0, <3>0, <4>3, NotReady
      <4>4. CASE told' = told /\ Waits
        BY <3>0, <4>4
      <4> QED
        BY <3>1, <4>1, <4>2, <4>3, <4>4, Types DEF Claim
    <3>2. CASE PageConfirms(r)
      <4>1. PageCleanup(r)' /\ job'[r] = "none" /\ told' = told
        BY <2>0, <2>1, <3>2 DEF PageConfirms, Order, PageCleanup, Page, Cleanup, jobs
      <4> QED
        BY <4>1 DEF Ready, Begun, Claimed
    <3>3. CASE BotLooks(r) \/ BotWithdraws(r) \/ Drop(r)
      <4>1. Waits /\ told' = told
        BY <2>1, <3>3, Types DEF BotLooks, BotWithdraws, Drop, Order, jobs
      <4> QED
        BY <3>0, <4>1
    <3>4. CASE BotClaims(r)
      <4>1. CASE status[t] = "pending"
        BY <3>0, <3>4, <4>1 DEF BotClaims
      <4>2. CASE status[t] # "pending"
        <5>1. Waits /\ told' = told
          BY <2>1, <3>4, <4>2, Types DEF BotClaims, Order, jobs
        <5> QED
          BY <3>0, <5>1
      <4> QED
        BY <4>1, <4>2
    <3>5. CASE BotCancels(r)
      <4>1. Waits /\ Holder(r, t)
        BY <2>1, <3>5, Types DEF BotCancels, Order, jobs, Holder, Holds
      <4> QED
        BY <2>0, <3>0, <4>1, NotReady
    <3>6. CASE Cancel(r)
      <4>1. Waits /\ (told' = told \/ status[t] = "pending")
        BY <2>1, <3>6, Types DEF Cancel, Order, jobs
      <4> QED
        BY <2>0, <3>0, <4>1, NotReady
    <3>7. CASE Pick(r) \/ HandOver(r) \/ Spawn(r) \/ SpawnFails(r)
      <4>1. told' = told
        BY <3>7 DEF Pick, HandOver, Spawn, SpawnFails
      <4>2. Ready(r)' => Ready(r)
        BY <2>0, <2>1, <3>7, Types DEF Pick, HandOver, Spawn, SpawnFails, Submitted, Rejected, jobs,
           Ready, Begun, Claimed, PageCleanup, Page, Cleanup, Valid, Order, tokens
      <4> QED
        BY <4>1, <4>2
    <3>8. CASE Reserve(r)
      <4>1. told' = told
        BY <3>8 DEF Reserve
      <4>2. Ready(r)' => Ready(r)
        BY <2>0, <2>1, <3>8, Types, Names DEF Reserve, Submitted, Rejected, Queue, jobs,
           Ready, Begun, Claimed, PageCleanup, Page, Cleanup, Valid, Order, tokens
      <4> QED
        BY <4>1, <4>2
    <3>9. CASE PageMarks(r)
      <4>1. told' = told \/ Put(t, "processing")
        BY <3>9 DEF PageMarks
      <4>2. Ready(r)' => Ready(r)
        BY <2>0, <3>9, Types DEF PageMarks, jobs, Ready, Begun, Claimed, PageCleanup, Page, Cleanup, Valid
      <4> QED
        BY <3>0, <4>1, <4>2
    <3>10. CASE Reject(r)
      <4>1. Claimed(r) /\ ~Cleanup(r)
        BY <2>0, <2>1, <3>10 DEF Reject, Order, Claimed, PageCleanup
      <4>2. ~Ready(r)'
        BY <2>1, <3>10, Types DEF Reject, Order, jobs, Ready, Begun
      <4> QED
        BY <2>0, <4>1, <4>2, NotReady
    <3>11. CASE Refuse(r)
      <4>1. Waits /\ ~Page(r) /\ Fail(r)
        BY <2>1, <3>11, Types DEF Refuse, Order, jobs
      <4>2. Valid(t) => Claimed(r)
        BY <2>0, <3>11, <4>1 DEF Refuse, Claimed, PageCleanup
      <4> QED
        BY <2>0, <3>0, <4>1, <4>2, NotReady, FailFacts
    <3>12. CASE BotReturns(r)
      <4>1. /\ job[r] \in {"over", "cancelled"} /\ job' = job /\ pc'[r] = "over" /\ ~Page(r)
            /\ told' = told \/ Ends(r, outcome[r])
        BY <2>1, <3>12, Types DEF BotReturns, jobs, Order
      <4>2. ~Ready(r)' /\ Claimed(r)
        BY <2>0, <4>1 DEF Ready, Begun, Claimed, PageCleanup
      <4>3. CASE outcome[r] = "completed"
        <5>1. t \in done
          BY <4>3 DEF IInv, Successes
        <5> QED
          BY <2>0, <4>2, <5>1, NotReady
      <4>4. CASE outcome[r] = "failed"
        BY <2>0, <4>1, <4>2, <4>4, NotReady, FailFacts DEF Ends
      <4> QED
        BY <4>3, <4>4, Types, Names
    <3> QED
      BY <1>1, <3>1, <3>2, <3>3, <3>4, <3>5, <3>6, <3>7, <3>8, <3>9, <3>10, <3>11, <3>12 DEF RequestStep
  <2> QED
    BY <2>0, <2>2, ReadyKept
<1>2. ASSUME NEW j \in Requests, JobStep(j) PROVE ReadyIsOpen'
  <2> DEFINE t == about[j]
  <2>0. /\ UNCHANGED <<pc, what, about, known, stale>> /\ pending' \subseteq pending /\ t \in Tokens
        /\ SaysOf(t) /\ \A q \in Requests \ {j} : job'[q] = job[q]
        /\ overruled \subseteq overruled' /\ doubted \subseteq doubted'
    BY <1>2, JobFrame, Names DEF requests
  <2>1. Order(j) /\ Taken(t) /\ MessageFollows(t)
    BY <2>0 DEF IInv
  <2>2. /\ Ready(j)' => Ready(j) \/ told'[t] \notin Final \/ t \in overruled' \union doubted'
        /\ \/ told'[t] = told[t] \/ told'[t] \notin Final \/ t \in overruled' \union doubted'
           \/ ~Ready(j)' /\ \A q \in Requests \ {j} : about[q] = t => ~Ready(q)
    <3>1. CASE StartJob(j)
      <4>1. told' = told /\ job[j] = "queued"
        BY <3>1 DEF StartJob
      <4>2. job'[j] = "mark" \/ (job'[j] = "consume" /\ Claimed(j))
        BY <2>0, <3>1, Types, Names, NamesAssumption DEF StartJob, FirstStep, Claimed, PageCleanup
      <4>3. pc'[j] \notin {"pick", "reserve", "again"}
        BY <2>0, <2>1, <4>1 DEF Order
      <4> QED
        BY <2>0, <4>1, <4>2, <4>3 DEF Ready, Begun, Valid
    <3>2. CASE JobMarks(j)
      <4>1. CASE Accepts(t, "processing") /\ t \in known
        <5>1. told'[t] = "processing"
          BY <2>0, <3>2, <4>1, Types DEF JobMarks, Put
        <5> QED
          BY <5>1 DEF Final
      <4>2. CASE ~Accepts(t, "processing")
        BY <3>2, <4>2 DEF JobMarks
      <4>3. CASE t \notin known
        <5>1. told'[t] = told[t] /\ ~Valid(t)'
          BY <2>0, <2>1, <3>2, <4>3 DEF JobMarks, Put, MessageFollows, Valid
        <5>2. job'[j] = "consume"
          BY <3>2, Types, Names DEF JobMarks, Step
        <5> QED
          BY <2>0, <5>1, <5>2 DEF Ready, Begun
      <4> QED
        BY <4>1, <4>2, <4>3
    <3>3. CASE Consume(j) \/ Deny(j)
      <4>1. told' = told
        BY <3>3 DEF Consume, Deny, tokens
      <4>2. pc'[j] \notin {"pick", "reserve", "again"}
        BY <2>0, <2>1, <3>3 DEF Order, Consume, Deny
      <4>3. job[j] = "consume" /\ (job'[j] \in {"report", "end"} \/ Valid(t))
        BY <3>3, Types, Names DEF Consume, Deny, Step, LastStep
      <4> QED
        BY <2>0, <4>1, <4>2, <4>3 DEF Ready, Begun
    <3>4. CASE JobMarksAgain(j)
      <4>1. Ready(j) /\ Put(t, "processing")
        BY <3>4 DEF JobMarksAgain, Ready, Begun
      <4>2. told'[t] = told[t] \/ told'[t] = "processing"
        BY <2>0, <4>1, PutFacts
      <4> QED
        BY <4>1, <4>2 DEF Final
    <3>5. CASE Work(j) \/ EndJob(j)
      <4>1. told' = told
        BY <3>5 DEF Work, EndJob, tokens
      <4>2. job'[j] \in {"settle", "report", "over"} /\ job[j] # "none"
        BY <3>5, Types, Names, NamesAssumption DEF Work, EndJob, Step
      <4>3. pc'[j] \notin {"pick", "reserve", "again"}
        BY <2>0, <2>1, <4>2 DEF Order
      <4> QED
        BY <4>1, <4>2, <4>3 DEF Ready, Begun
    <3>6. CASE Settle(j) \/ Report(j)
      <4>1. job'[j] \in {"report", "end"} /\ job[j] # "none" /\ (job[j] = "settle" \/ Report(j))
        BY <3>6, Types, Names DEF Settle, Report, Step, LastStep
      <4>2. pc'[j] \notin {"pick", "reserve", "again"}
        BY <2>0, <2>1, <4>1 DEF Order
      <4>3. ~Ready(j)'
        BY <4>1, <4>2 DEF Ready, Begun
      <4>4. CASE job[j] = "settle"
        <5>1. Holder(j, t)
          BY <4>4 DEF Holder, Holds
        <5> QED
          BY <2>0, <4>3, <5>1, NotReady
      <4>5. CASE Report(j) /\ outcome[j] = "completed"
        <5>1. t \in done
          BY <4>5 DEF IInv, Successes
        <5> QED
          BY <2>0, <4>3, <5>1, NotReady
      <4>6. CASE Report(j) /\ outcome[j] = "failed"
        <5>1. Fail(j) /\ job[j] = "report"
          BY <4>6 DEF Report, Ends
        <5>2. Claimed(j) \/ ~Valid(t)
          BY <2>0, <5>1 DEF IInv, PageReports, Claimed
        <5> QED
          BY <2>0, <4>3, <5>1, <5>2, NotReady, FailFacts
      <4> QED
        BY <4>1, <4>4, <4>5, <4>6, Types, Names
    <3> QED
      BY <1>2, <3>1, <3>2, <3>3, <3>4, <3>5, <3>6 DEF JobStep
  <2> QED
    BY <2>0, <2>2, ReadyKept
<1>3. ASSUME NEW j \in Jobs \ Requests, JobStep(j) PROVE ReadyIsOpen'
  BY <1>0, <1>3, JobFrame, Names DEF requests, ReadyIsOpen, Ready, Begun, Claimed, PageCleanup, Page,
     Cleanup, Valid
<1>4. CASE Around
  <2>1. \A q \in Requests : Ready(q)' => Ready(q)
    BY <1>4, AroundFrame DEF Ready, Begun, Claimed, PageCleanup, Page, Cleanup, Valid
  <2>2. CASE UNCHANGED <<status, told>>
    BY <1>0, <1>4, <2>1, <2>2, AroundFrame DEF ReadyIsOpen
  <2>3. ASSUME NEW t \in Tokens, Put(t, "expired"), status[t] = "pending" PROVE ReadyIsOpen'
    <3>1. \A q \in Requests : about[q] = t => ~Ready(q)
      BY <2>3, NotReady
    <3>2. \A u \in Tokens \ {t} : told'[u] = told[u]
      BY <2>3, PutFacts
    <3> QED
      BY <1>0, <1>4, <2>1, <3>1, <3>2, AroundFrame DEF ReadyIsOpen
  <2> QED
    BY <1>4, <2>2, <2>3, AroundFrame
<1>5. CASE Reset
  <2>1. \A q \in Requests : Ready(q)' => Ready(q)
    BY <1>5 DEF Reset, jobs, requests, Ready, Begun, Claimed, PageCleanup, Page, Cleanup, Valid
  <2> QED
    BY <1>0, <1>5, <2>1 DEF Reset, requests, ReadyIsOpen
<1>6. ASSUME NEW t \in Tokens, Preview(t) PROVE ReadyIsOpen'
  <2>1. Untouched(t)
    BY <1>6 DEF Preview, IInv
  <2>2. \A q \in Requests : about[q] # t /\ Ready(q)' => Ready(q)
    BY <1>6 DEF Preview, jobs, requests, Ready, Begun, Claimed, PageCleanup, Page, Cleanup, Valid
  <2> QED
    BY <1>0, <1>6, <2>1, <2>2, Types DEF Preview, requests, history, ReadyIsOpen, Untouched
<1>7. ASSUME NEW t \in Tokens, NEW w \in Clicks, Click(t, w) PROVE ReadyIsOpen'
  <2>1. PICK r \in Requests : /\ pc[r] = "idle" /\ pc' = [pc EXCEPT ![r] = "asked"]
                              /\ about' = [about EXCEPT ![r] = t] /\ what' = [what EXCEPT ![r] = w]
    BY <1>7 DEF Click, At, Goto
  <2>2. \A q \in Requests \ {r} : pc'[q] = pc[q] /\ about'[q] = about[q] /\ what'[q] = what[q]
    BY <2>1, Types
  <2>3. /\ job[r] = "none" /\ pc'[r] = "asked"
        /\ UNCHANGED <<job, pending, stale, told, overruled, doubted>>
    BY <1>0, <1>7, <2>1, Types DEF Click, jobs, tokens, history, Order
  <2>4. ~Ready(r)' /\ \A q \in Requests \ {r} : Ready(q)' => Ready(q)
    BY <2>2, <2>3 DEF Ready, Begun, Claimed, PageCleanup, Page, Cleanup, Valid
  <2> QED
    BY <1>0, <2>2, <2>3, <2>4 DEF ReadyIsOpen
<1> QED
  BY <1>1, <1>2, <1>3, <1>4, <1>5, <1>6, <1>7 DEF Next, Around

\* What is being said of one token, and is not said of it when it was done.
LEMMA SaidTruly ==
    ASSUME IInv, NEW t \in Tokens, UNCHANGED done, doubted \subseteq doubted',
           overruled \subseteq overruled', \A u \in Tokens \ {t} : told'[u] = told[u],
           \/ told'[t] = told[t] \/ told'[t] \notin Final \/ (t \in done /\ told'[t] = "completed")
           \/ told'[t] # "completed" /\ (t \in done => t \in doubted')
    PROVE  OutcomeIsTrue'
<1>1. OutcomeIsTrue /\ "completed" \in Final
  BY DEF IInv, Final
<1> QED
  BY <1>1 DEF OutcomeIsTrue

\* Every step leaves the message true.
LEMMA TrueStep == ASSUME IInv, Next PROVE OutcomeIsTrue'
<1>0. OutcomeIsTrue /\ \A q \in Requests : Order(q)
  BY DEF IInv
<1>1. ASSUME NEW r \in Requests, RequestStep(r) \/ SpawnFails(r) PROVE OutcomeIsTrue'
  <2> DEFINE t == about[r]
  <2>0. /\ done' = done /\ doubted \subseteq doubted' /\ overruled \subseteq overruled' /\ t \in Tokens
        /\ SaysOf(t) /\ \A u \in Tokens \ {t} : told'[u] = told[u]
    BY <1>1, RequestFrame, SaysKeeps
  <2>1. Order(r) /\ Taken(t) /\ OneClaim(t)
    BY <2>0 DEF IInv
  <2>2. \A s : Put(t, s) => told'[t] = told[t] \/ told'[t] = s
    BY <2>0, PutFacts
  <2>3. \/ told'[t] = told[t] \/ told'[t] \notin Final \/ (t \in done /\ told'[t] = "completed")
        \/ told'[t] # "completed" /\ (t \in done => t \in doubted')
    <3> USE DEF At, Says
    <3>1. CASE Claim(r) \/ Cancel(r)
      <4>1. /\ told' = told \/ Put(t, "processing") \/ Put(t, "expired") \/ Put(t, "cancelled")
            /\ told' = told \/ Put(t, "processing") \/ t \in pending
        BY <3>1 DEF Claim, Cancel
      <4>2. t \in pending => t \notin done
        BY <2>1 DEF Taken
      <4> QED
        BY <2>2, <4>1, <4>2 DEF Final
    <3>2. CASE BotCancels(r)
      <4>1. t \notin done /\ Put(t, "cancelled")
        BY <2>0, <2>1, <3>2 DEF BotCancels, Taken
      <4> QED
        BY <2>2, <4>1
    <3>3. CASE BotClaims(r) \/ PageMarks(r)
      <4>1. told' = told \/ Put(t, "processing")
        BY <3>3 DEF BotClaims, PageMarks
      <4> QED
        BY <2>2, <4>1 DEF Final
    <3>4. CASE Reject(r)
      <4>1. /\ Claimed(r) /\ ~Cleanup(r) /\ job[r] \in {"none", "cancelled"} /\ Put(t, "failed")
        BY <2>0, <2>1, <3>4 DEF Reject, Order, Claimed, PageCleanup
      <4>2. ASSUME t \in done PROVE FALSE
        <5>1. PICK q \in Requests : about[q] = t /\ outcome[q] = "completed"
          BY <4>2 DEF IInv, Successes
        <5>2. job[q] \in {"settle", "report", "end", "over"}
          BY <5>1 DEF IInv, Successes
        <5>3. Claimed(q)
          BY <2>0, <4>1, <5>1, <5>2 DEF Claimed, PageCleanup, Cleanup
        <5>4. q = r
          BY <2>1, <4>1, <5>1, <5>3 DEF OneClaim
        <5> QED
          BY <4>1, <5>2, <5>4
      <4> QED
        BY <2>2, <4>1, <4>2
    <3>5. CASE Refuse(r)
      <4>1. Fail(r) /\ job[r] = "none"
        BY <2>1, <3>5 DEF Refuse, Order
      <4>2. outcome[r] = "failed"
        BY <4>1, Types, Names DEF IInv, Successes
      <4> QED
        BY <2>0, <4>1, <4>2, FailFacts, DoneRuns
    <3>6. CASE BotReturns(r)
      <4>1. told' = told \/ Ends(r, outcome[r])
        BY <3>6 DEF BotReturns
      <4>2. CASE Ends(r, "failed") /\ outcome[r] = "failed"
        BY <2>0, <4>2, FailFacts, DoneRuns DEF Ends
      <4>3. CASE Ends(r, "completed") /\ outcome[r] = "completed"
        <5>1. t \in done /\ (told' = told \/ Put(t, "completed"))
          BY <4>3 DEF IInv, Successes, Ends, Finish
        <5> QED
          BY <2>2, <5>1
      <4> QED
        BY <4>1, <4>2, <4>3, Types, Names
    <3>7. CASE ~(Claim(r) \/ Cancel(r) \/ BotCancels(r) \/ BotClaims(r) \/ PageMarks(r) \/ Reject(r)
                 \/ Refuse(r) \/ BotReturns(r))
      BY <1>1, <3>7 DEF RequestStep, PageConfirms, BotLooks, BotWithdraws, Drop, Pick, HandOver, Reserve,
         Spawn, SpawnFails
    <3> QED
      BY <3>1, <3>2, <3>3, <3>4, <3>5, <3>6, <3>7
  <2> QED
    BY <2>0, <2>3, SaidTruly
<1>2. ASSUME NEW j \in Requests, JobStep(j) PROVE OutcomeIsTrue'
  <2> DEFINE t == about[j]
  <2>0. /\ doubted \subseteq doubted' /\ overruled \subseteq overruled' /\ t \in Tokens
        /\ \A u \in Tokens \ {t} : told'[u] = told[u] /\ (u \in done' <=> u \in done)
    <3>1. /\ doubted \subseteq doubted' /\ overruled \subseteq overruled' /\ t \in Tokens
          /\ SaysOf(t) /\ known' = known /\ pending' \subseteq pending
          /\ \A u \in Tokens \ {t} : u \in done' <=> u \in done
      BY <1>2, JobFrame, Names
    <3> QED
      BY <3>1, SaysKeeps
  <2>2. \A s : Put(t, s) => told'[t] = told[t] \/ told'[t] = s
    BY <2>0, PutFacts
  <2>3. CASE Work(j)
    <3>1. told' = told /\ (done' = done \/ done' = done \union {t})
      BY <2>3, NamesAssumption DEF Work, tokens
    <3>2. told[t] \notin Final \/ t \in overruled \union doubted
      BY <2>0, <2>3 DEF Work, IInv, ReadyIsOpen, Ready, Begun
    <3> QED
      BY <1>0, <2>0, <3>1, <3>2 DEF OutcomeIsTrue
  <2>4. CASE ~Work(j)
    <3>1. done' = done
      BY <1>2, <2>4 DEF JobStep, StartJob, JobMarks, Consume, Deny, JobMarksAgain, Settle, Report,
         EndJob, history
    <3>2. \/ told'[t] = told[t] \/ told'[t] \notin Final \/ (t \in done /\ told'[t] = "completed")
          \/ told'[t] # "completed" /\ (t \in done => t \in doubted')
      <4>1. CASE Report(j) /\ outcome[j] = "failed"
        BY <2>0, <4>1, FailFacts, DoneRuns DEF Report, Ends
      <4>2. CASE (Report(j) \/ Settle(j)) /\ outcome[j] = "completed"
        <5>1. t \in done /\ (told' = told \/ Put(t, "completed"))
          BY <4>2 DEF IInv, Successes, Report, Settle, Ends, Finish
        <5> QED
          BY <2>2, <5>1
      <4>3. CASE Settle(j) /\ outcome[j] = "failed"
        <5>1. t \notin done /\ Put(t, "failed")
          BY <4>3 DEF IInv, Successes, Settle
        <5> QED
          BY <2>2, <5>1
      <4>4. CASE ~Report(j) /\ ~Settle(j)
        <5>1. told' = told \/ Put(t, "processing")
          BY <1>2, <2>4, <4>4 DEF JobStep, StartJob, JobMarks, Consume, Deny, JobMarksAgain, EndJob,
             tokens
        <5> QED
          BY <2>2, <5>1 DEF Final
      <4> QED
        BY <4>1, <4>2, <4>3, <4>4, Types, Names
    <3> QED
      BY <2>0, <3>1, <3>2, SaidTruly
  <2> QED
    BY <2>3, <2>4
<1>3. ASSUME NEW j \in Jobs \ Requests, JobStep(j) PROVE OutcomeIsTrue'
  BY <1>0, <1>3, JobFrame DEF OutcomeIsTrue
<1>4. CASE Around
  <2>1. CASE UNCHANGED <<status, told>>
    BY <1>0, <1>4, <2>1, AroundFrame DEF OutcomeIsTrue
  <2>2. ASSUME NEW t \in Tokens, Put(t, "expired"), status[t] = "pending" PROVE OutcomeIsTrue'
    <3>1. t \notin done
      BY <2>2 DEF IInv, OneClaim, Taken
    <3>2. /\ \A u \in Tokens \ {t} : told'[u] = told[u]
          /\ told'[t] = told[t] \/ told'[t] = "expired"
      BY <2>2, PutFacts
    <3> QED
      BY <1>4, <3>1, <3>2, AroundFrame, SaidTruly
  <2> QED
    BY <1>4, <2>1, <2>2, AroundFrame
<1>5. CASE Reset
  BY <1>0, <1>5 DEF Reset, OutcomeIsTrue
<1>6. ASSUME NEW t \in Tokens, Preview(t) PROVE OutcomeIsTrue'
  <2>1. /\ \A u \in Tokens \ {t} : told'[u] = told[u]
        /\ told'[t] = "pending" /\ UNCHANGED <<done, overruled, doubted>>
    BY <1>6, Types DEF Preview, history
  <2> QED
    BY <2>1, SaidTruly DEF Final
<1>7. ASSUME NEW t \in Tokens, NEW w \in Clicks, Click(t, w) PROVE OutcomeIsTrue'
  BY <1>0, <1>7 DEF Click, history, OutcomeIsTrue
<1> QED
  BY <1>1, <1>2, <1>3, <1>4, <1>5, <1>6, <1>7 DEF Next, Around

------------------------------------------------------------------------------
(* The theorems.                                                           *)

\* The invariant holds when the plugin is loaded first.
LEMMA InitInv == Init => IInv
<1> SUFFICES ASSUME Init PROVE IInv
  OBVIOUS
<1>1. MaxReloads \in Nat /\ budget \in Budgets /\ budget.reloads \in 0 .. MaxReloads
  BY BoundAssumption DEF Init, Budgets
<1>2. WellFormed
  <2>1. TypeOK
    BY <1>1, Names DEF Init, TypeOK, Coordinators, Clicks
  <2>2. Range(<<>>) = {} /\ IsInjective(<<>>)
    BY DEF Range, IsInjective
  <2>3. QueuesAgree
    BY <2>2, Names DEF Init, QueuesAgree
  <2> QED
    BY <2>1, <2>3 DEF WellFormed
<1>3. Lifecycle /\ ScheduledJobs
  BY <1>1, Names DEF Init, Lifecycle, ScheduledJobs
<1>4. \A r \in Requests : Order(r)
  BY Names DEF Init, Order
<1>5. /\ \A t \in budget.tokens : Untouched(t)
      /\ \A t \in Tokens : MessageFollows(t) /\ Taken(t) /\ OneClaim(t)
  BY <1>1, Names DEF Init, Budgets, Untouched, MessageFollows, Taken, Holder, Holds, Begun, OneClaim, Claimed
<1>6. Successes /\ PageReports /\ ReadyIsOpen /\ OutcomeIsTrue
  BY Names DEF Init, Successes, PageReports, ReadyIsOpen, OutcomeIsTrue, Final
<1> QED
  BY <1>2, <1>3, <1>4, <1>5, <1>6 DEF IInv

\* Every step keeps the invariant.
LEMMA StepInv == IInv /\ [Next]_vars => IInv'
<1> SUFFICES ASSUME IInv, [Next]_vars PROVE IInv'
  OBVIOUS
<1>1. CASE Next
  BY <1>1, TypesStep, QueuesStep, LifecycleStep, ScheduledStep, OrderStep, UntouchedStep, MessageStep,
     TakenStep, OneClaimStep, SuccessesStep, PageReportsStep, ReadyStep, TrueStep DEF IInv, WellFormed
<1>2. CASE UNCHANGED vars
  BY <1>2 DEF vars, IInv, WellFormed, TypeOK, QueuesAgree, Lifecycle, ScheduledJobs, Order, Page, Cleanup,
     Untouched, MessageFollows, Taken, Holder, Holds, Begun, OneClaim, Claimed, PageCleanup, Valid,
     Successes, PageReports, ReadyIsOpen, Ready, OutcomeIsTrue
<1> QED
  BY <1>1, <1>2

\* The inductive invariant: the queues, who has claimed and who has taken which token, what
\* the message says of what can still begin.
THEOREM Invariance == Spec => []IInv
BY InitInv, StepInv, PTL DEF Spec

\* The state is well formed: close() and remove() leave every queue with what waits for it.
THEOREM StateIsWellFormed == Spec => []WellFormed
<1>1. IInv => WellFormed
  BY DEF IInv
<1> QED
  BY <1>1, Invariance, PTL

\* A confirmation is good once: whatever is clicked, queued twice, handed over to another
\* coordinator or reloaded meanwhile, the operation of a token is begun at most once.
THEOREM GoodOnce == Spec => []OneTime
<1>1. IInv => OneTime
  BY DEF IInv, Taken, OneTime
<1> QED
  BY <1>1, Invariance, PTL

\* The message says what was done, but for a cleanup the page went on with although it was
\* settled, and one that a late press settled while it ran.
THEOREM MessageIsTrue == Spec => []OutcomeIsTrue
<1>1. IInv => OutcomeIsTrue
  BY DEF IInv
<1> QED
  BY <1>1, Invariance, PTL
==============================================================================
