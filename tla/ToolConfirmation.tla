-------------------------- MODULE ToolConfirmation --------------------------
(***************************************************************************)
(* emetools: the one-time confirmations of irreversible operations         *)
(* (__init__.py), which the web page and Telegram share, and the           *)
(* coordinator of p115_tasks.py, which does the operations one by one.     *)
(* A preview makes a token and sends a message with two buttons; either    *)
(* side confirms or cancels it; a confirmed operation waits for its turn,  *)
(* takes the token out of _pending and is done; the message follows its    *)
(* status.  A reload closes the coordinator, makes another, and forgets    *)
(* the tokens, while what runs goes on.                                    *)
(*                                                                         *)
(* Three kinds of tokens: "cleanup" (files to the recycle bin), "queued"   *)
(* (clear the recycle bin, move), "direct" (quarantine of local data, out  *)
(* of the queue).  A job is named by the request or the schedule that made *)
(* it.  Statuses are kept for an hour: longer than anything here.          *)
(***************************************************************************)
EXTENDS Naturals, FiniteSets, SequencesExt

CONSTANTS
    Tokens, Kind,   \* tokens of confirmations and their kinds
    Requests,       \* clicks on the page, presses of a Telegram button
    Scheduled,      \* tasks of the scheduler
    None,
    Limit,          \* waiting jobs (32 in the code)
    MaxReloads,     \* bound: how often the plugin is loaded again
    Scenarios       \* bounds: the tokens previews make, how many clicks, tasks of the
                    \* scheduler and reloads there are, and threads that do not start

Kinds == {"cleanup", "queued", "direct"}
ASSUME KindAssumption == Kind \in [Tokens -> Kinds] /\ IsFiniteSet(Tokens)
ASSUME NamesAssumption ==
    /\ Requests \intersect Scheduled = {}
    /\ None \notin Tokens \union Requests \union Scheduled
ASSUME BoundAssumption ==
    /\ Limit \in Nat /\ MaxReloads \in Nat
    /\ Scenarios \subseteq [tokens : SUBSET Tokens, clicks : Nat, ticks : Nat,
                            reloads : 0 .. MaxReloads, faults : Nat]

VARIABLES
    life,       \* of the plugin: up, stopped, or within init_plugin
    current,    \* _p115_tasks
    closed, waiting, active,            \* of each coordinator
    job, home, outcome,                 \* of each job: where it is, its coordinator, its result
    pending, stale,                     \* _pending; tokens older than 30 minutes
    status, known,                      \* _cleanup_status; tokens in _cleanup_message_refs
    pc, what, about, seen,              \* of each request: where it is, which click, which
                                        \* token, the coordinator it has read
    budget,     \* what the scenario still has
    told,       \* history: what the message of a token says, or the notice that is
                \* sent where it cannot be edited; but not the notice of a cleanup
                \* that outlives a reload, which has forgotten its message
    times,      \* history: how often an operation was begun
    done,       \* history: tokens whose operation succeeded
    overruled,  \* history: tokens settled before the page's job went on with them
    doubted,    \* history: tokens settled as failed while the operation ran
    abandoned   \* history: tokens whose job never began, or that a reload forgot in work

plugin == <<life, current>>
coordinators == <<closed, waiting, active>>
jobs == <<job, home, outcome>>
tokens == <<pending, stale, status, known>>
requests == <<pc, what, about, seen>>
history == <<times, done, overruled, doubted, abandoned>>
vars == <<life, current, closed, waiting, active, job, home, outcome, pending, stale, status,
          known, pc, what, about, seen, budget, told, times, done, overruled, doubted, abandoned>>

Jobs == Requests \union Scheduled
Coordinators == 1 .. MaxReloads + 1
Final == {"completed", "cancelled", "failed", "expired"}
Statuses == {"none", "pending", "processing"} \union Final
Budgets == [tokens : SUBSET Tokens, clicks : Nat, ticks : Nat, reloads : Nat, faults : Nat]
Clicks == {"pageYes", "pageNo", "botYes", "botNo"}
Running == {"mark", "consume", "markAgain", "work", "settle", "report", "end"}
JobStates == {"none", "queued", "over", "cancelled"} \union Running
Labels == {"idle", "asked", "claim", "pick", "reserve", "again", "spawn", "mark", "wait",
           "withdraw", "cancel", "drop", "reject", "refuse", "over"}

TypeOK ==
    /\ life \in {"up", "stopped", "opened"} /\ current \in Coordinators
    /\ closed \subseteq Coordinators
    /\ waiting \in [Coordinators -> Seq(Jobs)] /\ active \in [Coordinators -> Jobs \union {None}]
    /\ job \in [Jobs -> JobStates]
    /\ home \in [Jobs -> Coordinators \union {None}]
    /\ outcome \in [Jobs -> {"completed", "failed"}]
    /\ pending \subseteq Tokens /\ stale \subseteq Tokens /\ known \subseteq Tokens
    /\ status \in [Tokens -> Statuses] /\ told \in [Tokens -> Statuses]
    /\ pc \in [Requests -> Labels]
    /\ what \in [Requests -> Clicks] /\ about \in [Requests -> Tokens \union {None}]
    /\ seen \in [Requests -> Coordinators]
    /\ budget \in Budgets
    /\ times \in [Tokens -> Nat]
    /\ done \subseteq Tokens /\ overruled \subseteq Tokens
    /\ doubted \subseteq Tokens /\ abandoned \subseteq Tokens

Init ==
    /\ life = "up" /\ current = 1 /\ closed = {}
    /\ waiting = [g \in Coordinators |-> <<>>] /\ active = [g \in Coordinators |-> None]
    /\ job = [j \in Jobs |-> "none"] /\ home = [j \in Jobs |-> None]
    /\ outcome = [j \in Jobs |-> "failed"]
    /\ pending = {} /\ stale = {} /\ known = {}
    /\ status = [t \in Tokens |-> "none"] /\ told = [t \in Tokens |-> "none"]
    /\ pc = [r \in Requests |-> "idle"] /\ what = [r \in Requests |-> "pageYes"]
    /\ about = [r \in Requests |-> None] /\ seen = [r \in Requests |-> 1]
    /\ budget \in Scenarios
    /\ times = [t \in Tokens |-> 0]
    /\ done = {} /\ overruled = {} /\ doubted = {} /\ abandoned = {}

------------------------------------------------------------------------------
Valid(t) == t \in pending \ stale

\* A final status stays.
Accepts(t, s) == status[t] \in Final => s = status[t]

\* _set_cleanup_status: the message follows while it is known.
Put(t, s) ==
    /\ status' = IF Accepts(t, s) THEN [status EXCEPT ![t] = s] ELSE status
    /\ told' = IF Accepts(t, s) /\ t \in known THEN [told EXCEPT ![t] = s] ELSE told

\* _finish_confirmation: a token without status is nobody's.
Finish(t, s) == IF status[t] = "none" THEN UNCHANGED <<status, told>> ELSE Put(t, s)

\* A request settles its token as failed; another may have it in work.
Fail(r) ==
    LET t == about[r] IN
    /\ Finish(t, "failed")
    /\ doubted' = IF \E j \in Requests \ {r} : about[j] = t /\ job[j] \in Running
                  THEN doubted \union {t} ELSE doubted

\* A request or its job reports how it ended.
Ends(r, s) == IF s = "failed" THEN Fail(r) ELSE Finish(about[r], s) /\ UNCHANGED doubted

Says == UNCHANGED <<status, told>>

At(r, label) == pc[r] = label
Goto(r, label) == pc' = [pc EXCEPT ![r] = label]

Once(k) == budget[k] > 0 /\ budget' = [budget EXCEPT ![k] = @ - 1]

------------------------------------------------------------------------------
\* A preview ends in _remember and the message; tokens that are too old are dropped.
Preview(t) ==
    /\ life = "up" /\ t \in budget.tokens
    /\ budget' = [budget EXCEPT !.tokens = @ \ {t}]
    /\ pending' = (pending \ stale) \union {t} /\ known' = known \union {t}
    /\ status' = [status EXCEPT ![t] = "pending"] /\ told' = [told EXCEPT ![t] = "pending"]
    /\ UNCHANGED <<plugin, coordinators, jobs, stale, requests, history>>

\* Half an hour passes.
Expire(t) ==
    /\ t \in pending \ stale
    /\ stale' = stale \union {t}
    /\ UNCHANGED <<plugin, coordinators, jobs, pending, status, known, told, requests, budget, history>>

\* A preview of something else drops what is too old.
Prune ==
    /\ pending \intersect stale # {}
    /\ pending' = pending \ stale
    /\ UNCHANGED <<plugin, coordinators, jobs, stale, status, known, told, requests, budget, history>>

\* _pending_info, which the page asks for every few seconds.
PendingInfo(t) ==
    /\ Kind[t] # "cleanup" /\ status[t] = "pending" /\ ~Valid(t)
    /\ Put(t, "expired")
    /\ UNCHANGED <<plugin, coordinators, jobs, pending, stale, known, requests, budget, history>>

------------------------------------------------------------------------------
\* Mutant: close() leaves the waiting jobs in the queue.
CloseKeepingWaiting(g) ==
    /\ closed' = closed \union {g}
    /\ UNCHANGED <<waiting, job, abandoned>>

\* close(): what waits is cancelled.  Of these only a cleanup from Telegram tells.
Close(g) ==
    LET cancelled == {j \in Jobs : job[j] = "queued" /\ home[j] = g}
        Tells(r) == what[r] = "botYes" /\ Kind[about[r]] = "cleanup"
    IN  /\ closed' = closed \union {g}
        /\ waiting' = [waiting EXCEPT ![g] = <<>>]
        /\ job' = [j \in Jobs |-> IF j \in cancelled THEN "cancelled" ELSE job[j]]
        /\ abandoned' = abandoned \union
               {about[r] : r \in {x \in Requests \intersect cancelled : ~Tells(x)}}

\* stop_service
Stop ==
    /\ life = "up"
    /\ life' = "stopped"
    /\ Close(current)
    /\ UNCHANGED <<current, active, home, outcome, tokens, told, requests, budget, times, done,
                   overruled, doubted>>

\* init_plugin makes another coordinator, and then other tables.
Reopen ==
    /\ life = "stopped" /\ Once("reloads")
    /\ life' = "opened"
    /\ current' = current + 1
    /\ UNCHANGED <<coordinators, jobs, tokens, told, requests, history>>

Reset ==
    /\ life = "opened"
    /\ life' = "up"
    /\ pending' = {} /\ known' = {} /\ status' = [t \in Tokens |-> "none"]
    /\ abandoned' = abandoned \union {t \in Tokens : told[t] = "processing"}
    /\ UNCHANGED <<current, coordinators, jobs, stale, told, requests, budget, times, done,
                   overruled, doubted>>

------------------------------------------------------------------------------
\* A click where the choice is still shown; what it starts may come to run much later.
Click(t, w) ==
    LET r == CHOOSE x \in Requests : At(x, "idle") IN
    /\ Once("clicks") /\ told[t] = "pending" /\ r \in Requests /\ At(r, "idle")
    /\ about' = [about EXCEPT ![r] = t] /\ what' = [what EXCEPT ![r] = w]
    /\ Goto(r, "asked")
    /\ UNCHANGED <<plugin, coordinators, jobs, tokens, told, seen, history>>

Yes(r) == what[r] \in {"pageYes", "botYes"}
Page(r) == what[r] \in {"pageYes", "pageNo"}
Cleanup(r) == Kind[about[r]] = "cleanup"

\* _claim_tool_confirmation: what is claimed goes to the queue, or is done at once.
Claim(r) ==
    LET t == about[r] IN
    /\ At(r, "asked") /\ Yes(r) /\ ~Cleanup(r)
    /\ \/ /\ Valid(t) /\ status[t] = "pending"
          /\ Put(t, "processing")
          /\ IF Kind[t] = "queued" THEN Goto(r, "pick") /\ UNCHANGED job
             ELSE Goto(r, "over") /\ job' = [job EXCEPT ![r] = "consume"]
       \/ /\ ~Valid(t) /\ t \in pending /\ status[t] = "pending"
          /\ Put(t, "expired") /\ Goto(r, "over") /\ UNCHANGED job
       \/ /\ status[t] # "pending" \/ t \notin pending
          /\ Says /\ Goto(r, "over") /\ UNCHANGED job
    /\ UNCHANGED <<plugin, coordinators, home, outcome, pending, stale, known, what, about,
                   seen, budget, history>>

\* The page confirms a cleanup: it is submitted without a claim.
PageConfirms(r) ==
    /\ At(r, "asked") /\ what[r] = "pageYes" /\ Cleanup(r)
    /\ Goto(r, "pick")
    /\ UNCHANGED <<plugin, coordinators, jobs, tokens, told, what, about, seen, budget, history>>

\* _handle_file_cleanup_confirmation looks at the token first.
BotLooks(r) ==
    LET t == about[r] IN
    /\ At(r, "asked") /\ ~Page(r) /\ Cleanup(r)
    /\ Goto(r, IF status[t] \in Final \ {"expired"} THEN "over"
               ELSE IF ~Valid(t) THEN "refuse"
               ELSE IF Yes(r) THEN "claim" ELSE "withdraw")
    /\ UNCHANGED <<plugin, coordinators, jobs, tokens, told, what, about, seen, budget, history>>

BotClaims(r) ==
    /\ At(r, "claim")
    /\ IF status[about[r]] = "pending"
       THEN Put(about[r], "processing") /\ Goto(r, "pick")
       ELSE Says /\ Goto(r, "over")
    /\ UNCHANGED <<plugin, coordinators, jobs, pending, stale, known, what, about, seen, budget,
                   history>>

\* Telegram cancels a cleanup: also one that waits for its turn.
BotWithdraws(r) ==
    /\ At(r, "withdraw")
    /\ IF Valid(about[r])
       THEN pending' = pending \ {about[r]} /\ Goto(r, "cancel")
       ELSE UNCHANGED pending /\ Goto(r, "refuse")
    /\ UNCHANGED <<plugin, coordinators, jobs, stale, status, known, told, what, about, seen,
                   budget, history>>

BotCancels(r) ==
    /\ At(r, "cancel")
    /\ Put(about[r], "cancelled") /\ Goto(r, "over")
    /\ UNCHANGED <<plugin, coordinators, jobs, pending, stale, known, what, about, seen, budget,
                   history>>

\* Mutant: what has begun can still be cancelled.
CancelLate(r) ==
    LET t == about[r] IN
    /\ At(r, "asked") /\ ~Yes(r) /\ (Page(r) \/ ~Cleanup(r))
    /\ IF status[t] \in {"pending", "processing"}
       THEN Put(t, "cancelled") /\ Goto(r, "drop")
       ELSE Says /\ Goto(r, "over")
    /\ UNCHANGED <<plugin, coordinators, jobs, pending, stale, known, what, about, seen, budget,
                   history>>

\* confirmation_cancel, and Telegram for the other kinds: the status first, then the token.
Cancel(r) ==
    LET t == about[r] IN
    /\ At(r, "asked") /\ ~Yes(r) /\ (Page(r) \/ ~Cleanup(r))
    /\ IF status[t] = "pending" /\ t \in pending /\ (Page(r) => Valid(t))
       THEN Put(t, "cancelled") /\ Goto(r, "drop")
       ELSE Says /\ Goto(r, "over")
    /\ UNCHANGED <<plugin, coordinators, jobs, pending, stale, known, what, about, seen, budget,
                   history>>

Drop(r) ==
    /\ At(r, "drop")
    /\ pending' = pending \ {about[r]} /\ Goto(r, "over")
    /\ UNCHANGED <<plugin, coordinators, jobs, stale, status, known, told, what, about, seen,
                   budget, history>>

------------------------------------------------------------------------------
\* _submit_p115_task, _run_p115_task: read the coordinator.
Pick(r) ==
    /\ At(r, "pick")
    /\ seen' = [seen EXCEPT ![r] = current] /\ Goto(r, "reserve")
    /\ UNCHANGED <<plugin, coordinators, jobs, tokens, told, what, about, budget, history>>

\* After submit() the page marks a cleanup; Telegram waits for its job in run().
Submitted(r, joined) ==
    Goto(r, IF Page(r) THEN IF Cleanup(r) THEN "mark" ELSE "over"
            ELSE IF joined THEN "over" ELSE "wait")

Rejected(r) == Goto(r, IF ~Page(r) THEN "refuse" ELSE IF Cleanup(r) THEN "over" ELSE "reject")

Live(j) == job[j] \in {"queued"} \union Running
Same(r, g) == {x \in Requests : Live(x) /\ home[x] = g /\ about[x] = about[r]}

\* The coordinator is closed: the one that has replaced it is tried once.
HandOver(r) ==
    /\ pc[r] \in {"reserve", "again"} /\ seen[r] \in closed
    /\ IF At(r, "reserve") /\ current # seen[r]
       THEN seen' = [seen EXCEPT ![r] = current] /\ Goto(r, "again")
       ELSE UNCHANGED seen /\ Rejected(r)
    /\ UNCHANGED <<plugin, coordinators, jobs, tokens, told, what, about, budget, history>>

Queue(j, g) ==
    /\ waiting' = [waiting EXCEPT ![g] = Append(@, j)]
    /\ job' = [job EXCEPT ![j] = "queued"] /\ home' = [home EXCEPT ![j] = g]

\* _reserve
Reserve(r) ==
    LET g == seen[r] IN
    /\ pc[r] \in {"reserve", "again"} /\ g \notin closed
    /\ \/ Same(r, g) # {} /\ Submitted(r, TRUE) /\ UNCHANGED <<waiting, job, home>>
       \/ Same(r, g) = {} /\ Len(waiting[g]) >= Limit /\ Rejected(r)
          /\ UNCHANGED <<waiting, job, home>>
       \/ /\ Same(r, g) = {} /\ Len(waiting[g]) < Limit
          /\ Queue(r, g)
          /\ IF Page(r) THEN Goto(r, "spawn") ELSE Submitted(r, FALSE)
    /\ UNCHANGED <<plugin, closed, active, outcome, tokens, told, what, about, seen, budget,
                   history>>

\* submit() starts a thread for its job.
Spawn(r) ==
    /\ At(r, "spawn")
    /\ Submitted(r, FALSE)
    /\ UNCHANGED <<plugin, coordinators, jobs, tokens, told, what, about, seen, budget, history>>

Without(q, j) == RemoveAt(q, CHOOSE i \in DOMAIN q : q[i] = j)

\* No thread: the job is taken back, and action() only answers; if close() has taken
\* it already, remove() raises and the token is settled as failed.
SpawnFails(r) ==
    /\ At(r, "spawn") /\ Once("faults")
    /\ IF job[r] = "cancelled"
       THEN Rejected(r) /\ UNCHANGED <<waiting, job, abandoned>>
       ELSE /\ waiting' = [waiting EXCEPT ![home[r]] = Without(@, r)]
            /\ job' = [job EXCEPT ![r] = "over"]
            /\ abandoned' = abandoned \union {about[r]}
            /\ Goto(r, "over")
    /\ UNCHANGED <<plugin, closed, active, home, outcome, tokens, told, what, about, seen,
                   times, done, overruled, doubted>>

\* The page marks a cleanup it has submitted, unless it is past that.
PageMarks(r) ==
    /\ At(r, "mark")
    /\ IF status[about[r]] = "pending" THEN Put(about[r], "processing") ELSE Says
    /\ Goto(r, "over")
    /\ UNCHANGED <<plugin, coordinators, jobs, pending, stale, known, what, about, seen, budget,
                   history>>

Reject(r) ==
    /\ At(r, "reject")
    /\ Put(about[r], "failed") /\ Goto(r, "over")
    /\ UNCHANGED <<plugin, coordinators, jobs, pending, stale, known, what, about, seen, budget,
                   history>>

\* A press that came too late, or was not let into the queue, settles the token as failed.
Refuse(r) ==
    /\ At(r, "refuse")
    /\ Fail(r) /\ Goto(r, "over")
    /\ UNCHANGED <<plugin, coordinators, jobs, pending, stale, known, what, about, seen, budget,
                   times, done, overruled, abandoned>>

\* run() returns: a cleanup is reported here; what else the job returned is not looked at.
BotReturns(r) ==
    /\ At(r, "wait") /\ job[r] \in {"over", "cancelled"}
    /\ IF Cleanup(r) THEN Ends(r, outcome[r]) ELSE Says /\ UNCHANGED doubted
    /\ Goto(r, "over")
    /\ UNCHANGED <<plugin, coordinators, jobs, pending, stale, known, what, about, seen, budget,
                   times, done, overruled, abandoned>>

------------------------------------------------------------------------------
\* Of the waiting jobs the first that somebody has asked for, or else the first.
NextJob(q) ==
    LET manual == SelectSeq(q, LAMBDA x : x \in Requests)
    IN  IF manual # <<>> THEN manual[1] ELSE q[1]

FirstStep(j) ==
    IF j \in Scheduled THEN "work"
    ELSE IF Cleanup(j) /\ Page(j) THEN "mark" ELSE "consume"

\* _execute: its turn comes.
StartJob(j) ==
    LET g == home[j] IN
    /\ job[j] = "queued" /\ active[g] = None /\ NextJob(waiting[g]) = j
    /\ j \in Requests => ~At(j, "spawn")
    /\ waiting' = [waiting EXCEPT ![g] = Without(@, j)]
    /\ active' = [active EXCEPT ![g] = j]
    /\ job' = [job EXCEPT ![j] = FirstStep(j)]
    /\ UNCHANGED <<plugin, closed, home, outcome, tokens, told, requests, budget, history>>

Step(j, label) == job' = [job EXCEPT ![j] = label]
Result(j, s) == outcome' = [outcome EXCEPT ![j] = s]

\* Telegram reports a cleanup when run() has returned, the others within the job.
LastStep(j) == IF Cleanup(j) /\ ~Page(j) THEN "end" ELSE "report"

\* The page's job marks the cleanup and does not look whether it was settled meanwhile.
JobMarks(j) ==
    /\ job[j] = "mark"
    /\ Put(about[j], "processing")
    /\ overruled' = IF Accepts(about[j], "processing") THEN overruled
                    ELSE overruled \union {about[j]}
    /\ Step(j, "consume")
    /\ UNCHANGED <<plugin, coordinators, home, outcome, pending, stale, known, requests, budget,
                   times, done, doubted, abandoned>>

\* Mutant: the token is only looked at.
ConsumeKeeping(j) ==
    LET t == about[j] IN
    /\ job[j] = "consume"
    /\ IF Valid(t)
       THEN UNCHANGED <<pending, outcome>> /\ Step(j, IF Cleanup(j) THEN "markAgain" ELSE "work")
       ELSE UNCHANGED pending /\ Result(j, "failed") /\ Step(j, LastStep(j))
    /\ UNCHANGED <<plugin, coordinators, home, stale, status, known, told, requests, budget,
                   history>>

\* _consume: the token is taken, if it is still there and not too old.
Consume(j) ==
    LET t == about[j] IN
    /\ job[j] = "consume"
    /\ IF Valid(t)
       THEN pending' = pending \ {t} /\ UNCHANGED outcome
            /\ Step(j, IF Cleanup(j) THEN "markAgain" ELSE "work")
       ELSE UNCHANGED pending /\ Result(j, "failed") /\ Step(j, LastStep(j))
    /\ UNCHANGED <<plugin, coordinators, home, stale, status, known, told, requests, budget,
                   history>>

\* The plugin was disabled meanwhile, or the user's rights were withdrawn.
Deny(j) ==
    /\ job[j] = "consume" /\ ~(Cleanup(j) /\ Page(j))
    /\ Result(j, "failed") /\ Step(j, LastStep(j))
    /\ UNCHANGED <<plugin, coordinators, home, tokens, told, requests, budget, history>>

JobMarksAgain(j) ==
    /\ job[j] = "markAgain"
    /\ Put(about[j], "processing") /\ Step(j, "work")
    /\ UNCHANGED <<plugin, coordinators, home, outcome, pending, stale, known, requests, budget,
                   history>>

\* The operation: it succeeds; something has changed and nothing is done; or it ends
\* in an error, whatever 115 has done.
Work(j) ==
    LET t == about[j] IN
    /\ job[j] = "work"
    /\ IF j \in Scheduled
       THEN Step(j, "end") /\ UNCHANGED <<outcome, times, done>>
       ELSE /\ Step(j, IF Cleanup(j) THEN "settle" ELSE "report")
            /\ \/ Result(j, "completed") /\ times' = [times EXCEPT ![t] = @ + 1]
                  /\ done' = done \union {t}
               \/ Result(j, "failed") /\ UNCHANGED <<times, done>>
               \/ Result(j, "failed") /\ times' = [times EXCEPT ![t] = @ + 1] /\ UNCHANGED done
    /\ UNCHANGED <<plugin, coordinators, home, tokens, told, requests, budget,
                   overruled, doubted, abandoned>>

\* _cleanup_confirm ends.
Settle(j) ==
    /\ job[j] = "settle"
    /\ Put(about[j], outcome[j]) /\ Step(j, LastStep(j))
    /\ UNCHANGED <<plugin, coordinators, home, outcome, pending, stale, known, requests, budget,
                   history>>

\* Mutant: an operation that fails is not reported.
ReportGood(j) ==
    /\ job[j] = "report"
    /\ IF outcome[j] = "completed" THEN Ends(j, "completed") ELSE Says /\ UNCHANGED doubted
    /\ Step(j, "end")
    /\ UNCHANGED <<plugin, coordinators, home, outcome, pending, stale, known, requests, budget,
                   times, done, overruled, abandoned>>

\* The outcome is reported within the job, also that of an operation that raised.
Report(j) ==
    /\ job[j] = "report"
    /\ Ends(j, outcome[j]) /\ Step(j, "end")
    /\ UNCHANGED <<plugin, coordinators, home, outcome, pending, stale, known, requests, budget,
                   times, done, overruled, abandoned>>

EndJob(j) ==
    /\ job[j] = "end"
    /\ active' = IF home[j] = None THEN active ELSE [active EXCEPT ![home[j]] = None]
    /\ Step(j, "over")
    /\ UNCHANGED <<plugin, closed, waiting, home, outcome, tokens, told, requests, budget, history>>

\* A task of the scheduler, which it does not start while the plugin stops.
Tick ==
    /\ Once("ticks") /\ life = "up" /\ Len(waiting[current]) < Limit
    /\ LET s == CHOOSE x \in Scheduled : job[x] = "none"
       IN  s \in Scheduled /\ job[s] = "none" /\ Queue(s, current)
    /\ UNCHANGED <<plugin, closed, active, outcome, tokens, told, requests, history>>

------------------------------------------------------------------------------
RequestStep(r) ==
    \/ Claim(r) \/ PageConfirms(r) \/ BotLooks(r) \/ BotClaims(r) \/ BotWithdraws(r)
    \/ BotCancels(r) \/ Cancel(r) \/ Drop(r) \/ Pick(r) \/ HandOver(r) \/ Reserve(r)
    \/ Spawn(r) \/ PageMarks(r) \/ Reject(r) \/ Refuse(r) \/ BotReturns(r)

JobStep(j) ==
    \/ StartJob(j) \/ JobMarks(j) \/ Consume(j) \/ Deny(j) \/ JobMarksAgain(j)
    \/ Work(j) \/ Settle(j) \/ Report(j) \/ EndJob(j)

Next ==
    \/ Stop \/ Reopen \/ Reset \/ Prune \/ Tick
    \/ \E t \in Tokens : Preview(t) \/ Expire(t) \/ PendingInfo(t)
                         \/ \E w \in Clicks : Click(t, w)
    \/ \E r \in Requests : RequestStep(r) \/ SpawnFails(r)
    \/ \E j \in Jobs : JobStep(j)

Spec == Init /\ [][Next]_vars

\* Threads that run go on, requests to 115 end, and so does init_plugin.  Every thread
\* has finitely many steps, so that it is enough if some thread goes on.
FairSpec ==
    /\ Spec /\ WF_vars(Reset)
    /\ WF_vars((\E r \in Requests : RequestStep(r)) \/ (\E j \in Jobs : JobStep(j)))
------------------------------------------------------------------------------
\* A queue holds what waits for it, once, and nothing when it is closed.
QueuesAgree ==
    \A g \in Coordinators :
        /\ Range(waiting[g]) = {j \in Jobs : job[j] = "queued" /\ home[j] = g}
        /\ IsInjective(waiting[g])
        /\ g \in closed => waiting[g] = <<>>

\* The state is well formed: the types, and the queues agree with their jobs.
WellFormed == TypeOK /\ QueuesAgree

\* A confirmation is good once ("共用30分钟一次性令牌"): its operation is begun at most once,
\* whoever clicks what, whatever is queued twice, handed over or reloaded meanwhile.
OneTime == \A t \in Tokens : times[t] <= 1

\* What the message says in the end is what was done: completed if it succeeded, and
\* never cancelled, expired or failed when it did.  Excepted are a cleanup the page
\* went on with although it was settled, and one a late press settled while it ran.
OutcomeIsTrue ==
    \A t \in Tokens :
        /\ told[t] = "completed" => t \in done
        /\ told[t] \in Final /\ t \in done => told[t] = "completed" \/ t \in overruled \union doubted

\* What the message calls begun is answered some day, unless a reload or a thread that
\* does not start has left it alone.
EveryClaimIsAnswered ==
    \A t \in Tokens : (told[t] = "processing") ~> (told[t] \in Final \/ t \in abandoned)

==============================================================================
