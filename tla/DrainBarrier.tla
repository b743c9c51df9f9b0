---------------------------- MODULE DrainBarrier ----------------------------
(***************************************************************************)
(* What every stoppable work queue of p115strmhelper promises its callers, *)
(* with threads, locks and sentinels left out: while admission is open a   *)
(* task may be accepted; closing it refuses new tasks but forgets none of  *)
(* the accepted ones; "stopped" is reported, and admission opened again,   *)
(* only once each accepted task has been settled.                          *)
(*                                                                         *)
(* WorkerQueue, BatchCoordinator and SyncService implement this module.    *)
(***************************************************************************)
CONSTANT Tasks          \* what callers hand over; each is handed over once

VARIABLES accepted,     \* tasks whose hand-over was acknowledged
          settled,      \* accepted tasks whose processing has ended
          phase         \* "fresh", "open", "draining" or "stopped"

vars == <<accepted, settled, phase>>

Phases == {"fresh", "open", "draining", "stopped"}

TypeOK == /\ accepted \subseteq Tasks
          /\ settled \subseteq accepted
          /\ phase \in Phases

Init == accepted = {} /\ settled = {} /\ phase = "fresh"

Open == /\ phase # "open"
        /\ accepted = settled
        /\ phase' = "open"
        /\ UNCHANGED <<accepted, settled>>

\* A fresh queue may open itself for the first task it is handed.
Accept(t) == /\ phase \in {"fresh", "open"}
             /\ t \notin accepted
             /\ accepted' = accepted \union {t}
             /\ phase' = "open"
             /\ UNCHANGED settled

\* Several tasks may end in one step.
Settle(T) == /\ T \subseteq accepted \ settled
             /\ settled' = settled \union T
             /\ UNCHANGED <<accepted, phase>>

Close == /\ phase \in {"fresh", "open"}
         /\ phase' = "draining"
         /\ UNCHANGED <<accepted, settled>>

\* A stop may find nothing to wait for and report at once.
ReportStopped == /\ phase # "stopped"
                 /\ accepted = settled
                 /\ phase' = "stopped"
                 /\ UNCHANGED <<accepted, settled>>

Next == \/ Open \/ Close \/ ReportStopped
        \/ \E t \in Tasks : Accept(t)
        \/ \E T \in SUBSET Tasks : Settle(T)

Spec == Init /\ [][Next]_vars

\* With a worker that keeps going, every accepted task is settled.
FairSpec ==
    Spec /\ \A t \in Tasks : WF_vars(\E T \in SUBSET Tasks : t \in T /\ Settle(T))
=============================================================================
