------------------------- MODULE MCToolConfirmation -------------------------
(* One confirmation of each kind; a behaviour is about one of them.        *)
EXTENDS ToolConfirmation

CONSTANTS clean, trash, data

MCKind == (clean :> "cleanup") @@ (trash :> "queued") @@ (data :> "direct")

About(t, clicks, ticks, reloads, faults) ==
    [tokens |-> {t}, clicks |-> clicks, ticks |-> ticks, reloads |-> reloads, faults |-> faults]

MCScenarios ==
    {About(t, 3, 0, 0, 0) : t \in {trash, data}}    \* three clicks
    \union
    UNION {{About(t, 2, 0, 0, 1),       \* a thread that does not start
            About(t, 1, 2, 0, 0),       \* a full queue
            About(t, 2, 0, 1, 0),       \* a reload between two clicks
            About(t, 1, 1, 1, 0)} :     \* a reload while a click waits for its turn
           t \in Tokens}
=============================================================================
