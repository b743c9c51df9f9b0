------------------------- MODULE MCBatchCoordinator -------------------------
(* A small instance of BatchCoordinator for TLC. *)
EXTENDS BatchCoordinator, TLC

CONSTANTS o1, o2, o3, move, rename

\* Two operations can be merged, the third cannot.
MCOps == {o1, o2, o3}
MCKeys == {move, rename}
MCKeyOf == [o \in MCOps |-> IF o = o3 THEN rename ELSE move]
=============================================================================
