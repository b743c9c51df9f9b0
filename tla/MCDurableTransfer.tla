------------------------- MODULE MCDurableTransfer -------------------------
(* Instances of DurableTransfer for TLC. *)
EXTENDS DurableTransfer, TLC

CONSTANTS x, y, z, a, b, c, same, other, raw, own, final, last

\* a and b copy twins, of which b keeps its name; c moves another file and renames it.
MCName == [f \in Files |-> IF f = z THEN own ELSE raw]
MCContent == [f \in Files |-> IF f = z THEN other ELSE same]
MCSource == [t \in Tasks |-> CASE t = a -> x [] t = b -> y [] OTHER -> z]
MCTarget == [t \in Tasks |-> CASE t = a -> final [] t = b -> raw [] OTHER -> last]
MCMode == [t \in Tasks |-> IF t = c THEN "move" ELSE "copy"]
=============================================================================
