----------------------- MODULE MCTransferPostprocess -----------------------
(* Instances of TransferPostprocess for TLC. *)
EXTENDS TransferPostprocess, TLC

CONSTANTS put, replace, move, back, p1, p2, f1, f2, index

\* f1 is put at p1 with a rounded size, moved to p2, and moved back; f2 is put at p1.
MCFile == [e \in Events |-> IF e = replace THEN f2 ELSE f1]
MCTarget == [e \in Events |-> IF e = move THEN p2 ELSE p1]
MCSource == [e \in Events |-> CASE e = move -> p1 [] e = back -> p2 [] OTHER -> None]
=============================================================================
