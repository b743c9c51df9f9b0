-------------------------- MODULE MCLinkForwarding --------------------------
(* Small instances of LinkForwarding for TLC. *)
EXTENDS LinkForwarding

Symmetry == Permutations(Files) \cup Permutations(Groups)

\* Files of different groups meet in a batch only, with one fault; files of one
\* group meet in its flush as well, with MaxTrouble.
Faults == trouble <= 1 \/ \A e, f \in Files : group[e] = group[f]
=============================================================================
