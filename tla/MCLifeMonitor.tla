--------------------------- MODULE MCLifeMonitor ---------------------------
(* Small instances of LifeMonitor for TLC. *)
EXTENDS LifeMonitor, TLC

\* Replaying everything and moving the STRM, the monitor writes for the host; or going
\* on from the last stop and writing them anew, the host writes.
MCOptions ==
    {[mode |-> "all", localMove |-> TRUE, transfer |-> TRUE, remove |-> TRUE],
     [mode |-> "last", localMove |-> FALSE, transfer |-> FALSE, remove |-> TRUE]}

\* Deleted files keep their STRM and their rows.
MCKeeping ==
    {[mode |-> "latest", localMove |-> FALSE, transfer |-> TRUE, remove |-> FALSE]}

\* Files and library paths are interchangeable; used without liveness.
Symmetry == Permutations(Files) \union Permutations(Media)
=============================================================================
