CONSTANTS
    Calls = {c1, c2, c3}
    Stoppers = {s1, s2}
SPECIFICATION FairSpec
CHECK_DEADLOCK FALSE
INVARIANTS
    OneSync
    StoppedMeansIdle
PROPERTIES
    NotedFullRuns
    ImplementsFairBarrier
