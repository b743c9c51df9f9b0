\* Cloud changes, failures and outside writers between any two steps; every event ends.
SPECIFICATION PostFairSpec
CONSTANTS
    put = put  replace = replace  move = move  back = back
    p1 = p1  p2 = p2  f1 = f1  f2 = f2
    None = None  Outside = Outside
    Events = {put, replace, move}
    Paths = {p1, p2}
    Files = {f1, f2}
    File <- MCFile
    Target <- MCTarget
    Source <- MCSource
    Display = {put}
    Effects = {index}
    index = index
    MaxOutside = 1
    MaxFailures = 1
    Removable = {p1}
CHECK_DEADLOCK FALSE
INVARIANTS RecordsAgree MirrorsCloud OnlyLateWritesAreLost EffectsFollowFile
PROPERTIES EventsEnd
