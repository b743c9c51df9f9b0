\* Two copies nobody can tell apart and a move: one thing goes wrong,
\* and one observation fails.
SPECIFICATION FairSpec
CONSTANTS
    x = x  y = y  z = z  a = a  b = b  c = c
    same = same  other = other  raw = raw  own = own  final = final  last = last
    None = None
    Tasks = {a, b, c}
    Files = {x, y, z}
    Names = {raw, own, final, last}
    Name <- MCName
    Content <- MCContent
    Source <- MCSource
    Target <- MCTarget
    Mode <- MCMode
    MaxCopies = 2
    MaxBlind = 1
    MaxFailures = 1
CHECK_DEADLOCK FALSE
INVARIANTS Orderly DoneIsInPlace OneCopy
PROPERTIES TasksEnd
