\* Two files, every kind of move, two things that go wrong.
CONSTANTS
    Files = {f1, f2}
    Media = {m1, m2}
    Waiting = {w}
    Other = {o}
    Nowhere = Nowhere
    Options <- MCOptions
    MaxEvents = 4
    MaxTrouble = 2
SPECIFICATION Spec
SYMMETRY Symmetry
CHECK_DEADLOCK FALSE
INVARIANTS
    TypeOK
    
    NothingForgotten
