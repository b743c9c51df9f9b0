CONSTANTS
    Files = {f1, f2}
    Groups = {g1, g2}
    TargetCount = 2
    RetryLimit = 1
    DeleteLimit = 2
    MaxVersion = 2
    MaxTrouble = 2
    MaxFinds = 2
SPECIFICATION Spec
CHECK_DEADLOCK FALSE
CONSTRAINT Faults
SYMMETRY Symmetry
INVARIANTS
    OnlyStraysAreForgotten
PROPERTIES
    SentOnce
    DeleteOnce
    DeletedMeansTold
