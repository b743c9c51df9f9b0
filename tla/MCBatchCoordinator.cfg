\* Two operations that can be merged, one that cannot, a stop; a thread may fail to start.
SPECIFICATION FairSpec
CONSTANTS
    o1 = o1  o2 = o2  o3 = o3  move = move  rename = rename
    Ops <- MCOps
    Keys <- MCKeys
    KeyOf <- MCKeyOf
    MaxSize = 2
    Stoppers = {s1}
    NoWorker = NoWorker
    StartMayFail = TRUE
INVARIANTS IInv
PROPERTIES AnswerIsFinal SubmitterReturns ImplementsBarrier
