\* Callers that start, put and stop, tasks that stop the queue themselves or die.
SPECIFICATION FairSpec
CONSTANTS
    Tasks = {t1, t2, t3}
    Callers = {c1, c2}
    NoOne = NoOne
    Sentinel = Sentinel
    Lazy = TRUE
    MayDie = TRUE
    MaxGen = 3
INVARIANTS IInv
PROPERTIES ImplementsBarrier StopEndsWorker
