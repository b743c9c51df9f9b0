\* Two overlapping runs and the worker over one file; one run with two files in a task.
SPECIFICATION FairSpec
CONSTANTS
    r1 = r1  r2 = r2  r3 = r3  sub = sub  nfo = nfo
    Worker = Worker  None = None
    Items = {sub, nfo}
    Runs = {r1, r2, r3}
    ItemsOf <- MCItemsOf
    Transfers = {sub}
    MaxTasks = 2
    Scenarios <- MCScenarios
CHECK_DEADLOCK FALSE
INVARIANTS WellFormed NothingForgotten OnlyRacedAreLost OwnHalvesAreRedone
PROPERTIES EverythingEnds
