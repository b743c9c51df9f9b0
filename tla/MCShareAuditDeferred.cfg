\* A file that was handed over to the queue is lost.
SPECIFICATION Spec
CONSTANTS
    r1 = r1  r2 = r2  r3 = r3  sub = sub  nfo = nfo
    Worker = Worker  None = None
    Items = {sub, nfo}
    Runs = {r1, r2, r3}
    ItemsOf <- MCItemsOf
    Transfers = {sub}
    MaxTasks = 2
    Scenarios <- MCPlain
CHECK_DEADLOCK FALSE
INVARIANTS DeferredIsKept
