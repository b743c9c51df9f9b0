\* Clicks on one confirmation, with tasks of the scheduler, a reload, a thread that does not start.
SPECIFICATION FairSpec
CONSTANTS
    clean = clean  trash = trash  data = data
    None = None
    Tokens = {clean, trash, data}
    Kind <- MCKind
    Requests = {r1, r2, r3}
    Scheduled = {s1, s2}
    Limit = 1
    MaxReloads = 1
    Scenarios <- MCScenarios
CHECK_DEADLOCK FALSE
INVARIANTS WellFormed OneTime OutcomeIsTrue
PROPERTIES EveryClaimIsAnswered
