\* Without the "remove" event mode: a row that stays refuses a later rename.
CONSTANTS
    Files = {f1, f2}
    Media = {m1, m2}
    Waiting = {}
    Other = {}
    Nowhere = Nowhere
    Options <- MCKeeping
    MaxEvents = 4
    MaxTrouble = 0
SPECIFICATION FairSpec
CHECK_DEADLOCK FALSE
PROPERTIES
    EveryEventEnds
