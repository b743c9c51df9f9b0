\* Two files of a new folder, two writes, one failure, removal, expired record or stop.
SPECIFICATION UploadFairSpec
CONSTANTS
    Files = {f1, f2}
    Dir = Dir
    None = None
    StableChecks = 2
    MaxWrites = 2
    MaxTrouble = 1
CHECK_DEADLOCK FALSE
INVARIANTS NothingWrong NothingForgotten
PROPERTIES UploadStartsStable EveryFileEnds
