SPECIFICATION MCSpec
CONSTANTS
    MaxTasks = 3
    MaxConcurrent = 2
    MaxRename = 2
    Sources = {"long", "short"}
    Names = {"f"}
    OldLengths = {1}
    Size <- MCSize
    Jobs <- MCJobs
INVARIANTS
    TypeOK
    SlotsAreHeld
    FileArrives
    ExistingIsKept
PROPERTIES
    RunningIsKept
    LastEventIsLast
    EveryTaskEnds
CHECK_DEADLOCK FALSE
