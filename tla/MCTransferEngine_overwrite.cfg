SPECIFICATION MCSpec
CONSTANTS
    MaxTasks = 3
    MaxConcurrent = 2
    MaxRename = 2
    Sources = {"long", "short"}
    Names = {"f"}
    OldLengths = {1}
    Size <- MCSize
    Jobs <- MCJobs
INVARIANTS
    OverwriteReplaces
CHECK_DEADLOCK FALSE
