SPECIFICATION FairSpec
CONSTANTS
    MAX_TASKS = 4
    MaxPid = 3
    NProcs = {1, 2, 3}
    NULL = NULL
    Requests <- NoKill
    Timely = TRUE
CHECK_DEADLOCK FALSE
INVARIANTS OnlyCurrentRuns
PROPERTIES NoStarvation QuitEnds
