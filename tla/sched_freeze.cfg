SPECIFICATION FairSpec
CONSTANTS
    MAX_TASKS = 3
    MaxPid = 2
    NProcs = {1}
    NULL = NULL
    Requests <- KillOne
    Timely = TRUE
PROPERTY NoStarvation
CHECK_DEADLOCK FALSE
