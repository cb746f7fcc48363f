SPECIFICATION FairSpec
CONSTANTS
    MAX_TASKS = 3
    MaxPid = 2
    NProcs = {1}
    NULL = NULL
    Requests <- ExecOne
    Timely = TRUE
PROPERTY ExitsAfterShell
CHECK_DEADLOCK FALSE
