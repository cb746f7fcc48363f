SPECIFICATION Spec
CONSTANTS
    MAX_TASKS = 3
    MaxPid = 2
    NProcs = {0, 1, 2}
    NULL = NULL
    Requests <- AllRequests
    Timely = FALSE
INVARIANTS QueuesMatch CountersRight NoOrphans TasksAreChildren TasksHeldBack
PROPERTIES UsesTable HighFirst
CHECK_DEADLOCK FALSE
