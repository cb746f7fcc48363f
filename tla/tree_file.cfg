SPECIFICATION FairSpec
CONSTANTS
    NODE_NAME_SIZE = 3
    BUFF_SIZE = 6
    UNSIGNED = 18
    MaxLines = 4
    MaxNodes = 4
    DamagedNodes = 3
    Files <- MCFiles
CHECK_DEADLOCK FALSE
INVARIANTS TypeOK AcceptedIsTree LegalAccepted
PROPERTIES Ends
