SPECIFICATION FairSpec
CONSTANTS
    Default = "fconc.out"
    Help = "--help"
    NoFile = NoFile
    BUFSIZE = 3
    DiskSize = 11
    Names <- MCNames
    Files <- MCNames
    File <- MCFile
    Disk <- MCDisk
    Calls <- MCCalls
CHECK_DEADLOCK FALSE
INVARIANTS EveryByteOnce OutputInOrder DoneMeansCopied
PROPERTIES InputsKept Ends
