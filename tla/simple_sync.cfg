SPECIFICATION FairSpec
CONSTANTS
    N = 4
    Builds = {"mutex", "atomic", "plain"}
CHECK_DEADLOCK FALSE
INVARIANTS NoOverflow OkAtEnd
PROPERTIES ImplementsAtomic Terminates
