SPECIFICATION FairSpec
CONSTANTS
    y_chars = 5
    ThreadCounts = {1, 2, 3, 4}
    Colours = 3
    Garbage = {0, 1}
CHECK_DEADLOCK FALSE
INVARIANTS OnePrints OutputIsComputed ArrayVerified
PROPERTIES LinesInOrder ProgramEnds
