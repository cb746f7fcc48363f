SPECIFICATION FairSpec
CONSTANTS
    y_chars = 3
    ThreadCounts = {1, 2}
    Colours = 2
    Garbage = {0}
CHECK_DEADLOCK FALSE
PROPERTIES ChainReaction
