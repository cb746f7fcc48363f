SPECIFICATION FairSpec
CONSTANTS
    Programs = {"ask3-signals", "ask4-pipes", "ask4-pipes-v2", "ex2_1", "ex2_2"}
    Trees <- MCTrees
    Garbage = {9}
CHECK_DEADLOCK FALSE
INVARIANTS TreeShown OneBranchAwake AnswersAreOwn ResultRight NothingLeft
PROPERTIES MainEnds
