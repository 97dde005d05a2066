SPECIFICATION FairSpec
CONSTANTS
    Faults = {"refuse", "detach", "attach", "slow", "close", "error", "verify", "death"}
    Reused = FALSE
    MaxLoads = 2
    MaxFaults = 2
    MaxQueue = 3
    MaxDepth = 1
INVARIANTS Consistent WordsAreInOrder
PROPERTIES CandidatesAreAnswered HeldStartsHappen
CHECK_DEADLOCK FALSE
