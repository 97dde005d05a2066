SPECIFICATION FairSpec
CONSTANTS
    Sources = {s1, s2}
    NoSource = NoSource
    outer = outer
    inner = inner
    other = other
    Roots <- TwoRoots
    NoRoot = NoRoot
    Overlap <- NestedOverlap
    MaxIntents = 2
PROPERTIES
    RunsEnd
    RequestsAreAnswered
\* the program stops: after Shutdown, and when the intents are spent
CHECK_DEADLOCK FALSE
