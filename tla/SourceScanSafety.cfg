SPECIFICATION Spec
CONSTANTS
    Sources = {s1, s2}
    NoSource = NoSource
    outer = outer
    inner = inner
    other = other
    Roots <- ThreeRoots
    NoRoot = NoRoot
    Overlap <- NestedOverlap
    MaxIntents = 3
SYMMETRY Symmetric
INVARIANTS
    Consistent
    StaleIsRejected
    RejectedNeverCommits
    ObservationIsCurrent
    NothingIsForgotten
PROPERTIES
    StartsOnlyWhatWasAsked
    ImplementsAuthority
\* the program stops: after Shutdown, and when the intents are spent
CHECK_DEADLOCK FALSE
