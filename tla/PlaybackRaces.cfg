SPECIFICATION Spec
CONSTANTS
    None = None
    n1 = n1
    n2 = n2
    n3 = n3
    MaxAsks = 3
    Modes <- ModesRestored
    p1 = p1
    p2 = p2
    Ids = {n1, n2, n3}
    Paths = {p1, p2}
    MaxQueue = 2
    MaxContext = 2
    MaxHistory = 3
    Faults = {"raise","stop","handover","retry"}
SYMMETRY Symmetry
INVARIANTS
    Consistent
    PlaysTheCurrent
    PendingIsUnderWay
PROPERTY NextIsTheSuccessor
