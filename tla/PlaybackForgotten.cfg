SPECIFICATION Spec
CONSTANTS
    None = None
    n1 = n1
    n2 = n2
    n3 = n3
    p1 = p1
    p2 = p2
    Ids = {n1, n2, n3}
    Paths = {p1, p2}
    MaxQueue = 2
    MaxContext = 1
    MaxHistory = 3
    MaxAsks = 2
    Modes <- ModesRestored
    Faults = {"raise"}
SYMMETRY Symmetry
INVARIANT NeverForgotten
