SPECIFICATION Spec
CONSTANTS
    None = None
    Families = {"managed"}
    MaxRequests = 4
    MaxEvents = 1
    MaxFaults = 0
INVARIANT ClockIsFresh
CHECK_DEADLOCK FALSE
