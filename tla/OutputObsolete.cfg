SPECIFICATION Spec
CONSTANTS
    None = None
    Families = {"managed"}
    MaxRequests = 2
    MaxEvents = 0
    MaxFaults = 0
INVARIANT NewerSurvives
CHECK_DEADLOCK FALSE
