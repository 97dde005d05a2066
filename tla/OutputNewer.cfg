SPECIFICATION Spec
CONSTANTS
    None = None
    Families = {"managed", "native_dsd", "dop"}
    MaxRequests = 3
    MaxEvents = 1
    MaxFaults = 0
INVARIANT NewerIsUntouched
CHECK_DEADLOCK FALSE
