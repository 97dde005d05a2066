SPECIFICATION Spec
CONSTANTS
    None = None
    Families = {"managed", "native_dsd", "dop"}
    MaxRequests = 3
    MaxEvents = 2
    MaxFaults = 1
INVARIANTS Consistent HandoverIsExclusive SupersededHoldsNothing
CHECK_DEADLOCK FALSE
