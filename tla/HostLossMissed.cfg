SPECIFICATION HostSpec
CONSTANTS
    Nothing = Nothing
    Workers = {w1}
    Direct = TRUE
    MaxWork = 2
    MaxHostFaults = 1
    Faults = {"dies"}
CHECK_DEADLOCK FALSE
PROPERTY LossIsNeverMissed
