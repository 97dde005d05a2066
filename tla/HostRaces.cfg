SPECIFICATION HostSpec
CONSTANTS
    Nothing = Nothing
    Workers = {w1}
    Direct = TRUE
    MaxWork = 2
    MaxHostFaults = 1
    Faults = {"dies", "hangs", "unkillable", "release", "slow"}
CHECK_DEADLOCK FALSE
INVARIANT HostConsistent
PROPERTIES CallsEnd LossIsReported
