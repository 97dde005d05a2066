SPECIFICATION HostSpec
CONSTANTS
    Nothing = Nothing
    Workers = {w1}
    Direct = TRUE
    MaxWork = 2
    MaxHostFaults = 1
    Faults = {}
CHECK_DEADLOCK FALSE
INVARIANT NoCommandIsStranded
PROPERTY CallbacksAreCurrent
