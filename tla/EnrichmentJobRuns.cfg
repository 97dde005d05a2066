SPECIFICATION JobSpec
CONSTANTS
    a1 = a1
    a2 = a2
    b1 = b1
    b2 = b2
    Artists = {a1, a2}
    Albums = {b1}
    MaxPending = 2
    MaxStarts = 2
INVARIANT Consistent
PROPERTY RunsEnd
CHECK_DEADLOCK FALSE
