SPECIFICATION JobSpec
CONSTANTS
    a1 = a1
    a2 = a2
    b1 = b1
    b2 = b2
    Artists = {a1, a2}
    Albums = {b1}
    MaxPending = 1
    MaxStarts = 1
PROPERTIES Ends
CHECK_DEADLOCK FALSE
