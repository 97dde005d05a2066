SPECIFICATION Spec
CONSTANTS
    None = None
    t1 = t1
    t2 = t2
    s1 = s1
    s2 = s2
    a1 = a1
    a2 = a2
    v1 = v1
    Tracks = {t1, t2}
    Sources = {s1, s2}
    Albums = {a1}
    Arts = {v1}
    SourceOf <- MCSourceOf
    MaxRequests = 3
    MaxChanges = 1
INVARIANTS Consistent ShowsTheDisk
PROPERTIES ImplementsAuthority RequestsEnd
CHECK_DEADLOCK FALSE
