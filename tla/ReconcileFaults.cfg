SPECIFICATION Spec
CONSTANTS
    Paths = {p, q}
    Roots = {r}
    Nodes = {n1, n2}
    Media = {m1, m2, m3}
    NoFile = NoFile
    NoMeta = NoMeta
    NoRow = NoRow
    IdleChanges = {"create", "edit", "delete"}
    RacingChanges = {"create", "edit", "delete"}
    Faults = {"crash", "media"}
    Legacy = {}
    MaxChanges = 4
SYMMETRY Symmetric
INVARIANT
    ShowsTheDisk
