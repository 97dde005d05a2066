SPECIFICATION Spec
CONSTANTS
    Paths = {p, q}
    Roots = {r1, r2}
    Nodes = {n1, n2}
    Media = {m1, m2, m3}
    NoFile = NoFile
    NoMeta = NoMeta
    NoRow = NoRow
    IdleChanges = {"create", "edit", "remount"}
    RacingChanges = {}
    Faults = {}
    Legacy = {}
    MaxChanges = 5
SYMMETRY Symmetric
INVARIANT
    MetadataIsFresh
