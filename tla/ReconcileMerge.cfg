SPECIFICATION Spec
CONSTANTS
    Paths = {p, q, s}
    Roots = {r}
    Nodes = {n1, n2}
    Media = {m1, m2}
    NoFile = NoFile
    NoMeta = NoMeta
    NoRow = NoRow
    IdleChanges = {"create", "delete", "move"}
    RacingChanges = {}
    Faults = {"media"}
    Legacy = {}
    MaxChanges = 5
SYMMETRY Symmetric
PROPERTY
    RelinkIsTheSameFile
