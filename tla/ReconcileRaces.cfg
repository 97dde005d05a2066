SPECIFICATION Spec
CONSTANTS
    Paths = {p, q}
    Roots = {r1, r2}
    Nodes = {n1, n2}
    Media = {m1, m2, m3}
    NoFile = NoFile
    NoMeta = NoMeta
    NoRow = NoRow
    IdleChanges = {"create", "edit", "delete", "move", "link", "remount"}
    RacingChanges = {"create", "edit", "delete", "move", "link", "remount"}
    Faults = {}
    Legacy = {"indexed"}
    MaxChanges = 4
SYMMETRY Symmetric
INVARIANTS
    Consistent
    QuietScanSucceeds
    ShowsTheDisk
PROPERTY
    RelinkIsTheSameFile
