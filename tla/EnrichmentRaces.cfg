SPECIFICATION Spec
CONSTANTS
    None = None
    a1 = a1
    b1 = b1
    x1 = x1
    x2 = x2
    Artists = {a1}
    Albums = {b1}
    ArtistOf <- MCArtistOf
    ExternalIds = {x1, x2}
    MaxBegins = 3
    MaxBarriers = 1
INVARIANT IInv
PROPERTY ImplementsKnowledge
CHECK_DEADLOCK FALSE
