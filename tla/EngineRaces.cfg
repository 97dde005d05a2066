SPECIFICATION Spec
CONSTANTS
    None = None
    qt = qt
    gst = gst
    mpd = mpd
    Engines = {qt, gst, mpd}
    Qt = qt
    MaxAsks = 4
    MaxDeaths = 2
    Faults = {"close", "stop", "release", "commit"}
INVARIANTS Consistent RestIsTruthful
PROPERTIES OnlyTheDeadAreDropped LeaseEnds
CHECK_DEADLOCK FALSE
