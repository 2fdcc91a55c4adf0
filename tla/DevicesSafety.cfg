SPECIFICATION Spec

CONSTANTS
    d1 = d1
    d2 = d2
    d3 = d3
    i1 = i1
    None = None
    Dev <- MCDev3
    Id <- MCId
    IdOf <- MCIdOf3
    VcomDev <- MCDev3
    KeepaliveOn = FALSE

SYMMETRY MCSymmetry

INVARIANTS
    TypeOK
    NoGhostEntry
    Superseded
    Watched
    LostToRival
    PanicNeedsRace

\* The proxy may stop, or run out of connections.
CHECK_DEADLOCK FALSE
