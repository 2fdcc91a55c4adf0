SPECIFICATION Spec

CONSTANTS
    c1 = c1
    c2 = c2
    d1 = d1
    i1 = i1
    None = None
    Client <- MCClient
    Dev <- MCDev
    Id <- MCId
    IdOf <- MCIdOf
    Wants <- MCWants
    Modem <- MCClient
    KeepaliveOn = TRUE

SYMMETRY MCSymmetry

INVARIANTS
    TypeOK
    BusyOwned
    QuietAfterEnd
    EndClosesBoth
    MarkLostToRival

PROPERTIES
    NoLateOverlap

\* Clients may stop coming.
CHECK_DEADLOCK FALSE
