SPECIFICATION FairSpec

CONSTANTS
    c1 = c1
    d1 = d1
    i1 = i1
    None = None
    Client <- MCClient
    Dev <- MCDev
    Id <- MCId
    IdOf <- MCIdOf
    Wants <- MCWants
    Modem = {}
    VcomDev = {}
    KeepaliveOn = TRUE

PROPERTIES
    DevicesSpec
    ServedDeviceLeaves
    TerminateFrees
    BothGoneEnds

\* The proxy may stop, or run out of connections.
CHECK_DEADLOCK FALSE
