SPECIFICATION FairSpec

CONSTANTS
    d1 = d1
    d2 = d2
    d3 = d3
    i1 = i1
    None = None
    Dev <- MCDev2
    Id <- MCId
    IdOf <- MCIdOf2
    VcomDev <- MCDev2
    KeepaliveOn = TRUE

PROPERTIES
    DeadDeviceRemoved

\* The proxy may stop, or run out of connections.
CHECK_DEADLOCK FALSE
