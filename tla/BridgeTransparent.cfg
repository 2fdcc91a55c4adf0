SPECIFICATION Spec

CONSTANTS
    c1 = c1
    d1 = d1
    i1 = i1
    None = None
    Client <- MCClient
    Dev <- MCDev
    Id <- MCId
    IdOf <- MCIdOf
    Wants <- MCWants
    Modem <- MCClient
    KeepaliveOn = FALSE
    Preset <- MCClient
    MaxSent <- MCMaxSent

INVARIANTS
    Transparent

\* The client may not come, the peers send a bounded amount.
CHECK_DEADLOCK FALSE
