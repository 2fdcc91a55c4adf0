SPECIFICATION FairSpec

CONSTANTS
    Kind <- MCKind
    Text <- MCText
    Asks <- MCAsks
    StrayKind = {"other", "dial"}
    MaxMessages = 3
    LineDeadline = 1
    InitTimeout = 2
    PostConnectTimeout = 2

INVARIANTS
    TypeOK
    NoneIgnored
    NoFragments
    SettingsKept
    AnswersInForm
    ConversionFaithful

PROPERTIES
    CommandPipe
    Decided
    WaitEnds

\* The peer sends a bounded number of messages.
CHECK_DEADLOCK FALSE
