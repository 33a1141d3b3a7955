CONSTANTS
    Units <- MCUnits
    Lengths <- MCLengths
    LengthHeaders <- MCLengthHeaders
    MaxUnits = 2
    IdleTimeout = 2
    MessageTimeout = 1
    KeepaliveInterval = 2
    ActiveN = 2
    MaxMailbox = 2
SPECIFICATION ConnectionSpec
INVARIANTS
    FramedAsSent
    BodyAsDeclared
    WakesWhenDue
    HeaderReadInTime
CHECK_DEADLOCK FALSE
