CONSTANTS
    TimerE <- MCTimerE
    TimerF <- MCTimerF
    TimerK <- MCTimerK
    T2 <- MCT2
    Responses <- MCResponses
    MaxMailbox = 2
SPECIFICATION FairSpec
INVARIANTS
    TimersAlive
PROPERTIES
    KeepsPromise
    NoLateRetransmission
    AlwaysEnds
CHECK_DEADLOCK FALSE
