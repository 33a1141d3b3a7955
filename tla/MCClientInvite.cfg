CONSTANTS
    TimerA <- MCTimerA
    TimerB <- MCTimerB
    TimerD <- MCTimerD
    Responses <- MCResponses
    MaxMailbox = 2
SPECIFICATION FairSpec
INVARIANTS
    CallingBounded
    TimeoutNotEarly
PROPERTIES
    KeepsPromise
    MovesOn
CHECK_DEADLOCK FALSE
