CONSTANTS
    TimerJ <- MCTimerJ
    Responses <- MCResponses
    MaxMailbox = 3
SPECIFICATION FairSpec
PROPERTIES
    KeepsPromise
    EndsAfterFinal
CHECK_DEADLOCK FALSE
