CONSTANTS
    BeforeTrying <- MCBeforeTrying
    TimerG <- MCTimerG
    TimerH <- MCTimerH
    TimerI <- MCTimerI
    T2 <- MCT2
    Responses <- MCResponses
    MaxMailbox = 2
SPECIFICATION FairSpec
INVARIANTS
    CompletedBounded
    TimeoutNotEarly
PROPERTIES
    KeepsPromise
    OnlyCopiesAfterFinal
    AnswersOrEnds
    EndsAfterFinal
CHECK_DEADLOCK FALSE
