CONSTANTS
    TimerA = 1
    TimerB = 2
    TimerD = 1
    BeforeTrying = 1
    TimerG = 1
    TimerH = 2
    TimerI = 1
    T2 = 1
    Responses <- MCResponses
    MaxMailbox = 1
    MaxTransactions = 2
SPECIFICATION Spec
INVARIANTS
    AckMeansFinal
    AgreeOnFinal
    FinalOnce
CHECK_DEADLOCK FALSE
