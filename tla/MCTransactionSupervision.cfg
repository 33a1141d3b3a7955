CONSTANTS
    Receivers = {r1, r2}
    MaxRestarts = 3
    MaxCopies = 3
    MaxCrashes = 4
SPECIFICATION Spec
INVARIANTS
    OneTransaction
    CollapseExplained
PROPERTIES
    RestartSettles
    EventuallyTold
CHECK_DEADLOCK FALSE
