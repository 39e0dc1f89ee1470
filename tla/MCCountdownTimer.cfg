SPECIFICATION Spec
CONSTANTS
    Minute = 3
    Hour = 6
    Day = 12
    Base = 2
    Target = 56
    Icon = Icon
    Invalid = Invalid
    None = None
    Start <- MCStart
    Times <- MCTimes
    MaxUser = 3
INVARIANTS
    TypeOK
    ShowsTheTime
    OneLoop
    DrawnWhileShown
CHECK_DEADLOCK FALSE
