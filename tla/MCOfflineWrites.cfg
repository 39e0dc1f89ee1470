SPECIFICATION FairSpec
CONSTANTS
    d1 = d1
    d2 = d2
    Device = {d1, d2}
    Returning = {d1}
    Key = {k1}
    NoKey = NoKey
    NoWrite = NoWrite
    Skew <- Fast
    Window = 3
    MaxToggles = 2
    MaxDrops = 1
    MaxCloses = 1
    MaxFaults = 1
CHECK_DEADLOCK FALSE
INVARIANTS
    TypeOK
    LastToggleWins
    UnansweredIsQueued
PROPERTY
    Settles
