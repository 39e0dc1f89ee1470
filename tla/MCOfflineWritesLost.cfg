SPECIFICATION Spec
CONSTANTS
    d1 = d1
    d2 = d2
    Device = {d1, d2}
    Returning = {d1}
    Key = {k1}
    NoKey = NoKey
    NoWrite = NoWrite
    Skew <- NoSkew
    Window = 3
    MaxToggles = 2
    MaxDrops = 0
    MaxCloses = 1
    MaxFaults = 0
CHECK_DEADLOCK FALSE
INVARIANT
    QueuedIsPerformed
