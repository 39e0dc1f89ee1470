SPECIFICATION Spec
CONSTANTS
    u1 = u1
    u2 = u2
    d1 = d1
    d2 = d2
    None = None
    User = {u1, u2}
    Shard = {d1, d2}
    ShardOf <- Apart
    Session = {s1}
    MaxSignIns = 2
    MaxSurveys = 1
    MaxChanges = 1
    MaxFaults = 1
CHECK_DEADLOCK FALSE
INVARIANT
    WaitersAreSignedIn
