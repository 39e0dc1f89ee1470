SPECIFICATION Spec
CONSTANTS
    u1 = u1
    u2 = u2
    f1 = f1
    f2 = f2
    s1 = s1
    s2 = s2
    None = None
    User = {u1}
    Shards <- TwoShards
    ShardOf <- Alone
    Key = {k1, k2}
    Session = {s1, s2}
    Payloads <- AnyChange
    MaxTaskRetry = 0
    MaxErrors = 1
    MaxCrashes = 1
    MaxChanges = 1
CHECK_DEADLOCK FALSE
INVARIANTS
    TypeOK
    BoundedCopies
    OnlyConcerned
    NobodyForgotten
