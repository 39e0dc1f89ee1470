SPECIFICATION FairSpec
CONSTANTS
    p1 = p1
    p2 = p2
    r1 = r1
    k1 = k1
    k2 = k2
    Session = {s1}
    Value = {va, vb}
    Absent = Absent
    NoData = NoData
    NotRead = NotRead
    Syncer = {p1}
    Reader = {r1}
    Shard = {k1}
    ShardOf <- ShardsOfPair
    MaxAttempts = 2
    MaxVersion = 2
    MaxReads = 0
    MaxFaults = 0
    MaxCrashes = 1
PROPERTY
    Converges
