SPECIFICATION FairSpec
CONSTANTS
    p1 = p1
    p2 = p2
    r1 = r1
    k1 = k1
    k2 = k2
    Session = {s1}
    Value = {va, vb}
    Absent = Absent
    NoData = NoData
    NotRead = NotRead
    Syncer = {p1, p2}
    Reader = {r1}
    Shard = {k1, k2}
    ShardOf <- ShardsOf3
    MaxAttempts = 2
    MaxVersion = 2
    MaxReads = 1
    MaxFaults = 1
    MaxCrashes = 1
INVARIANTS
    TypeOK
    MutualExclusion
    StoredOnce
    FeedFaithful
    NotifiedAreStored
    ServedIsCommitted
    ReadsMostRecent
PROPERTIES
    ConvergesUnlessAbandoned
    CacheConverges
    ImplementsFeed
