SPECIFICATION FairSpec
CONSTANTS
    p1 = p1
    p2 = p2
    d1 = d1
    d2 = d2
    home = home
    schedule = schedule
    None = None
    Versions = 2
    Ping = {p1, p2}
    First = p1
    Page = {home, schedule}
    Home = home
    Dimension = {d1, d2}
    SignedIn = d2
    MaxKills = 1
    MaxOutages = 1
    MaxFaults = 1
INVARIANTS
    TypeOK
    HitsFaithful
    HitsAccounted
PROPERTIES
    RejectionsReported
    QueueDrains
