SPECIFICATION FairSpec
CONSTANTS
    Processes = {p1, p2}
    Slow = {p2}
    Stallable = {p1}
    Callers = {c1, c2}
    Nobody = nobody
    Hashes = {h1}
    TTL = 1
    MaxTime = 3
    MaxClaims = 2
    MaxCrashes = 1
    MaxTakeovers = 0
INVARIANTS
    TypeOK
    TokenNamesOneCaller
    NothingIgnored
    ReportedStands
PROPERTY
    StartedIsSettled
