SPECIFICATION Spec
CONSTANTS
    Processes = {p1, p2}
    Slow = {p2}
    Stallable = {p1}
    Callers = {c1}
    Nobody = nobody
    Hashes = {}
    TTL = 1
    MaxTime = 2
    MaxClaims = 2
    MaxCrashes = 1
    MaxTakeovers = 1
INVARIANTS
    TerminalAgrees
    SuccessIsProven
    OneExecutor
    FileAgrees
