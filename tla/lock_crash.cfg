SPECIFICATION FairSpec
CONSTANTS
    Calls = {c1, c2, c3}
    Pausable = {}
    NoFence = NoFence
INVARIANTS
    TypeOK
    SerializedUnlessUndercut
    OneTokenUnlessUndercut
PROPERTY EveryCallReturns
CHECK_DEADLOCK FALSE
