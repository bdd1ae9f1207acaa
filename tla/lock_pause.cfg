SPECIFICATION Spec
CONSTANTS
    Calls = {c1, c2, c3}
    Pausable = {c1}
    NoFence = NoFence
INVARIANT GenerationsDifferUnlessStrayed
PROPERTY OnlyNewestSucceeds
CHECK_DEADLOCK FALSE
