SPECIFICATION Spec
CONSTANTS
    Calls = {c1, c2, c3}
    Pausable = {}
    NoFence = NoFence
INVARIANT Serialized
CHECK_DEADLOCK FALSE
