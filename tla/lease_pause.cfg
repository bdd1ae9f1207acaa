SPECIFICATION Spec
CONSTANTS
    Runtimes = {r1, r2}
    Stallable = {r1, r2}
    Pausable = {r1}
    Nobody = Nobody
    MaxEvents = 3
    MaxGen = 2
    MaxBeats = 0
INVARIANTS
    AckedUnlessStrayed
    OneOwnerUnlessStrayed
CHECK_DEADLOCK FALSE
