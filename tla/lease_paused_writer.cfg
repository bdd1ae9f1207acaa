SPECIFICATION Spec
CONSTANTS
    Runtimes = {r1, r2}
    Stallable = {r1, r2}
    Pausable = {r1}
    Nobody = Nobody
    MaxEvents = 2
    MaxGen = 2
    MaxBeats = 0
INVARIANT AckedStaysAuthoritative
CHECK_DEADLOCK FALSE
