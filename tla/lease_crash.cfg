SPECIFICATION Spec
CONSTANTS
    r1 = r1
    r2 = r2
    Runtimes <- TwoRuntimes
    Stallable <- TwoRuntimes
    Pausable <- NoRuntimes
    Nobody = Nobody
    MaxEvents = 3
    MaxGen = 3
    MaxBeats = 2
SYMMETRY Symmetry
INVARIANTS
    TypeOK
    AckedStaysAuthoritative
    OneOwnerAtATime
    OwnerKnowsIt
PROPERTIES
    CutoffsNeverForgotten
    ImplementsOwnedLog
CHECK_DEADLOCK FALSE
