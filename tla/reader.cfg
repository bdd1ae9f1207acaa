SPECIFICATION ReaderSpec
CONSTANTS
    Runtimes = {r1, r2}
    Stallable = {r1, r2}
    Pausable = {}
    Nobody = Nobody
    MaxEvents = 1
    MaxGen = 2
    MaxBeats = 0
INVARIANTS
    ReaderTypeOK
    LoadKnowsEveryCutoff
    LoadedCutoffsAreDurable
CHECK_DEADLOCK FALSE
