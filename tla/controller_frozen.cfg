SPECIFICATION Spec
CONSTANTS
    MaxRounds = 2
    MaxRepair = 1
    Forms = {"inline", "attach"}
    Plans <- FrozenPlans
    MaxIds = 5
    MaxGen = 2
INVARIANTS
    FrozenByMismatch
CHECK_DEADLOCK FALSE
