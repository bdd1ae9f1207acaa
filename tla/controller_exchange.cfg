SPECIFICATION FairSpec
CONSTANTS
    MaxRounds = 2
    MaxRepair = 1
    Forms = {"inline", "attach"}
    Plans <- MCPlans
    MaxIds = 5
    MaxGen = 2
INVARIANTS
    TypeOK
    RetryWithinGrant
    ArchiveOnce
    UnsentUntilCheckpoint
    NoOrphan
PROPERTIES
    ImplementsExchange
    AnswerUsed
CHECK_DEADLOCK FALSE
