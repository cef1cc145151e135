SPECIFICATION FairSpec

CONSTANTS
    MAXATTEMPTS = 2
    MAX_ATTEMPTS_TIMEOUT_NO_RESPONSE = 3
    MAX_ATTEMPTS_TO_GET_SIGNAL = 2
    MaxLines = 4
    MaxCommands = 3
    MaxConnections = 3

INVARIANTS
    TypeOK
    StoredFresh
    FullBudget

PROPERTY AttemptEnds

CHECK_DEADLOCK FALSE
