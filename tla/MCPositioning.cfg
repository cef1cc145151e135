SPECIFICATION FairSpec

CONSTANTS
    MAX_TRIES = 0
    MAX_COUNT_TURN_OFF = 1
    TURN_ON_COUNTER = 0
    MaxLines = 2
    MaxOwed = 1
    MAX_RETRIES = 1
    MAXRETRIES = 1
    MaxPresses = 1
    OtherCalls = TRUE

INVARIANTS
    TypeOK
    SupplyFollowsState

PROPERTY TurningOffEnds
