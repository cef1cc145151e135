SPECIFICATION FairSpec
CONSTANTS
    UIP_CONNS = 2
    UIP_SOCKET_NUMPACKETS = 3
    UIP_RTO = 1
    UIP_MAXRTX = 2
    UIP_MAXSYNRTX = 1
    UIP_TIME_WAIT_TIMEOUT = 2
    MAX_RETRIES = 2
    QueryTimeout = 3
    WatchdogTimeout = 3
    PoolSizes = {2, 7}
    HeaderFits = TRUE
    RequestLen = 2
    ReplyLen = 3
    Exchanges = 2
    Silent = FALSE
INVARIANTS
    TypeOK
    ReplyInOrder
    NothingAckedIsLost
    DeliveredMeansReceived
PROPERTY
    ExchangeEnds
CHECK_DEADLOCK FALSE
