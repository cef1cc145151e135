SPECIFICATION FairSpec
CONSTANTS
    UIP_ARPTAB_SIZE = 2
    PoolBlocks = 2
    LocalHosts = {"A", "B", "lan"}
    Servers = {"A", "B"}
    LeaseOf <- Leasing
    Foreign = {}
    Router = "A"
    DnsServer = "A"
    TimeServer = "time"
    Chatty = "lan"
    Timeout = 1
    DnsTimeout = 1
    RecvTimeout = 1
    WatchdogTimeout = 2
    Initials = {1}
    Rounds = 2
    MaxInFlight = 1
INVARIANTS
    TypeOK
    LeaseAcknowledged
    SentOnceToNextHop
PROPERTY
    SetupEnds
CHECK_DEADLOCK FALSE
