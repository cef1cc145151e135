SPECIFICATION FairSpec

CONSTANTS
    MAXATTEMPTS_CONFIGURE = 3
    MAXATTEMPTS_POST = 2
    Replies = {"some", "empty"}
    MaxLines = 4
    MaxExchanges = 2

INVARIANTS
    TypeOK
    DataMeansPosted
    DuplicatesBounded

PROPERTY ExchangeEnds

CHECK_DEADLOCK FALSE
