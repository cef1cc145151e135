SPECIFICATION FairSpec
CONSTANTS
    Acks <- MCAcks
    TextLength <- MCTextLength
    Block = 4
    HmacLength = 2
    CrcLength = 1
    MaxPadding = 4
    ChunkSizes = {7, 17, 20}
    MAX_ACK_SEND_TRIES = 3
    BACKOFF_TIME = 1
    FLY_TIME = 2
    MaxFailures = 2
INVARIANTS TypeOK AckUnderstood
PROPERTY AckEnds
