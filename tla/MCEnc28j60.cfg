SPECIFICATION Spec
CONSTANTS
    RXEND_INIT = 9
    TXEND_INIT = 15
    MEMPOOL_NUM_MEMBLOCKS = 3
    VectorLen = 2
    HeaderLen = 2
    CrcLen = 0
    UIP_SOCKET_DATALEN = 2
    Frames <- Checked
    Writes <- Short
INVARIANTS TypeOK PoolSound ContentsKept FramesIntact RoomIsFound
CHECK_DEADLOCK FALSE
