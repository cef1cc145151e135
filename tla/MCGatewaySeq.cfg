SPECIFICATION Spec

CONSTANTS
    m1 = m1
    m2 = m2
    None = None
    Messages <- MCMessages
    TypeOf <- MCTypeOf
    MAX_RETRIES = 2
    MAX_ACK_SEND_TRIES = 3
    MaxReceptions = 1
    MaxChunks = 2
    MaxResets = 0

INVARIANT SeqCountsAnswered
