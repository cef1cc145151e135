SPECIFICATION Spec
CONSTANTS
    Rounds = 2
    Sbox <- MCSbox
    Size = 5
    Plain = {0, 1, 3}
    Keys <- MCKeys
    Vectors <- MCVectors
    Payloads <- MCPayloads
    Header <- MCHeader
    maxPayloadLen = 2
    MaxRefusals = 2
INVARIANTS CipherRoundTrip TokenRoundTrip
CHECK_DEADLOCK FALSE
