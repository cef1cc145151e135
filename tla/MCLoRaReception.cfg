SPECIFICATION Spec

CONSTANTS
    t1 = t1
    t2 = t2
    m1 = m1
    m2 = m2
    m3 = m3
    Bar = "|"
    Trackers <- MCTrackers
    Messages <- MCMessages
    Body <- MCBody
    Malformed <- MCMalformed
    ChunkSize = 4
    MAX_INSERTS = 3
    MaxSends = 5

INVARIANTS
    TypeOK
    TakenAtMostOnce
    Resynchronises

SYMMETRY MCSymmetry

CHECK_DEADLOCK FALSE
