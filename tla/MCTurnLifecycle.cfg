\* Two flows, with ids of their own or one id for both.
SPECIFICATION Spec
CONSTANTS
    f1 = f1
    f2 = f2
    i1 = i1
    i2 = i2
    None = None
    Flow <- TwoFlows
    Id <- TwoIds
    QueueCap = 2
    MaxChunks = 2
SYMMETRY Symmetry
INVARIANTS
    TypeOK
    EndedOnceEachWay
    
    AtMostOneChunkMissing
CHECK_DEADLOCK FALSE
