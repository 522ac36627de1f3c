\* A flow alone, and two flows that reuse one id: progress.
SPECIFICATION FairSpec
CONSTANTS
    f1 = f1
    f2 = f2
    i1 = i1
    i2 = i2
    None = None
    Flow <- TwoFlows
    Id <- OneId
    QueueCap = 1
    MaxChunks = 0
PROPERTIES
    EveryTurnEnds
    NothingLeaks
CHECK_DEADLOCK FALSE
