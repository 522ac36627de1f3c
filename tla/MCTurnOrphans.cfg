\* One streamed response that outlives the TTL.
SPECIFICATION Spec
CONSTANTS
    f1 = f1
    f2 = f2
    i1 = i1
    i2 = i2
    None = None
    Flow <- OneFlow
    Id <- OneId
    QueueCap = 3
    MaxChunks = 2
INVARIANTS
    OnlyOrphansReaped
CHECK_DEADLOCK FALSE
