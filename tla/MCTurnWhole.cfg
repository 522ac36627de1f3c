\* One streamed response of up to two chunks, and room for all of them in the queue.
SPECIFICATION Spec
CONSTANTS
    f1 = f1
    f2 = f2
    i1 = i1
    i2 = i2
    None = None
    Flow <- OneFlow
    Id <- OneId
    QueueCap = 4
    MaxChunks = 2
INVARIANTS
    BuiltFromWholeStream
CHECK_DEADLOCK FALSE
