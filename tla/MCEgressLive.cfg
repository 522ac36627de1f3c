\* Every frame is acceptable to the decoder: what an outage costs, and progress.
SPECIFICATION FairSpec
CONSTANTS
    Capacity = 2
    KernelCap = 1
    Oversize <- NoOversize
    MaxPush = 4
    MaxOutage = 2
INVARIANTS
    OutageCost
PROPERTIES
    EventuallySettled
CHECK_DEADLOCK FALSE
