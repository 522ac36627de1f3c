\* The first frame is longer than the decoder accepts.
SPECIFICATION FairSpec
CONSTANTS
    Capacity = 3
    KernelCap = 1
    Oversize <- FirstIsOversize
    MaxPush = 3
    MaxOutage = 1
PROPERTIES
    DrainsQueued
CHECK_DEADLOCK FALSE
