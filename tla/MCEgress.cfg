\* Safety and refinement with an oversize frame among the others.
SPECIFICATION Spec
CONSTANTS
    Capacity = 2
    KernelCap = 2
    Oversize <- SecondIsOversize
    MaxPush = 5
    MaxOutage = 2
INVARIANTS
    TypeOK
    Accounting
    PipelineOrder
PROPERTIES
    ImplementsChannel
CHECK_DEADLOCK FALSE
