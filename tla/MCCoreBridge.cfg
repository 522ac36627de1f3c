\* Three sessions in a store for two, three requests.
SPECIFICATION Spec
CONSTANTS
    p = p
    s1 = s1
    s2 = s2
    r1 = r1
    r2 = r2
    r3 = r3
    m1 = m1
    m2 = m2
    None = None
    Session <- Sessions
    Request <- Requests
    Model <- TwoModels
    MaxSessions = 2
    Placeholder = p
    MaxNotices = 1
SYMMETRY Symmetry
INVARIANTS
    TypeOK
    IndexesNameStoredSessions
    EveryStepInOneTurn
    UiAgreesWithStore
PROPERTIES
    HistoryOnlyGrows
CHECK_DEADLOCK FALSE
