CONSTANTS
    None = None
    Heavy = {"dump", "failed"}
    HeavyTokens = 10
    MinTurns = 2
    StaleTokens = 5
    ZombieTokens = 5
    MinTools = 1
    ErrorTurns = 2
    Occurrences = 2
    RecurringBlock = 5
    RecurringTotal = 20
    RecurringFlood = 40
    Modes <- MCModes
    Scenes <- MCScenes
    FirstScene <- MCFirstScene
    CallIds <- MCCallIds
    MaxExchanges = 4
    MaxOddities = 1
SPECIFICATION Spec
CHECK_DEADLOCK FALSE
INVARIANTS
    TypeOK
    LineageIsSurvival
    ViewsAgree
    
    ZombiesAreNameless
    OnlyStreamedCallsFail
    NothingIsLost
    InvocationsAreRight
    ReplyIsRemembered
    
