CONSTANTS
    None = None
    Says <- MCSays
    Pieces <- MCPieces
    MaxFrame = 3
    StreamedReplies <- MCReplies
    FrameSets <- MCFrames
    HeldSizes = {1, 12}
    Peers <- MCPeers
    KindOf <- MCKinds
    Agents = {"claude-code", "aider"}
    Clients <- MCClients
    CacheTTL = 2
    MaxTime = 3
    Sessions = {"s", "t"}
    Capacity = 3
    MaxEnvelopes <- MCEnvelopes
    MaxSwitches = 1
SPECIFICATION PeripherySpec
INVARIANTS
    RepliesAreAssembled
    NothingIsInvented
    CallsHaveInput
    FramesAreWhole
    LookupsAreRecent
    KeptConnectionsAreRecognized
    SubscribersMissOnlyTheirOwn
    DrainedTuiIsRight
CHECK_DEADLOCK FALSE
