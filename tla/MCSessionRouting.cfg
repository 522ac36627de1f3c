\* Three conversations of eight kinds, over two connections.
SPECIFICATION Spec
CONSTANTS
    c1 = c1
    c2 = c2
    c3 = c3
    a1 = a1
    a2 = a2
    p1 = p1
    e1 = e1
    t1 = t1
    t2 = t2
    None = None
    Default = Default
    Unnamed = Unnamed
    Conversation <- Conversations
    Peer <- Peers
    Process <- Processes
    ExplicitId <- Ids
    Text <- Texts
    Profiles <- Kinds
    MaxRequests = 4
SYMMETRY Symmetry
INVARIANTS
    TypeOK
    ContinuesInItsSession
    OneConversationPerSession
    NeverReturns
    DisconnectedIsUnused
CHECK_DEADLOCK FALSE
