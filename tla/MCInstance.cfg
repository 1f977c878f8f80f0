SPECIFICATION InstanceSpec
CONSTANTS
    a = a
    b = b
    None = None
    Peers <- TwoPeers
    Honest = {a}
    View = 2
    W = 3
    MaxView = 5
INVARIANTS
    ViewsBounded
    
    
PROPERTIES
    ProposalKept
    UsesVoteSets
    LeavesNewHeight
    TickerEnds
CHECK_DEADLOCK FALSE
