SPECIFICATION FairSpec
CONSTANTS
    p1 = p1
    c1 = c1
    c2 = c2
    None = None
    Peers <- OnePeer
    Clusters <- TwoClusters
    MaxInst = 2
    ChanCap = 1
CHECK_DEADLOCK FALSE
INVARIANT TypeOK
INVARIANT OpenIffRegistered
INVARIANT NeverAlreadyRegistered
 
