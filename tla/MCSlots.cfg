SPECIFICATION Spec
CONSTANTS
    c1 = c1
    c2 = c2
    c3 = c3
    shared = shared
    own1 = own1
    own2 = own2
    s1 = s1
    SyncIDs <- MCSyncIDs
    Clusters <- MCClusters
    Addrs <- MCAddrs
    SharedAddrs <- MCSharedAddrs
    OperatorSlots = 1
    ValidatorSlots = 1
    MaxInfos = 2
SYMMETRY SlotSymmetry
INVARIANT TypeOK
INVARIANT TableNamesTheHolder
INVARIANT SlotAccounting
