SPECIFICATION FairSpec
CONSTANTS
    c1 = c1
    c2 = c2
    Clusters = {c1, c2}
    FailedViews = {c1}
    Addrs = {"x", "y"}
    OperatorSlots = 1
    ValidatorSlots = 1
    Quorum = 2
    Replies = 2
    MsgsCap = 1
    MaxView = 2
INVARIANTS TypeOK SlotIffHandler BftOwnsAccounts 
  
CHECK_DEADLOCK FALSE
