SPECIFICATION FairSpec
CONSTANTS
    c1 = c1
    c2 = c2
    Clusters = {c1}
    FailedViews = {c1}
    Addrs = {"x"}
    OperatorSlots = 1
    ValidatorSlots = 1
    Quorum = 2
    Replies = 2
    MsgsCap = 2
    MaxView = 1
PROPERTY EverySlotReleased
CHECK_DEADLOCK FALSE
