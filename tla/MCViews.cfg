SPECIFICATION Spec
CONSTANTS
    na = na
    nb = nb
    nc = nc
    nd = nd
    None = None
    Down = Down
    Fresh = Fresh
    Order <- ThreeNodes
    MaxView = 3
    MaxSkew = 1
    BatchViews = {1, 2}
    Lifetime = 0
    Crashes = 1
INVARIANTS TypeOK  OneQcKept 
PROPERTY LockMonotone
CHECK_DEADLOCK FALSE
