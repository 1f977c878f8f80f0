SPECIFICATION Spec
CONSTANTS
    na = na
    nb = nb
    nc = nc
    nd = nd
    None = None
    Down = Down
    Fresh = Fresh
    Order <- FourNodes
    MaxView = 3
    MaxSkew = 1
    BatchViews = {1}
    Lifetime = 1
    Crashes = 0
INVARIANT AgreementAcrossViews
CHECK_DEADLOCK FALSE
