SPECIFICATION FairSpec
CONSTANTS
    o = o
    a = a
    b = b
    c = c
    d = d
    r = r
    None = None
    Nodes = {o, a, b, c, d, r}
    Sets <- ThreeAccounts
    SetSizeWithOutDelta <- ThreeAccountsSizes
    ExcludedSets = {3}
    Operator = o
    BehaviouralContextSize = 5
    MaxView = 2
INVARIANTS CountsMatchBits QcAccepted ProposalCanBeDecided VotersAreSigners
INVARIANTS NewAccountHasContext CommitVerifies
PROPERTY QuorumReached
CHECK_DEADLOCK FALSE
