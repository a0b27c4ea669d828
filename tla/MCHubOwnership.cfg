SPECIFICATION FairSpec
CONSTANTS
    p1 = p1
    p2 = p2
    p3 = p3
    Proc <- MCTwo
    NoProc = NoProc
    Ttl = 1
    MaxOp = 2
    MaxTries = 3
    MaxCrash = 1
    RmAllowed = TRUE
INVARIANT OneHolderUnlessOverrun
PROPERTIES LiveClaimStands DeadClaimIsReclaimed
