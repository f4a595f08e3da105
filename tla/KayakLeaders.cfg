CONSTANTS
    n1 = n1
    n2 = n2
    n3 = n3
    Node = {n1, n2}
    NoRequest = NoRequest
    Requests <- TwoRequests
    Failing <- FailingRequests
    Config <- NewLeader
    Faults = {"timeout", "rpcerror", "loss", "aging"}
SPECIFICATION FairSpec
INVARIANTS TypeOK LockStep AppliedIsCommitted
PROPERTIES ApplyReturns
CHECK_DEADLOCK FALSE
