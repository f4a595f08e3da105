CONSTANTS
    n1 = n1
    n2 = n2
    n3 = n3
    Node = {n1, n2}
    NoRequest = NoRequest
    Requests <- ThreeRequests
    Failing <- FailingRequests
    Config <- TwoServers
    Faults = {"loss", "rpcerror"}
SPECIFICATION Spec
INVARIANTS AckedReachesAll
CHECK_DEADLOCK FALSE
