CONSTANTS
    n1 = n1
    n2 = n2
    n3 = n3
    Node = {n1, n2, n3}
    NoRequest = NoRequest
    Requests <- ThreeRequests
    Failing <- FailingRequests
    Config <- NewTerm
    Faults = {}
SPECIFICATION FairSpec
INVARIANTS RoundIsAtomic
PROPERTIES IsReplicatedLog
CHECK_DEADLOCK FALSE
