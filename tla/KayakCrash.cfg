CONSTANTS
    n1 = n1
    n2 = n2
    n3 = n3
    Node = {n1, n2, n3}
    NoRequest = NoRequest
    Requests <- ThreeRequests
    Failing <- FailingRequests
    Config <- NewMember
    Faults = {"crash"}
SPECIFICATION Spec
INVARIANTS DivergenceConfined AckedDurable
PROPERTIES CommittedForever
CHECK_DEADLOCK FALSE
