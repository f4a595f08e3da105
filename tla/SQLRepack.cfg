CONSTANTS
    N = 1
    TTL = 2
    MaxClock = 3
    Nil = Nil
    PlaceHolder = PlaceHolder
    Header <- OneAck
    Faults = {"crash"}
    MaxCrash = 1
SPECIFICATION Spec
INVARIANTS PackedOnce
CHECK_DEADLOCK FALSE
