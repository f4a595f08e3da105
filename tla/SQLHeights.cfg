CONSTANTS
    N = 2
    TTL = 2
    MaxClock = 3
    Nil = Nil
    PlaceHolder = PlaceHolder
    Header <- TwoAcks
    Faults = {"crash"}
    MaxCrash = 1
SPECIFICATION Spec
INVARIANTS HeightEnsured
CHECK_DEADLOCK FALSE
