CONSTANTS
    N = 2
    TTL = 2
    MaxClock = 3
    Nil = Nil
    PlaceHolder = PlaceHolder
    Header <- SomeAcks
    Faults = {"loss"}
    MaxCrash = 0
SPECIFICATION FairSpec
INVARIANTS HeightEnsuredByFetch PackedOncePerPeriod SignedBlockInChain
PROPERTIES TurnEnds
CHECK_DEADLOCK FALSE
