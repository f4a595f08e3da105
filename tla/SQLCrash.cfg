CONSTANTS
    N = 2
    TTL = 2
    MaxClock = 2
    Nil = Nil
    PlaceHolder = PlaceHolder
    Header <- SameAcks
    Faults = {"crash", "slow", "loss"}
    MaxCrash = 1
SPECIFICATION Spec
INVARIANTS TypeOK IndexCoversFile MarkedIsPacked 
PROPERTIES ChainGrows
CHECK_DEADLOCK FALSE
