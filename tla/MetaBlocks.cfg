SPECIFICATION Spec
CONSTANTS
    a1 = a1
    a2 = a2
    a3 = a3
    Addr = {a1, a2, a3}
    Absent = Absent
    MaxBalance = 2
    Genesis <- ThreeAccounts
    Amounts = {1}
    Bills <- SomeBills
    MaxNonce = 0
INVARIANTS TypeOK CoinsAddUp Reproducible
PROPERTIES TransferAllOrNothing
CHECK_DEADLOCK FALSE
