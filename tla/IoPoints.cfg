SPECIFICATION FairSpec
CONSTANTS
    Rates = {r1, r2}
    NoRate = NoRate
    Paced = TRUE
    MaxValues = 3
INVARIANTS
    EndsCurrent
PROPERTIES
    ValuesInOrder
    WaitingArrives
CHECK_DEADLOCK FALSE
