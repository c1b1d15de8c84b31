CONSTANTS
    t1 = t1
    t2 = t2
    s1 = s1
    s2 = s2
    Tasks <- MCTasks
    Slots <- OneSlot
    Operator = op
    NoOne = none
    MaxRetries = 2
    MaxGrants = 2
    MaxTrouble = 1
SPECIFICATION Spec
CHECK_DEADLOCK FALSE
INVARIANTS
    TypeOK
    OneSendPerSlot
    OneClaimPerSlot
    ClaimHoldsLease
PROPERTY
    OrphanRecovered
