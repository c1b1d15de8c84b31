\* Two appends with every early return of append(), under fairness.
CONSTANTS
    Appends = {a1, a2}
    k1 = k1
    Keys = {k1}
    NoKey = NoKey
    Requests <- EdgeRequests
    ChannelCapacity = 1
    BatchMax = 2
    RetryCap = 2
    MaxCausationDepth = 1
SPECIFICATION FairSpec
INVARIANTS
    RejectedNeverLands
PROPERTY AppendReturns
CHECK_DEADLOCK FALSE
