\* Three concurrent appends through a channel of two and batches of two.
CONSTANTS
    Appends = {a1, a2, a3}
    k1 = k1
    Keys = {k1}
    NoKey = NoKey
    Requests <- SendableRequests
    ChannelCapacity = 2
    BatchMax = 2
    RetryCap = 2
    MaxCausationDepth = 1
SPECIFICATION Spec
SYMMETRY CallSymmetry
INVARIANTS
    TypeOK
    NoLostAppend
    CommittedNamesOwnRow
    AlreadyExistsNamesKey
    RowsUnique
    IdempotentRetry
    CommitOrder
PROPERTIES
    FailedWriterIsFenced
    ImplementsEventLog
CHECK_DEADLOCK FALSE
