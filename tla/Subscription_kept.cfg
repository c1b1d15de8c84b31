\* A nack overtaken by a later ack.
CONSTANTS
    BatchMax = 1
    BatchSize = 2
    TopicBuffer = 1
    SignalCapacity = 2
    Policies = {"SkipToDLQ"}
    RetryMax = 3
    FlushPerEvent = FALSE
    StartLatest = FALSE
    MayBePoison = {}
    Nacks = TRUE
    Debounced = FALSE
    MaxSeq = 3
    MaxInDoubt = 0
    MaxFaults = 0
    MaxRestarts = 0
    MaxDlqOps = 0
SPECIFICATION Spec
INVARIANT FailedIsKept
CHECK_DEADLOCK FALSE
