\* Acks and ignored nacks: lag, late rows, failed reads and writes, a restart.
CONSTANTS
    BatchMax = 1
    BatchSize = 2
    TopicBuffer = 1
    SignalCapacity = 2
    Policies = {"Retry"}
    RetryMax = 3
    FlushPerEvent = FALSE
    StartLatest = TRUE
    MayBePoison = {2}
    Nacks = TRUE
    Debounced = FALSE
    MaxSeq = 2
    MaxInDoubt = 1
    MaxFaults = 1
    MaxRestarts = 1
    MaxDlqOps = 0
SPECIFICATION FairSpec
INVARIANTS
    SavedCursorSkipsNothing
    CloseSavesCursor
PROPERTIES
    PublishedIsDelivered
    CursorIsSaved
CHECK_DEADLOCK FALSE
