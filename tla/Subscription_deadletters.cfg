\* Failing consumers under SkipToDLQ and Halt: dead letters, a fault, a restart.
CONSTANTS
    BatchMax = 1
    BatchSize = 2
    TopicBuffer = 1
    SignalCapacity = 2
    Policies = {"SkipToDLQ", "Halt"}
    RetryMax = 3
    FlushPerEvent = FALSE
    StartLatest = FALSE
    MayBePoison = {}
    Nacks = TRUE
    Debounced = TRUE
    MaxSeq = 2
    MaxInDoubt = 0
    MaxFaults = 1
    MaxRestarts = 1
    MaxDlqOps = 1
SPECIFICATION Spec
INVARIANTS
    TypeOK
    SavedCursorSkipsNothing
CHECK_DEADLOCK FALSE
