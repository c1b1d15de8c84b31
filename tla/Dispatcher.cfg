\* Three rows, late transactions, pauses, a failed read and a restart; fewer
\* unknown labels than a poll holds.
CONSTANTS
    Board = Board
    Slot = Slot
    Gated = {Board}
    Ungated = {Slot}
    UnknownLabel = UnknownLabel
    Rows <- MixedRows
    BatchMax = 2
    BatchLimit = 2
    MaxSeq = 3
    MaxUnknown = 1
    MaxInDoubt = 1
    MaxTailErrors = 1
    MaxRestarts = 1
SPECIFICATION FairSpec
INVARIANTS
    TypeOK
    FedInOrder
    OnlyLateRowsAreSkipped
PROPERTIES
    EveryRowIsDispatched
CHECK_DEADLOCK FALSE
