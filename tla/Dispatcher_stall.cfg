\* Unknown labels may fill a batch window.
CONSTANTS
    Board = Board
    Slot = Slot
    Gated = {Board}
    Ungated = {Slot}
    UnknownLabel = UnknownLabel
    Rows <- MixedRows
    BatchMax = 2
    BatchLimit = 2
    MaxSeq = 3
    MaxUnknown = 2
    MaxInDoubt = 0
    MaxTailErrors = 0
    MaxRestarts = 0
SPECIFICATION FairSpec
PROPERTY EveryRowIsDispatched
CHECK_DEADLOCK FALSE
