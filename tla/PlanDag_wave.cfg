CONSTANTS
    Nodes <- MCNodes
    Scopes <- MCScopes
    Runs = {1}
    Plans <- SiblingPlans
    MaxParallel = 2
    MaxTrouble = 0
    MaxResumes = 1
SPECIFICATION Spec
CHECK_DEADLOCK FALSE
PROPERTIES
    WaveNeverAbandoned
