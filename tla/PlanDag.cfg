CONSTANTS
    Nodes <- MCNodes
    Scopes <- MCScopes
    Runs = {1, 2}
    Plans <- AllPlans
    MaxParallel = 2
    MaxTrouble = 1
    MaxResumes = 1
SPECIFICATION Spec
CHECK_DEADLOCK FALSE
INVARIANTS
    TypeOK
    LeasesMatchWork
    RunsAfterAncestors
    EveryNodeAccounted
    PlanStatusEarned
    PreviewKept
    CompensatedInOrder
PROPERTIES
    FailFastStops
    RunEnds
