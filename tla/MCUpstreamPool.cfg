SPECIFICATION Spec
CONSTANTS
    N = 3
    ActiveCheck = {1}
    Weight <- MCWeight
    FailureThreshold <- MCFailure
    SuccessThreshold <- MCSuccess
    Keys = {"", "k"}
    NoKey = ""
    KeyHash <- MCKeyHash
    ReplicaHash <- MCReplicaHash
    ExplorationInterval = 2
    UnsampledInterval = 2
    CursorWrap <- MCCursorWrap
    Slots = {r1, r2}
    Scenarios <- MCScenarios
    DebugAssertions = TRUE
SYMMETRY Symmetry
CHECK_DEADLOCK FALSE
INVARIANTS
    RotationConsistent
    ReadmitScheduled
PROPERTIES
    ImplementsRotation
