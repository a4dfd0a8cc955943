SPECIFICATION Spec
CONSTANTS
    Scenarios <- MCScenarios
    MaxEdits = 2
    MaxTouches = 1
INVARIANTS
    ServedConfigSound
    OnlyKnownGaps
    
    
CHECK_DEADLOCK FALSE
