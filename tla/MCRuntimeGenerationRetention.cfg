SPECIFICATION Spec
CONSTANTS
    o1 = o1
    o2 = o2
    c1 = c1
    c2 = c2
    Operators = {o1}
    Configs <- MCConfigs
    BootConfig = c1
    WorkersOf <- MCWorkersOf
    LevelOf <- MCLevelOf
    Kinds = {"activate", "rollback"}
    MaxArchived = 2
    MaxEntries = 1
    MaxRequests = 5
    Boot = Boot
    None = None
CHECK_DEADLOCK FALSE
INVARIANTS
    NewestFirst
    PredecessorRetained
    LevelFollowsActivations
