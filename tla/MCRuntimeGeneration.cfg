SPECIFICATION Spec
CONSTANTS
    o1 = o1
    o2 = o2
    c1 = c1
    c2 = c2
    Operators = {o1, o2}
    Configs <- MCConfigs
    BootConfig = c1
    WorkersOf <- MCWorkersOf
    LevelOf <- MCLevelOf
    Kinds = {"plan", "activate", "rollback"}
    MaxArchived = 3
    MaxEntries = 3
    MaxRequests = 3
    Boot = Boot
    None = None
SYMMETRY Symmetry
CHECK_DEADLOCK FALSE
INVARIANT
    GenerationsDense
    TaskOwnership
    RollbackHonoursExpected
    RollbackRestoresConfig
    RecordsFaithful
    AuditComplete
