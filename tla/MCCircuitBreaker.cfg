SPECIFICATION Spec
CONSTANTS
    Requests = {r1, r2, r3}
    FailureThreshold = 2
    OpenFor = 1
    MaxProbes = 2
    MaxClock = 3
    None = None
INVARIANTS
    ProbeAccounting
    StatesExclusive
PROPERTY
    OnlyProbesDecide
    ProbeSlotFrees
