SPECIFICATION Spec
CONSTANTS
    Workers = {w1}
    Expected = 1
    Service = Service
    Admins = {a1}
    UnhealthyWindows = 2
    Grace = 1
    Cooldown = 1
    DrainTimeout = 1
    HookResults = {TRUE, FALSE}
    None = None
PROPERTY
    RestartHappens
    DrainEnds
