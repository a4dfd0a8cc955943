SPECIFICATION Spec
CONSTANTS
    Workers = {w1, w2}
    Expected = 2
    Service = Service
    Admins = {}
    UnhealthyWindows = 2
    Grace = 2
    Cooldown = 2
    DrainTimeout = 1
    HookResults = {TRUE, FALSE}
    None = None
PROPERTY
    SafeRestart
    
