CONSTANTS
    Profiles = {strict}
    KillSwitch = {strict}
    Strict = {strict}
    ProxyMode = {}
    NoProfile = NoProfile
    Rungs = 1
    MaxRetries = 1
    MaxJobs = 4
    Faults = {}
SPECIFICATION Spec
INVARIANT StrictLockdownHolds
CHECK_DEADLOCK FALSE
