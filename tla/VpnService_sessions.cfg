CONSTANTS
    Profiles = {plain, strict}
    KillSwitch = {strict}
    Strict = {strict}
    ProxyMode = {}
    NoProfile = NoProfile
    Rungs = 2
    MaxRetries = 1
    MaxJobs = 4
    Faults = {"spawn", "establish", "config"}
SPECIFICATION Spec
INVARIANTS TypeOK NoOrphanEngine DoomedEngine
PROPERTY SlotSpec
CHECK_DEADLOCK FALSE
