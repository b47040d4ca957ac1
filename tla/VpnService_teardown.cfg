CONSTANTS
    Profiles = {proxy, strict}
    KillSwitch = {strict}
    Strict = {strict}
    ProxyMode = {proxy}
    NoProfile = NoProfile
    Rungs = 1
    MaxRetries = 1
    MaxJobs = 4
    Faults = {"spawn"}
SPECIFICATION FairSpec
INVARIANT KillSwitchUntilError
PROPERTIES DisconnectCompletes OnlyNewerEngineDetains
CHECK_DEADLOCK FALSE
