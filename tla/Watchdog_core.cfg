SPECIFICATION FairSpec
CONSTANTS
    FailCycles = 3
    HealthyChecks = 3
    MaxMigrates = 2
    Window = 2
    MaxSessions = 2
PROPERTIES DeadTunnelRestarted OneHopAtATime RestartEarned
CHECK_DEADLOCK FALSE
