CONSTANTS
    Gateways = {g1, g2, g3}
    None = None
    Pins = {None, g2}
    Assigned = g1
    Modes = {TRUE, FALSE}
    Iran = {g1, g2}
    Ttl = 2
    PipeAfter = 2
    RankedGateways = 2
    MaxTime = 3
    MaxKills = 1
SPECIFICATION FairSpec
INVARIANTS TypeOK AvoidedNeverUsed
PROPERTY Reconnects
