CONSTANTS
    Devices = {d1, d2}
    Keys = {k1, k2, k3}
    NoKey = NoKey
    None = None
    Damaged = Damaged
    Protocols = {"masque"}
    Attempts = 1
    Fronts = 1
    Lifetime = 2
    RenewBefore = 1
    MaxTime = 3
SPECIFICATION FairSpec
PROPERTY RefusedReplaced
CHECK_DEADLOCK FALSE
