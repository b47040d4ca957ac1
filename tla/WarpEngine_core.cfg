CONSTANTS
    Endpoints = {e1, e2, e3}
    None = None
    Pins = {None, e2}
    Assigned = e1
    MaxFails = 2
    Cooldown = 2
    MaxKills = 1
    Edges = {e1, e2, e3}
    NoPair = NoPair
    PairCooldown = 2
    MaxExits = 1
SPECIFICATION WarpSpec
INVARIANTS ParkedNotUsed PairsOK
PROPERTIES WgReconnects GoolReconnects
