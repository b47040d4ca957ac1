CONSTANTS
    Devices = {d1, d2}
    Keys = {k1, k2, k3}
    NoKey = NoKey
    None = None
    Damaged = Damaged
    Protocols = {"masque", "wg", "gool", "carried"}
    Attempts = 2
    Fronts = 2
    Lifetime = 3
    RenewBefore = 1
    MaxTime = 4
SPECIFICATION Spec
INVARIANTS TypeOK CredentialsCurrent HopsDiffer
PROPERTY StoreSpec
SYMMETRY Symmetry
