SPECIFICATION MCSpec
CONSTANTS
    Null = Null
    Devices = {d1, d2}
    Requests = {r1, r2}
    MaxFresh = 5
SYMMETRY Symmetry
INVARIANTS
    RotationHolds
    DisabledHolds
    DevicesHold
    ServerSessionsHold
    RegisteredOnce
    KeyOpensItems
    RateHolds
