CONSTANTS
    None = None
    Uuids = {u1, u2}
    Tokens = {t1, t2}
    Devices = {d1}
    Keys = {k1, k2}
    Requests = {r1, r2}
    AttemptLimit = 2
    NoToken = NoToken
SPECIFICATION MCSpec
SYMMETRY Symmetry
INVARIANTS
    CodesHold
    ServerCodesHold
    FactorsRemoved
    FactorsRecoverable
