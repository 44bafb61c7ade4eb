CONSTANTS
    None = None
    Uuids = {u1}
    Tokens = {t1}
    Devices = {d1}
    Keys = {k1}
    Requests = {r1}
    AttemptLimit = 2
    NoToken = NoToken
SPECIFICATION MCSpec
INVARIANT SingleFactorLogin
