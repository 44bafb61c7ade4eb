SPECIFICATION MCSpec
CONSTANTS
    None = None
    Sends = {s1}
    Files = {f1}
    Requests = {r1, r2}
    Bodies <- ProtectedBodies
    MaxLimit = 1
    MaxTime = 2
    Parses <- MCParses
    Hour = 1
    Leeway = 0
    MaxGrants = 2
INVARIANTS
    PasswordPersisted
