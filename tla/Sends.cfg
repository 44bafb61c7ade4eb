SPECIFICATION MCSpec
CONSTANTS
    None = None
    Sends = {s1}
    Files = {f1}
    Requests = {r1, r2}
    Bodies <- MCBodies
    MaxLimit = 1
    MaxTime = 2
    Parses <- MCParses
    Hour = 1
    Leeway = 0
    MaxGrants = 2
SYMMETRY Symmetry
INVARIANTS
    SendFilesAccounted
    PasswordStays
    ServerHolds
PROPERTIES
    AccessesCounted
