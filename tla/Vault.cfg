SPECIFICATION MCSpec
CONSTANTS
    Users = {alice}
    Members = {alice}
    Ciphers = {c1}
    Attachments = {a1}
    Requests = {r1, r2}
    Data = {d1, d2}
    Kinds = {"folder"}
    TrashDays = 0
    MaxTime = 1
    NoUser = NoUser
    None = None
SYMMETRY Symmetry
INVARIANTS
    CiphersHold
    FilesAccounted
    VaultConsistent
