SPECIFICATION MCSpec
CHECK_DEADLOCK FALSE
CONSTANTS
    None = None
    Orgs = {o1, o2}
    Users = {alice, bob}
    Members = {1, 2}
    Requests = {r1, r2}
    Types = {0, 2}
    Lists = {{1, 2}}
    Keys = {TRUE}
SYMMETRY Symmetry
INVARIANTS
    RowsHold
    PoliciesHold
    OneApiKey
    RolesGranted
PROPERTIES
    OwnerRemains
