CONSTANTS
    Accounts = {alice}
    Orgs = {acme}
    Requests = {r1, r2}
    MaxRows <- MCMaxRows
SPECIFICATION MCSpec
SYMMETRY Symmetry
INVARIANTS
    DeletesAll
    DeletedStays
