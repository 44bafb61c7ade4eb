SPECIFICATION MCSpec
CONSTANTS
    None = None
    Users = {alice, bob}
    Nobody = Nobody
    Grants = {g1}
    Requests = {r1, r2}
    DayLength = 2
    MaxWait = 1
    MaxTime = 3
SYMMETRY Symmetry
INVARIANTS
    RowsComplete
    DecisionsStand
    ServerDecisionsHold
PROPERTIES
    ApprovedAtMostADayEarly
