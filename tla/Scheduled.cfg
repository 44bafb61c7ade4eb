CONSTANTS
    Devices = {d1, d2}
    LoginIds = {r1, r2}
    Requests = {r1, r2}
    Patience = 1
    Users = {alice, bob}
    Nobody = Nobody
    Grants = {g1}
    Sends = {s1}
    Files = {f1}
    Ids = {i1, i2}
    Slots = {r1}
SPECIFICATION MCSpec
INVARIANTS
    RemindersJustified
    AnswersHold
PROPERTIES
    KeepsPromise
    NotDueForever
    RecoveryResolved
    ExpiredPurged
    AuthRequestsPurged
