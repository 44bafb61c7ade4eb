CONSTANTS
    None = None
    Members = {"member"}
    Collections = {1, 2}
    Groups = {"group"}
    Flags <- FlagsDef
    Grants <- GrantsDef
    Requests = {r1, r2}
    MaxOps = 2
    alice = alice
    cipher = cipher
    folder1 = folder1
    folder2 = folder2
    collection = collection
    theGroup = theGroup
    member1 = member1
    member2 = member2
SPECIFICATION MCSpec
SYMMETRY Symmetry
INVARIANTS
    LinksIntact
    ReplaceExact
    SyncAgrees
    AccessHolds
