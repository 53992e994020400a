SPECIFICATION Spec
SYMMETRY Symmetry
CONSTANTS
    Clients = {c1, c2}
    Ladders = {l1}
    Ids = {i1, i2}
    SyncPolicy = "Group"
    Batches = FALSE
    CrashKinds = {"process"}
    Faults = {}
    MaxSeq = 2
    MaxCommits = 1
    MaxCrashes = 1
INVARIANTS
    AllOrNothing
CHECK_DEADLOCK FALSE
