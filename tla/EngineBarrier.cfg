SPECIFICATION Spec
SYMMETRY Symmetry
CONSTANTS
    Clients = {c1, c2}
    Ladders = {l1}
    Ids = {i1, i2}
    SyncPolicy = "PerRecord"
    Batches = FALSE
    CrashKinds = {"process"}
    Faults = {"sync"}
    MaxSeq = 2
    MaxCommits = 1
    MaxCrashes = 1
INVARIANTS
    WalNoLessDurable
CHECK_DEADLOCK FALSE
