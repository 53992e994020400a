SPECIFICATION Spec
SYMMETRY Symmetry
CONSTANTS
    Clients = {c1, c2}
    Ladders = {l1}
    Ids = {i1, i2}
    SyncPolicy = "PerRecord"
    Batches = FALSE
    CrashKinds = {"process"}
    Faults = {"append", "sync", "apply", "lexical", "vector", "manifest", "truncate"}
    MaxSeq = 2
    MaxCommits = 2
    MaxCrashes = 2
INVARIANTS
    AllOrNothing
    DiscardedIsStored
    Retrievable
CHECK_DEADLOCK FALSE
