SPECIFICATION FairSpec
CONSTANTS
    Clients = {c1, c2}
    Ladders = {l1}
    Ids = {i1, i2}
    SyncPolicy = "PerRecord"
    Batches = TRUE
    CrashKinds = {"process"}
    Faults = {"append", "lexical", "manifest", "truncate"}
    MaxSeq = 2
    MaxCommits = 1
    MaxCrashes = 0
INVARIANTS
    AckedDurable
PROPERTIES
    CallsReturn
    WatermarkCatchesUp
CHECK_DEADLOCK FALSE
