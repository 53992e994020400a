SPECIFICATION Spec
SYMMETRY Symmetry
CONSTANTS
    Clients = {c1, c2}
    Ladders = {l1, l2}
    Ids = {i1, i2}
    SyncPolicy = "PerRecord"
    Batches = FALSE
    CrashKinds = {"process", "power"}
    Faults = {"append", "apply", "lexical", "vector", "manifest", "truncate"}
    MaxSeq = 2
    MaxCommits = 2
    MaxCrashes = 1
INVARIANTS
    TypeOK
    AllOrNothing
    WatermarkTight
    StoresMatchLog
    LastWriterWins
    DiscardedIsStored
    CheckpointSound
    Retrievable
PROPERTIES
    NoWriteOverFailed
CHECK_DEADLOCK FALSE
