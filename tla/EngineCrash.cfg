SPECIFICATION Spec
SYMMETRY Symmetry
CONSTANTS
    Clients = {c1, c2}
    Ladders = {l1}
    Ids = {i1, i2}
    SyncPolicy = "PerRecord"
    Batches = FALSE
    CrashKinds = {"process"}
    Faults = {"sync", "apply", "vector"}
    MaxSeq = 3
    MaxCommits = 1
    MaxCrashes = 1
INVARIANTS
    TypeOK
    AllOrNothing
    WatermarkTight
    StoresMatchLog
    LastWriterWins
    DiscardedIsStored
    CheckpointSound
    Retrievable
PROPERTIES
    NoWriteOverFailed
CHECK_DEADLOCK FALSE
