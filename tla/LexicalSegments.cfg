SPECIFICATION Spec
CONSTANTS
    Ids = {a, b}
    MaxSeq = 3
    MaxFlushes = 1
    MaxMerges = 1
    MaxUpsets = 2
    MaxEvents = 4
SYMMETRY IdSymmetry
INVARIANTS TypeOK LookupExact SearchesSeeCommit ReopensLive OneCopy CountsMatch
CHECK_DEADLOCK FALSE
