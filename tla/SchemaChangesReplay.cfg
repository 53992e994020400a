SPECIFICATION Spec
SYMMETRY Symmetry
CONSTANTS
    Fields = {f1, f2}
    Dims = {d1}
    Faults = {"marks"}
    MaxSeq = 2
    MaxChanges = 1
    MaxCommits = 1
    MaxCrashes = 1
INVARIANTS ReplayIsIdempotent
CHECK_DEADLOCK FALSE
