SPECIFICATION Spec
CONSTANTS
    Builds = {"search", "stats"}
    MaxSeq = 2
    MaxMerges = 0
    MaxUpsets = 1
    MaxEvents = 3
INVARIANTS DeletedIsHidden
