SPECIFICATION Spec
CONSTANTS
    Builds = {"search"}
    MaxSeq = 2
    MaxMerges = 1
    MaxUpsets = 1
    MaxEvents = 3
INVARIANTS DeletedIsHidden
