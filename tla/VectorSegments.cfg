SPECIFICATION Spec
CONSTANTS
    Builds = {"search"}
    MaxSeq = 3
    MaxMerges = 1
    MaxUpsets = 2
    MaxEvents = 4
INVARIANTS TypeOK HiddenUnlessLeftOver CommittedIsFound HoldsLive ReopensLive
