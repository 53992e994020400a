SPECIFICATION FairSpec
CONSTANTS
    Ladders = {l1, l2}
    MaxSeq = 2
    MaxFaults = 1
    MaxCrashes = 1
INVARIANTS TypeOK UnchangedMeansCurrent 
PROPERTIES ChangesReachReader
