SPECIFICATION Spec
CONSTANTS
    Policies <- BothPolicies
    CrashKinds <- BothCrashes
    Faults <- AllFaults
    Inherited = 2
    MaxSeq = 4
    MaxDeferrals = 1
    MaxCrashes = 2
INVARIANTS TypeOK OwedSurvives NumbersUnused
PROPERTIES AppendsAboveCheckpoint IsDurable
