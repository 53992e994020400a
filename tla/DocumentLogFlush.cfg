SPECIFICATION FlushFaultSpec
CONSTANTS
    Policies = {"PerRecord"}
    CrashKinds = {"process"}
    Faults = {}
    Inherited = 1
    MaxSeq = 3
    MaxDeferrals = 1
    MaxCrashes = 1
INVARIANT OwedSurvives
