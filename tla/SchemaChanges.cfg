SPECIFICATION Spec
SYMMETRY Symmetry
CONSTANTS
    Fields = {f1, f2}
    Dims = {d1, d2}
    Faults = {"lexical", "seal", "marks", "create", "merge"}
    MaxSeq = 2
    MaxChanges = 2
    MaxCommits = 1
    MaxCrashes = 2
INVARIANTS TypeOK FieldsExact ReopensWhole PutsFindTheirField
CHECK_DEADLOCK FALSE
