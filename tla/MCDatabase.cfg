SPECIFICATION Spec
CONSTANTS
    Nobody = Nobody
    DocWrites = {d1, d2}
    QuietWrites = {q1}
    Compactions = {c1}
    Failures = {"apply", "commit", "open", "copy", "reopen"}
    Crashes = TRUE
SYMMETRY RequestSymmetry
INVARIANTS ToldIsServed AckedIsDurable QuietWritesReturn
PROPERTY SnapshotsExtend
CHECK_DEADLOCK FALSE
