SPECIFICATION Spec
CONSTANTS
    None = None
    Writes = {w1, w2}
    Compactions = {c1, c2}
    Deletes = {e1, e2}
    MaxDbs = 3
    Layouts = {TRUE, FALSE}
SYMMETRY RequestSymmetry
INVARIANTS RestartIsFaithful KeepsToItsOwnWrites
CHECK_DEADLOCK FALSE
