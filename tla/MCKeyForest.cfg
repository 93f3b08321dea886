SPECIFICATION Spec
CONSTANTS
    Revs = {1, 2, 3, 4}
    History <- MCHistory
    DeletedRevs = {4}
    RevsLimit = 2
    Pending = Pending
    MaxSeq = 2
INVARIANTS
    ForestIsSound
    ReplicasConverge
PROPERTIES
    ImplementsRevForest
    StaleRowsAreServed
CHECK_DEADLOCK FALSE
