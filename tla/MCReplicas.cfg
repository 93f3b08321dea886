SPECIFICATION EitherSpec
CONSTANTS
    Revs = {1, 2, 3}
    History <- MCHistory
    DeletedRevs = {2}
    RevsLimit = 3
    Pending = Pending
    Sites = {"a", "b"}
    Links <- BothWays
    MaxPurges = 1
    MaxLosses = 1
    Names = {"a", "b"}
    MaxJobs = 3
    MaxFailures = 2
INVARIANTS
    ReplicasAreSound
    OneRunnerPerName
PROPERTIES
    ImplementsEditSets
    ReplicasSettle
    CancelledJobsEnd
CHECK_DEADLOCK FALSE
