SPECIFICATION Spec
CONSTANTS
    Revs = {1, 2}
    History <- MCHistory
    DeletedRevs = {2}
    RevsLimit = 2
    Pending = Pending
    Docs = {a, b}
    LocalIds = {"l"}
    Securities = {"none"}
    NoSecurity = "none"
    IoErrors = TRUE
    MaxSeq = 2
    MaxBatch = 2
    MaxLocalRev = 0
SYMMETRY DocSymmetry
INVARIANTS FeedIsExact AckedRevisionsSurvive HeadersAreSound
PROPERTIES SaveNeverBranches AckedStateIsKept
