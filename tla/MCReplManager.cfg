SPECIFICATION Spec
CONSTANTS
    DocIds = {"d"}
    Specs <- SpecSet
    None = None
    GiveUpAfter = 1
    StampTries = 2
    MaxEdits = 3
    MaxFaults = 1
INVARIANTS
    DocJobsAreInTable
PROPERTIES
    EditsAreKept
    DocsAreServed
CHECK_DEADLOCK FALSE
