SPECIFICATION FairFeedSpec
CONSTANTS
    d1 = d1
    d2 = d2
    d3 = d3
    q1 = q1
    Nobody = Nobody
    DocWrites = {d1, d2}
    QuietWrites = {}
    Compactions = {c1}
    Failures = {"reopen"}
    Crashes = FALSE
    DocOf <- MCDocOf
    Purges <- MCPurges
    Filtered = {"b"}
    Kinds = {"continuous", "longpoll", "normal"}
    ScanErrors = TRUE
    Heartbeat = TRUE
    Limit = 2
    DrainBatch = 1
    Deleted = TRUE
INVARIANTS FeedIsRight
PROPERTIES AckedWriteReachesFeed HeartbeatsFlow
CHECK_DEADLOCK FALSE
