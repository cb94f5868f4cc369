\* Is every waiting event settled?  Jobs may be reset under their worker.
SPECIFICATION FairSpec
CONSTANTS
    Events = {e1, e2}
    Workers = {w1}
    MaxAttempts = 2
    MaxDisruptions = 1
    SameSecond = FALSE
    LiveReset = TRUE
CHECK_DEADLOCK FALSE
PROPERTIES
    EventsSettle
    PullsEnd
