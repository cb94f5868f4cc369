\* A receipt and a read never share a second; jobs may be reset under a worker.
SPECIFICATION Spec
CONSTANTS
    Events = {e1, e2}
    Workers = {w1, w2}
    MaxAttempts = 2
    MaxDisruptions = 2
    SameSecond = FALSE
    LiveReset = TRUE
SYMMETRY Symmetry
CHECK_DEADLOCK FALSE
INVARIANTS
    TypeOK
    DecidedOnLaterRead
    HintsAreHonoured
