\* Edits, deletes and reactions of one message, its jobs and its retention.
SPECIFICATION Spec
CONSTANTS
    Shapes = {"audio", "text"}
    Types = {"react", "edit", "delete"}
    LastMutation = 3
    LastMixed = 2
    LastInstant = 2
    Revisions = {0, 1, 2}
    MaxAttempts = 2
    MaxRequests = 1

CHECK_DEADLOCK FALSE
INVARIANTS
    TypeOK
    LatestIsShown
    HiddenStaysHidden
    OwnOutcome
PROPERTIES
    GoneStaysGone
    SpinnersEnd
