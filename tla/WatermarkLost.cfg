\* A receipt processed while the provider is still answering the send.
SPECIFICATION Spec
CONSTANTS
    LastMessage = 1
    Events = {e1}
    MaxTries = 2
    ClientIds = FALSE
CHECK_DEADLOCK FALSE
INVARIANTS
    WatermarksReachAll
