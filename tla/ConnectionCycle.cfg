\* A report, a health read applied before it, and the report of the next cycle.
SPECIFICATION Spec
CONSTANTS
    LastInstant = 3
    LastProbe = 2
    LastReconnect = 0
    LastReport = 1
    Kinds = {"Disconnected"}
    Findings = {"match", "inactive"}
    LastHeld = 0
    LastCommand = 0
    PageSize = 1
    MaxChanges = 1
    Lease = 2
    Jitter = 0
    Interval = 3
    Backoff = 1
    RetryAfter = 2
    EventDelay = 1
CHECK_DEADLOCK FALSE
INVARIANT LaterCycleIsStored
