\* One connection: its probes, reports and hints, its pairings, and its sends.
SPECIFICATION Spec
CONSTANTS
    LastInstant = 3
    LastProbe = 2
    LastReconnect = 1
    LastReport = 1
    Kinds = {"Disconnected", "LoggedOut"}
    Findings = {"match", "inactive", "unreachable", "limited"}
    LastHeld = 1
    LastCommand = 2
    PageSize = 1
    MaxChanges = 2
    Lease = 1
    Jitter = 1
    Interval = 2
    Backoff = 1
    RetryAfter = 2
    EventDelay = 1
CONSTRAINT Focus
CHECK_DEADLOCK FALSE
INVARIANTS
    TypeOK
    OpenOnlyOnLatest
    NextCheckIsNear
    ParkedIsCovered
PROPERTIES
    CooldownHonoured
    ReleasedOnProof
