\* The outbox against the one-copy promise, when a job may be handed to a second
\* worker while the first one still runs it.
SPECIFICATION Spec
CONSTANTS
    Workers = {w1, w2}
    MaxLineage = 2
    JobSlots = 1
    MaxAttempts = 2
    MaxCopies = 2
    MaxDisruptions = 1
    RejectionIsProof = TRUE
    LiveReset = TRUE
SYMMETRY WorkerSymmetry
INVARIANTS
    TypeOK
    AtMostOneCopy
    OneCallInFlight
    ExclusionInv
    FailureIsFinal
    CeilingHolds
PROPERTIES
    NeverBlindlyResent
    ImplementsOneCopy
