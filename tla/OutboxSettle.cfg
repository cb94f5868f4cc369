\* One worker, a provider whose rejections prove nothing, and every way a job ends.
SPECIFICATION FairSpec
CONSTANTS
    Workers = {w1}
    MaxLineage = 2
    JobSlots = 2
    MaxAttempts = 2
    MaxCopies = 1
    MaxDisruptions = 1
    RejectionIsProof = FALSE
    LiveReset = FALSE
INVARIANTS
    ProjectionAgrees
PROPERTIES
    EvidenceFence
    EventuallySettled
