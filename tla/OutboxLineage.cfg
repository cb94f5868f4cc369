\* Three attempts, and rejections that prove nothing.
SPECIFICATION Spec
CONSTANTS
    Workers = {w1}
    MaxLineage = 3
    JobSlots = 1
    MaxAttempts = 1
    MaxCopies = 1
    MaxDisruptions = 0
    RejectionIsProof = FALSE
    LiveReset = FALSE
PROPERTIES
    LineageFence
