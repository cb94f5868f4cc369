\* Receipts, echoes and sends that overlap.
SPECIFICATION Spec
CONSTANTS
    LastMessage = 2
    Events = {e1, e2}
    MaxTries = 1
    ClientIds = TRUE
SYMMETRY EventSymmetry
CHECK_DEADLOCK FALSE
INVARIANTS
    TypeOK
    ShownIsTold
    ReceiptsStand
    ReachAllInTurn
PROPERTIES
    ShownNeverMovesBack
