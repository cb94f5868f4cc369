\* A conversation of three messages, one of which may arrive late, and another one.
SPECIFICATION Spec
CONSTANTS
    LastMessage = 4
    Elsewhere = {1}
    Behind = {2}
    Page = 1
    MaxPages = 2
    MaxActs = 2
    MaxFaults = 1
CHECK_DEADLOCK FALSE
INVARIANTS
    TypeOK
    OnlyCurrentIsShown
PROPERTIES
    CatchesUp
