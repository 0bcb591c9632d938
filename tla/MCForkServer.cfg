\* Three connections, the children of which are there together.
CONSTANTS
    Pids = {p1, p2, p3}
    Names = {n1}
SPECIFICATION FairSpec
INVARIANTS
    OnlyItsChild
    CountsArrivals
    UploadsKept
PROPERTY NextIsAccepted
CHECK_DEADLOCK FALSE
