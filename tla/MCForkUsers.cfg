\* Two connections: one that leaves while the other is served.
CONSTANTS
    Pids = {p1, p2}
    Names = {n1}
SPECIFICATION Spec
INVARIANT PrintsActiveUsers
CHECK_DEADLOCK FALSE
