\* Three runs of the writer: one after the other, or a second while the first is there.
CONSTANTS
    Writers = {w1, w2, w3}
    Readers = {r1, r2}
    None = None
    EmptyMax = 1
SYMMETRY Symmetry
SPECIFICATION Spec
INVARIANTS
    OwnUntilRemoved
    NothingLeftBehind
    ReadsOneRun
CHECK_DEADLOCK FALSE
