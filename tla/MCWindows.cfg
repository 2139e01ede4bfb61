\* A window and a page of three, six messages, one of them still to come, a
\* tombstone and one without content.
SPECIFICATION Spec
CONSTANTS
    Workers = {w1, w2}
    M = 6
    Start = 5
    Blank = {3, 4}
    Tombstones = {4}
    Window = 3
    CachePer = 1
    MaxFetches = 2
    MaxDeletes = 1
    MaxRetires = 1
CHECK_DEADLOCK FALSE
SYMMETRY Symmetry
INVARIANTS TypeOK NoGaps
PROPERTY DropsOnlyGone
