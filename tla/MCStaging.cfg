\* Three jobs with one name; what they stage may be more than the directory
\* is to hold, and fill it beside a file of an earlier run.
SPECIFICATION Spec
CONSTANTS
    Jobs = {j1, j2, j3}
    Parts = {p1}
    Earlier = {e1}
    EarlierSize = 1
    Paths = 2
    MaxStaged = 2
    Cap = 2
    MaxHours = 2
    None = None
CHECK_DEADLOCK FALSE
SYMMETRY Symmetry
INVARIANTS TypeOK ToldHolds AskedOnce
