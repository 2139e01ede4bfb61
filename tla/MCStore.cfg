\* Three saves and a deletion, with two crashes.
SPECIFICATION Spec
CONSTANTS
    Saves = {s1, s2, s3}
    Deletes = {d1}
    NoFile = NoFile
    Unknown = Unknown
    MaxCrashes = 2
CHECK_DEADLOCK FALSE
INVARIANTS NeverTorn OkIsKept
PROPERTY ImplementsFile
