\* Two goroutines sync an inbox of two pages that changes, in any role.
SPECIFICATION FairSpec
CONSTANTS
    Syncers = {p1, p2}
    Catchups = {p1}
    NoSync = NoSync
    N = 3
    Gone = {3}
    PageSize = 1
    MaxPages = 2
    Attempts = 2
    MaxChanges = 1
    MaxRetires = 1
CHECK_DEADLOCK FALSE
INVARIANTS TypeOK CatchupDelivers
PROPERTIES ImplementsMirror ReconcilesInOrder SyncsEnd
