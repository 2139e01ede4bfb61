\* Two pollers overflow a queue of two, twice; the marks hold one thread.
SPECIFICATION FairSpec
CONSTANTS
    Pollers = {p1, p2}
    Threads = {a, b}
    NoThread = NoThread
    QueueSize = 2
    MaxDirty = 1
    Recent = 1
    MaxEvents = 2
    MaxRetires = 1
CHECK_DEADLOCK FALSE
INVARIANTS TypeOK MarksAgree OneRepair
PROPERTIES HandledInOrder RepairsEnd MarksAreRefetched
