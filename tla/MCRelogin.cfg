\* Two logins and a logout of one account; commands end, so the system stops.
SPECIFICATION Spec
CONSTANTS
    Logins = {l1, l2}
    Restores = {}
    Logouts = {o1}
    EventLoop = EventLoop
    NoEra = NoEra
    NoFile = NoFile
    RepeatedHello = FALSE
    MaxRelayEvents = 0
CHECK_DEADLOCK FALSE
SYMMETRY Symmetry
INVARIANTS TypeOK AtMostOneLiveLoop LoopPollsStoppable ClosedServesNoLoop
INVARIANTS OnlineIsEarned CleanLogoutHolds
