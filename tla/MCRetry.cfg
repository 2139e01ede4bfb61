\* A restored session, relay events and a logout, under fairness.
SPECIFICATION FairSpec
CONSTANTS
    Logins = {}
    Restores = {r1}
    Logouts = {o1}
    EventLoop = EventLoop
    NoEra = NoEra
    NoFile = NoFile
    RepeatedHello = FALSE
    MaxRelayEvents = 2
CHECK_DEADLOCK FALSE
PROPERTIES Reconnects PublishesInOrder
