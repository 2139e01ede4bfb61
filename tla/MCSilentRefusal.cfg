\* One login whose confirmation the phone refuses.
SPECIFICATION Spec
CONSTANTS
    Logins = {l1}
    Restores = {}
    Logouts = {}
    EventLoop = EventLoop
    NoEra = NoEra
    NoFile = NoFile
    RepeatedHello = FALSE
    MaxRelayEvents = 0
CHECK_DEADLOCK FALSE
PROPERTY FailedPairingReported
