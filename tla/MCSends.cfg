\* A text whose echoes meet a media send.
SPECIFICATION FairSpec
CONSTANTS
    Texts = {t1}
    Medias = {m1}
    QueueSize = 1
    MaxRetries = 1
    MaxRetires = 1
    Echoed = {"accepted", "delivered"}
    None = None
CHECK_DEADLOCK FALSE
INVARIANTS TypeOK AnsweredOnce StatusesAdvance StatusesAttested EchoFindsItsSend
PROPERTY RequestsAnswered
