\* A logout that forgets late, and a login.
SPECIFICATION Spec
CONSTANTS
    MaxCommands = 3
    Emojis = {e1, e2}
    NoEmoji = NoEmoji
    Slots = 2
    MaxSessions = 2
    Sessions = {1, 2}
CHECK_DEADLOCK FALSE
PROPERTY ForgetSparesLogins
