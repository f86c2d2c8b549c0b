SPECIFICATION Spec
CONSTANTS
    Instants = {noon, night}
    NoDue = NoDue
    MaxReminderVersion = 2
    RiverMaxAttempts = 2
    MaxAttempts = 2
    Channels = {email}
    Receivers = {}
CHECK_DEADLOCK FALSE
PROPERTY
    TerminalImmutable
