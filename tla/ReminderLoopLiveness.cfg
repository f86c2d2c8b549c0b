SPECIFICATION FairSpec
CONSTANTS
    Instants = {noon}
    NoDue = NoDue
    MaxReminderVersion = 2
    RiverMaxAttempts = 3
    MaxAttempts = 2
    Channels = {email}
    Receivers = {hook, hook2}
CHECK_DEADLOCK FALSE
PROPERTIES
    CommandsAtomic
    FirstReceiptStands
    JobsEnd
