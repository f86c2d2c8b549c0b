SPECIFICATION Spec
CONSTANTS
    Phones = {phone}
    Emails = {email, newEmail}
    None = None
    Slots = {s1, s2}
    MaxRequests = 3
    MaxStarts = 2
    MaxClock = 2
    ChallengeTTL = 1
    CountedFor = 2
    MaxChallenges = 1
    MaxVerifyAttempts = 2
    CodeTTL = 2
    Cooldown = 1
SYMMETRY SlotSymmetry
CONSTRAINT OneAtWork
CHECK_DEADLOCK FALSE
INVARIANTS
    TypeOK
    SignInsRight
    HourlyLimit
    AdminNeverForked
    ChannelWritesKept
PROPERTY ConsumedForGood
