SPECIFICATION Spec
CONSTANTS
    Instants = {noon, night}
    NoDue = NoDue
    MaxReminderVersion = 2
    RiverMaxAttempts = 2
    MaxAttempts = 2
    Channels = {email}
    Receivers = {}
SYMMETRY InstantSymmetry
CONSTRAINT OneRetried
CHECK_DEADLOCK FALSE
INVARIANTS
    TypeOK
    SuppressionTruthful
    StaleNeverNotifies
    OnceUnlessUnrecorded
    CompletedJobSettled
PROPERTY
    OnlyRollbackCostsJobs
