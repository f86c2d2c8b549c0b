SPECIFICATION Spec
CONSTANTS
    TodoIds = {milk}
    SessionIds = {s1}
    ConfirmationIds = {c1, c2}
    Turns = {u1}
    Confirms = {p1, p2}
    None = None
    MaxSelectable = 10
    MaxVersion = 3
SYMMETRY Symmetry
CHECK_DEADLOCK FALSE
INVARIANTS
    TypeOK
    DeletionsConfirmed
    LateNeverDeletes
    TurnsAtomic
    TranscriptsAnchored
