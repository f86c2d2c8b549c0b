SPECIFICATION MCSpec
CONSTANTS
    None = None
    chan = chan
    todo = todo
    dlv = dlv
    sess = sess
    msg = msg
    oldTodo = oldTodo
    t1 = t1
    t2 = t2
    t3 = t3
    d1 = d1
    s1 = s1
    s2 = s2
    s3 = s3
    m1 = m1
    Records <- MCRecords
    Kind <- MCKind
    Parent <- MCParent
    Fingerprints <- MCFingerprints
    Bundles <- MCBundles
    Legacy <- MCLegacy
    ExportRows <- MCRows
    RowKind <- MCRowKind
    RowParent <- MCRowParent
    RowPosition <- MCPosition
    PageSize = 2
    ListLimit = 2
    MaxChanges = 2
    Imports = {i1, i2, i3}
    Calls = {p1, p2}
SYMMETRY Symmetry
CONSTRAINT TwoPending
CHECK_DEADLOCK FALSE
INVARIANTS
    TypeOK
    ImportedOnce
    ReportTruthful
    ParentsExist
    PreviewKept
    BundleFaithful
