SPECIFICATION Spec
CONSTANTS
    a = a
    b = b
    w1 = w1
    w2 = w2
    Configs = {a, b}
    NoConfig = NoConfig
    StrategyOf <- MCStrategyOf
    Last = 1
    Workers = {w1, w2}
    MaxAttempts = 2
    MaxRequests = 1
SYMMETRY Alike
VIEW View
CONSTRAINT Crowd
CHECK_DEADLOCK FALSE
INVARIANTS
    TypeOK
    InputMatches
PROPERTY DeskKept
