CONSTANTS
    x = x
    y = y
    z = z
    spy = spy
    div = div
    split = split
    None = None
    Instruments <- MCInstruments
    OrderIds <- MCOrderIds
    Actions <- MCActions
    Kind <- MCKind
    Security <- MCSecurity
    EffectiveAt <- MCEffectiveAt
    PayAt <- MCPayAt
    Ratio <- MCRatio
    Amount <- MCAmount
    Last = 4
    Horizon = 14
    InitialCash = 10100
    Industry <- MCIndustry
    ByID <- MCByID
    Policy <- MCPolicy
    MaxHoldings = 3
    Band = 2
    Benchmark = spy
    Pasts <- MCPasts
    ActionOrder <- MCActionOrder
    Capacity <- MCCapacity
    MaxAttempts = 2
SPECIFICATION Spec
INVARIANTS
    TypeOK
    WithinPolicy
    CurveHonest
    NoLookAhead
CHECK_DEADLOCK FALSE
