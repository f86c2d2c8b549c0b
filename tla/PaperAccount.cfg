CONSTANTS
    stock = stock
    div = div
    split = split
    Instruments <- MCInstruments
    OrderIds = {o1, o2}
    Actions <- MCActions
    Kind <- MCKind
    Security <- MCSecurity
    EffectiveAt <- MCEffectiveAt
    PayAt <- MCPayAt
    Ratio <- MCRatio
    Amount <- MCAmount
    Last = 3
    Horizon = 9
    InitialCash = 6
    Quantities = {2}
    Price <- MCPrice
    Capacities = {2}
    None = None
SPECIFICATION Spec
SYMMETRY Symmetry
INVARIANTS
    TypeOK
    LedgerBalances
    ReservationsBacked
    HoldingsReplay
    CapacityShared
    NavComplete
PROPERTY OrdersEndOnce
