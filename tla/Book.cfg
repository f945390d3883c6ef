SPECIFICATION MCSpec
CONSTANTS
    NInst = 4
    Info <- FourKinds
    Rate <- MCRate
    Snapshots <- MCSnapshots
    Orders <- MCOrders
    Trades <- MCTrades
    Ticks <- MCTicks
    PriceTypes = {"2"}
    Baselines = {0}
    MaxCalls = 5
INVARIANTS
    TypeOK
    CurrMarginIsSum
    ProfitsAreSums
    FlatHoldsNothing
    FrozenMarginCovered
PROPERTIES
    FullCloseKeepsEquity
    OpenRequestStaysFunded
    FeeOnDatedLots
