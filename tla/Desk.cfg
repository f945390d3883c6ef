SPECIFICATION DeskSpec
CONSTANTS
    NInst = 2
    Info <- DeskInfo
    Rate <- DeskRate
    Snapshots <- DeskSnapshots
    Orders <- DeskOrders
    Trades <- DeskTrades
    Ticks <- DeskTicks
    PriceTypes = {}
    Baselines = {}
    MaxOrders = 2
INVARIANTS
    DeskTypeOK
    OpeningLotsExact
    ClosingLotsExact
    BookMirrorsExchange
    MarginReleasedWhenIdle
