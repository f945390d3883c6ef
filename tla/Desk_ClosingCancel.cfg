SPECIFICATION DeskSpec
CONSTANTS
    NInst = 2
    Info <- DeskInfo
    Rate <- DeskRate
    Snapshots <- DeskSnapshots
    Orders <- ClosingOrder
    Trades <- DeskTrades
    Ticks <- DeskTicks
    PriceTypes = {}
    Baselines = {}
    MaxOrders = 1
INVARIANT CommissionReleasedWhenIdle
