SPECIFICATION MCSpec
CONSTANTS
    NInst = 1
    Info <- DceAlone
    Rate <- MCRate
    Snapshots <- FreshSnapshots
    Orders = {}
    Trades <- LotByLot
    Ticks <- OneTick
    PriceTypes = {"2"}
    Baselines = {0}
    MaxCalls = 5
PROPERTY FeeOnTradedLots
