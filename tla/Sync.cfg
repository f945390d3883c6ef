SPECIFICATION FairSync
CONSTANTS
    MaxTrades = 2
    MaxLogins = 2
    MaxCompares = 1
INVARIANTS
    SyncTypeOK
    LocalExact
    HistoryExact
PROPERTIES
    
    EveryTradeBooked
    EveryQueryEnds
