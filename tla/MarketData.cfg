SPECIFICATION FairMd
CONSTANTS
    Capacity = 4
    Values = {a, b}
    None = None
    SubscribeList = {a}
    MaxConnects = 2
    MaxCalls = 1
INVARIANTS
    MdTypeOK
    SlotsApart
    AliveExactly
PROPERTIES
    ImplementsFifo
    EveryTickPopped
    LoginSubscribes
    MdStopReturns
