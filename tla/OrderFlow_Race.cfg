SPECIFICATION Spec
CONSTANTS
    MaxOrders = 1
    MaxLogins = 1
    Foreign = {}
    Lots = 1
    RingSize = 8
    OrderSysID <- MCOrderSysID
INVARIANT EndsMatchRemote
