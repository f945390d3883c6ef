SPECIFICATION FairSpec
CONSTANTS
    MaxOrders = 1
    MaxLogins = 2
    Foreign = {1}
    Lots = 2
    RingSize = 2
    OrderSysID <- MCOrderSysID
INVARIANTS
    TypeOK
    ReleasedOnce
    RecordsCurrent
PROPERTIES
    ReportsFindTheirOrder
    RecordsNeverRegress
    EndIsRecorded
