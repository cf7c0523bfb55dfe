SPECIFICATION Spec
CONSTANTS
    i1 = i1
    i2 = i2
    i3 = i3
    Orders = {o1}
    Intents = {i1, i2, i3}
    Grain = 4
    Quantity <- MCQuantity
    FillIds = {f1, f2}
    Times = {0, 1, 2}
    BrokerIds = {b1}
    NoBrokerId = NoBrokerId
    NoOrder = NoOrder
    FillQuantities <- MCFillQuantities
INVARIANTS
    TypeOK
    EventsLeadToStatus
    FilledWithinQuantity
    LogsReplay
    FilledFollowsFills
PROPERTIES
    ImplementsLifecycle
CHECK_DEADLOCK FALSE
