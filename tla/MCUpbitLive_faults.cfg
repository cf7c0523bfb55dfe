SPECIFICATION Spec
CONSTANTS
    Orders = {o1, o2}
    Intents = {i1}
    Priced = {i1}
    Quantity = 2
    Surplus = 1
    MaxFaults <- NobodyElse
    NoOrder = NoOrder
    NoRow = NoRow
    NoRemote = NoRemote
    NoSnapshot = NoSnapshot
SYMMETRY Symmetry
CONSTRAINT FewFaults
INVARIANTS
    TypeOK
    OneOrderPerIntent
    LiveOrderListed
    NeverOverbooked
    LogCoversProjection
    StoreConsistentWhenIdle
    NetworkFailureTrips
    InterruptedWasUnsent
PROPERTIES
    StoredOrderNeverReopens
