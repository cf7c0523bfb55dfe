SPECIFICATION FairSpec
CONSTANTS
    Orders = {o1, o2}
    Intents = {i1, i2}
    Priced = {}
    Quantity = 2
    Surplus = 0
    MaxFaults <- Others
    NoOrder = NoOrder
    NoRow = NoRow
    NoRemote = NoRemote
    NoSnapshot = NoSnapshot
PROPERTIES
    KnownOrdersSettle
