SPECIFICATION FairSpec
CONSTANTS
    Orders = {o1}
    Intents = {i1}
    Priced = {}
    Quantity = 2
    Surplus = 0
    MaxFaults <- Network
    NoOrder = NoOrder
    NoRow = NoRow
    NoRemote = NoRemote
    NoSnapshot = NoSnapshot
PROPERTIES
    SentOrdersBecomeKnown
