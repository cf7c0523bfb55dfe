SPECIFICATION Spec
CONSTANTS
    Symbols <- TheSymbols
    Scale = 10
    InitialCash = 38
    InitialLots <- Lots
    Orders = {o1, o2}
    Intents <- SoldTwice
    InitialPrice <- Prices
    Rate = 100
    Slippage = 4
    Commission = 9
    Lot_size = 1
    MinNotional = 0
    Policies <- Full
    MaxFaults <- NoFaults
    NoOrder = NoOrder
    NoRow = NoRow
CHECK_DEADLOCK FALSE
INVARIANT
    FillsPreserved
