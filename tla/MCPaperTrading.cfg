SPECIFICATION Spec
CONSTANTS
    Symbols <- TheSymbols
    Scale = 10
    InitialCash = 38
    InitialLots <- Lots
    Orders = {o1, o2, o3}
    Intents <- TwoWays
    InitialPrice <- Prices
    Rate = 100
    Slippage = 4
    Commission = 9
    Lot_size = 5
    MinNotional = 0
    Policies <- AnyPolicy
    MaxFaults <- AnyFault
    NoOrder = NoOrder
    NoRow = NoRow
CONSTRAINT OneSubject
CHECK_DEADLOCK FALSE
INVARIANTS
    TypeOK
    CashNeverNegative
    BooksFollowFills
    ProfitWithinRounding
    IntentExecutedOnce
    ExecutedOrdersArePaid
    StoredBooksAgreeWhenIdle
