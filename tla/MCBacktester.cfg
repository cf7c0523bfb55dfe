SPECIFICATION Spec
CONSTANTS
    Scale = 100
    Rate = 100
    LastDay = 7
    Symbols <- TheSymbols
    SymbolOrder <- Order
    Inputs <- Runs
    NoBar = NoBar
CHECK_DEADLOCK FALSE
INVARIANTS
    TypeOK
    NoLookAhead
    TradesExplainBooks
    NeverShort
    ReviewWithinLimits
    DrawdownOfCurve
