SPECIFICATION Spec
CONSTANTS
    Scale = 100
    Symbols = {"A"}
    Orders = {1, 2, 3}
    ByHand = {3}
    Terms <- TheTerms
    Moves <- TheMoves
    Prices <- ThePrices
    StartNav = 100
    Ages = {199, 200}
    daily_loss_limit = 5
    stale_market_data_seconds = 1
    allowed_symbols = {"A"}
    max_gross_exposure = 15
    reject_rate_window = 2
    reject_rate_threshold = 50
    cash_tolerance = 9
    position_tolerance = 0
    Reasons <- AllReasons
    Ids = {e1, e2, e3}
    e1 = e1
    e2 = e2
    e3 = e3
    Times = {1, 2}
    MaxFaults <- FaultsOnce
    NoEvent = NoEvent
    NoOrder = NoOrder
    NoResult = NoResult
CONSTRAINT Families
CHECK_DEADLOCK FALSE
INVARIANTS
    TypeOK
    StoreAndMemoryAgree
    MatchedMeansInSync
PROPERTY LiftedOnlyByReset
