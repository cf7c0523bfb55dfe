SPECIFICATION Spec
CONSTANTS
    Jobs = {j1, j2}
    Markets = {"btc", "eth"}
    Stamps = {1, 2}
    Calls <- GoodCall
    Runs = {r1}
    Universe <- OneMarket
    MaxFaults <- IoOnce
    NoFile = NoFile
    Torn = Torn
    NoRow = NoRow
CHECK_DEADLOCK FALSE
INVARIANT
    LastGoodDataKept
