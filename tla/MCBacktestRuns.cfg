SPECIFICATION Spec
CONSTANTS
    Jobs = {j1, j2}
    Markets = {"btc", "eth"}
    Stamps = {1, 2}
    Calls <- AnyCall
    Runs = {r1, r2}
    Universe <- BothMarkets
    MaxFaults <- EachOnce
    NoFile = NoFile
    Torn = Torn
    NoRow = NoRow
SYMMETRY Interchangeable
CHECK_DEADLOCK FALSE
INVARIANTS
    TypeOK
    DatasetArchived
    DatasetKept
    SucceededRunsAreKept
    LatestIsStored
    LatestReadable
    RunsHaveOutcome
