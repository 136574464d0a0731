\* A gateway request and a proxy request on their loops, one crash or restart.
CONSTANTS
    r1 = r1
    r2 = r2
    Requests = {r1, r2}
    Thread <- OwnThread
    Unreserving = {}
    ViaProxy = {r2}
    NoOne = NoOne
    Coin = 1
    Int64Max = 10
    Tokens = {1}
    TokensPerTknc = {1}
    Totals = {0}
    Reservations = {1}
    MaxReservation = 1
    Fee = 0
    FlakyTransfers = TRUE
    Deposits = {3}
    OwnerSteps = {"load"}
    MaxCost = 1
    MaxServed = 2
    MaxDeposited = 3
    MaxCrashes = 1
    MaxTracked = 3
    MaxFailures = 1
SPECIFICATION MPSpec
INVARIANTS CountedDebtBound
PROPERTIES RefusalsExplained
CHECK_DEADLOCK FALSE
