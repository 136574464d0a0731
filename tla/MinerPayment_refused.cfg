\* A client whose payments have all arrived is refused.
CONSTANTS
    r1 = r1
    r2 = r2
    Requests = {r1}
    Thread <- OwnThread
    Unreserving = {}
    ViaProxy = {}
    NoOne = NoOne
    Coin = 2
    Int64Max = 10
    Tokens = {1}
    TokensPerTknc = {1}
    Totals = {0}
    Reservations = {2}
    MaxReservation = 2
    Fee = 0
    FlakyTransfers = FALSE
    Deposits = {6}
    OwnerSteps = {}
    MaxCost = 2
    MaxServed = 4
    MaxDeposited = 6
    MaxCrashes = 0
    MaxTracked = 6
    MaxFailures = 0
SPECIFICATION MPSpec
PROPERTY RefusedOnlyUnpaid
CHECK_DEADLOCK FALSE
