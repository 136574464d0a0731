\* Confirmation tracking with two concurrent requests.
CONSTANTS
    r1 = r1
    r2 = r2
    Requests = {r1, r2}
    Thread <- OwnThread
    Unreserving = {}
    ViaProxy = {r2}
    NoOne = NoOne
    Coin = 2
    Int64Max = 10
    Tokens = {1}
    TokensPerTknc = {1, 2}
    Totals = {0}
    Reservations = {3}
    MaxReservation = 3
    Fee = 1
    FlakyTransfers = TRUE
    Deposits = {3}
    OwnerSteps = {"lock", "load", "suspend", "expire"}
    MaxCost = 2
    MaxServed = 4
    MaxDeposited = 6
    MaxCrashes = 0
SPECIFICATION Spec
INVARIANTS EveryTransferTracked
CHECK_DEADLOCK FALSE
