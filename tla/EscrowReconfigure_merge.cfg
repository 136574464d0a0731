\* Two requests on two threads beside one reconfiguration.
CONSTANTS
    r1 = r1
    r2 = r2
    Requests = {r1, r2}
    Thread <- OwnThread
    Unreserving = {}
    ViaProxy = {r2}
    NoOne = NoOne
    Coin = 2
    Int64Max = 10
    Tokens = {1}
    TokensPerTknc = {1}
    Totals = {0, 3}
    Reservations = {3}
    MaxReservation = 3
    Fee = 1
    FlakyTransfers = TRUE
    Deposits = {3}
    OwnerSteps = {"lock", "load", "suspend", "expire"}
    MaxCost = 2
    MaxServed = 2
    MaxDeposited = 3
    MaxCrashes = 1
    MaxReconfigures = 1
SPECIFICATION RFairSpec
INVARIANTS MergeInventsNothing
PROPERTIES LossNeedsRace RequestsReturn
CHECK_DEADLOCK FALSE
