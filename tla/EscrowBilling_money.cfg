\* Pay as you go and prepaid: two requests on two threads, one crash.
CONSTANTS
    r1 = r1
    r2 = r2
    Requests = {r1, r2}
    Thread <- OwnThread
    Unreserving = {}
    ViaProxy = {r2}
    NoOne = NoOne
    Coin = 3
    Int64Max = 12
    Tokens = {1}
    TokensPerTknc = {1, 2}
    Totals = {0, 1, 4}
    Reservations = {3}
    MaxReservation = 3
    Fee = 1
    FlakyTransfers = TRUE
    Deposits = {2}
    OwnerSteps = {"lock", "load", "suspend", "expire"}
    MaxCost = 3
    MaxServed = 7
    MaxDeposited = 4
    MaxCrashes = 1
SPECIFICATION Spec
INVARIANTS NeverOverpays TransfersAccounted ReservationsCover OverbookingBound DebtBound PrepaidLimit AdmissionMatchesBilling
PROPERTIES ImplementsAccount
CHECK_DEADLOCK FALSE
