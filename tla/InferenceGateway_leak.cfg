\* One request to the proxy.
CONSTANTS
    g1 = g1
    g2 = g2
    p1 = p1
    p2 = p2
    Gatewayed = {}
    Proxied = {p1}
    Cost = 2
SPECIFICATION Spec
INVARIANTS EveryReservationReleased
CHECK_DEADLOCK FALSE
