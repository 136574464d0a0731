\* One request to the gateway beside one to the proxy.
CONSTANTS
    g1 = g1
    g2 = g2
    p1 = p1
    p2 = p2
    Gatewayed = {g1}
    Proxied = {p1}
    Cost = 2
SPECIFICATION FairSpec
INVARIANTS CallbacksAlive RepliesInOrder AccountedOnce ProxyBillsForwarded GatewayAccountsForwarded PendingCovers
PROPERTIES ContextsEnd
CHECK_DEADLOCK FALSE
