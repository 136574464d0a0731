\* The same nodes; the answer of the miner's node on its way back through b.
SPECIFICATION Spec
CONSTANTS
    a = a
    b = b
    m = m
    c1 = c1
    c2 = c2
    Nodes = {a, b, m}
    Calls = {c1, c2}
    Home <- ClientAndRelay
    Explicit = {c1}
    Miners = {b, m}
    Peers <- Chain
    Ads <- ChainAds
    Second = 10
    MaxClock = 2
PROPERTY RelaysTheAnswer
CHECK_DEADLOCK FALSE
