\* A client's node a, a relay b that is itself a miner's node, and a miner's node
\* m behind it: a call of the client with an explicit peer and one of the relay.
SPECIFICATION FairSpec
CONSTANTS
    a = a
    b = b
    m = m
    c1 = c1
    c2 = c2
    Nodes = {a, b, m}
    Calls = {c1, c2}
    Home <- ClientAndRelay
    Explicit = {c1}
    Miners = {b, m}
    Peers <- Chain
    Ads <- ChainAds
    Second = 10
    MaxClock = 2
INVARIANTS WaitersEntered OwnAnswer OneAnswerPerRequest
PROPERTIES CallsReturn MessagesTaken
CHECK_DEADLOCK FALSE
