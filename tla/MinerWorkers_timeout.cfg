\* A timed-out request that ends after all: the mode stays LLM.
SPECIFICATION FairSpec
CONSTANTS
    w1 = w1
    w2 = w2
    r1 = r1
    r2 = r2
    Workers = {w1}
    Requests = {r1, r2}
    MaxQueue = 2
    CounterSize = 8
    Slow = {r1}
    MaxTokens <- Unlimited
    AnswerLength = 0
    Stops = FALSE
CHECK_DEADLOCK FALSE
PROPERTIES NoPermanentLLM
