\* Two workers, a queue of one, a request that may time out, and Stop.
SPECIFICATION FairSpec
CONSTANTS
    w1 = w1
    w2 = w2
    r1 = r1
    r2 = r2
    Workers = {w1, w2}
    Requests = {r1, r2}
    MaxQueue = 1
    CounterSize = 8
    Slow = {r1}
    MaxTokens <- OneShort
    AnswerLength = 2
    Stops = TRUE
INVARIANTS CountsActive RestoresPoW HandledOnce SleepersWoken
PROPERTIES EveryTaskAnswered StopReturns
CHECK_DEADLOCK FALSE
