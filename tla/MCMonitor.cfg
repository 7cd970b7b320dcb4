CONSTANTS
    c1 = c1
    one = one
    Conn = {c1, c2}
    Watcher = {one}
    Selector <- MCSelector
    MaxCalls <- MCMaxCalls
    MaxEvents <- MCMaxEvents
    MaxSteps = 4
    MaxLoops = 3
    MaxRequests = 3
    MaxLosses = 3
    HasLiveness = TRUE
SPECIFICATION MCFairSpec
CHECK_DEADLOCK FALSE
INVARIANTS ViewsAgree WatchedByOneLoop
PROPERTIES StreamsSettle LossIsRepaired
