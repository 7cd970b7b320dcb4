CONSTANTS
    Conn = {c1, c2}
    MaxPeriods = 4
    MaxRequests = 2
    n1 = n1
    Name = {n1, n2}
    Watcher = {w1, w2}
    ChannelSize = 1
    MaxRegistrations = 2
SPECIFICATION MCFairSpec
CHECK_DEADLOCK FALSE
INVARIANTS ExpiredIsEmpty IdleIsTimed HeldHasRoutine WatchersLearn
PROPERTIES AllCleaned ExecutorGoesOn
