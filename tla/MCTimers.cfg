CONSTANTS
    Conn = {c1, c2}
    None = None
    MaxTime = 7
    Lifetimes <- TwoTokens
    MaxRefreshes = 2
    Defaults = {0, 4}
    Offers <- SomeOffers
    RequestTimeout = 1
    MaxRegisters = 3
    Endpoint = {1, 2}
    MaxRequests = 3
    MaxChanges = 2
    MaxCalls = 2
    MaxEvents = 1
SPECIFICATION MCSpec
CHECK_DEADLOCK FALSE
INVARIANTS OneGoroutine
PROPERTIES InTime MismatchIsClosed
