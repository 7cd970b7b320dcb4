CONSTANTS
    Client = {c1, c2}
    Servers = 2
    MaxUpdates = 2
    ChannelSize = 2
    MaxAnswers = 3
    Buffer = 1
    MaxEvents = 2
    MaxEntries = 2
    MaxChanges = 2
    MaxAttempts = 3
    MaxCrashes = 2
    MaxCalls = 3
    MaxTimers = 1
SPECIFICATION MCSpec
CHECK_DEADLOCK FALSE
INVARIANT NothingIsLost
PROPERTIES StreamsEnd HealedAndQuiet
