CONSTANTS
    URL = {u1, u2}
    NoURL = NoURL
    MaxCalls = 3
    Setups <- MCSetups
    TTLs = {2}
    Ticks = 4
    V4 = {"v4"}
    None = None
SPECIFICATION MCSpec
CHECK_DEADLOCK FALSE
INVARIANTS DialIsSafe AnswersAreRight
PROPERTIES AllConnsClose EveryQueryIsAnswered
