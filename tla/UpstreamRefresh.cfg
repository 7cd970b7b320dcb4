CONSTANTS
    Conn = {c1, c2}
    Locals = {TRUE}
    MaxCalls = 2
    MaxEvents = 2
SPECIFICATION UpSpec
CHECK_DEADLOCK FALSE
PROPERTIES AllConnectionsRefresh
