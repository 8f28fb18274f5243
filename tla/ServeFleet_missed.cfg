SPECIFICATION Spec
CONSTANTS
    Workers = {"w1", "w2"}
    Conns = {"c1", "c2"}
    NoConn = "none"
    Idle = "idle"
    Scenarios <- HotPair
    MaxPlans = 2
    MaxHangups = 1
CHECK_DEADLOCK FALSE
PROPERTY SwapReachesAll
