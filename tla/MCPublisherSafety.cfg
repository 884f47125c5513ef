SPECIFICATION Spec
CONSTANTS
    Sess = {s1, s2}
    NoSess = NoSess
    ConnectCallback = TRUE
    MayFail = {"accept", "header", "write"}
    ChanCap = 1
    SessCap = 1
    QueueMax = 2
    MaxMsg = 3
    MaxShutdowns = 1
SYMMETRY Symmetry
INVARIANTS TypeOK SessionsTracked UnbrokenTail
PROPERTIES RunsAsLoop
CHECK_DEADLOCK FALSE
