SPECIFICATION FairSpec
CONSTANTS
    Sess = {s1}
    NoSess = NoSess
    ConnectCallback = TRUE
    MayFail = {"write"}
    ChanCap = 1
    SessCap = 1
    QueueMax = 1
    MaxMsg = 1
    MaxShutdowns = 1
PROPERTIES SessionsCleared
CHECK_DEADLOCK FALSE
