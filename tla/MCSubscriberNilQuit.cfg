SPECIFICATION FairSpec
CONSTANTS
    Pub = {p1}
    Conn = {c1}
    NoConn = NoConn
    NoJob = NoJob
    RequestOutcome = {"tcpros", "error"}
    ChanCap = 1
    JobCap = 1
    MaxUpdates = 2
    MaxMsg = 1
    MaxCallbacks = 1
    MaxShutdowns = 1
PROPERTIES ShutdownTerminates
CHECK_DEADLOCK FALSE
