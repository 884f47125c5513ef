SPECIFICATION Spec
CONSTANTS
    Pub = {p1, p2}
    Conn = {c1, c2}
    NoConn = NoConn
    NoJob = NoJob
    RequestOutcome = {"tcpros", "error", "malformed"}
    ChanCap = 1
    JobCap = 1
    MaxUpdates = 3
    MaxMsg = 1
    MaxCallbacks = 2
    MaxShutdowns = 1
SYMMETRY Symmetry
INVARIANTS TypeOK NoOrphanReader
PROPERTIES ToldOnce RunsAsLoop
CHECK_DEADLOCK FALSE
