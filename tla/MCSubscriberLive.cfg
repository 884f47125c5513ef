SPECIFICATION FairSpec
CONSTANTS
    Pub = {p1}
    Conn = {c1, c2}
    NoConn = NoConn
    NoJob = NoJob
    RequestOutcome = {"tcpros", "malformed"}
    ChanCap = 2
    JobCap = 1
    MaxUpdates = 3
    MaxMsg = 2
    MaxCallbacks = 1
    MaxShutdowns = 1
INVARIANTS InOrder RecordsMirrorList
PROPERTIES DeliversFeed ShutdownTerminates ToldReaderStops
CHECK_DEADLOCK FALSE
