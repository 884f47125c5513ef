SPECIFICATION FairSpec
CONSTANTS
    Call = {c1, c2}
    NoCall = NoCall
    MayFail = {"accept", "match", "decode", "handler", "result", "write"}
    CloseCap = 1
    JobCap = 1
    MaxShutdowns = 1
INVARIANTS TypeOK SuccessMeansHandled RefusalMeansReported SessionsTracked
PROPERTIES SpinProgress ShutdownProgress RunsAsLoop
CHECK_DEADLOCK FALSE
