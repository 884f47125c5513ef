SPECIFICATION Spec
CONSTANTS
    NodeWords <- RosgoWords
    Mapping = {}
    RawName <- SwapNames
    Programs = {{"callbacks", "advertise"}}
    MayFail = {}
    NoLoop = NoLoop
    Ghost = Ghost
    ChanCap = 1
    MaxLoops = 2
    MaxOps = 3
    MaxChanges = 2
INVARIANTS NoOrphanLoop
CHECK_DEADLOCK FALSE
