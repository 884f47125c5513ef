SPECIFICATION FairSpec
CONSTANTS
    NodeWords <- RosgoWords
    Mapping <- SwapMapping
    RawName <- SwapNames
    Programs = {{"subscribe", "close"}, {"advertise", "callbacks"}, {"serve", "close", "spin"}}
    MayFail = {"call", "accept"}
    NoLoop = NoLoop
    Ghost = Ghost
    ChanCap = 1
    MaxLoops = 2
    MaxOps = 3
    MaxChanges = 2
INVARIANTS TypeOK FreshList OrphansAreMisKeyed
PROPERTIES RefusedOnlyInGap NothingLeft LoopsRunAsLoops ShutdownReturns
CHECK_DEADLOCK FALSE
