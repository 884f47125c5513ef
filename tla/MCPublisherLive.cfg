\* Two sessions, channels of one; a message, a notice and a token that find no room.
SPECIFICATION FairSpec
CONSTANTS
    Sess = {s1, s2}
    NoSess = NoSess
    ConnectCallback = FALSE
    MayFail = {"write"}
    ChanCap = 1
    SessCap = 1
    QueueMax = 1
    MaxMsg = 3
    MaxShutdowns = 1
ACTION_CONSTRAINT FirstAcceptedFirst
PROPERTIES FanProgress ShutdownProgress DisconnectRuns DeliversFeed
CHECK_DEADLOCK FALSE
