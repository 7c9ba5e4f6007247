CONSTANTS
    PeerMayDrop = TRUE
    MayQuit = TRUE
    MaxBacklog = 2
    MaxQueue = 3
    MaxShots = 2
SPECIFICATION FairSpec
INVARIANTS
    TypeOK
    NoTunnelWhenDisconnected
    ConnectJoinsFinishedWorker
    TimerStopsWithSession
    SettlesDisconnected
PROPERTIES
    DisconnectFinishes
CHECK_DEADLOCK FALSE
