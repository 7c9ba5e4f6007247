CONSTANTS
    PeerMayDrop = FALSE
    MayQuit = TRUE
    MaxBacklog = 0
    MaxQueue = 2
    MaxShots = 1
SPECIFICATION Spec
INVARIANTS
    NoMutualWait
CHECK_DEADLOCK FALSE
