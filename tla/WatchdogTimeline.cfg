CONSTANTS
    LostGraceSeconds = 2
    ReconnectWindowSeconds = 5
    Horizon = 10
    MaxSetBack = 1
    MaxSetForward = 3
SPECIFICATION Spec
INVARIANTS
    TypeOK
    ReconnectsSpaced
    ActsOnlyOnSustainedLoss
    GivesUpOnlyAfterReconnect
PROPERTIES
    ActsOncePerLoss
CHECK_DEADLOCK FALSE
