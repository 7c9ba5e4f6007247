CONSTANTS
    LostGraceSeconds = 1
    ReconnectWindowSeconds = 3
    FrontEnds = {"gui", "console"}
    PolkitAnswers = {"granted"}
    Mtus = {1300, 1400}
    AdvertisedMtu = 1400
    MaxPipe = 2
    Horizon = 5
SPECIFICATION FairSpec
INVARIANTS
    TypeOK
    LossAnsweredInTime
    MtuCorrectedInTime
    PauseNeverEndsSession
    NoConfigLeftBehind
PROPERTIES
    CancelEndsSession
    ImplementsLifecycle
CHECK_DEADLOCK FALSE
