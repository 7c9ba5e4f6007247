CONSTANTS
    LostGraceSeconds = 1
    ReconnectWindowSeconds = 2
    FrontEnds = {"gui"}
    PolkitAnswers = {"granted", "dismissed"}
    Mtus = {1400}
    AdvertisedMtu = 1400
    MaxPipe = 2
    Horizon = 2
SPECIFICATION FairSpec
CHECK_DEADLOCK FALSE
PROPERTIES
    HelperStartReturns
