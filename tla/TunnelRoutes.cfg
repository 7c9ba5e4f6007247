CONSTANTS
    Octets = 2
    OctetBits = 2
    NoAddress = NoAddress
    Ip6 = Ip6
    LineLimit = 2
    Offers <- MCOffers
    Reoffers <- MCReoffers
SPECIFICATION Spec
INVARIANTS
    NothingRefused
    MissingMeansFailed
    TakenBack
CHECK_DEADLOCK FALSE
