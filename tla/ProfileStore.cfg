CONSTANTS
    Names = {home, office}
    NoName = NoName
    MaxProfiles = 3
    MaxHandEdits = 2
    MayMalform = TRUE
SPECIFICATION Spec
INVARIANTS
    TypeOK
    FileNeverPartial
    FileHoldsWhatIsShown
    SelectionExists
