CONSTANTS
    Names = {home, office}
    NoName = NoName
    MaxProfiles = 3
    MaxHandEdits = 2
    MayMalform = TRUE
SPECIFICATION Spec
PROPERTIES
    MalformedFileKept
