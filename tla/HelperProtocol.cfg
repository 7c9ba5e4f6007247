CONSTANTS
    MaxLines = 2
    MayOverflow = TRUE
    MaxMtus = 2
    ClientMayDie = TRUE
    HelperMayDie = TRUE
SPECIFICATION FairSpec
INVARIANTS
    ScriptGetsWholeBlock
PROPERTIES
    ImplementsCalls
    HelperEndsWithClient
    CallsReturn
CHECK_DEADLOCK FALSE
