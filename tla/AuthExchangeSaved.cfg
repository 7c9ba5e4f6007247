CONSTANTS
    Passwords = {old, new}
    NoPassword = NoPassword
    OneTimeCode = OneTimeCode
    GatewayReAsks = TRUE
    DisguisesOtp = FALSE
    MayLock = FALSE
    MaxForms = 4
SPECIFICATION Spec
PROPERTIES
    SavedPasswordWasAccepted
