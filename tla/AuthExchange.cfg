CONSTANTS
    Passwords = {old, new}
    NoPassword = NoPassword
    OneTimeCode = OneTimeCode
    GatewayReAsks = TRUE
    DisguisesOtp = TRUE
    MayLock = TRUE
    MaxForms = 4
SPECIFICATION Spec
INVARIANTS
    TypeOK
    OtpNeverStored
    StoredPasswordSubmittedOnce
PROPERTIES
    RejectedPasswordForgotten
    AcceptedPasswordKept
