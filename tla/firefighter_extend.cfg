SPECIFICATION Spec
CONSTANTS
    Requests = {"first", "second"}
    Accounts = {"FF_EMERGENCY_01"}
    AccountOf <- SameAccount
    NoSession = "none"
    Duration <- Hours
    Extensions = {1}
    MaxExtensions = 2
    HasConnector = TRUE
PROPERTIES
    ExpiresAtItsEnd
