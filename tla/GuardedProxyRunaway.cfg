SPECIFICATION FairSpec
CONSTANTS
    Requests = {r1, r2}
    Forms <- ScreenedForms
    Serialize = TRUE
    MaxRetries = 1
    MaxPremature = 3
    None = None
PROPERTIES
    RequestSettles
CHECK_DEADLOCK FALSE
