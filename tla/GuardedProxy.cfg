SPECIFICATION PatientSpec
CONSTANTS
    Requests = {r1, r2}
    Forms <- MixedForms
    Serialize = TRUE
    MaxRetries = 1
    MaxPremature = 3
    None = None
INVARIANTS
    TypeOK
    GuardHeld
    AttemptsBounded
PROPERTIES
    RequestSettles
\* The requests that were made have all been answered.
CHECK_DEADLOCK FALSE
