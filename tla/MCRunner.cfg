SPECIFICATION FairSpec
CONSTANTS
    Tools <- FileTools
    Args <- FileArgs
    Calls <- FileCalls
    Required = {"read"}
    Terminal = {"submit", "abort"}
    Prerequisites <- FilePrerequisites
    Batches <- FileBatches
    MaxIterations = 5
    MaxRetries = 1
    MaxToolErrors = 1
    MaxPremature = 3
    MaxViolations = 2
    None = None
INVARIANTS
    TypeOK
    RequestsBudgeted
PROPERTIES
    ImplementsContract
    RunEnds
\* A run that has returned takes no further step.
CHECK_DEADLOCK FALSE
