SPECIFICATION Spec
CONSTANTS
    a = "a"
    b = "b"
    save = "save"
    ContractTools = {"a", "b"}
    Respond = "respond"
    Stranger = "stranger"
    MaxNames = 2
    Commands = {c1, c2}
    MaxBatch = 2
    MaxBatches = 3
    KeepRecent = 1
    Triggers <- Phases
    Thresholds <- Warnings
    MaxTurns = 3
    Emitters = {e1, e2}
    QueueCapacity = 1
    MaxEvents = 4
    MaxSinks = 2
    MaxCalls = 3
    ArgPieces = 2
    MaxTexts = 2
    MaxMessages = 4
    MaxUpstreamRetries = 2
    MaxAttempts = 3
    Captured <- TwoGroups
    Groups = {1, 2}
    Concurrency = 2
    MaxPerGroup = 2
    AlternativesPer = 2
    MaxStarts = 2
    MaxOutput = 4
    MaxShown = 1
    CapLimits = {4, 5, 10}
    MaxCapped = 6
    ScanLimit = 2
    MaxFolded = 9
    MaxPeriod = 4
    MaxRows = 2
    MaxScenarios = 2
    MaxRounds = 2
    MaxErrors = 1
    MaxLines = 3
    MaxRecords = 3
    MaxRequested = 1
    Callers = {c1, c2}
    Permits = 1
    Sessions = 1
    Capacity = 2
    Tools = {"a", "b", "save", "respond"}
    ProgramArgs = {1, 2}
    ProgramCalls <- LoopCalls
    Required = {"b"}
    Terminal = {"respond"}
    Prerequisites <- LoopPrerequisites
    MaxRetries = 2
    MaxPremature = 1
    MaxCallsChecked = 2
    NoArg = 0
    Full = 9
    Manual = 5
    Slots = {0, 2, 4}
    Elsewhere = {3}
    Default = 8
    Vram = {4, 8}
INVARIANTS
    TransformsReadBack
    CapKeeps
    NoFalseAllClear
    ContractsHold
    ToldBeforePassed
    CompactionKeeps
    EventsAccounted
    StreamDelivers
    WirePairs
    ServedOnce
    ReviewResumes
    DatasetsSound
    ScoringBounded
    GuardrailsHold
    StartupSound
\* Every component comes to rest when its input is done.
CHECK_DEADLOCK FALSE
