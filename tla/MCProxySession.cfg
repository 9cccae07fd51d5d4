SPECIFICATION Spec
CONSTANTS
    w1 = w1
    w2 = w2
    s1 = s1
    s2 = s2
    read = read
    test = test
    fine = fine
    failed = failed
    Workers = {w1, w2}
    RawIds = {8, 9}
    NoId = NoId
    Tools = {read, test}
    Texts = {fine, failed}
    FailedTexts = {failed}
    Sessions = {s1, s2}
    NoSession = NoSession
    FormOf <- Forms
    TextBytes <- Lengths
    ReferenceBytes = 2
    MaxSessions = 2
    MaxEntries = 12
    MaxMemoOutput = 4
    MaxMemoBytes = 5
    Answers <- SomeAnswers
    Configs <- TwoSessions
    MaxItems = 4
    MaxRequests = 2
    ReusesIds = FALSE
INVARIANTS
    TypeOK
    PrefixStable
    ReferencesResolve
    MemoAccounts
SYMMETRY Alike
CHECK_DEADLOCK FALSE
