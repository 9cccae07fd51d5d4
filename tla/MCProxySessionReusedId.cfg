SPECIFICATION Spec
CONSTANTS
    w1 = w1
    w2 = w2
    s1 = s1
    s2 = s2
    read = read
    test = test
    fine = fine
    failed = failed
    Workers = {w1, w2}
    RawIds = {7}
    NoId = NoId
    Tools = {read, test}
    Texts = {fine, failed}
    FailedTexts = {failed}
    Sessions = {s1, s2}
    NoSession = NoSession
    FormOf <- Forms
    TextBytes <- Lengths
    ReferenceBytes = 2
    MaxSessions = 2
    MaxEntries = 3
    MaxMemoOutput = 4
    MaxMemoBytes = 5
    Answers <- SomeAnswers
    Configs <- OneSession
    MaxItems = 4
    MaxRequests = 2
    ReusesIds = TRUE
INVARIANTS
    PrefixStable
SYMMETRY Alike
CHECK_DEADLOCK FALSE
