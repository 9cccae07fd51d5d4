SPECIFICATION FairSpec
CONSTANTS
    t1 = t1
    t2 = t2
    t3 = t3
    None = None
    Tasks = {t1, t2, t3}
    Priority <- MixedPriority
    MaxIterations = 1
INVARIANTS
    TypeOK
    NoLostWakeup
    SignalsOutranked
    ExactlyOnePlace
    SlotConsistent
PROPERTIES
    ResolvesUnlessLocked
    ImplementsService
\* The worker parks for ever once every submission is served.
CHECK_DEADLOCK FALSE
