SPECIFICATION FairSpec
CONSTANTS
    Configs = {c1, c2}
    Files = {f1, f2}
    MaxSpawns = 3
    None = None
INVARIANTS
    TypeOK
    NoOrphan
    ConfigMatches
PROPERTIES
    StartDelivers
    CallsReturn
\* A manager that was dropped is used no more.
CHECK_DEADLOCK FALSE
