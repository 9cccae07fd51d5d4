SPECIFICATION Spec
CONSTANTS
    t1 = t1
    t2 = t2
    t3 = t3
    None = None
    Tasks = {t1, t2}
    Priority <- TwoPriorities
    MaxIterations = 1
PROPERTIES
    SignalledTaskStops
\* The worker parks for ever once every submission is served.
CHECK_DEADLOCK FALSE
