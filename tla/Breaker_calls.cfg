SPECIFICATION FairSpec
CONSTANTS
    Targets = {t1, t2}
    Callers = {c1, c2, c3}
    NoTarget = NoTarget
    Threshold = 2
    OpenFor = 2
    Consulted = FALSE
    MaxFailures = 3
PROPERTIES
    OpenHolds
    Recovers
