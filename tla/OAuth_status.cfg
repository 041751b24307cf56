SPECIFICATION FairSpec
CONSTANTS
    Procs = {p1, p2}
    Free = Free
    MaxFlows = 2
PROPERTIES
    StatusAnswered
