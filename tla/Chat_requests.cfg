SPECIFICATION FairSpec
CONSTANTS
    Requests = {"r1", "r2"}
    Cap = 1
    Bodies <- SomeBodies
    Shapes <- SomeShapes
    Default = Default
    Targets <- SomeTargets
    NoTarget = NoTarget
    Threshold = 2
    OpenFor = 1
    MaxFailures = 2
INVARIANTS
    TypeOK
    InOrder
    
    HitsMatch
    RemembersSent
PROPERTIES
    BreakerSpec
    RequestsEnd
CHECK_DEADLOCK FALSE
