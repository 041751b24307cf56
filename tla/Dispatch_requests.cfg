SPECIFICATION FairSpec
CONSTANTS
    Procs = {"p1", "p2"}
    Sources = {"s1"}
    MaxAttempts = 2
    Window = 1
    Asked <- SomeAsked
    Names = {"x", "combo:x"}
    Bare <- SomeBare
    MaxSaves = 1
INVARIANTS
    BurstBound
    TenantRight
    ServedAsSaved
    ListAgrees
PROPERTIES
    LetInAgain
CHECK_DEADLOCK FALSE
