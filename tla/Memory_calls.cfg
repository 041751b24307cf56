SPECIFICATION FairSpec
CONSTANTS
    c1 = c1
    c2 = c2
    c3 = c3
    Calls = {c1, c2, c3}
    Projects = {"p", "q"}
    Names = {"project_p", "project_q"}
    CollectionName <- SomeNames
    Jobs <- SomeJobs
    Batch = 2
    Texts <- SomeTexts
    Words <- SomeWords
    MaxChunk = 7
    Overlap = 4
INVARIANTS
    BatchesKept
    IndexComplete
    ChunksCover
    TurnsArrive
PROPERTIES
    CallsReturn
CHECK_DEADLOCK FALSE
