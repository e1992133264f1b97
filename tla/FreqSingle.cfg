CONSTANTS
    Sessions = {s1}
    f1 = f1
    f2 = f2
    f3 = f3
    Fps <- MCFps
    NoFp = NoFp
    BatchSize = 2
    MaxBatches = 3
    K = 1
    Depth = 2
    Width = 2
    Hash <- MCHash
    sendRecipeBatchSize = 2
    CacheCap = 1
    ChunksPerContainer = 1
    OffNum = 1
    OffDen = 2
    MagicFps = {}
    Forward_Flag = FALSE
    None = None
    MaxRestarts = 1
SPECIFICATION Spec
CHECK_DEADLOCK FALSE
INVARIANT TypeOK HeapAddrValid RecipeResolvable SketchNeverUndercounts DeltaBaseIsWhole
PROPERTY RecipeRefinement ClassifyFindsHeapEntries
