CONSTANTS
    Sessions = {s1}
    f1 = f1
    f2 = f2
    f3 = f3
    Fps <- MCFps
    NoFp = NoFp
    BatchSize = 2
    MaxBatches = 3
    K = 1
    Depth = 2
    Width = 2
    Hash <- MCHash
    sendRecipeBatchSize = 2
    CacheCap = 1
    ChunksPerContainer = 1
    MeGA_THRESOLD = 1
    None = None
    MaxRestarts = 2
SPECIFICATION Spec
CHECK_DEADLOCK FALSE
INVARIANT TypeOK HeapFreqWithinSketch
PROPERTY RecipeRefinement
