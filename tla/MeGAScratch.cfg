CONSTANTS
    Sessions = {s1, s2}
    f1 = f1
    f2 = f2
    f3 = f3
    Fps <- MCFps
    NoFp = NoFp
    BatchSize = 1
    MaxBatches = 2
    K = 1
    Depth = 2
    Width = 2
    Hash <- MCHash
    sendRecipeBatchSize = 2
    CacheCap = 2
    ChunksPerContainer = 2
    MeGA_THRESOLD = 0
    None = None
    MaxRestarts = 0
SPECIFICATION Spec
CHECK_DEADLOCK FALSE
INVARIANT DeltaEncodedAgainstRecordedBase
