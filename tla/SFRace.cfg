CONSTANTS
    s1 = s1
    s2 = s2
    Sessions = {s1, s2}
    Chunks <- MCChunks
    NumThreads = 3
    WINDOW_SIZE = 2
    FEATURE_NUM = 4
    SFNUM = 2
    A = 37
    MOD = 101
    Stale = Stale
SPECIFICATION Spec
CHECK_DEADLOCK FALSE
INVARIANT SFCopiedFresh
