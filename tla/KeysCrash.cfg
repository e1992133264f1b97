CONSTANTS
    f1 = f1
    Fps = {f1}
    NoKey = NoKey
    MaxBoots = 2
    MaxChunks = 3
SPECIFICATION Spec
CHECK_DEADLOCK FALSE
INVARIANT DedupRefsDecryptable
