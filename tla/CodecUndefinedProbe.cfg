CONSTANTS
    b0 = b0
    b1 = b1
    b2 = b2
    Junk = Junk
    Pad = Pad
    NULL = NULL
    Undef = Undef
    MaxLen = 0
    Bytes <- MCBytes
    CutByte = b2
    Targets <- MCRealTargets
    Bases <- MCRealBases
    MinRun = 16
    WordSize = 8
    SizeofDeltaUnit1 = 8
    SizeofDeltaUnit2 = 4
    HeaderBits = 16
    BASE_BEGIN = 5
    BASE_EXPAND = 3
    BASE_STEP = 3
    INPUT_TRY = 5
    GarbageLen = 3
SPECIFICATION Spec
INVARIANT EncodeRoundTrip
CHECK_DEADLOCK FALSE
