CONSTANTS
    b0 = b0
    b1 = b1
    b2 = b2
    Junk = Junk
    Pad = Pad
    NULL = NULL
    Undef = Undef
    MaxLen = 3
    Bytes <- MCBytes
    CutByte = b2
    Targets <- MCBuffers
    Bases <- MCBuffers
    MinRun = 1
    WordSize = 2
    SizeofDeltaUnit1 = 2
    SizeofDeltaUnit2 = 1
    HeaderBits = 8
    BASE_BEGIN = 1
    BASE_EXPAND = 2
    BASE_STEP = 2
    INPUT_TRY = 2
    GarbageLen = 2
SPECIFICATION Spec
INVARIANT TypeOK EncodeRoundTrip LiteralsCoalesced
PROPERTY Termination
CHECK_DEADLOCK FALSE
