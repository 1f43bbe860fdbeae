SPECIFICATION ReaderSpec
CONSTANTS
    Writer = {w1}
    Reader = {r1}
    MaxPage = 7
    MaxKey = 3
    AloneWrites <- MCAnyWrites
    SharedWrites = {}
    Value = {"first", "second"}
    NoValue = NoValue
    NoCall = NoCall
    Failed = Failed
    PageSize = 12
    LEAF_HEADER_LEN = 1
    LEAF_SLOT_LEN = 1
    INTERNAL_HEADER_LEN = 1
    INTERNAL_SLOT_LEN = 1
    KeyLen <- MCKeyLen
    ValueLen <- MCMixedValueLen
    Calls = {"insert", "delete"}
    MayFail = FALSE
INVARIANT NeverOverrun
CHECK_DEADLOCK FALSE
