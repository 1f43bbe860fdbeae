SPECIFICATION StorageSpec
CONSTANTS
    Writer = {w1}
    Reader = {r1}
    MaxPage = 11
    MaxKey = 5
    AloneWrites <- MCAloneWrites
    SharedWrites <- MCSharedWrites
    Value = {"first", "second"}
    NoValue = NoValue
    NoCall = NoCall
    Failed = Failed
    PageSize = 12
    LEAF_HEADER_LEN = 1
    LEAF_SLOT_LEN = 1
    INTERNAL_HEADER_LEN = 1
    INTERNAL_SLOT_LEN = 1
    KeyLen <- MCKeyLen
    ValueLen <- MCValueLen
    Calls = {"insert", "delete"}
    MayFail = TRUE
    capacity = 3
    k = 2
    MaxTime = 6
    Thread = {t1, t2}
    Frame = {f1}
    PoolPage = {p1, p2}
    Nothing = Nothing
    Blank = Blank
    Unowned = Unowned
    Abandoned = Abandoned
INVARIANTS IntegrityVerifies ParentsAgree ReadsAnswer
PROPERTIES
    ImplementsMap
    ImplementsReplacer UnusedFrameIsTaken VictimIsLruK
    MutexIsReleased
