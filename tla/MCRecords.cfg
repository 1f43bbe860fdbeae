SPECIFICATION MCSpec
CONSTANTS
    Page = {p1, p2, p3, p4, p5}
    NoPage = NoPage
    Payload <- MCPayload
    InlineCap = 1
    ChunkCap = 2
    Faults = {"io", "kill"}
    Interruptible = {"put"}
    SlotPayload <- MCSlotPayload
    PageSize = 9
    HEADER_LEN = 1
    SLOT_LEN = 1
    Deleted = Deleted
    NoSpace = NoSpace
SYMMETRY PageSymmetry
INVARIANTS ParsesAgain StoredRecordsRead
PROPERTY ImplementsDirectory
