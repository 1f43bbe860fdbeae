SPECIFICATION Spec
CONSTANTS
    MaxPage = 3
    MaxSeq = 1
    Rest = {"blank", "data", "torn"}
    Blank = "blank"
    Torn = "torn"
    Unowned = unowned
    Written <- MCWritten
    FaultClasses <- MCFaultClasses
INVARIANTS FreeListSound MarkSurvives
PROPERTY ImplementsPageStore
CHECK_DEADLOCK FALSE
