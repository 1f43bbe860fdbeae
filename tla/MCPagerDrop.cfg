SPECIFICATION Spec
CONSTANTS
    MaxPage = 1
    MaxSeq = 1
    Rest = {"blank", "data", "torn"}
    Blank = "blank"
    Torn = "torn"
    Unowned = unowned
    Written <- MCWritten
    FaultClasses <- MCNoFaults
PROPERTY DropFlushes
CHECK_DEADLOCK FALSE
