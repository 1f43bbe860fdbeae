SPECIFICATION MCSpec
CONSTANTS
    Proc = {p1, p2}
    Writer = writer
    Name = {"db", "old", "lines", "new", "bak"}
    Job <- MCJob
    Initial <- MCInitial
    Written = {"db", "old"}
    MaxVersion = 2
    Nobody = Nobody
    Absent = Absent
    NoFile = NoFile
    Torn = Torn
    NoJob = NoJob
    None = None
    Faults = {"kill", "io", "power", "stranger"}
    KeyOrder <- MCKeyOrder
    Doc <- MCDoc
    DocBytes <- MCDocBytes
    Schemas <- MCSchemas
    NotObject = NotObject
    NoSchema = NoSchema
    NoDatabase = NoDatabase
    NoId = NoId
    MAX_TRANSACTION_OPERATIONS = 2
    MAX_TRANSACTION_BYTES = 6
    MAX_VALUE_BYTES = 3
    MAX_UNIQUE = 2
    MaxTransactions = 3
SYMMETRY ProcSymmetry
INVARIANTS DestinationIsWhole DoneIsKept ValidationIsExact RoundTrip
PROPERTY NothingReplaced
CHECK_DEADLOCK FALSE
