---------------------------- MODULE JsonlTransfer ----------------------------
(***************************************************************************)
(* A database with a schema, its export to JSON lines and the import of    *)
(* those lines: validate_schema, validate_all and the limits of            *)
(* transaction in crates/ferrite-core/src/lib.rs; export_into and          *)
(* import_new in crates/ferrite-cli/src/main.rs.                           *)
(*                                                                         *)
(* A document is what its declared fields hold; WalDatabase has the log    *)
(* behind a transaction, FileOps the staging paths around an import.       *)
(***************************************************************************)
EXTENDS Sums, Functions, FiniteSetsExt

CONSTANTS
    KeyOrder,       \* the keys in the order of the map: [collection, id]
    Doc,            \* documents: functions from some fields to values, or
    NotObject,      \* what is no JSON object
    DocBytes,       \* serialized size of each document
    Schemas,        \* [collections, pretty]: pretty is its size when stored
    MAX_TRANSACTION_OPERATIONS,
    MAX_TRANSACTION_BYTES,
    MAX_VALUE_BYTES,
    MAX_UNIQUE,     \* 32 fields of a collection
    MaxTransactions,
    Absent, NoSchema, NoDatabase, NoId

Key == {KeyOrder[i] : i \in DOMAIN KeyOrder}

VARIABLES
    source,         \* the exported database: [schema, data], or NoDatabase
    commits,
    lines,          \* the JSONL file
    target,         \* the database import_new builds
    operations,     \* its batch
    pc              \* "new", "open", "import", "imported", "refused", "unreadable"

vars == << source, commits, lines, target, operations, pc >>

EmptyMap == [k \in Key |-> Absent]
Created(schema) == [schema |-> schema, data |-> EmptyMap]

Init ==
    /\ source = NoDatabase /\ commits = 0
    /\ lines = << >> /\ target = NoDatabase /\ operations = << >>
    /\ pc = "new"

-----------------------------------------------------------------------------
ValidSchema(schema) ==
    \A name \in DOMAIN schema.collections :
        Len(schema.collections[name].unique) <= MAX_UNIQUE

(* One document against its collection; NoId stands for a key that is not
   collection/id. *)
DocumentSuits(k, doc, schema) ==
    /\ k.id # NoId
    /\ k.collection \in DOMAIN schema.collections
    /\ doc # NotObject
    /\ LET primary == schema.collections[k.collection].primary_key
       IN  primary \in DOMAIN doc /\ doc[primary] = k.id

(* A slip: the table forgets which field a value belongs to. *)
UniqueEntryOfCollection(k, field, doc) == << k.collection, "", doc[field] >>

(* What a document enters in the table of unique values for a field it has. *)
UniqueEntry(k, field, doc) == << k.collection, field, doc[field] >>

(* validate_all: every document, for each declared field in turn, enters a value
   in the table, which refuses one that is there. *)
Present(data) == {k \in Key : data[k] # Absent}
Fields(k, schema) == schema.collections[k.collection].unique

Entered(data, schema) ==
    UNION {{<< k, i >> : i \in {j \in DOMAIN Fields(k, schema) :
                                  Fields(k, schema)[j] \in DOMAIN data[k]}} :
              k \in Present(data)}

UniqueTable(data, schema) ==
    [e \in Entered(data, schema) |->
        UniqueEntry(e[1], Fields(e[1], schema)[e[2]], data[e[1]])]

ValidateAll(data, schema) ==
    /\ \A k \in Present(data) : DocumentSuits(k, data[k], schema)
    /\ IsInjective(UniqueTable(data, schema))

-----------------------------------------------------------------------------
(* Database::transaction; an operation is [key, doc], Absent to delete.  The
   last one on a key counts. *)
ApplyAll(data, ops) ==
    [k \in Key |->
        LET on == {i \in DOMAIN ops : ops[i].key = k}
        IN  IF on = {} THEN data[k] ELSE ops[Max(on)].doc]

Bytes(op) == 1 + IF op.doc = Absent THEN 0 ELSE DocBytes[op.doc]
TransactionBytes(ops) == SumOf([i \in DOMAIN ops |-> Bytes(ops[i])])

WithinLimits(ops) ==
    /\ Len(ops) \in 1 .. MAX_TRANSACTION_OPERATIONS
    /\ \A i \in DOMAIN ops : ops[i].doc # Absent => DocBytes[ops[i].doc] <= MAX_VALUE_BYTES
    /\ TransactionBytes(ops) <= MAX_TRANSACTION_BYTES

Conforms(db, data) == db.schema # NoSchema => ValidateAll(data, db.schema)

MayCommit(db, ops) == WithinLimits(ops) /\ Conforms(db, ApplyAll(db.data, ops))

Committed(db, ops) == [db EXCEPT !.data = ApplyAll(@, ops)]

Create(schema) ==
    /\ pc = "new"
    /\ schema # NoSchema => ValidSchema(schema)
    /\ source' = Created(schema)
    /\ pc' = "open"
    /\ UNCHANGED << commits, lines, target, operations >>

Transaction(ops) ==
    /\ pc = "open" /\ commits < MaxTransactions
    /\ MayCommit(source, ops)
    /\ source' = Committed(source, ops)
    /\ commits' = commits + 1
    /\ UNCHANGED << lines, target, operations, pc >>

(* open_inner reads the stored schema back, up to a limit that nothing put on
   what was written: to_vec_pretty makes it longer. *)
Readable(db) == db.schema # NoSchema => db.schema.pretty <= MAX_VALUE_BYTES

Reopen ==
    /\ pc = "open"
    /\ pc' = IF Readable(source) THEN "open" ELSE "unreadable"
    /\ UNCHANGED << source, commits, lines, target, operations >>

-----------------------------------------------------------------------------
SchemaLine(schema) == [kind |-> "schema", schema |-> schema]
RecordLine(k, doc) == [kind |-> "record", key |-> k, doc |-> doc]

(* export_into: what is written from the i-th key on. *)
LinesFrom(data) ==
    LET from[i \in 1 .. Len(KeyOrder) + 1] ==
            IF i > Len(KeyOrder) THEN << >>
            ELSE IF data[KeyOrder[i]] = Absent THEN from[i + 1]
            ELSE << RecordLine(KeyOrder[i], data[KeyOrder[i]]) >> \o from[i + 1]
    IN  from

Exported(db) ==
    (IF db.schema = NoSchema THEN << >> ELSE << SchemaLine(db.schema) >>)
        \o LinesFrom(db.data)[1]

Export ==
    /\ pc = "open"
    /\ lines' = Exported(source)
    /\ pc' = "import"
    /\ UNCHANGED << source, commits, target, operations >>

(* import_new reads a line; a full batch is committed at once. *)
Opened == IF target = NoDatabase THEN Created(NoSchema) ELSE target

Refuse == pc' = "refused" /\ UNCHANGED << source, commits, lines, target, operations >>

ImportSchema ==
    /\ pc = "import" /\ lines # << >> /\ Head(lines).kind = "schema"
    /\ IF target # NoDatabase \/ operations # << >> \/ ~ ValidSchema(Head(lines).schema)
       THEN Refuse
       ELSE /\ target' = Created(Head(lines).schema)
            /\ lines' = Tail(lines)
            /\ UNCHANGED << source, commits, operations, pc >>

ImportRecord ==
    /\ pc = "import" /\ lines # << >> /\ Head(lines).kind = "record"
    /\ LET batch == Append(operations, [key |-> Head(lines).key, doc |-> Head(lines).doc])
       IN  IF Len(batch) < MAX_TRANSACTION_OPERATIONS
           THEN operations' = batch /\ lines' = Tail(lines) /\ UNCHANGED << target, pc >>
           ELSE IF MayCommit(Opened, batch)
           THEN /\ target' = Committed(Opened, batch) /\ operations' = << >>
                /\ lines' = Tail(lines) /\ UNCHANGED pc
           ELSE pc' = "refused" /\ UNCHANGED << lines, target, operations >>
    /\ UNCHANGED << source, commits >>

(* A slip: the last batch, which is not full, is left out. *)
LastBatchDropped == Opened

LastBatch == IF operations = << >> THEN Opened ELSE Committed(Opened, operations)

ImportEnd ==
    /\ pc = "import" /\ lines = << >>
    /\ IF operations # << >> /\ ~ MayCommit(Opened, operations) THEN Refuse
       ELSE /\ target' = LastBatch
            /\ operations' = << >> /\ pc' = "imported"
            /\ UNCHANGED << source, commits, lines >>

(* The transactions of clients: one operation, or two. *)
Operation == [key: Key, doc: Doc \cup {Absent}]
Transactions == {<< op >> : op \in Operation} \cup (Operation \X Operation)

Next ==
    \/ \E schema \in Schemas \cup {NoSchema} : Create(schema)
    \/ \E ops \in Transactions : Transaction(ops)
    \/ Reopen \/ Export \/ ImportSchema \/ ImportRecord \/ ImportEnd

Spec == Init /\ [][Next]_vars

-----------------------------------------------------------------------------
(* What the rules of a schema say: each document suits its collection, and no
   two documents of a collection agree in a field declared unique. *)
Consistent(db) ==
    db.schema # NoSchema =>
        /\ \A k \in Key : db.data[k] # Absent => DocumentSuits(k, db.data[k], db.schema)
        /\ \A k1, k2 \in Key :
              /\ k1 # k2 /\ k1.collection = k2.collection
              /\ db.data[k1] # Absent /\ db.data[k2] # Absent
              => \A f \in Range(db.schema.collections[k1.collection].unique) :
                    f \in DOMAIN db.data[k1] /\ f \in DOMAIN db.data[k2] =>
                        db.data[k1][f] # db.data[k2][f]

(* A write within the limits is accepted exactly when its result keeps the
   rules of the schema. *)
ValidationIsExact ==
    pc = "open" =>
        \A ops \in Transactions :
            WithinLimits(ops) =>
                (MayCommit(source, ops) <=> Consistent(Committed(source, ops)))

(* An import that succeeds rebuilds the database that was exported, schema and
   all. *)
RoundTrip == pc = "imported" => target = source
=============================================================================
