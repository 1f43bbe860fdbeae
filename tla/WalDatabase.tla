---------------------------- MODULE WalDatabase ----------------------------
(***************************************************************************)
(* Database of crates/ferrite-core/src/lib.rs: opening a directory under   *)
(* its lock, transactions through the write-ahead log, the checkpoint that *)
(* rewrites the log, and what process kills, I/O errors and power cuts do  *)
(* to each of them.                                                        *)
(*                                                                         *)
(* Every process may hold one handle; its program counter pc names the     *)
(* system call it performs next.  What the code computes between two       *)
(* system calls belongs to the step of the second.                         *)
(***************************************************************************)
EXTENDS WalFile, FiniteSets, Sums

CONSTANTS
    Proc,                   \* processes; the pid names the staging file
    Nobody,                 \* the lock is free
    Schemas,
    NoSchema,               \* no schema.json, or none requested
    TornSchema,             \* schema.json exists and is incomplete
    Conforming,             \* the maps validate_all accepts, for each schema
    Transactions,           \* the operation lists clients submit
    MAX_TRANSACTION_BYTES,  \* 8 MiB of keys and values
    Faults                  \* the failures that happen

ASSUME DatabaseConstants ==
    /\ Nobody \notin Proc
    /\ NoSchema \notin Schemas
    /\ TornSchema \notin Schemas
    /\ NoSchema # TornSchema
    /\ Conforming \in [Schemas -> SUBSET Map]
    /\ \A t \in Transactions : t \in Seq(Operation)
    /\ MAX_TRANSACTION_BYTES \in Nat
    /\ Faults \subseteq {"kill", "io", "power"}

VARIABLES
    lock,        \* holder of the exclusive lock on .ferrite.lock
    format,      \* format.json: "absent", "torn" or "ok"
    schemaFile,  \* schema.json: NoSchema, TornSchema or its schema
    wal,         \* data.wal
    undo,        \* what data.wal was before renames or creations not yet synced
    dirty,       \* metadata files whose directory entry is not yet synced
    staging,     \* processes whose checkpoint staging file exists
    pc,
    data,        \* Database.data
    nextId,      \* Database.next_transaction_id
    poisoned,    \* Database.poisoned
    schema,      \* Database.schema; while opening, the requested schema
    ops,         \* the transaction being written
    done,        \* how many of its (or the chunk's) writes are in the log
    newWal,      \* the staging log of a checkpoint
    left,        \* keys the checkpoint has not yet written
    ckptId,      \* next_transaction_id of the checkpoint
    promised     \* history: the maps a later open may legitimately find

metaVars == << format, schemaFile, dirty >>
logVars == << wal, undo >>
handleVars == << data, nextId, poisoned, schema >>
txnVars == << ops, done >>
ckptVars == << newWal, left, ckptId >>
memVars == << lock, handleVars, txnVars, ckptVars, promised >>
diskVars == << metaVars, logVars, staging >>
vars == << memVars, diskVars, pc >>

Opening == {"format", "formatNew", "formatWritten", "schema", "wal", "walNew",
            "walWritten", "recover", "persist", "schemaNew", "schemaWritten"}
Writing == {"begin", "write", "sync"}
Checkpointing == {"ckptNew", "ckpt", "chunk", "rename", "renamed"}
HasHandle(p) == pc[p] \in {"ready"} \cup Writing \cup Checkpointing

Init ==
    /\ lock = Nobody
    /\ format = "absent"
    /\ schemaFile = NoSchema
    /\ wal = NoFile
    /\ undo = {}
    /\ dirty = {}
    /\ staging = {}
    /\ pc = [p \in Proc |-> "closed"]
    /\ data = [p \in Proc |-> EmptyMap]
    /\ nextId = [p \in Proc |-> 1]
    /\ poisoned = [p \in Proc |-> FALSE]
    /\ schema = [p \in Proc |-> NoSchema]
    /\ ops = [p \in Proc |-> << >>]
    /\ done = [p \in Proc |-> 0]
    /\ newWal = [p \in Proc |-> NoFile]
    /\ left = [p \in Proc |-> {}]
    /\ ckptId = [p \in Proc |-> 1]
    /\ promised = {EmptyMap}

Goto(p, label) == pc' = [pc EXCEPT ![p] = label]

(* Dropping the handle, on purpose or by dying: the lock goes with it. *)
Drop(C) ==
    /\ lock' = IF lock \in C THEN Nobody ELSE lock
    /\ pc' = [p \in Proc |-> IF p \in C THEN "closed" ELSE pc[p]]
    /\ data' = [p \in Proc |-> IF p \in C THEN EmptyMap ELSE data[p]]
    /\ nextId' = [p \in Proc |-> IF p \in C THEN 1 ELSE nextId[p]]
    /\ poisoned' = [p \in Proc |-> IF p \in C THEN FALSE ELSE poisoned[p]]
    /\ schema' = [p \in Proc |-> IF p \in C THEN NoSchema ELSE schema[p]]
    /\ ops' = [p \in Proc |-> IF p \in C THEN << >> ELSE ops[p]]
    /\ done' = [p \in Proc |-> IF p \in C THEN 0 ELSE done[p]]
    /\ newWal' = [p \in Proc |-> IF p \in C THEN NoFile ELSE newWal[p]]
    /\ left' = [p \in Proc |-> IF p \in C THEN {} ELSE left[p]]
    /\ ckptId' = [p \in Proc |-> IF p \in C THEN 1 ELSE ckptId[p]]

(* The directory entry data.wal is replaced: until sync_dir a power cut may
   bring the former one back, which only matters where power cuts happen. *)
Replaced == IF "power" \in Faults THEN undo \cup {wal} ELSE {}
Unsynced(name) == IF "power" \in Faults THEN dirty \cup {name} ELSE {}

(* A slip: sync_dir does not reach the disk. *)
SyncDirNothing == UNCHANGED << dirty, undo >>

(* sync_dir makes every directory entry durable. *)
SyncDir == dirty' = {} /\ undo' = {}

-----------------------------------------------------------------------------
(* Opening: open, open_existing and open_with_schema. *)

(* try_lock_exclusive; a held lock is the error DatabaseLocked. *)
Open(p, requested) ==
    /\ pc[p] = "closed"
    /\ lock = Nobody
    /\ lock' = p
    /\ schema' = [schema EXCEPT ![p] = requested]
    /\ Goto(p, "format")
    /\ UNCHANGED << diskVars, data, nextId, poisoned, txnVars, ckptVars,
                    promised >>

CheckFormat(p) ==
    /\ pc[p] = "format"
    /\ format = "ok"
    /\ Goto(p, "schema")
    /\ UNCHANGED << diskVars, memVars >>

(* A new database: write_new_synced creates the file, then fills it. *)
CreateFormat(p) ==
    /\ pc[p] = "format"
    /\ format = "absent"
    /\ ~ wal.exists
    /\ format' = "torn"
    /\ dirty' = Unsynced("format")
    /\ Goto(p, "formatNew")
    /\ UNCHANGED << memVars, schemaFile, logVars, staging >>

WriteFormat(p) ==
    /\ pc[p] = "formatNew"
    /\ format' = "ok"
    /\ Goto(p, "formatWritten")
    /\ UNCHANGED << memVars, schemaFile, dirty, logVars, staging >>

SyncFormat(p) ==
    /\ pc[p] = "formatWritten"
    /\ SyncDir
    /\ Goto(p, "schema")
    /\ UNCHANGED << memVars, format, schemaFile, wal, staging >>

SchemaDiffers(p) ==
    schemaFile \in Schemas /\ schema[p] \in Schemas /\ schemaFile # schema[p]

ReadSchema(p) ==
    /\ pc[p] = "schema"
    /\ schemaFile # TornSchema
    /\ ~ SchemaDiffers(p)
    /\ schema' = IF schemaFile = NoSchema
                 THEN schema
                 ELSE [schema EXCEPT ![p] = schemaFile]
    /\ Goto(p, "wal")
    /\ UNCHANGED << diskVars, lock, data, nextId, poisoned, txnVars, ckptVars,
                    promised >>

OpenWal(p) ==
    /\ pc[p] = "wal"
    /\ wal.exists
    /\ Goto(p, "recover")
    /\ UNCHANGED << diskVars, memVars >>

(* Wal::create: create_new, then the magic and sync_all. *)
CreateWal(p) ==
    /\ pc[p] = "wal"
    /\ ~ wal.exists
    /\ wal' = CreatedFile
    /\ undo' = Replaced
    /\ Goto(p, "walNew")
    /\ UNCHANGED << memVars, metaVars, staging >>

WriteMagic(p) ==
    /\ pc[p] = "walNew"
    /\ wal' = [wal EXCEPT !.header = TRUE]
    /\ Goto(p, "walWritten")
    /\ UNCHANGED << memVars, metaVars, undo, staging >>

SyncNewWal(p) ==
    /\ pc[p] = "walWritten"
    /\ SyncDir
    /\ Goto(p, "recover")
    /\ UNCHANGED << memVars, format, schemaFile, wal, staging >>

(* A slip: ids are taken to be consecutive from one. *)
NextIdByCount(seen) == Cardinality(seen) + 1

(* One more than the greatest id that began a transaction. *)
NextIdAfter(seen) ==
    CHOOSE n \in 1 .. MaxTxId + 1 :
        /\ \A id \in seen : id < n
        /\ n = 1 \/ n - 1 \in seen

Valid(s, m) == s \in Schemas => m \in Conforming[s]

(* The log replays, the data suits the schema, and an id is left. *)
RecoveryOk(p) ==
    /\ RecoveryReads(wal)
    /\ Valid(schema[p], Replayed(wal).data)
    /\ NextIdAfter(Replayed(wal).seen) <= MaxTxId

(* With process kills alone, the outcome an open finds on disk is final. *)
PromisedOnOpen(m) == IF "power" \in Faults THEN promised ELSE {m}

Recover(p) ==
    /\ pc[p] = "recover"
    /\ RecoveryOk(p)
    /\ data' = [data EXCEPT ![p] = Replayed(wal).data]
    /\ nextId' = [nextId EXCEPT ![p] = NextIdAfter(Replayed(wal).seen)]
    /\ IF schema[p] # NoSchema /\ schemaFile = NoSchema
       THEN Goto(p, "persist") /\ UNCHANGED promised
       ELSE Goto(p, "ready") /\ promised' = PromisedOnOpen(Replayed(wal).data)
    /\ UNCHANGED << diskVars, lock, poisoned, schema, txnVars, ckptVars >>

CreateSchema(p) ==
    /\ pc[p] = "persist"
    /\ schemaFile' = TornSchema
    /\ dirty' = Unsynced("schema")
    /\ Goto(p, "schemaNew")
    /\ UNCHANGED << memVars, format, logVars, staging >>

WriteSchema(p) ==
    /\ pc[p] = "schemaNew"
    /\ schemaFile' = schema[p]
    /\ Goto(p, "schemaWritten")
    /\ UNCHANGED << memVars, format, dirty, logVars, staging >>

SyncSchema(p) ==
    /\ pc[p] = "schemaWritten"
    /\ SyncDir
    /\ Goto(p, "ready")
    /\ promised' = PromisedOnOpen(data[p])
    /\ UNCHANGED << lock, format, schemaFile, wal, staging, handleVars,
                    txnVars, ckptVars >>

(* The errors Corrupt, UnsupportedFormat, Schema, UniqueViolation and Limit
   of open_inner. *)
Refused(p) ==
    CASE pc[p] = "format" -> \/ format = "torn"
                             \/ format = "absent" /\ wal.exists
      [] pc[p] = "schema" -> schemaFile = TornSchema \/ SchemaDiffers(p)
      [] pc[p] = "recover" -> ~ RecoveryOk(p)
      [] OTHER -> FALSE

RejectOpen(p) ==
    /\ Refused(p)
    /\ Drop({p})
    /\ UNCHANGED << diskVars, promised >>

(* Any system call of open_inner may fail and leaves what it had done. *)
FailOpen(p) ==
    /\ "io" \in Faults
    /\ pc[p] \in Opening
    /\ Drop({p})
    /\ UNCHANGED << diskVars, promised >>

Close(p) ==
    /\ pc[p] = "ready"
    /\ Drop({p})
    /\ UNCHANGED << diskVars, promised >>

-----------------------------------------------------------------------------
(* transaction, put_key, delete_key. *)

PayloadBytes(op) ==
    KeyBytes[op.key] + (IF op.value = Absent THEN 0 ELSE ValueBytes[op.value])

PayloadSizes(t) == [i \in 1 .. Len(t) |-> PayloadBytes(t[i])]
FrameSizes(t) == [i \in 1 .. Len(t) |-> OperationBytes(t[i])]

(* A slip: the COMMIT record is left out of the size. *)
TransactionBytesShort(t) == 17 + SumOf(FrameSizes(t))

(* The size computed before anything is written. *)
TransactionBytes(t) == 34 + SumOf(FrameSizes(t))

WithinLimits(t) ==
    /\ Len(t) \in 1 .. MAX_TRANSACTION_OPERATIONS
    /\ SumOf(PayloadSizes(t)) <= MAX_TRANSACTION_BYTES
HasRoom(t) == Length(wal) + TransactionBytes(t) <= MAX_WAL_BYTES

(* A slip: a poisoned handle accepts another transaction. *)
MayCommitPoisoned(p, t) ==
    /\ WithinLimits(t) /\ HasRoom(t)
    /\ Valid(schema[p], Apply(data[p], t))
    /\ nextId[p] < MaxTxId

(* A slip: the id after this one is not checked against u64::MAX. *)
MayCommitUnchecked(p, t) ==
    /\ ~ poisoned[p]
    /\ WithinLimits(t) /\ HasRoom(t)
    /\ Valid(schema[p], Apply(data[p], t))

(* The checks of transaction; a check that fails returns an error and
   changes nothing. *)
MayCommit(p, t) ==
    /\ ~ poisoned[p]
    /\ WithinLimits(t)
    /\ Valid(schema[p], Apply(data[p], t))
    /\ HasRoom(t)
    /\ nextId[p] < MaxTxId

StartTransaction(p, t) ==
    /\ pc[p] = "ready"
    /\ MayCommit(p, t)
    /\ poisoned' = [poisoned EXCEPT ![p] = TRUE]
    /\ ops' = [ops EXCEPT ![p] = t]
    /\ promised' = promised \cup {Apply(data[p], t)}
    /\ Goto(p, "begin")
    /\ UNCHANGED << diskVars, lock, data, nextId, schema, done, ckptVars >>

(* write_record: a frame that would pass the limit is refused, which leaves
   the handle poisoned in the middle of its transaction. *)
LogRecord(p, r, label) ==
    IF Fits(wal, r)
    THEN wal' = AppendTo(wal, r) /\ Goto(p, label)
    ELSE wal' = wal /\ Goto(p, "ready")

WriteBegin(p) ==
    /\ pc[p] = "begin"
    /\ LogRecord(p, BeginRecord(nextId[p]), "write")
    /\ UNCHANGED << memVars, metaVars, undo, staging >>

WriteOperation(p) ==
    /\ pc[p] = "write"
    /\ done[p] < Len(ops[p])
    /\ LogRecord(p, WriteRecord(nextId[p], ops[p][done[p] + 1]), "write")
    /\ done' = [done EXCEPT ![p] = @ + 1]
    /\ UNCHANGED << lock, metaVars, undo, staging, handleVars, ops, ckptVars,
                    promised >>

WriteCommit(p) ==
    /\ pc[p] = "write"
    /\ done[p] = Len(ops[p])
    /\ LogRecord(p, CommitRecord(nextId[p]), "sync")
    /\ UNCHANGED << memVars, metaVars, undo, staging >>

(* sync_all returns, the handle is usable again and the caller gets Ok. *)
SyncCommit(p) ==
    /\ pc[p] = "sync"
    /\ wal' = SyncAll(wal)
    /\ data' = [data EXCEPT ![p] = Apply(@, ops[p])]
    /\ nextId' = [nextId EXCEPT ![p] = @ + 1]
    /\ poisoned' = [poisoned EXCEPT ![p] = FALSE]
    /\ ops' = [ops EXCEPT ![p] = << >>]
    /\ done' = [done EXCEPT ![p] = 0]
    /\ promised' = {Apply(data[p], ops[p])}
    /\ Goto(p, "ready")
    /\ UNCHANGED << lock, metaVars, undo, staging, schema, ckptVars >>

(* write_all or sync_all fails: part of a frame may be in the file. *)
FailTransaction(p) ==
    /\ "io" \in Faults
    /\ pc[p] \in Writing
    /\ \E torn \in {FALSE, pc[p] # "sync"} :
          wal' = [wal EXCEPT !.torn = torn]
    /\ Goto(p, "ready")
    /\ UNCHANGED << memVars, metaVars, undo, staging >>

-----------------------------------------------------------------------------
(* checkpoint. *)

Live(m) == {k \in Key : m[k] # Absent}

(* checkpoint returns; its local variables go. *)
EndCheckpoint(p) ==
    /\ newWal' = [newWal EXCEPT ![p] = NoFile]
    /\ left' = [left EXCEPT ![p] = {}]
    /\ ckptId' = [ckptId EXCEPT ![p] = 1]
    /\ Goto(p, "ready")

(* Wal::create of the staging path: create_new fails if the path exists. *)
StartCheckpoint(p) ==
    /\ pc[p] = "ready"
    /\ ~ poisoned[p]
    /\ p \notin staging
    /\ staging' = staging \cup {p}
    /\ newWal' = [newWal EXCEPT ![p] = CreatedFile]
    /\ left' = [left EXCEPT ![p] = Live(data[p])]
    /\ ckptId' = [ckptId EXCEPT ![p] = nextId[p]]
    /\ Goto(p, "ckptNew")
    /\ UNCHANGED << lock, metaVars, logVars, handleVars, txnVars, promised >>

WriteStagingMagic(p) ==
    /\ pc[p] = "ckptNew"
    /\ newWal' = [newWal EXCEPT ![p].header = TRUE]
    /\ Goto(p, "ckpt")
    /\ UNCHANGED << diskVars, lock, handleVars, txnVars, left, ckptId,
                    promised >>

(* Leaving the checkpoint with an error before the rename; remove_file may
   fail too, and its error is ignored. *)
AbandonCheckpoint(p) ==
    /\ \/ staging' = staging \ {p}
       \/ "io" \in Faults /\ staging' = staging
    /\ done' = [done EXCEPT ![p] = 0]
    /\ EndCheckpoint(p)

StageRecord(p, r, label) ==
    /\ Fits(newWal[p], r)
    /\ newWal' = [newWal EXCEPT ![p] = AppendTo(@, r)]
    /\ Goto(p, label)

BeginChunk(p) ==
    /\ pc[p] = "ckpt"
    /\ left[p] # {}
    /\ ckptId[p] < MaxTxId
    /\ StageRecord(p, BeginRecord(ckptId[p]), "chunk")
    /\ UNCHANGED << diskVars, lock, handleVars, txnVars, left, ckptId,
                    promised >>

(* A slip: every entry gets a transaction of its own. *)
ChunkFullAtOne(p) == done[p] = 1 \/ left[p] = {}

ChunkFull(p) == done[p] = MAX_TRANSACTION_OPERATIONS \/ left[p] = {}

Entry(p, k) == WriteRecord(ckptId[p], [key |-> k, value |-> data[p][k]])

StageEntry(p, k) ==
    /\ pc[p] = "chunk"
    /\ ~ ChunkFull(p)
    /\ k \in left[p]
    /\ StageRecord(p, Entry(p, k), "chunk")
    /\ done' = [done EXCEPT ![p] = @ + 1]
    /\ left' = [left EXCEPT ![p] = @ \ {k}]
    /\ UNCHANGED << diskVars, lock, handleVars, ops, ckptId, promised >>

(* Wal::commit writes the record and syncs the staging file. *)
CommitChunk(p) ==
    /\ pc[p] = "chunk"
    /\ ChunkFull(p)
    /\ Fits(newWal[p], CommitRecord(ckptId[p]))
    /\ newWal' = [newWal EXCEPT ![p] =
                      SyncAll(AppendTo(@, CommitRecord(ckptId[p])))]
    /\ ckptId' = [ckptId EXCEPT ![p] = @ + 1]
    /\ done' = [done EXCEPT ![p] = 0]
    /\ Goto(p, "ckpt")
    /\ UNCHANGED << diskVars, lock, handleVars, ops, left, promised >>

(* A slip: an exhausted id space is not noticed. *)
StagingFullIgnoringIds(p) ==
    \/ pc[p] = "ckpt" /\ left[p] # {} /\ ~ Fits(newWal[p], BeginRecord(ckptId[p]))
    \/ pc[p] = "chunk" /\ ~ Fits(newWal[p], CommitRecord(ckptId[p]))

(* The id space or the staging log is full. *)
StagingFull(p) ==
    \/ /\ pc[p] = "ckpt"
       /\ left[p] # {}
       /\ ckptId[p] >= MaxTxId \/ ~ Fits(newWal[p], BeginRecord(ckptId[p]))
    \/ /\ pc[p] = "chunk"
       /\ ChunkFull(p)
       /\ ~ Fits(newWal[p], CommitRecord(ckptId[p]))
    \/ /\ pc[p] = "chunk"
       /\ ~ ChunkFull(p)
       /\ \E k \in left[p] : ~ Fits(newWal[p], Entry(p, k))

FailStaging(p) ==
    /\ \/ StagingFull(p)
       \/ "io" \in Faults /\ pc[p] \in {"ckpt", "chunk"}
    /\ AbandonCheckpoint(p)
    /\ UNCHANGED << lock, metaVars, logVars, handleVars, ops, promised >>

(* Wal::create returned an error: its file stays behind. *)
FailStagingCreate(p) ==
    /\ "io" \in Faults
    /\ pc[p] = "ckptNew"
    /\ EndCheckpoint(p)
    /\ UNCHANGED << diskVars, lock, handleVars, txnVars, promised >>

(* A slip: only the first chunk is staged. *)
FinishStagingEarly(p) ==
    /\ pc[p] = "ckpt"
    /\ poisoned' = [poisoned EXCEPT ![p] = TRUE]
    /\ Goto(p, "rename")
    /\ UNCHANGED << diskVars, lock, data, nextId, schema, txnVars, ckptVars,
                    promised >>

(* Everything is staged: the handle is poisoned before the rename. *)
FinishStaging(p) ==
    /\ pc[p] = "ckpt"
    /\ left[p] = {}
    /\ poisoned' = [poisoned EXCEPT ![p] = TRUE]
    /\ Goto(p, "rename")
    /\ UNCHANGED << diskVars, lock, data, nextId, schema, txnVars, ckptVars,
                    promised >>

Rename(p) ==
    /\ pc[p] = "rename"
    /\ wal' = newWal[p]
    /\ undo' = Replaced
    /\ staging' = staging \ {p}
    /\ Goto(p, "renamed")
    /\ UNCHANGED << memVars, metaVars >>

(* sync_dir, then Wal::open, which reads the log again. *)
FinishCheckpoint(p) ==
    /\ pc[p] = "renamed"
    /\ SyncDir
    /\ IF RecoveryReads(wal)
       THEN /\ nextId' = [nextId EXCEPT ![p] = ckptId[p]]
            /\ poisoned' = [poisoned EXCEPT ![p] = FALSE]
            /\ promised' = {data[p]}
       ELSE UNCHANGED << nextId, poisoned, promised >>
    /\ EndCheckpoint(p)
    /\ UNCHANGED << lock, format, schemaFile, wal, staging, data, schema,
                    txnVars >>

(* rename, sync_dir or Wal::open fails: the handle stays poisoned. *)
FailPublish(p) ==
    /\ "io" \in Faults
    /\ pc[p] \in {"rename", "renamed"}
    /\ EndCheckpoint(p)
    /\ UNCHANGED << diskVars, lock, handleVars, txnVars, promised >>

-----------------------------------------------------------------------------
(* Failures of the whole process and of the machine. *)

MidFrame(p) == pc[p] \in {"begin", "write"}

(* A killed process may have written part of a frame. *)
Kill(p) ==
    /\ "kill" \in Faults
    /\ pc[p] # "closed"
    /\ \E torn \in {wal.torn, wal.torn \/ MidFrame(p)} :
          wal' = [wal EXCEPT !.torn = torn]
    /\ Drop({p})
    /\ UNCHANGED << metaVars, undo, staging, promised >>

(* A power cut kills everyone and may lose what was not synced: frames,
   directory entries, a rename. *)
PowerCut ==
    /\ "power" \in Faults
    /\ \E before \in undo \cup {wal} :
          /\ wal' \in AfterPowerCut(before,
                          before = wal /\ \E p \in Proc : MidFrame(p))
          /\ staging' \in SUBSET (staging \cup
                 IF before = wal THEN {} ELSE {p \in Proc : pc[p] = "renamed"})
    /\ format' \in {format} \cup (IF "format" \in dirty THEN {"absent"} ELSE {})
    /\ schemaFile' \in {schemaFile} \cup
                       (IF "schema" \in dirty THEN {NoSchema} ELSE {})
    /\ dirty' = {}
    /\ undo' = {}
    /\ Drop(Proc)
    /\ UNCHANGED promised

-----------------------------------------------------------------------------
OpenStep(p) ==
    \/ CheckFormat(p) \/ CreateFormat(p) \/ WriteFormat(p) \/ SyncFormat(p)
    \/ ReadSchema(p)
    \/ OpenWal(p) \/ CreateWal(p) \/ WriteMagic(p) \/ SyncNewWal(p)
    \/ Recover(p)
    \/ CreateSchema(p) \/ WriteSchema(p) \/ SyncSchema(p)
    \/ RejectOpen(p)

TransactionStep(p) ==
    \/ WriteBegin(p) \/ WriteOperation(p) \/ WriteCommit(p) \/ SyncCommit(p)

CheckpointWork(p) ==
    \/ WriteStagingMagic(p)
    \/ BeginChunk(p) \/ (\E k \in Key : StageEntry(p, k)) \/ CommitChunk(p)
    \/ FinishStaging(p) \/ Rename(p) \/ FinishCheckpoint(p)

CheckpointStep(p) == CheckpointWork(p) \/ FailStaging(p)

Fault(p) ==
    \/ FailOpen(p) \/ FailTransaction(p)
    \/ FailStagingCreate(p) \/ FailPublish(p)
    \/ Kill(p)

Step(p) ==
    \/ \E s \in Schemas \cup {NoSchema} : Open(p, s)
    \/ OpenStep(p)
    \/ Close(p)
    \/ \E t \in Transactions : StartTransaction(p, t)
    \/ TransactionStep(p)
    \/ StartCheckpoint(p)
    \/ CheckpointStep(p)
    \/ Fault(p)

Next == (\E p \in Proc : Step(p)) \/ PowerCut

(* A running process is scheduled: what it has begun it carries on.  Nobody
   relies on a fault, so an I/O error is no way to make progress. *)
Progress(p) ==
    \/ OpenStep(p) \/ TransactionStep(p) \/ CheckpointWork(p)
    \/ StagingFull(p) /\ FailStaging(p)

Fairness == \A p \in Proc : WF_vars(Progress(p))

Spec == Init /\ [][Next]_vars
FairSpec == Spec /\ Fairness

-----------------------------------------------------------------------------
(* Properties. *)

(* Every variable keeps its type; in particular a program counter only takes
   the labels above and a log never holds an id outside u64. *)
TypeOK ==
    /\ lock \in Proc \cup {Nobody}
    /\ format \in {"absent", "torn", "ok"}
    /\ schemaFile \in Schemas \cup {NoSchema, TornSchema}
    /\ wal \in File
    /\ undo \in SUBSET File
    /\ dirty \in SUBSET {"format", "schema"}
    /\ staging \in SUBSET Proc
    /\ pc \in [Proc -> {"closed", "ready"} \cup Opening \cup Writing
                          \cup Checkpointing]
    /\ data \in [Proc -> Map]
    /\ nextId \in [Proc -> TransactionId]
    /\ poisoned \in [Proc -> BOOLEAN]
    /\ schema \in [Proc -> Schemas \cup {NoSchema}]
    /\ ops \in [Proc -> Seq(Operation)]
    /\ done \in [Proc -> Nat]
    /\ newWal \in [Proc -> File]
    /\ left \in [Proc -> SUBSET Key]
    /\ ckptId \in [Proc -> TransactionId]
    /\ promised \in SUBSET Map

(* The logs, and the prefixes of them, that the next open may find. *)
SurvivingFiles == IF "power" \in Faults THEN undo \cup {wal} ELSE {wal}
SurvivingLengths(f) ==
    IF "power" \in Faults THEN f.synced .. Len(f.recs) ELSE {Len(f.recs)}

(* Whatever the moment of a crash, recovery finds a map that was promised:
   the last acknowledged one, or the one whose commit was under way, never a
   part of a transaction and never an older map (transaction, checkpoint and
   Recovery::read together; docs/THREAT_MODEL.md). *)
ReopenFindsPromisedMap ==
    \A f \in SurvivingFiles : \A n \in SurvivingLengths(f) :
        f.replay[n + 1].data \in promised

(* The database never writes itself into a state open_inner refuses, short of
   an incomplete frame or file: no duplicate BEGIN, no write or COMMIT out of
   place, no log above the limit, no exhausted id, no data that the stored
   schema rejects, no log without format.json. *)
SurvivorsReopen ==
    \A f \in SurvivingFiles : \A n \in SurvivingLengths(f) :
        f.exists =>
            /\ \A i \in 1 .. n : Accepts(f.replay[i], f.recs[i])
            /\ f.replay[n + 1].cursor <= MAX_WAL_BYTES
            /\ NextIdAfter(f.replay[n + 1].seen) <= MaxTxId
            /\ Valid(schemaFile, f.replay[n + 1].data)
            /\ format # "absent"
            /\ "power" \in Faults => "format" \notin dirty

(* A usable handle and the log agree: the map in memory is what a reopen
   would rebuild, and the next id is above every id in the log. *)
HandleAgreesWithLog ==
    \A p \in Proc : pc[p] = "ready" /\ ~ poisoned[p] =>
        /\ data[p] = Replayed(wal).data
        /\ \A id \in Replayed(wal).seen : id < nextId[p]

(* The size computed before writing is the size written: without I/O errors no
   transaction runs into the log limit half-way and poisons the handle.  Both
   sides count a write frame with OperationBytes, so this is about the frames
   around the writes, the running total and the limit. *)
PoisonedOnlyByIoError ==
    "io" \notin Faults => \A p \in Proc : pc[p] = "ready" => ~ poisoned[p]

(* A checkpoint never grows the log, so a full log can be compacted: the
   staging log never meets the limit that made the checkpoint necessary. *)
CheckpointNeverGrowsLog ==
    \A p \in Proc : pc[p] \in {"ckpt", "rename"} =>
        Length(newWal[p]) <= Length(wal)

(* A step leaves the contents alone, or is the COMMIT of a transaction. *)
ContentsStep ==
    \/ "power" \in Faults
    \/ Replayed(wal').data = Replayed(wal).data
    \/ \E p \in Proc : /\ pc[p] = "write" /\ pc'[p] = "sync"
                       /\ Replayed(wal').data = Apply(data[p], ops[p])

(* Without power cuts, the contents of the directory change at one point
   only: when a COMMIT record completes the transaction being written.
   Renaming a checkpoint, kills and I/O errors never change them. *)
ContentsChangeOnlyAtCommit == [][ContentsStep]_vars

(* Every open, transaction and checkpoint ends: with a usable or poisoned
   handle, or without one. *)
CallsReturn ==
    \A p \in Proc : (pc[p] \notin {"closed", "ready"})
                        ~> (pc[p] \in {"closed", "ready"})

(* A healthy handle can take a checkpoint: no earlier attempt left a staging
   file that Wal::create would trip over. *)
CheckpointCanBeRetried ==
    \A p \in Proc : pc[p] = "ready" /\ ~ poisoned[p] => p \notin staging
=============================================================================
