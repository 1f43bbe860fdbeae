--------------------------- MODULE WalDatabaseInv ---------------------------
(***************************************************************************)
(* The inductive invariants behind the safety properties of WalDatabase,   *)
(* in layers: each is inductive given the ones before it.                  *)
(***************************************************************************)
EXTENDS WalDatabase

-----------------------------------------------------------------------------
(* Layer 1: types, and what keeps them. *)

Shapes ==
    /\ Shape(wal)
    /\ \A f \in undo : Shape(f)
    /\ \A p \in Proc : Shape(newWal[p])

(* Only the lock holder is doing anything. *)
LockDiscipline == \A p \in Proc : pc[p] # "closed" => lock = p

(* An id that is being used has a successor. *)
IdsHaveSuccessors ==
    \A p \in Proc : /\ pc[p] \in Writing => nextId[p] < MaxTxId
                    /\ pc[p] = "chunk" => ckptId[p] < MaxTxId

(* The files a call works on are there. *)
FilesExist ==
    \A p \in Proc :
        /\ pc[p] \in {"walNew", "walWritten", "recover", "persist", "schemaNew",
                     "schemaWritten", "ready"} \cup Writing \cup Checkpointing
              => wal.exists
        /\ pc[p] \in {"ckptNew", "ckpt", "chunk", "rename"}
              => newWal[p].exists

TypeInv ==
    TypeOK /\ Shapes /\ LockDiscipline /\ IdsHaveSuccessors /\ FilesExist

-----------------------------------------------------------------------------
(* Layer 2: the handle and the log agree. *)

(* The handle's map is the contents of the log and its next id is fresh. *)
InStep(p) ==
    /\ data[p] = Replayed(wal).data
    /\ \A id \in Replayed(wal).seen : id < nextId[p]

(* The open transaction holds the operations written so far. *)
HalfWritten(p) ==
    LET s == Replayed(wal) IN
    /\ data[p] = s.data
    /\ \A id \in s.seen : id <= nextId[p]
    /\ nextId[p] \in s.pending
    /\ done[p] = Len(s.writes[nextId[p]])
    /\ done[p] <= Len(ops[p])
    /\ \A i \in 1 .. done[p] : s.writes[nextId[p]][i] = ops[p][i]

(* The COMMIT record is in the log, the caller does not know yet. *)
Committed(p) ==
    /\ Replayed(wal).data = Apply(data[p], ops[p])
    /\ \A id \in Replayed(wal).seen : id <= nextId[p]

(* The staging log holds the entries of data that are not left ... *)
Staged(p) ==
    LET s == Replayed(newWal[p]) IN
    /\ \A id \in s.seen : id < ckptId[p]
    /\ \A k \in Key : s.data[k] = IF k \in left[p] THEN Absent ELSE data[p][k]

(* ... those of the open chunk still pending. *)
StagedInChunk(p) ==
    LET s == Replayed(newWal[p])
        w == s.writes[ckptId[p]]
    IN  /\ \A id \in s.seen : id <= ckptId[p]
        /\ ckptId[p] \in s.pending
        /\ done[p] = Len(w)
        /\ done[p] <= MAX_TRANSACTION_OPERATIONS
        /\ \A i \in 1 .. Len(w) : /\ w[i].value = data[p][w[i].key]
                                  /\ w[i].key \notin left[p]
        /\ \A i, j \in 1 .. Len(w) : w[i].key = w[j].key => i = j
        /\ \A k \in Key :
              s.data[k] = IF k \in left[p] \/ Touches(w, k)
                          THEN Absent ELSE data[p][k]

(* The renamed log is in place, the handle still has its old next id. *)
Published(p) ==
    /\ data[p] = Replayed(wal).data
    /\ \A id \in Replayed(wal).seen : id < ckptId[p]

LeftIsLive(p) == left[p] \subseteq Live(data[p])

Agreement(p) ==
    /\ pc[p] \in {"persist", "schemaNew", "schemaWritten", "begin", "ckptNew",
                  "ckpt", "chunk", "rename"} => InStep(p)
    /\ pc[p] = "ready" /\ ~ poisoned[p] => InStep(p)
    /\ pc[p] = "write" => HalfWritten(p)
    /\ pc[p] = "sync" => Committed(p)
    /\ pc[p] \in {"ckptNew", "ckpt", "rename"} => Staged(p)
    /\ pc[p] = "chunk" => StagedInChunk(p)
    /\ pc[p] = "renamed" => Published(p)
    /\ LeftIsLive(p)
    /\ pc[p] = "rename" => left[p] = {}
    /\ pc[p] \in Writing \cup {"rename", "renamed"} => poisoned[p]
    /\ pc[p] \in {"begin", "ckptNew", "ckpt", "rename", "renamed"}
          => done[p] = 0
    /\ pc[p] = "ready" /\ ~ poisoned[p] => done[p] = 0
    /\ pc[p] \in Opening \cup {"closed"} => done[p] = 0
    /\ pc[p] \notin Checkpointing => left[p] = {}

AgreementInv == \A p \in Proc : Agreement(p)

-----------------------------------------------------------------------------
(* Layer 3: the scan never meets an error. *)

SoundInv ==
    /\ SoundFile(wal)
    /\ \A f \in undo : SoundFile(f)
    /\ \A p \in Proc : SoundFile(newWal[p])
    /\ \A p \in Proc : pc[p] \in Writing
                          => Len(ops[p]) <= MAX_TRANSACTION_OPERATIONS

-----------------------------------------------------------------------------
(* Layer 4, for the fault models the database is written for: process kills
   and I/O errors, or power cuts alone. *)

SupportedFaults == "power" \notin Faults \/ Faults = {"power"}

(* A name is only left unsynced inside the call that gave it, and a staging
   log is synced before it gets its name. *)
NamesAreSynced ==
    IF "power" \in Faults
    THEN /\ (\A p \in Proc : pc[p] \notin {"walNew", "walWritten", "renamed"})
               => undo = {}
         /\ \A p \in Proc :
               /\ pc[p] \in {"ckptNew", "ckpt", "rename"}
                     => newWal[p].synced = Len(newWal[p].recs)
               /\ pc[p] = "renamed" => wal.synced = Len(wal.recs)
    ELSE undo = {}

ViewsArePromised ==
    \A p \in Proc :
        /\ HasHandle(p) => data[p] \in promised
        /\ pc[p] \in Writing => Apply(data[p], ops[p]) \in promised

(* Every prefix of f that a crash may leave holds one of the maps in P. *)
MapsIn(f, P) == \A n \in SurvivingLengths(f) : f.replay[n + 1].data \in P

PromiseInv == NamesAreSynced /\ ViewsArePromised /\ ReopenFindsPromisedMap

-----------------------------------------------------------------------------
(* Layer 5, for the same fault models: the metadata files and the log fit. *)

AfterSchema == {"wal", "walNew", "walWritten", "recover", "persist",
                "schemaNew", "schemaWritten", "ready"} \cup Writing
                    \cup Checkpointing

(* The maps that the stored schema allows. *)
Suitable == {m \in Map : Valid(schemaFile, m)}

FormatIsDurable ==
    format # "absent" /\ ("power" \in Faults => "format" \notin dirty)

(* What process p knows of the metadata. *)
MetadataKnown(p) ==
    /\ pc[p] \in AfterSchema /\ schemaFile \in Schemas => schema[p] = schemaFile
    /\ pc[p] \in {"persist", "schemaNew", "schemaWritten"}
          => schema[p] \in Schemas /\ Valid(schema[p], data[p])
    /\ pc[p] \in Writing => Valid(schema[p], Apply(data[p], ops[p]))
    /\ pc[p] \in AfterSchema \cup {"schema"} => format = "ok" /\ FormatIsDurable
    /\ pc[p] = "formatWritten" => format = "ok"

(* Between a COMMIT record and its sync the log may be found in two states;
   at all other times the frames that are not synced change nothing. *)
TailChangesNothing ==
    (\A p \in Proc : pc[p] # "sync") => MapsIn(wal, {Replayed(wal).data})

(* The name format.json is synced before its creator goes on. *)
FormatIsSynced ==
    "power" \in Faults /\ (\A p \in Proc : pc[p] \notin {"formatNew", "formatWritten"})
        => "format" \notin dirty

MetadataInv ==
    /\ \A p \in Proc : MetadataKnown(p)
    /\ FormatIsSynced
    /\ \A f \in SurvivingFiles : f.exists => FormatIsDurable
    /\ \A f \in SurvivingFiles : MapsIn(f, Suitable)
    /\ TailChangesNothing

(* A handle is healthy until a transaction or a rename begins. *)
HealthInv ==
    \A p \in Proc :
        pc[p] \in Opening \cup {"closed", "ckptNew", "ckpt", "chunk"} => ~ poisoned[p]

-----------------------------------------------------------------------------
(* Layer 6: sizes.  What is about to be written was given room. *)

(* A log that replaces another can be read again. *)
WholeStaging(p) ==
    /\ pc[p] = "ckptNew" => ~ newWal[p].torn
    /\ pc[p] \in {"ckpt", "chunk", "rename"} => newWal[p].header /\ ~ newWal[p].torn
    /\ pc[p] = "renamed" => wal.header /\ ~ wal.torn

StagingIsWhole == \A p \in Proc : WholeStaging(p)

(* The bytes of the operations after the first n. *)
BytesAfter(t, n) == SumOf(FrameSizes(t)) - RunningTotal(FrameSizes(t))[n]

HasRoomLeft(p) ==
    /\ pc[p] = "ready" => ~ poisoned[p]
    /\ pc[p] = "begin" => HasRoom(ops[p])
    /\ pc[p] = "write" => Length(wal) + 17 + BytesAfter(ops[p], done[p]) <= MAX_WAL_BYTES

RoomInv == "io" \notin Faults => \A p \in Proc : HasRoomLeft(p)

(* A checkpoint is the shortest log for its entries: chunks as full as can be.
   Bytes are counted as elements of sets of pairs. *)
EntryBytes(m, k) == OperationBytes([key |-> k, value |-> m[k]])
BytesOfEntries(m, S) == UNION { {k} \X (1 .. EntryBytes(m, k)) : k \in S }
BytesOfWrites(t) == UNION { {i} \X (1 .. OperationBytes(t[i])) : i \in 1 .. Len(t) }

(* The log is as long as its entries in c full transactions, and extra. *)
AtLeast(s, c, extra) ==
    /\ Cardinality(Live(s.data)) <= c * MAX_TRANSACTION_OPERATIONS
    /\ MagicBytes + 34 * c + Cardinality(BytesOfEntries(s.data, Live(s.data))) + extra
          <= s.cursor

(* Only the latest transaction can still be committed. *)
LongEnough(s) ==
    /\ IsFiniteSet(Live(s.data))
    /\ IsFiniteSet(BytesOfEntries(s.data, Live(s.data)))
    /\ \E c \in Nat : AtLeast(s, c, 0)
    /\ \A id \in s.pending : (\A other \in s.seen : other <= id) =>
          /\ IsFiniteSet(BytesOfWrites(s.writes[id]))
          /\ \E c \in Nat : AtLeast(s, c, 17 + Cardinality(BytesOfWrites(s.writes[id])))

LongEnoughFile(f) == \A n \in 1 .. Len(f.recs) + 1 : LongEnough(f.replay[n])

LogsAreLongEnough ==
    /\ LongEnoughFile(wal)
    /\ \A f \in undo : LongEnoughFile(f)
    /\ \A p \in Proc : LongEnoughFile(newWal[p])

(* The entries already staged, c transactions of them. *)
StagedKeys(p) == Live(data[p]) \ left[p]

PackedAs(p, c) ==
    LET n == Cardinality(StagedKeys(p))
        size == MagicBytes + 34 * c + Cardinality(BytesOfEntries(data[p], StagedKeys(p)))
    IN  /\ pc[p] \in {"ckptNew", "ckpt", "rename"} =>
              /\ Length(newWal[p]) = size
              /\ left[p] # {} => n = c * MAX_TRANSACTION_OPERATIONS
              /\ c = 0 \/ (c - 1) * MAX_TRANSACTION_OPERATIONS < n
        /\ pc[p] = "chunk" =>
              /\ Length(newWal[p]) = size + 17
              /\ n = c * MAX_TRANSACTION_OPERATIONS + done[p]
              /\ done[p] = 0 => left[p] # {}

StagingIsPacked ==
    \A p \in Proc : pc[p] \in {"ckptNew", "ckpt", "chunk", "rename"} =>
        \E c \in Nat : PackedAs(p, c)

SizeInv == LogsAreLongEnough /\ StagingIsPacked

IInv ==
    /\ TypeInv /\ AgreementInv /\ SoundInv /\ PromiseInv /\ MetadataInv
    /\ HealthInv /\ StagingIsWhole /\ RoomInv /\ SizeInv
=============================================================================
