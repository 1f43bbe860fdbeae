------------------------------ MODULE WalFile ------------------------------
(***************************************************************************)
(* The write-ahead log file of crates/ferrite-core/src/wal.rs: its         *)
(* records, their framed sizes, and the scan that Recovery::read performs. *)
(*                                                                         *)
(* A record is one checksummed frame.  Keys, values and transactions are   *)
(* abstract; what is kept of their encoding is the number of bytes each    *)
(* frame takes, because the 64 MiB limit is part of the behaviour, and     *)
(* whether the last frame of the file is complete.                         *)
(***************************************************************************)
EXTENDS Integers, Sequences

CONSTANTS
    Key,                        \* the valid keys (validate_key holds for them)
    Value,                      \* the JSON values
    Absent,                     \* "no value": the key is not in the map
    KeyBytes,                   \* encoded size of each key
    ValueBytes,                 \* encoded size of each value
    MAX_TRANSACTION_OPERATIONS,
    MAX_WAL_BYTES,
    MaxTxId                     \* u64::MAX, scaled down

ASSUME WalConstants ==
    /\ Absent \notin Value
    /\ KeyBytes \in [Key -> Nat]
    /\ ValueBytes \in [Value -> Nat]
    /\ MAX_TRANSACTION_OPERATIONS \in Nat \ {0}
    /\ MAX_WAL_BYTES \in Nat /\ MAX_WAL_BYTES >= 8
    /\ MaxTxId \in Nat \ {0}

-----------------------------------------------------------------------------
(* The database contents: every key has a value or is Absent. *)
Map == [Key -> Value \cup {Absent}]
EmptyMap == [k \in Key |-> Absent]

(* Operation::Put, or Operation::Delete when the value is Absent. *)
Operation == [key: Key, value: Value \cup {Absent}]

TransactionId == 1 .. MaxTxId

BeginRecord(id) == [kind |-> "BEGIN", id |-> id]
WriteRecord(id, op) == [kind |-> "WRITE", id |-> id, op |-> op]
CommitRecord(id) == [kind |-> "COMMIT", id |-> id]

Record ==
    [kind: {"BEGIN", "COMMIT"}, id: TransactionId]
        \cup [kind: {"WRITE"}, id: TransactionId, op: Operation]

MagicBytes == 8

(* An 8-byte frame, the kind and the id, then the payload: nothing, a key,
   or two 4-byte lengths with a key and a value. *)
OperationBytes(op) ==
    IF op.value = Absent THEN 17 + KeyBytes[op.key]
                         ELSE 25 + KeyBytes[op.key] + ValueBytes[op.value]

RecordBytes(r) == IF r.kind = "WRITE" THEN OperationBytes(r.op) ELSE 17

-----------------------------------------------------------------------------
(* Replaying a transaction: the last operation on a key decides. *)
Touches(ops, k) == \E i \in 1 .. Len(ops) : ops[i].key = k

LastOn(ops, k) ==
    CHOOSE i \in 1 .. Len(ops) :
        /\ ops[i].key = k
        /\ \A j \in 1 .. Len(ops) : ops[j].key = k => j <= i

Apply(m, ops) ==
    [k \in Key |-> IF Touches(ops, k) THEN ops[LastOn(ops, k)].value ELSE m[k]]

-----------------------------------------------------------------------------
(* The state of Recovery::read between two records: pending holds the ids
   that have an entry in the pending table and writes what the entry holds;
   "committed" is kept as the map open_inner builds from it in commit order. *)
Scan == [data: Map,
         pending: SUBSET TransactionId,
         writes: [TransactionId -> Seq(Operation)],
         seen: SUBSET TransactionId,
         cursor: Nat]

ScanStart == [data |-> EmptyMap,
              pending |-> {},
              writes |-> [id \in TransactionId |-> << >>],
              seen |-> {},
              cursor |-> MagicBytes]

Accepts(s, r) ==
    CASE r.kind = "BEGIN"  -> r.id \notin s.seen /\ r.id \notin s.pending
      [] r.kind = "WRITE"  -> /\ r.id \in s.pending
                              /\ Len(s.writes[r.id]) < MAX_TRANSACTION_OPERATIONS
      [] r.kind = "COMMIT" -> r.id \in s.pending

(* A slip: the scan applies a write at once instead of at its COMMIT. *)
AdvanceWithoutCommit(s, r) ==
    CASE r.kind = "BEGIN"  -> [s EXCEPT !.pending = @ \cup {r.id},
                                        !.seen = @ \cup {r.id},
                                        !.cursor = @ + 17]
      [] r.kind = "WRITE"  -> [s EXCEPT !.data[r.op.key] = r.op.value,
                                        !.cursor = @ + RecordBytes(r)]
      [] r.kind = "COMMIT" -> [s EXCEPT !.pending = @ \ {r.id},
                                        !.cursor = @ + 17]

Advance(s, r) ==
    LET at == s.cursor + RecordBytes(r) IN
    CASE r.kind = "BEGIN" ->
            [data |-> s.data,
             pending |-> s.pending \cup {r.id},
             writes |-> [s.writes EXCEPT ![r.id] = << >>],
             seen |-> s.seen \cup {r.id},
             cursor |-> at]
      [] r.kind = "WRITE" ->
            [data |-> s.data,
             pending |-> s.pending,
             writes |-> [s.writes EXCEPT ![r.id] = Append(@, r.op)],
             seen |-> s.seen,
             cursor |-> at]
      [] r.kind = "COMMIT" ->
            [data |-> Apply(s.data, s.writes[r.id]),
             pending |-> s.pending \ {r.id},
             writes |-> [s.writes EXCEPT ![r.id] = << >>],
             seen |-> s.seen,
             cursor |-> at]

-----------------------------------------------------------------------------
(* A log file.  replay[n + 1] is the state the scan reaches after the first
   n records; it is determined by recs (see ReplayFollowsRecords) and kept
   beside them so that the scan of any prefix can be named. *)
File == [exists: BOOLEAN,
         header: BOOLEAN,        \* the magic is complete
         recs: Seq(Record),      \* the complete frames
         replay: Seq(Scan),
         torn: BOOLEAN,          \* an incomplete frame follows them
         synced: Nat]            \* how many frames sync_all has covered

EmptyFile(exists) == [exists |-> exists, header |-> FALSE,
                      recs |-> << >>, replay |-> << ScanStart >>,
                      torn |-> FALSE, synced |-> 0]
CreatedFile == EmptyFile(TRUE)
NoFile == EmptyFile(FALSE)

Replayed(f) == f.replay[Len(f.recs) + 1]
Length(f) == Replayed(f).cursor
Fits(f, r) == Length(f) + RecordBytes(r) <= MAX_WAL_BYTES

AppendTo(f, r) ==
    [exists |-> f.exists, header |-> f.header, torn |-> f.torn,
     recs |-> Append(f.recs, r),
     replay |-> Append(f.replay, Advance(Replayed(f), r)),
     synced |-> f.synced]

(* A slip: sync_all is left out. *)
SyncNothing(f) == f

SyncAll(f) == [f EXCEPT !.synced = Len(f.recs)]

(* Recovery::read on the whole file returns Ok. *)
RecoveryReads(f) ==
    /\ f.header
    /\ ~ f.torn
    /\ Length(f) <= MAX_WAL_BYTES
    /\ \A n \in 1 .. Len(f.recs) : Accepts(f.replay[n], f.recs[n])

(* What a power cut may leave of a file: at least the synced frames, then a
   prefix of the others, then perhaps part of the next frame, which may be
   one that was still being written. *)
AfterPowerCut(f, writing) ==
    UNION { { [exists |-> f.exists, header |-> f.header, torn |-> t,
               recs |-> SubSeq(f.recs, 1, n),
               replay |-> SubSeq(f.replay, 1, n + 1),
               synced |-> n] :
                 t \in {f.torn, f.torn \/ n < Len(f.recs) \/ writing} } :
            n \in f.synced .. Len(f.recs) }

-----------------------------------------------------------------------------
(* Well-formed logs, for the invariants of the modules above. *)

(* replay is the scan of recs. *)
Shape(f) ==
    /\ Len(f.replay) = Len(f.recs) + 1
    /\ f.synced <= Len(f.recs)
    /\ f.replay[1] = ScanStart
    /\ ~ f.exists => f.recs = << >>
    /\ \A n \in 1 .. Len(f.recs) :
          f.replay[n + 1] = Advance(f.replay[n], f.recs[n])

(* A state of a scan that meets no error on a log the database wrote. *)
SoundScan(s) ==
    /\ s.pending \subseteq s.seen
    /\ s.cursor <= MAX_WAL_BYTES
    /\ \A id \in s.seen : id < MaxTxId

SoundFile(f) ==
    /\ \A n \in 1 .. Len(f.recs) + 1 : SoundScan(f.replay[n])
    /\ \A n \in 1 .. Len(f.recs) : Accepts(f.replay[n], f.recs[n])
=============================================================================
