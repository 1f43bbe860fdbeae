-------------------------- MODULE WalDatabaseProofs --------------------------
(***************************************************************************)
(* Facts about the log operators that hold for every log: the scan and the *)
(* append keep their types and the correspondence of replay and recs.      *)
(* Then the layers of the invariant of WalDatabase.  Layer 1: every        *)
(* variable keeps its type, every log its shape, and only the lock holder  *)
(* is active.  Layer 2: the map a handle holds in memory, the transaction  *)
(* it is writing and the log it is compacting agree with what              *)
(* Recovery::read would find, under every failure.  Layers 3 to 5:         *)
(* recovery never meets an error in the complete frames of a log the       *)
(* database wrote, after every crash of a supported kind it finds a map    *)
(* that was promised, and the metadata files fit the log.  From them: a    *)
(* directory can be opened again and the database implements DurableMap.   *)
(* Layer 6, sizes: the bytes computed before a transaction is written are  *)
(* the bytes it takes, so that it never meets the limit of the log         *)
(* half-way; and a checkpoint packs the entries tighter than any log they  *)
(* can have been written to.                                               *)
(***************************************************************************)
EXTENDS WalDatabaseInv, WalDatabaseRefinement, TLAPS, WellFoundedInduction,
        SequenceTheorems, FiniteSetTheorems

(* Every non-empty set of naturals has a least element. *)
LEMMA LeastNatural ==
    ASSUME NEW S \in SUBSET Nat, S # {}
    PROVE  \E n \in S : \A m \in S : n <= m
<1>1. IsWellFoundedOn(OpToRel(<, Nat), Nat)
  BY NatLessThanWellFounded
<1>2. PICK n \in S : \A m \in S : ~ (<<m, n>> \in OpToRel(<, Nat))
  BY <1>1, WFMin
<1>3. \A m \in S : ~ (m < n)
  BY <1>2 DEF OpToRel
<1> QED BY <1>3

(* Every bounded, non-empty set of positive naturals has a greatest one. *)
LEMMA GreatestNatural ==
    ASSUME NEW N \in Nat, NEW S \in SUBSET (1 .. N), S # {}
    PROVE  \E n \in S : \A m \in S : m <= n
<1> DEFINE U == {n \in Nat : \A m \in S : m <= n}
<1>1. N \in U
  OBVIOUS
<1>2. PICK n \in U : \A m \in U : n <= m
  <2> U \in SUBSET Nat OBVIOUS
  <2> QED BY <1>1, LeastNatural
<1>3. n \in S
  <2> SUFFICES ASSUME n \notin S PROVE FALSE OBVIOUS
  <2>1. \A m \in S : m <= n - 1 /\ n - 1 \in Nat
    BY <1>2
  <2>2. n - 1 \in U
    BY <2>1
  <2> QED BY <1>2, <2>2
<1> QED BY <1>2, <1>3

(* The last operation on a touched key exists, and it is the last. *)
LEMMA LastOnProperty ==
    ASSUME NEW batch \in Seq(Operation), NEW k \in Key, Touches(batch, k)
    PROVE  /\ LastOn(batch, k) \in 1 .. Len(batch)
           /\ batch[LastOn(batch, k)].key = k
           /\ \A j \in 1 .. Len(batch) : batch[j].key = k => j <= LastOn(batch, k)
<1> DEFINE S == {i \in 1 .. Len(batch) : batch[i].key = k}
<1>1. S # {} /\ S \in SUBSET (1 .. Len(batch)) /\ Len(batch) \in Nat
  BY DEF Touches
<1>2. \E i \in S : \A j \in S : j <= i
  BY <1>1, GreatestNatural
<1>3. \E i \in 1 .. Len(batch) :
          /\ batch[i].key = k
          /\ \A j \in 1 .. Len(batch) : batch[j].key = k => j <= i
  BY <1>2
<1> QED BY <1>3 DEF LastOn

(* Replaying a transaction on a map gives a map. *)
LEMMA ApplyType ==
    ASSUME NEW m \in Map, NEW batch \in Seq(Operation)
    PROVE  Apply(m, batch) \in Map
<1> SUFFICES ASSUME NEW k \in Key
             PROVE  (IF Touches(batch, k) THEN batch[LastOn(batch, k)].value ELSE m[k])
                       \in Value \cup {Absent}
  BY DEF Apply, Map
<1>1. CASE Touches(batch, k)
  <2>1. LastOn(batch, k) \in 1 .. Len(batch)
    BY <1>1, LastOnProperty
  <2>2. batch[LastOn(batch, k)] \in Operation
    BY <2>1
  <2> QED BY <1>1, <2>2 DEF Operation
<1>2. CASE ~ Touches(batch, k)
  BY <1>2 DEF Map
<1> QED BY <1>1, <1>2

(* Operations whose keys differ all take effect; other keys keep theirs. *)
LEMMA ApplyDistinct ==
    ASSUME NEW m \in Map, NEW batch \in Seq(Operation), NEW k \in Key,
           \A i, j \in 1 .. Len(batch) : batch[i].key = batch[j].key => i = j
    PROVE  /\ ~ Touches(batch, k) => Apply(m, batch)[k] = m[k]
           /\ \A i \in 1 .. Len(batch) :
                 batch[i].key = k => Apply(m, batch)[k] = batch[i].value
<1>1. ~ Touches(batch, k) => Apply(m, batch)[k] = m[k]
  BY DEF Apply
<1>2. ASSUME NEW i \in 1 .. Len(batch), batch[i].key = k
      PROVE  Apply(m, batch)[k] = batch[i].value
  <2>1. Touches(batch, k)
    BY <1>2 DEF Touches
  <2>2. LastOn(batch, k) = i
    BY <1>2, <2>1, LastOnProperty
  <2> QED BY <2>1, <2>2 DEF Apply
<1> QED BY <1>1, <1>2

LEMMA BytesAreNatural ==
    ASSUME NEW r \in Record
    PROVE  RecordBytes(r) \in Nat
<1>1. CASE r.kind = "WRITE"
  <2>1. r.op \in Operation
    BY <1>1 DEF Record
  <2>2. KeyBytes[r.op.key] \in Nat
    BY <2>1, WalConstants DEF Operation
  <2>3. r.op.value # Absent => ValueBytes[r.op.value] \in Nat
    BY <2>1, WalConstants DEF Operation
  <2> QED BY <1>1, <2>2, <2>3 DEF RecordBytes, OperationBytes
<1>2. CASE r.kind # "WRITE"
  BY <1>2 DEF RecordBytes
<1> QED BY <1>1, <1>2

(* Reading a record leads from a scan state to a scan state. *)
LEMMA AdvanceType ==
    ASSUME NEW s \in Scan, NEW r \in Record
    PROVE  Advance(s, r) \in Scan
<1>1. RecordBytes(r) \in Nat
  BY BytesAreNatural
<1>2. r.id \in TransactionId
  BY DEF Record
<1>3. CASE r.kind = "BEGIN"
  BY <1>1, <1>2, <1>3 DEF Advance, Scan
<1>4. CASE r.kind = "WRITE"
  <2>1. r.op \in Operation
    BY <1>4 DEF Record
  <2> QED BY <1>1, <1>2, <1>4, <2>1 DEF Advance, Scan
<1>5. CASE r.kind = "COMMIT"
  <2>1. Apply(s.data, s.writes[r.id]) \in Map
    BY <1>2, ApplyType DEF Scan
  <2> QED BY <1>1, <1>2, <1>5, <2>1 DEF Advance, Scan
<1> QED BY <1>3, <1>4, <1>5 DEF Record

(* What reading a BEGIN, a write and a COMMIT changes in the scan. *)
LEMMA AdvanceBegin ==
    ASSUME NEW s \in Scan, NEW id \in TransactionId
    PROVE  LET t == Advance(s, BeginRecord(id)) IN
           /\ t.data = s.data
           /\ t.seen = s.seen \cup {id}
           /\ t.pending = s.pending \cup {id}
           /\ t.writes[id] = << >>
           /\ t.cursor = s.cursor + 17
BY DEF Advance, BeginRecord, Scan, RecordBytes

LEMMA AdvanceWrite ==
    ASSUME NEW s \in Scan, NEW id \in TransactionId, NEW op \in Operation
    PROVE  LET t == Advance(s, WriteRecord(id, op)) IN
           /\ t.data = s.data
           /\ t.seen = s.seen
           /\ t.pending = s.pending
           /\ t.writes[id] = Append(s.writes[id], op)
           /\ t.cursor = s.cursor + OperationBytes(op)
BY DEF Advance, WriteRecord, Scan, RecordBytes

LEMMA AdvanceCommit ==
    ASSUME NEW s \in Scan, NEW id \in TransactionId
    PROVE  LET t == Advance(s, CommitRecord(id)) IN
           /\ t.data = Apply(s.data, s.writes[id])
           /\ t.seen = s.seen
           /\ t.pending = s.pending \ {id}
           /\ t.cursor = s.cursor + 17
BY DEF Advance, CommitRecord, Scan, RecordBytes

LEMMA ScanStartType == ScanStart \in Scan
BY DEF ScanStart, Scan, EmptyMap, Map, MagicBytes

LEMMA NewFileShape ==
    /\ CreatedFile \in File /\ Shape(CreatedFile)
    /\ NoFile \in File /\ Shape(NoFile)
    /\ Replayed(CreatedFile) = ScanStart /\ Replayed(NoFile) = ScanStart
<1>1. CreatedFile \in File /\ NoFile \in File
  BY ScanStartType DEF CreatedFile, NoFile, EmptyFile, File
<1>2. Shape(CreatedFile) /\ Shape(NoFile)
  BY DEF CreatedFile, NoFile, EmptyFile, Shape
<1>3. Replayed(CreatedFile) = ScanStart /\ Replayed(NoFile) = ScanStart
  BY DEF CreatedFile, NoFile, EmptyFile, Replayed
<1> QED BY <1>1, <1>2, <1>3

(* What recovery would compute for a well-formed log is a scan state. *)
LEMMA ReplayedType ==
    ASSUME NEW f \in File, Shape(f)
    PROVE  Replayed(f) \in Scan
BY DEF File, Shape, Replayed

(* Appending a record extends the log and advances its scan by one step. *)
LEMMA AppendShape ==
    ASSUME NEW f \in File, Shape(f), f.exists, NEW r \in Record
    PROVE  LET g == AppendTo(f, r) IN
           /\ g \in File
           /\ Shape(g)
           /\ Len(g.recs) = Len(f.recs) + 1
           /\ g.recs[Len(f.recs) + 1] = r
           /\ \A n \in 1 .. Len(f.recs) : g.recs[n] = f.recs[n]
           /\ \A n \in 1 .. Len(f.recs) + 1 : g.replay[n] = f.replay[n]
           /\ Replayed(g) = Advance(Replayed(f), r)
           /\ g.replay[Len(f.recs) + 2] = Advance(Replayed(f), r)
           /\ g.synced = f.synced /\ g.torn = f.torn
           /\ g.exists = f.exists /\ g.header = f.header
<1> DEFINE g == AppendTo(f, r)
           a == Advance(Replayed(f), r)
<1>1. a \in Scan
  BY ReplayedType, AdvanceType
<1>3. g \in File /\ g.recs = Append(f.recs, r) /\ g.replay = Append(f.replay, a)
      /\ g.synced = f.synced /\ g.torn = f.torn
      /\ g.exists = f.exists /\ g.header = f.header
  BY <1>1 DEF File, AppendTo
<1> HIDE DEF g, a
<1>4. f.recs \in Seq(Record) /\ f.replay \in Seq(Scan) /\ Len(f.recs) \in Nat
      /\ Len(f.replay) = Len(f.recs) + 1
  BY DEF File, Shape
<1>5. /\ Len(g.recs) = Len(f.recs) + 1
      /\ Len(g.replay) = Len(f.recs) + 2
      /\ g.recs[Len(f.recs) + 1] = r
      /\ g.replay[Len(f.recs) + 2] = a
  BY <1>1, <1>3, <1>4
<1>6. /\ \A n \in 1 .. Len(f.recs) : g.recs[n] = f.recs[n]
      /\ \A n \in 1 .. Len(f.recs) + 1 : g.replay[n] = f.replay[n]
  BY <1>1, <1>3, <1>4
<1>7. Replayed(g) = a
  BY <1>5, <1>4 DEF Replayed
<1>8. g.replay[Len(f.recs) + 2] = Advance(g.replay[Len(f.recs) + 1], r)
  BY <1>5, <1>6, <1>4 DEF a, Replayed
<1>9. Shape(g)
  <2>1. \A n \in 1 .. Len(g.recs) :
           g.replay[n + 1] = Advance(g.replay[n], g.recs[n])
    <3> SUFFICES ASSUME NEW n \in 1 .. Len(g.recs)
                 PROVE  g.replay[n + 1] = Advance(g.replay[n], g.recs[n])
      OBVIOUS
    <3>1. CASE n = Len(f.recs) + 1
      BY <3>1, <1>5, <1>8, <1>4
    <3>2. CASE n # Len(f.recs) + 1
      <4>1. n \in 1 .. Len(f.recs) /\ n + 1 \in 1 .. Len(f.recs) + 1
        BY <3>2, <1>5, <1>4
      <4>2. f.replay[n + 1] = Advance(f.replay[n], f.recs[n])
        BY <4>1 DEF Shape
      <4> QED BY <4>1, <4>2, <1>6, <1>4
    <3> QED BY <3>1, <3>2
  <2>2. f.synced <= Len(f.recs) /\ f.replay[1] = ScanStart /\ f.synced \in Nat
    BY DEF Shape, File
  <2>3. Len(g.replay) = Len(g.recs) + 1 /\ g.synced <= Len(g.recs)
    BY <1>3, <1>4, <1>5, <2>2
  <2>4. g.replay[1] = ScanStart
    BY <1>4, <1>6, <2>2
  <2>5. g.exists
    BY <1>3
  <2> QED BY <2>1, <2>3, <2>4, <2>5 DEF Shape
<1> QED BY <1>3, <1>5, <1>6, <1>7, <1>9, <1>4 DEF g, a

(* Completing the magic, tearing the tail and syncing leave the records. *)
LEMMA EditShape ==
    ASSUME NEW f \in File, Shape(f), NEW b \in BOOLEAN,
           NEW g \in {[f EXCEPT !.header = b], [f EXCEPT !.torn = b], SyncAll(f)}
    PROVE  /\ g \in File
           /\ Shape(g)
           /\ g.recs = f.recs /\ g.replay = f.replay /\ g.exists = f.exists
           /\ Replayed(g) = Replayed(f)
           /\ g # SyncAll(f) => g.synced = f.synced
<1>1. /\ g \in File
      /\ g.recs = f.recs /\ g.replay = f.replay /\ g.exists = f.exists
      /\ g.synced \in {f.synced, Len(f.recs)}
      /\ g # SyncAll(f) => g.synced = f.synced
  BY DEF File, SyncAll
<1>2. Len(f.recs) \in Nat /\ f.synced <= Len(f.recs)
  BY DEF File, Shape
<1>3. g.synced <= Len(g.recs)
  BY <1>1, <1>2
<1>4. Shape(g)
  BY <1>1, <1>3 DEF Shape
<1> QED BY <1>1, <1>4 DEF Replayed

(* The same, for each of the three edits. *)
LEMMA TornShape ==
    ASSUME NEW f \in File, Shape(f), NEW b \in BOOLEAN
    PROVE  LET g == [f EXCEPT !.torn = b] IN
           g \in File /\ Shape(g) /\ g.recs = f.recs /\ g.replay = f.replay
<1> DEFINE g == [f EXCEPT !.torn = b]
<1>1. g \in {[f EXCEPT !.header = b], [f EXCEPT !.torn = b], SyncAll(f)}
  OBVIOUS
<1> HIDE DEF g
<1>2. g \in File /\ Shape(g) /\ g.recs = f.recs /\ g.replay = f.replay
  BY <1>1, EditShape
<1> QED BY <1>2 DEF g

LEMMA HeaderShape ==
    ASSUME NEW f \in File, Shape(f), NEW b \in BOOLEAN
    PROVE  LET g == [f EXCEPT !.header = b] IN
           g \in File /\ Shape(g) /\ g.recs = f.recs /\ g.replay = f.replay
<1> DEFINE g == [f EXCEPT !.header = b]
<1>1. g \in {[f EXCEPT !.header = b], [f EXCEPT !.torn = b], SyncAll(f)}
  OBVIOUS
<1> HIDE DEF g
<1>2. g \in File /\ Shape(g) /\ g.recs = f.recs /\ g.replay = f.replay
  BY <1>1, EditShape
<1> QED BY <1>2 DEF g

LEMMA SyncShape ==
    ASSUME NEW f \in File, Shape(f)
    PROVE  LET g == SyncAll(f) IN
           g \in File /\ Shape(g) /\ g.recs = f.recs /\ g.replay = f.replay
<1> DEFINE g == SyncAll(f)
<1>1. TRUE \in BOOLEAN
      /\ g \in {[f EXCEPT !.header = TRUE], [f EXCEPT !.torn = TRUE], SyncAll(f)}
  OBVIOUS
<1> HIDE DEF g
<1>2. g \in File /\ Shape(g) /\ g.recs = f.recs /\ g.replay = f.replay
  BY <1>1, EditShape
<1> QED BY <1>2 DEF g

(* A power cut leaves a shorter log of the same shape. *)
LEMMA PowerCutShape ==
    ASSUME NEW f \in File, Shape(f), NEW w \in BOOLEAN,
           NEW g \in AfterPowerCut(f, w)
    PROVE  /\ g \in File
           /\ Shape(g)
           /\ g.synced = Len(g.recs)
           /\ Len(g.recs) \in f.synced .. Len(f.recs)
           /\ \A n \in 1 .. Len(g.recs) : g.recs[n] = f.recs[n]
           /\ \A n \in 1 .. Len(g.recs) + 1 : g.replay[n] = f.replay[n]
           /\ g.exists = f.exists
<1>1. PICK n \in f.synced .. Len(f.recs), t \in BOOLEAN :
         g = [exists |-> f.exists, header |-> f.header, torn |-> t,
              recs |-> SubSeq(f.recs, 1, n),
              replay |-> SubSeq(f.replay, 1, n + 1),
              synced |-> n]
  BY DEF AfterPowerCut, File
<1>2. f.recs \in Seq(Record) /\ f.replay \in Seq(Scan) /\ Len(f.recs) \in Nat
      /\ Len(f.replay) = Len(f.recs) + 1 /\ f.synced \in Nat
  BY DEF File, Shape
<1>3. n \in Nat /\ n \in f.synced .. Len(f.recs)
  BY <1>2
<1>4. SubSeq(f.recs, 1, n) \in Seq(Record) /\ SubSeq(f.replay, 1, n + 1) \in Seq(Scan)
  BY <1>2, <1>3
<1>5. /\ g \in File
      /\ g.recs = SubSeq(f.recs, 1, n)
      /\ g.replay = SubSeq(f.replay, 1, n + 1)
      /\ g.synced = n
      /\ g.exists = f.exists
  BY <1>1, <1>3, <1>4 DEF File
<1>6. /\ Len(g.recs) = n
      /\ Len(g.replay) = n + 1
      /\ \A i \in 1 .. n : g.recs[i] = f.recs[i]
      /\ \A i \in 1 .. n + 1 : g.replay[i] = f.replay[i]
  BY <1>2, <1>3, <1>5
<1>7. Shape(g)
  <2>1. ASSUME NEW i \in 1 .. Len(g.recs)
        PROVE  g.replay[i + 1] = Advance(g.replay[i], g.recs[i])
    <3>1. i \in 1 .. Len(f.recs) /\ i \in 1 .. n /\ i + 1 \in 1 .. n + 1 /\ i \in 1 .. n + 1
      BY <1>2, <1>3, <1>6
    <3>2. f.replay[i + 1] = Advance(f.replay[i], f.recs[i])
      BY <3>1 DEF Shape
    <3> QED BY <3>1, <3>2, <1>6
  <2>2. f.replay[1] = ScanStart /\ (~ f.exists => f.recs = << >>)
    BY DEF Shape
  <2>3. ~ g.exists => g.recs = << >>
    BY <2>2, <1>2, <1>3, <1>5
  <2>4. Len(g.replay) = Len(g.recs) + 1 /\ g.synced <= Len(g.recs)
    BY <1>3, <1>5, <1>6
  <2>5. g.replay[1] = ScanStart
    BY <1>3, <1>6, <2>2
  <2> QED BY <2>1, <2>3, <2>4, <2>5 DEF Shape
<1> QED BY <1>3, <1>5, <1>6, <1>7

-----------------------------------------------------------------------------
USE DEF Goto, memVars, diskVars, metaVars, logVars, handleVars, txnVars,
        ckptVars

(* The id after the greatest one seen is that, for every set of ids. *)
LEMMA NextIdAfterProperty ==
    ASSUME NEW seen \in SUBSET TransactionId
    PROVE  /\ NextIdAfter(seen) \in 1 .. MaxTxId + 1
           /\ \A id \in seen : id < NextIdAfter(seen)
           /\ NextIdAfter(seen) = 1 \/ NextIdAfter(seen) - 1 \in seen
<1>1. MaxTxId \in Nat /\ seen \in SUBSET (1 .. MaxTxId)
  BY WalConstants DEF TransactionId
<1>2. CASE seen = {}
  BY <1>1, <1>2 DEF NextIdAfter
<1>3. CASE seen # {}
  <2>1. PICK n \in seen : \A m \in seen : m <= n
    BY <1>1, <1>3, GreatestNatural
  <2>2. /\ n + 1 \in 1 .. MaxTxId + 1
        /\ \A id \in seen : id < n + 1
        /\ (n + 1) - 1 \in seen
    BY <1>1, <2>1
  <2> QED BY <2>2 DEF NextIdAfter
<1> QED BY <1>2, <1>3

LEMMA InitTypeInv == Init => TypeInv
<1> SUFFICES ASSUME Init PROVE TypeInv
  OBVIOUS
<1>1. EmptyMap \in Map /\ 1 \in TransactionId
  BY WalConstants DEF EmptyMap, Map, TransactionId
<1>2. TypeOK
  BY <1>1, NewFileShape DEF Init, TypeOK
<1>3. Shapes
  BY NewFileShape DEF Init, Shapes
<1>4. LockDiscipline /\ IdsHaveSuccessors /\ FilesExist
  BY DEF Init, LockDiscipline, IdsHaveSuccessors, FilesExist, Writing, Checkpointing
<1> QED BY <1>2, <1>3, <1>4 DEF TypeInv

(* Dropping a handle resets its owner and nobody else. *)
LEMMA DropTypes ==
    ASSUME TypeOK, NEW C \in SUBSET Proc, Drop(C)
    PROVE  /\ lock' \in Proc \cup {Nobody}
           /\ pc' \in [Proc -> {"closed", "ready"} \cup Opening \cup Writing
                                \cup Checkpointing]
           /\ data' \in [Proc -> Map]
           /\ nextId' \in [Proc -> TransactionId]
           /\ poisoned' \in [Proc -> BOOLEAN]
           /\ schema' \in [Proc -> Schemas \cup {NoSchema}]
           /\ ops' \in [Proc -> Seq(Operation)]
           /\ done' \in [Proc -> Nat]
           /\ newWal' \in [Proc -> File]
           /\ left' \in [Proc -> SUBSET Key]
           /\ ckptId' \in [Proc -> TransactionId]
<1>1. EmptyMap \in Map /\ 1 \in TransactionId /\ NoFile \in File
  BY WalConstants, NewFileShape DEF EmptyMap, Map, TransactionId
<1>2. lock' \in Proc \cup {Nobody}
  BY DEF Drop, TypeOK
<1>3. data' \in [Proc -> Map] /\ nextId' \in [Proc -> TransactionId]
  BY <1>1 DEF Drop, TypeOK
<1>4. poisoned' \in [Proc -> BOOLEAN] /\ done' \in [Proc -> Nat]
  BY DEF Drop, TypeOK
<1>5. schema' \in [Proc -> Schemas \cup {NoSchema}] /\ ops' \in [Proc -> Seq(Operation)]
  BY DEF Drop, TypeOK
<1>6. newWal' \in [Proc -> File] /\ ckptId' \in [Proc -> TransactionId]
  BY <1>1 DEF Drop, TypeOK
<1>7. left' \in [Proc -> SUBSET Key]
  BY DEF Drop, TypeOK
<1>8. pc' \in [Proc -> {"closed", "ready"} \cup Opening \cup Writing \cup Checkpointing]
  BY DEF Drop, TypeOK
<1> QED BY <1>2, <1>3, <1>4, <1>5, <1>6, <1>7, <1>8

(* The records a call writes are records. *)
LEMMA RecordTypes ==
    ASSUME TypeOK, NEW p \in Proc
    PROVE  /\ BeginRecord(nextId[p]) \in Record
           /\ CommitRecord(nextId[p]) \in Record
           /\ done[p] < Len(ops[p])
                 => WriteRecord(nextId[p], ops[p][done[p] + 1]) \in Record
           /\ BeginRecord(ckptId[p]) \in Record
           /\ CommitRecord(ckptId[p]) \in Record
           /\ \A k \in Key : Entry(p, k) \in Record
<1>1. nextId[p] \in TransactionId /\ ckptId[p] \in TransactionId
  BY DEF TypeOK
<1>2. \A id \in TransactionId : BeginRecord(id) \in Record /\ CommitRecord(id) \in Record
  BY DEF BeginRecord, CommitRecord, Record
<1>3. \A id \in TransactionId, op \in Operation : WriteRecord(id, op) \in Record
  BY DEF WriteRecord, Record
<1>4. done[p] < Len(ops[p]) => ops[p][done[p] + 1] \in Operation
  <2>1. done[p] \in Nat /\ ops[p] \in Seq(Operation)
    BY DEF TypeOK
  <2> QED BY <2>1
<1>5. \A k \in Key : [key |-> k, value |-> data[p][k]] \in Operation
  BY DEF TypeOK, Map, Operation
<1> QED BY <1>1, <1>2, <1>3, <1>4, <1>5 DEF Entry

-----------------------------------------------------------------------------
(* Types of the variables in memory. *)
LEMMA TypeStep ==
    ASSUME TypeInv, NEW p \in Proc, Step(p)
    PROVE  TypeOK'
<1>0. TypeOK /\ Shapes /\ IdsHaveSuccessors /\ FilesExist
  BY DEF TypeInv
<1>r. Replayed(wal) \in Scan /\ wal \in File /\ Shape(wal)
      /\ newWal[p] \in File /\ Shape(newWal[p])
  BY <1>0, ReplayedType DEF TypeOK, Shapes
<1>a. Apply(data[p], ops[p]) \in Map
  BY <1>0, ApplyType DEF TypeOK
<1>1. CASE \E s \in Schemas \cup {NoSchema} : Open(p, s)
  BY <1>0, <1>1 DEF Open, TypeOK, Opening
<1>2. CASE RejectOpen(p) \/ FailOpen(p) \/ Close(p)
  <2>1. /\ Drop({p})
        /\ UNCHANGED << diskVars, promised >>
    BY <1>2 DEF RejectOpen, FailOpen, Close
  <2> QED BY <1>0, <2>1, DropTypes DEF TypeOK
<1>3. CASE Kill(p)
  <2>1. /\ Drop({p})
        /\ UNCHANGED << metaVars, undo, staging, promised >>
        /\ \E b \in BOOLEAN : wal' = [wal EXCEPT !.torn = b]
    BY <1>3, <1>r DEF Kill, File, MidFrame
  <2>2. wal' \in File
    BY <1>r, <2>1, TornShape
  <2> QED BY <1>0, <2>1, <2>2, DropTypes DEF TypeOK
<1>4. CASE CheckFormat(p) \/ WriteFormat(p) \/ SyncFormat(p)
           \/ ReadSchema(p) \/ OpenWal(p) \/ SyncNewWal(p)
  <2>1. CASE CheckFormat(p) \/ OpenWal(p) \/ WriteFormat(p)
    <3>1. \E label \in Opening : Goto(p, label)
      BY <2>1 DEF CheckFormat, OpenWal, WriteFormat, Opening
    <3>2. pc' \in [Proc -> {"closed", "ready"} \cup Opening \cup Writing \cup Checkpointing]
      BY <1>0, <3>1 DEF TypeOK
    <3>3. /\ UNCHANGED << memVars, schemaFile, dirty, logVars, staging >>
          /\ format' = format \/ format' = "ok"
      BY <2>1 DEF CheckFormat, OpenWal, WriteFormat
    <3> QED BY <1>0, <3>2, <3>3 DEF TypeOK
  <2>2. CASE SyncFormat(p) \/ SyncNewWal(p)
    <3>1. \E label \in Opening : Goto(p, label)
      BY <2>2 DEF SyncFormat, SyncNewWal, Opening
    <3>2. pc' \in [Proc -> {"closed", "ready"} \cup Opening \cup Writing \cup Checkpointing]
      BY <1>0, <3>1 DEF TypeOK
    <3>3. /\ UNCHANGED << memVars, format, schemaFile, wal, staging >>
          /\ dirty' = {} /\ undo' = {}
      BY <2>2 DEF SyncFormat, SyncNewWal, SyncDir
    <3> QED BY <1>0, <3>2, <3>3 DEF TypeOK
  <2>3. CASE ReadSchema(p)
    <3>1. schema' \in [Proc -> Schemas \cup {NoSchema}]
      BY <1>0, <2>3 DEF ReadSchema, TypeOK
    <3> QED BY <1>0, <2>3, <3>1 DEF ReadSchema, TypeOK, Opening
  <2> QED BY <1>4, <2>1, <2>2, <2>3
<1>5. CASE CreateFormat(p) \/ CreateSchema(p) \/ WriteSchema(p)
  <2>1. \E label \in Opening : Goto(p, label)
    BY <1>5 DEF CreateFormat, CreateSchema, WriteSchema, Opening
  <2>2. pc' \in [Proc -> {"closed", "ready"} \cup Opening \cup Writing \cup Checkpointing]
    BY <1>0, <2>1 DEF TypeOK
  <2>3. UNCHANGED << memVars, logVars, staging >>
    BY <1>5 DEF CreateFormat, CreateSchema, WriteSchema
  <2>4. format' = format \/ format' = "torn"
    BY <1>5 DEF CreateFormat, CreateSchema, WriteSchema
  <2>5. schemaFile' \in {schemaFile, TornSchema, schema[p]}
    BY <1>5 DEF CreateFormat, CreateSchema, WriteSchema
  <2>6. dirty' \in {dirty, Unsynced("format"), Unsynced("schema")}
    BY <1>5 DEF CreateFormat, CreateSchema, WriteSchema
  <2>7. dirty' \in SUBSET {"format", "schema"}
    BY <1>0, <2>6 DEF Unsynced, TypeOK
  <2>8. format' \in {"absent", "torn", "ok"}
    BY <1>0, <2>4 DEF TypeOK
  <2>9. schemaFile' \in Schemas \cup {NoSchema, TornSchema}
    BY <1>0, <2>5 DEF TypeOK
  <2> QED BY <1>0, <2>2, <2>3, <2>7, <2>8, <2>9 DEF TypeOK
<1>6. CASE CreateWal(p)
  BY <1>0, <1>6, NewFileShape DEF CreateWal, Replaced, TypeOK, Opening
<1>7. CASE WriteMagic(p)
  <2>1. wal' \in File
    BY <1>7, <1>r, HeaderShape DEF WriteMagic
  <2> QED BY <1>0, <1>7, <2>1 DEF WriteMagic, TypeOK, Opening
<1>8. CASE Recover(p)
  <2>1. Replayed(wal).data \in Map /\ Replayed(wal).seen \in SUBSET TransactionId
    BY <1>r DEF Scan
  <2>2. NextIdAfter(Replayed(wal).seen) \in TransactionId
    BY <1>8, <2>1, NextIdAfterProperty, WalConstants
       DEF Recover, RecoveryOk, TransactionId
  <2>3. promised' \in SUBSET Map
    BY <1>0, <1>8, <2>1 DEF Recover, PromisedOnOpen, TypeOK
  <2>4. data' \in [Proc -> Map] /\ nextId' \in [Proc -> TransactionId]
    BY <1>0, <1>8, <2>1, <2>2 DEF Recover, TypeOK
  <2>5. pc' \in [Proc -> {"closed", "ready"} \cup Opening \cup Writing \cup Checkpointing]
    <3>1. Goto(p, "persist") \/ Goto(p, "ready")
      BY <1>8 DEF Recover
    <3>2. "persist" \in Opening
      BY DEF Opening
    <3> QED BY <1>0, <3>1, <3>2 DEF TypeOK
  <2>6. UNCHANGED << diskVars, lock, poisoned, schema, txnVars, ckptVars >>
    BY <1>8 DEF Recover
  <2> QED BY <1>0, <2>3, <2>4, <2>5, <2>6 DEF TypeOK
<1>9. CASE SyncSchema(p)
  BY <1>0, <1>9 DEF SyncSchema, SyncDir, PromisedOnOpen, TypeOK
<1>10. CASE \E t \in Transactions : StartTransaction(p, t)
  <2>1. PICK t \in Transactions : StartTransaction(p, t)
    BY <1>10
  <2>2. t \in Seq(Operation)
    BY DatabaseConstants
  <2>3. Apply(data[p], t) \in Map
    BY <1>0, <2>2, ApplyType DEF TypeOK
  <2> QED BY <1>0, <2>1, <2>2, <2>3 DEF StartTransaction, TypeOK, Writing
<1>11. CASE WriteBegin(p) \/ WriteOperation(p) \/ WriteCommit(p)
  <2>1. PICK r \in Record : \/ wal' = AppendTo(wal, r)
                            \/ wal' = wal
    BY <1>0, <1>11, RecordTypes DEF WriteBegin, WriteOperation, WriteCommit, LogRecord
  <2>2. wal.exists
    BY <1>0, <1>11 DEF FilesExist, WriteBegin, WriteOperation, WriteCommit, Writing
  <2>3. wal' \in File
    BY <1>r, <2>1, <2>2, AppendShape
  <2>4. /\ UNCHANGED << lock, metaVars, undo, staging, handleVars, ops, ckptVars, promised >>
    BY <1>11 DEF WriteBegin, WriteOperation, WriteCommit
  <2>5. done' \in [Proc -> Nat]
    BY <1>0, <1>11 DEF WriteBegin, WriteOperation, WriteCommit, TypeOK
  <2>6. \E label \in {"ready", "write", "sync"} : Goto(p, label)
    BY <1>11 DEF WriteBegin, WriteOperation, WriteCommit, LogRecord
  <2>7. pc' \in [Proc -> {"closed", "ready"} \cup Opening \cup Writing \cup Checkpointing]
    BY <1>0, <2>6 DEF TypeOK, Writing
  <2> QED BY <1>0, <2>3, <2>4, <2>5, <2>7 DEF TypeOK
<1>12. CASE SyncCommit(p)
  <2>1. wal' \in File
    BY <1>12, <1>r, SyncShape DEF SyncCommit
  <2>2. nextId[p] + 1 \in TransactionId
    BY <1>0, <1>12, WalConstants
       DEF SyncCommit, IdsHaveSuccessors, Writing, TypeOK, TransactionId
  <2>3. data' \in [Proc -> Map] /\ nextId' \in [Proc -> TransactionId]
        /\ promised' \in SUBSET Map
    BY <1>0, <1>12, <1>a, <2>2 DEF SyncCommit, TypeOK
  <2> QED BY <1>0, <1>12, <2>1, <2>3 DEF SyncCommit, TypeOK
<1>13. CASE FailTransaction(p)
  <2>1. \E b \in BOOLEAN : wal' = [wal EXCEPT !.torn = b]
    BY <1>13 DEF FailTransaction
  <2>2. wal' \in File
    BY <1>r, <2>1, TornShape
  <2> QED BY <1>0, <1>13, <2>2 DEF FailTransaction, TypeOK
<1>14. CASE StartCheckpoint(p)
  BY <1>0, <1>14, NewFileShape DEF StartCheckpoint, Live, TypeOK, Checkpointing
<1>15. CASE WriteStagingMagic(p)
  <2>1. [newWal[p] EXCEPT !.header = TRUE] \in File
    BY <1>r, EditShape
  <2>2. newWal' \in [Proc -> File]
    BY <1>0, <1>15, <2>1 DEF WriteStagingMagic, TypeOK
  <2> QED BY <1>0, <1>15, <2>2 DEF WriteStagingMagic, TypeOK, Checkpointing
<1>16. CASE BeginChunk(p) \/ (\E k \in Key : StageEntry(p, k))
  <2>1. PICK r \in Record : newWal' = [newWal EXCEPT ![p] = AppendTo(newWal[p], r)]
    BY <1>0, <1>16, RecordTypes DEF BeginChunk, StageEntry, StageRecord
  <2>2. newWal[p].exists
    BY <1>0, <1>16 DEF FilesExist, BeginChunk, StageEntry
  <2>3. newWal' \in [Proc -> File]
    BY <1>0, <1>r, <2>1, <2>2, AppendShape DEF TypeOK
  <2>4. /\ UNCHANGED << lock, diskVars, handleVars, ops, ckptId, promised >>
        /\ Goto(p, "chunk")
    BY <1>16 DEF BeginChunk, StageEntry, StageRecord
  <2>5. done' \in [Proc -> Nat]
    <3>1. CASE BeginChunk(p)
      BY <1>0, <3>1 DEF BeginChunk, TypeOK
    <3>2. CASE \E k \in Key : StageEntry(p, k)
      BY <1>0, <3>2 DEF StageEntry, TypeOK
    <3> QED BY <1>16, <3>1, <3>2
  <2>6. left' \in [Proc -> SUBSET Key]
    <3>1. CASE BeginChunk(p)
      BY <1>0, <3>1 DEF BeginChunk, TypeOK
    <3>2. CASE \E k \in Key : StageEntry(p, k)
      BY <1>0, <3>2 DEF StageEntry, TypeOK
    <3> QED BY <1>16, <3>1, <3>2
  <2> QED BY <1>0, <2>3, <2>4, <2>5, <2>6 DEF TypeOK, Checkpointing
<1>17. CASE CommitChunk(p)
  <2>1. newWal[p].exists /\ CommitRecord(ckptId[p]) \in Record
    BY <1>0, <1>17, RecordTypes DEF FilesExist, CommitChunk
  <2>2. AppendTo(newWal[p], CommitRecord(ckptId[p])) \in File
        /\ Shape(AppendTo(newWal[p], CommitRecord(ckptId[p])))
    BY <1>r, <2>1, AppendShape
  <2>3. SyncAll(AppendTo(newWal[p], CommitRecord(ckptId[p]))) \in File
    BY <2>2, EditShape
  <2>4. newWal' \in [Proc -> File]
    BY <1>0, <1>17, <2>3 DEF CommitChunk, TypeOK
  <2>5. ckptId[p] + 1 \in TransactionId
    BY <1>0, <1>17, WalConstants
       DEF CommitChunk, IdsHaveSuccessors, TypeOK, TransactionId
  <2> QED BY <1>0, <1>17, <2>4, <2>5 DEF CommitChunk, TypeOK, Checkpointing
<1>18. CASE FailStaging(p) \/ FailStagingCreate(p) \/ FailPublish(p)
  <2>1. 1 \in TransactionId
    BY WalConstants DEF TransactionId
  <2>2. EndCheckpoint(p)
    BY <1>18 DEF FailStaging, FailStagingCreate, FailPublish, AbandonCheckpoint
  <2>3. /\ newWal' \in [Proc -> File] /\ left' \in [Proc -> SUBSET Key]
        /\ ckptId' \in [Proc -> TransactionId]
        /\ pc' \in [Proc -> {"closed", "ready"} \cup Opening \cup Writing \cup Checkpointing]
    BY <1>0, <2>1, <2>2, NewFileShape DEF EndCheckpoint, TypeOK
  <2>4. /\ staging' \in SUBSET Proc /\ done' \in [Proc -> Nat]
        /\ UNCHANGED << lock, metaVars, logVars, handleVars, ops, promised >>
    BY <1>0, <1>18 DEF FailStaging, FailStagingCreate, FailPublish, AbandonCheckpoint, TypeOK
  <2> QED BY <1>0, <2>3, <2>4 DEF TypeOK
<1>19. CASE FinishStaging(p)
  BY <1>0, <1>19 DEF FinishStaging, TypeOK, Checkpointing
<1>20. CASE Rename(p)
  BY <1>0, <1>20 DEF Rename, Replaced, TypeOK, Checkpointing
<1>21. CASE FinishCheckpoint(p)
  <2>1. 1 \in TransactionId
    BY WalConstants DEF TransactionId
  <2>2. nextId' \in [Proc -> TransactionId] /\ poisoned' \in [Proc -> BOOLEAN]
        /\ promised' \in SUBSET Map
    <3>1. CASE RecoveryReads(wal)
      <4>1. nextId' = [nextId EXCEPT ![p] = ckptId[p]]
            /\ poisoned' = [poisoned EXCEPT ![p] = FALSE] /\ promised' = {data[p]}
        BY <1>21, <3>1 DEF FinishCheckpoint
      <4>2. nextId' \in [Proc -> TransactionId] /\ promised' \in SUBSET Map
        BY <1>0, <4>1 DEF TypeOK
      <4>3. poisoned' \in [Proc -> BOOLEAN]
        BY <1>0, <4>1 DEF TypeOK
      <4> QED BY <4>2, <4>3
    <3>2. CASE ~ RecoveryReads(wal)
      BY <1>0, <1>21, <3>2 DEF FinishCheckpoint, TypeOK
    <3> QED BY <3>1, <3>2
  <2> QED BY <1>0, <1>21, <2>1, <2>2, NewFileShape
          DEF FinishCheckpoint, EndCheckpoint, SyncDir, TypeOK
<1> QED
  BY <1>1, <1>2, <1>3, <1>4, <1>5, <1>6, <1>7, <1>8, <1>9, <1>10, <1>11, <1>12,
     <1>13, <1>14, <1>15, <1>16, <1>17, <1>18, <1>19, <1>20, <1>21
     DEF Step, OpenStep, TransactionStep, CheckpointStep, CheckpointWork, Fault

-----------------------------------------------------------------------------
(* Every log keeps its shape: replay stays the scan of recs. *)
LEMMA ShapeStep ==
    ASSUME TypeInv, NEW p \in Proc, Step(p)
    PROVE  Shapes'
<1>0. TypeOK /\ Shapes /\ FilesExist
  BY DEF TypeInv
<1>r. wal \in File /\ Shape(wal) /\ (\A f \in undo : Shape(f))
      /\ (\A q \in Proc : newWal[q] \in File /\ Shape(newWal[q]))
      /\ newWal \in [Proc -> File]
  BY <1>0 DEF TypeOK, Shapes
<1>1. CASE RejectOpen(p) \/ FailOpen(p) \/ Close(p) \/ Kill(p)
  <2>1. /\ newWal' = [q \in Proc |-> IF q \in {p} THEN NoFile ELSE newWal[q]]
        /\ undo' = undo
    BY <1>1 DEF RejectOpen, FailOpen, Close, Kill, Drop
  <2>2. wal' = wal \/ \E b \in BOOLEAN : wal' = [wal EXCEPT !.torn = b]
    BY <1>1, <1>r DEF RejectOpen, FailOpen, Close, Kill, MidFrame, File
  <2>3. Shape(wal')
    BY <1>r, <2>2, EditShape
  <2> QED BY <1>r, <2>1, <2>3, NewFileShape DEF Shapes
<1>2. CASE \/ \E s \in Schemas \cup {NoSchema} : Open(p, s)
           \/ CheckFormat(p) \/ CreateFormat(p) \/ WriteFormat(p) \/ SyncFormat(p)
           \/ ReadSchema(p) \/ OpenWal(p) \/ SyncNewWal(p) \/ Recover(p)
           \/ CreateSchema(p) \/ WriteSchema(p) \/ SyncSchema(p)
           \/ \E t \in Transactions : StartTransaction(p, t)
           \/ FinishStaging(p)
  <2>1. wal' = wal /\ newWal' = newWal /\ undo' \in {undo, {}}
    BY <1>2 DEF Open, CheckFormat, CreateFormat, WriteFormat, SyncFormat, ReadSchema,
                OpenWal, SyncNewWal, Recover, CreateSchema, WriteSchema, SyncSchema,
                StartTransaction, FinishStaging, SyncDir
  <2> QED BY <1>r, <2>1 DEF Shapes
<1>3. CASE CreateWal(p)
  <2>1. wal' = CreatedFile /\ newWal' = newWal /\ undo' \in {undo \cup {wal}, {}}
    BY <1>3 DEF CreateWal, Replaced
  <2> QED BY <1>r, <2>1, NewFileShape DEF Shapes
<1>4. CASE WriteMagic(p) \/ SyncCommit(p) \/ FailTransaction(p)
  <2>1. newWal' = newWal /\ undo' = undo
    BY <1>4 DEF WriteMagic, SyncCommit, FailTransaction
  <2>2. \E b \in BOOLEAN :
           wal' \in {[wal EXCEPT !.header = b], [wal EXCEPT !.torn = b], SyncAll(wal)}
    BY <1>4 DEF WriteMagic, SyncCommit, FailTransaction
  <2>3. Shape(wal')
    BY <1>r, <2>2, EditShape
  <2> QED BY <1>r, <2>1, <2>3 DEF Shapes
<1>5. CASE WriteBegin(p) \/ WriteOperation(p) \/ WriteCommit(p)
  <2>1. PICK r \in Record : wal' = AppendTo(wal, r) \/ wal' = wal
    BY <1>0, <1>5, RecordTypes DEF WriteBegin, WriteOperation, WriteCommit, LogRecord
  <2>2. wal.exists
    BY <1>0, <1>5 DEF FilesExist, WriteBegin, WriteOperation, WriteCommit, Writing
  <2>3. Shape(wal')
    BY <1>r, <2>1, <2>2, AppendShape
  <2>4. newWal' = newWal /\ undo' = undo
    BY <1>5 DEF WriteBegin, WriteOperation, WriteCommit
  <2> QED BY <1>r, <2>3, <2>4 DEF Shapes
<1>6. CASE StartCheckpoint(p)
  BY <1>r, <1>6, NewFileShape DEF StartCheckpoint, Shapes
<1>7. CASE WriteStagingMagic(p)
  <2>1. Shape([newWal[p] EXCEPT !.header = TRUE])
    BY <1>r, EditShape
  <2> QED BY <1>r, <1>7, <2>1 DEF WriteStagingMagic, Shapes
<1>8. CASE BeginChunk(p) \/ (\E k \in Key : StageEntry(p, k)) \/ CommitChunk(p)
  <2>1. PICK r \in Record :
           newWal' \in {[newWal EXCEPT ![p] = AppendTo(newWal[p], r)],
                        [newWal EXCEPT ![p] = SyncAll(AppendTo(newWal[p], r))]}
    BY <1>0, <1>8, RecordTypes DEF BeginChunk, StageEntry, CommitChunk, StageRecord
  <2>2. newWal[p].exists
    BY <1>0, <1>8 DEF FilesExist, BeginChunk, StageEntry, CommitChunk
  <2>3. AppendTo(newWal[p], r) \in File /\ Shape(AppendTo(newWal[p], r))
    BY <1>r, <2>2, AppendShape
  <2>4. Shape(SyncAll(AppendTo(newWal[p], r)))
    BY <2>3, EditShape
  <2>5. wal' = wal /\ undo' = undo
    BY <1>8 DEF BeginChunk, StageEntry, CommitChunk
  <2> QED BY <1>r, <2>1, <2>3, <2>4, <2>5 DEF Shapes
<1>9. CASE FailStaging(p) \/ FailStagingCreate(p) \/ FailPublish(p) \/ FinishCheckpoint(p)
  <2>1. wal' = wal /\ undo' \in {undo, {}} /\ newWal' = [newWal EXCEPT ![p] = NoFile]
    BY <1>9 DEF FailStaging, FailStagingCreate, FailPublish, FinishCheckpoint,
                AbandonCheckpoint, EndCheckpoint, SyncDir
  <2> QED BY <1>r, <2>1, NewFileShape DEF Shapes
<1>10. CASE Rename(p)
  <2>1. wal' = newWal[p] /\ newWal' = newWal /\ undo' \in {undo \cup {wal}, {}}
    BY <1>10 DEF Rename, Replaced
  <2> QED BY <1>r, <2>1 DEF Shapes
<1> QED
  BY <1>1, <1>2, <1>3, <1>4, <1>5, <1>6, <1>7, <1>8, <1>9, <1>10
     DEF Step, OpenStep, TransactionStep, CheckpointStep, CheckpointWork, Fault

-----------------------------------------------------------------------------
(* A step of a process leaves the handles of the others alone. *)
LEMMA StepIsLocal ==
    ASSUME TypeOK, NEW p \in Proc, Step(p), NEW q \in Proc, q # p
    PROVE  /\ pc'[q] = pc[q]
           /\ done'[q] = done[q] /\ left'[q] = left[q]
<1>1. CASE RejectOpen(p) \/ FailOpen(p) \/ Close(p) \/ Kill(p)
  <2>1. Drop({p})
    BY <1>1 DEF RejectOpen, FailOpen, Close, Kill
  <2> QED BY <2>1 DEF Drop
<1>2. CASE \/ \E s \in Schemas \cup {NoSchema} : Open(p, s)
           \/ OpenStep(p) /\ ~ RejectOpen(p)
  BY <1>2 DEF Open, OpenStep, CheckFormat, CreateFormat, WriteFormat, SyncFormat, ReadSchema,
              OpenWal, CreateWal, WriteMagic, SyncNewWal, Recover, CreateSchema,
              WriteSchema, SyncSchema, TypeOK
<1>3. CASE \/ \E t \in Transactions : StartTransaction(p, t)
           \/ TransactionStep(p) \/ FailTransaction(p)
  BY <1>3 DEF StartTransaction, TransactionStep, WriteBegin, WriteOperation, WriteCommit,
              SyncCommit, LogRecord, FailTransaction, TypeOK
<1>4. CASE \/ StartCheckpoint(p) \/ WriteStagingMagic(p) \/ BeginChunk(p)
           \/ (\E k \in Key : StageEntry(p, k)) \/ CommitChunk(p)
           \/ FinishStaging(p) \/ Rename(p)
  BY <1>4 DEF StartCheckpoint, WriteStagingMagic, BeginChunk, StageEntry, StageRecord,
              CommitChunk, FinishStaging, Rename, TypeOK
<1>5. CASE FailStaging(p) \/ FinishCheckpoint(p) \/ FailStagingCreate(p) \/ FailPublish(p)
  BY <1>5 DEF FailStaging, AbandonCheckpoint, EndCheckpoint, FinishCheckpoint,
              FailStagingCreate, FailPublish, TypeOK
<1> QED
  BY <1>1, <1>2, <1>3, <1>4, <1>5 DEF Step, OpenStep, CheckpointStep, CheckpointWork, Fault

(* Whoever takes a step holds the lock, or takes it now. *)
LEMMA StepNeedsLock ==
    ASSUME TypeInv, NEW p \in Proc, Step(p)
    PROVE  /\ lock = p \/ (lock = Nobody /\ lock' = p)
           /\ lock' = p \/ pc'[p] = "closed"
<1>0. TypeOK /\ LockDiscipline
  BY DEF TypeInv
<1>1. CASE \E s \in Schemas \cup {NoSchema} : Open(p, s)
  BY <1>1 DEF Open
<1>2. CASE RejectOpen(p) \/ FailOpen(p) \/ Close(p) \/ Kill(p)
  <2>1. Drop({p})
    BY <1>2 DEF RejectOpen, FailOpen, Close, Kill
  <2>2. pc[p] # "closed"
    BY <1>2 DEF RejectOpen, Refused, FailOpen, Close, Kill, Opening
  <2>3. pc'[p] = "closed"
    BY <2>1 DEF Drop
  <2> QED BY <1>0, <2>2, <2>3 DEF LockDiscipline
<1>3. CASE OpenStep(p) /\ ~ RejectOpen(p)
  <2>1. pc[p] # "closed" /\ lock' = lock
    BY <1>3 DEF OpenStep, CheckFormat, CreateFormat, WriteFormat, SyncFormat, ReadSchema,
              OpenWal, CreateWal, WriteMagic, SyncNewWal, Recover, CreateSchema,
              WriteSchema, SyncSchema
  <2> QED BY <1>0, <2>1 DEF LockDiscipline
<1>4. CASE \/ \E t \in Transactions : StartTransaction(p, t)
           \/ TransactionStep(p) \/ FailTransaction(p)
  <2>1. pc[p] # "closed" /\ lock' = lock
    BY <1>4 DEF StartTransaction, TransactionStep, WriteBegin, WriteOperation, WriteCommit,
              SyncCommit, FailTransaction, Writing
  <2> QED BY <1>0, <2>1 DEF LockDiscipline
<1>5. CASE StartCheckpoint(p) \/ CheckpointStep(p) \/ FailStagingCreate(p) \/ FailPublish(p)
  <2>1. lock' = lock
    BY <1>5 DEF StartCheckpoint, CheckpointStep, CheckpointWork, WriteStagingMagic, BeginChunk, StageEntry,
              CommitChunk, FailStaging, FinishStaging, Rename, FinishCheckpoint,
              FailStagingCreate, FailPublish
  <2>2. pc[p] # "closed"
    BY <1>5 DEF StartCheckpoint, CheckpointStep, CheckpointWork, WriteStagingMagic, BeginChunk, StageEntry,
              CommitChunk, FailStaging, StagingFull, FinishStaging, Rename, FinishCheckpoint,
              FailStagingCreate, FailPublish
  <2> QED BY <1>0, <2>1, <2>2 DEF LockDiscipline
<1> QED
  BY <1>1, <1>2, <1>3, <1>4, <1>5 DEF Step, OpenStep, CheckpointStep, CheckpointWork, Fault

(* While one process takes a step, all the others are closed. *)
LEMMA OthersAreClosed ==
    ASSUME TypeInv, NEW p \in Proc, Step(p), NEW q \in Proc, q # p
    PROVE  pc[q] = "closed" /\ pc'[q] = "closed"
<1>1. pc[q] = "closed"
  BY StepNeedsLock, DatabaseConstants DEF TypeInv, LockDiscipline
<1> QED BY <1>1, StepIsLocal DEF TypeInv

LEMMA LockStep ==
    ASSUME TypeInv, NEW p \in Proc, Step(p)
    PROVE  LockDiscipline'
BY StepNeedsLock, OthersAreClosed DEF LockDiscipline

-----------------------------------------------------------------------------
(* An id is only put to use when its successor is an id too. *)
LEMMA IdStep ==
    ASSUME TypeInv, NEW p \in Proc, Step(p)
    PROVE  IdsHaveSuccessors'
<1>0. TypeOK /\ IdsHaveSuccessors
  BY DEF TypeInv
<1> SUFFICES /\ pc'[p] \in Writing => nextId'[p] < MaxTxId
             /\ pc'[p] = "chunk" => ckptId'[p] < MaxTxId
  BY OthersAreClosed DEF IdsHaveSuccessors, Writing
<1>1. CASE RejectOpen(p) \/ FailOpen(p) \/ Close(p) \/ Kill(p)
  <2>1. Drop({p})
    BY <1>1 DEF RejectOpen, FailOpen, Close, Kill
  <2>2. pc'[p] = "closed"
    BY <2>1 DEF Drop
  <2> QED BY <2>2 DEF Writing
<1>2. CASE \/ \E s \in Schemas \cup {NoSchema} : Open(p, s)
           \/ OpenStep(p) /\ ~ RejectOpen(p)
  <2>1. pc'[p] \in Opening \cup {"ready"}
    BY <1>0, <1>2
       DEF Open, OpenStep, CheckFormat, CreateFormat, WriteFormat, SyncFormat, ReadSchema,
              OpenWal, CreateWal, WriteMagic, SyncNewWal, Recover, CreateSchema,
              WriteSchema, SyncSchema, TypeOK, Opening
  <2> QED BY <2>1 DEF Opening, Writing
<1>3. CASE \E t \in Transactions : StartTransaction(p, t)
  <2>1. nextId[p] < MaxTxId /\ nextId' = nextId /\ pc'[p] = "begin"
    BY <1>0, <1>3 DEF StartTransaction, MayCommit, TypeOK
  <2> QED BY <2>1
<1>4. CASE WriteBegin(p) \/ WriteOperation(p) \/ WriteCommit(p)
  <2>1. pc[p] \in Writing /\ nextId' = nextId
    BY <1>4 DEF WriteBegin, WriteOperation, WriteCommit, Writing
  <2>2. pc'[p] # "chunk"
    BY <1>0, <1>4 DEF WriteBegin, WriteOperation, WriteCommit, LogRecord, TypeOK
  <2> QED BY <1>0, <2>1, <2>2 DEF IdsHaveSuccessors
<1>5. CASE SyncCommit(p) \/ FailTransaction(p) \/ FailStaging(p) \/ FailStagingCreate(p)
           \/ FailPublish(p) \/ FinishCheckpoint(p) \/ CommitChunk(p)
           \/ StartCheckpoint(p) \/ WriteStagingMagic(p) \/ FinishStaging(p) \/ Rename(p)
  <2>1. pc'[p] \in {"ready", "ckptNew", "ckpt", "rename", "renamed"}
    BY <1>0, <1>5
       DEF SyncCommit, FailTransaction, FailStaging, FailStagingCreate, FailPublish,
           FinishCheckpoint, AbandonCheckpoint, EndCheckpoint, CommitChunk, StartCheckpoint,
           WriteStagingMagic, FinishStaging, Rename, TypeOK
  <2> QED BY <2>1 DEF Writing
<1>6. CASE BeginChunk(p) \/ (\E k \in Key : StageEntry(p, k))
  <2>1. ckptId' = ckptId /\ pc'[p] = "chunk" /\ (ckptId[p] < MaxTxId \/ pc[p] = "chunk")
    BY <1>0, <1>6 DEF BeginChunk, StageEntry, StageRecord, TypeOK
  <2> QED BY <1>0, <2>1 DEF IdsHaveSuccessors, Writing
<1> QED
  BY <1>1, <1>2, <1>3, <1>4, <1>5, <1>6
     DEF Step, OpenStep, TransactionStep, CheckpointStep, CheckpointWork, Fault

(* The log of an open handle exists, and the staging log of a checkpoint. *)
LEMMA FilesStep ==
    ASSUME TypeInv, NEW p \in Proc, Step(p)
    PROVE  FilesExist'
<1>0. TypeOK /\ FilesExist /\ Shapes
  BY DEF TypeInv
<1>r. wal \in File /\ Shape(wal) /\ newWal[p] \in File /\ Shape(newWal[p])
  BY <1>0 DEF TypeOK, Shapes
<1> DEFINE UsesWal == {"walNew", "walWritten", "recover", "persist", "schemaNew",
                       "schemaWritten", "ready"} \cup Writing \cup Checkpointing
           UsesStaging == {"ckptNew", "ckpt", "chunk", "rename"}
<1>f. /\ pc[p] \in UsesWal => wal.exists
      /\ pc[p] \in UsesStaging => newWal[p].exists
  BY <1>0 DEF FilesExist
<1> SUFFICES /\ pc'[p] \in UsesWal => wal'.exists
             /\ pc'[p] \in UsesStaging => newWal'[p].exists
  BY OthersAreClosed DEF FilesExist, Writing, Checkpointing
<1>1. CASE RejectOpen(p) \/ FailOpen(p) \/ Close(p) \/ Kill(p)
  <2>1. Drop({p})
    BY <1>1 DEF RejectOpen, FailOpen, Close, Kill
  <2>2. pc'[p] = "closed"
    BY <2>1 DEF Drop
  <2> QED BY <2>2 DEF Writing, Checkpointing
<1>2. CASE \/ \E s \in Schemas \cup {NoSchema} : Open(p, s)
           \/ CheckFormat(p) \/ CreateFormat(p) \/ WriteFormat(p) \/ SyncFormat(p)
           \/ ReadSchema(p)
  <2>1. pc'[p] \in {"format", "schema", "formatNew", "formatWritten", "wal"}
    BY <1>0, <1>2 DEF Open, CheckFormat, CreateFormat, WriteFormat, SyncFormat, ReadSchema,
                      TypeOK
  <2> QED BY <2>1 DEF Writing, Checkpointing
<1>3. CASE OpenWal(p) \/ SyncNewWal(p) \/ Recover(p) \/ CreateSchema(p) \/ WriteSchema(p)
           \/ SyncSchema(p) \/ (\E t \in Transactions : StartTransaction(p, t))
  <2>1. wal' = wal /\ wal.exists
    BY <1>f, <1>3 DEF OpenWal, SyncNewWal, Recover, CreateSchema, WriteSchema, SyncSchema,
                      StartTransaction
  <2>2. pc'[p] \notin UsesStaging
    BY <1>0, <1>3 DEF OpenWal, SyncNewWal, Recover, CreateSchema, WriteSchema, SyncSchema,
                      StartTransaction, TypeOK
  <2> QED BY <2>1, <2>2
<1>4. CASE CreateWal(p) \/ WriteMagic(p) \/ SyncCommit(p) \/ FailTransaction(p)
  <2>1. \/ wal' = CreatedFile
        \/ wal.exists /\ \E b \in BOOLEAN :
             wal' \in {[wal EXCEPT !.header = b], [wal EXCEPT !.torn = b], SyncAll(wal)}
    BY <1>f, <1>4 DEF CreateWal, WriteMagic, SyncCommit, FailTransaction, Writing
  <2>2. wal'.exists
    <3>1. CASE wal' = CreatedFile
      BY <3>1 DEF CreatedFile, EmptyFile
    <3>2. CASE wal' # CreatedFile
      <4>1. PICK b \in BOOLEAN :
               wal' \in {[wal EXCEPT !.header = b], [wal EXCEPT !.torn = b], SyncAll(wal)}
        BY <2>1, <3>2
      <4>2. wal'.exists = wal.exists
        BY <1>r, <4>1, EditShape
      <4> QED BY <2>1, <3>2, <4>2
    <3> QED BY <3>1, <3>2
  <2>3. pc'[p] \notin UsesStaging
    BY <1>0, <1>4 DEF CreateWal, WriteMagic, SyncCommit, FailTransaction, TypeOK
  <2> QED BY <2>2, <2>3
<1>5. CASE WriteBegin(p) \/ WriteOperation(p) \/ WriteCommit(p)
  <2>1. PICK r \in Record : wal' = AppendTo(wal, r) \/ wal' = wal
    BY <1>0, <1>5, RecordTypes DEF WriteBegin, WriteOperation, WriteCommit, LogRecord
  <2>2. wal.exists
    BY <1>f, <1>5 DEF WriteBegin, WriteOperation, WriteCommit, Writing
  <2>3. wal'.exists
    BY <1>r, <2>1, <2>2, AppendShape
  <2>4. pc'[p] \notin UsesStaging
    BY <1>0, <1>5 DEF WriteBegin, WriteOperation, WriteCommit, LogRecord, TypeOK
  <2> QED BY <2>3, <2>4
<1>6. CASE StartCheckpoint(p)
  <2>1. wal' = wal /\ wal.exists /\ newWal'[p] = CreatedFile
    BY <1>0, <1>f, <1>6 DEF StartCheckpoint, TypeOK
  <2> QED BY <2>1 DEF CreatedFile, EmptyFile
<1>7. CASE WriteStagingMagic(p)
  <2>1. wal' = wal /\ wal.exists /\ newWal[p].exists
        /\ newWal'[p] = [newWal[p] EXCEPT !.header = TRUE]
    BY <1>0, <1>f, <1>7 DEF WriteStagingMagic, TypeOK, Checkpointing
  <2> QED BY <1>r, <2>1, EditShape
<1>8. CASE BeginChunk(p) \/ (\E k \in Key : StageEntry(p, k)) \/ CommitChunk(p)
  <2>1. PICK r \in Record :
           newWal' \in {[newWal EXCEPT ![p] = AppendTo(newWal[p], r)],
                        [newWal EXCEPT ![p] = SyncAll(AppendTo(newWal[p], r))]}
    BY <1>0, <1>8, RecordTypes DEF BeginChunk, StageEntry, CommitChunk, StageRecord
  <2>2. newWal[p].exists /\ wal.exists /\ wal' = wal
    BY <1>f, <1>8 DEF BeginChunk, StageEntry, CommitChunk, Checkpointing
  <2>3. /\ AppendTo(newWal[p], r) \in File /\ Shape(AppendTo(newWal[p], r))
        /\ AppendTo(newWal[p], r).exists
    BY <1>r, <2>2, AppendShape
  <2>4. SyncAll(AppendTo(newWal[p], r)).exists
    BY <2>3, EditShape
  <2>5. newWal'[p].exists
    BY <1>0, <2>1, <2>3, <2>4 DEF TypeOK
  <2> QED BY <2>2, <2>5
<1>9. CASE FailStaging(p) \/ FailStagingCreate(p) \/ FailPublish(p) \/ FinishCheckpoint(p)
  <2>1. wal' = wal /\ EndCheckpoint(p)
    BY <1>9 DEF FailStaging, FailStagingCreate, FailPublish, FinishCheckpoint,
                AbandonCheckpoint
  <2>2. pc[p] \in Checkpointing
    BY <1>9 DEF FailStaging, StagingFull, FailStagingCreate, FailPublish, FinishCheckpoint,
                Checkpointing
  <2>3. pc'[p] = "ready"
    BY <1>0, <2>1 DEF EndCheckpoint, TypeOK
  <2> QED BY <1>f, <2>1, <2>2, <2>3
<1>10. CASE FinishStaging(p)
  <2>1. pc[p] = "ckpt" /\ newWal' = newWal /\ wal' = wal
    BY <1>10 DEF FinishStaging
  <2> QED BY <1>f, <2>1 DEF Checkpointing
<1>11. CASE Rename(p)
  <2>1. pc[p] = "rename" /\ wal' = newWal[p] /\ pc'[p] = "renamed"
    BY <1>0, <1>11 DEF Rename, TypeOK
  <2> QED BY <1>f, <2>1
<1> QED
  BY <1>1, <1>2, <1>3, <1>4, <1>5, <1>6, <1>7, <1>8, <1>9, <1>10, <1>11
     DEF Step, OpenStep, TransactionStep, CheckpointStep, CheckpointWork, Fault

-----------------------------------------------------------------------------
(* A power cut leaves a well-formed log and no handles. *)
LEMMA PowerCutTypeInv ==
    ASSUME TypeInv, PowerCut
    PROVE  TypeInv'
<1>0. TypeOK /\ Shapes
  BY DEF TypeInv
<1>1. PICK before \in undo \cup {wal} :
         /\ wal' \in AfterPowerCut(before, before = wal /\ \E p \in Proc : MidFrame(p))
         /\ staging' \in SUBSET (staging \cup
               IF before = wal THEN {} ELSE {p \in Proc : pc[p] = "renamed"})
  BY DEF PowerCut
<1>2. before \in File /\ Shape(before)
  BY <1>0 DEF TypeOK, Shapes
<1>3. wal' \in File /\ Shape(wal')
  BY <1>1, <1>2, PowerCutShape
<1>4. Drop(Proc) /\ UNCHANGED promised /\ undo' = {} /\ dirty' = {}
  BY DEF PowerCut
<1>5. staging' \in SUBSET Proc
  BY <1>0, <1>1 DEF TypeOK
<1>6. format' \in {"absent", "torn", "ok"}
      /\ schemaFile' \in Schemas \cup {NoSchema, TornSchema}
  BY <1>0 DEF PowerCut, TypeOK
<1>7. TypeOK'
  BY <1>0, <1>3, <1>4, <1>5, <1>6, DropTypes DEF TypeOK
<1>8. /\ \A p \in Proc : pc'[p] = "closed"
      /\ newWal' = [p \in Proc |-> NoFile]
  BY <1>4 DEF Drop
<1>9. Shapes'
  BY <1>3, <1>4, <1>8, NewFileShape DEF Shapes
<1>10. LockDiscipline' /\ IdsHaveSuccessors' /\ FilesExist'
  BY <1>8 DEF LockDiscipline, IdsHaveSuccessors, FilesExist, Writing, Checkpointing
<1> QED BY <1>7, <1>9, <1>10 DEF TypeInv

(* The invariant of layer 1 is inductive. *)
LEMMA TypeInvStep == TypeInv /\ [Next]_vars => TypeInv'
<1> SUFFICES ASSUME TypeInv, [Next]_vars PROVE TypeInv'
  OBVIOUS
<1>1. ASSUME NEW p \in Proc, Step(p) PROVE TypeInv'
  BY <1>1, TypeStep, ShapeStep, LockStep, IdStep, FilesStep DEF TypeInv
<1>2. CASE PowerCut
  BY <1>2, PowerCutTypeInv
<1>3. CASE UNCHANGED vars
  BY <1>3 DEF vars, TypeInv, TypeOK, Shapes, LockDiscipline, IdsHaveSuccessors, FilesExist
<1> QED BY <1>1, <1>2, <1>3 DEF Next

(* Layer 1 holds in every reachable state, whatever the constants. *)
THEOREM TypeInvariance == Spec => []TypeInv
<1> QED BY InitTypeInv, TypeInvStep, PTL DEF Spec

(* Every variable keeps its type, whatever fails: the labels of the calls,
   the ids in the log, the shape of every file. *)
THEOREM TypeCorrect == Spec => []TypeOK
<1>1. TypeInv => TypeOK
  BY DEF TypeInv
<1> QED BY <1>1, TypeInvariance, PTL

-----------------------------------------------------------------------------
(* Layer 2: the handle and the log. *)
LEMMA InitAgreement == Init => AgreementInv
BY DEF Init, AgreementInv, Agreement, LeftIsLive, Opening, Writing, Checkpointing

(* Who is closed has nothing in flight. *)
LEMMA ClosedAgrees ==
    ASSUME NEW p \in Proc, pc[p] = "closed", done[p] = 0, left[p] = {}
    PROVE  Agreement(p)
BY DEF Agreement, LeftIsLive, Writing, Checkpointing

(* While it opens the directory a handle has nothing in flight; from the
   moment the log has been read it agrees with it. *)
LEMMA OpenAgrees ==
    ASSUME TypeInv, NEW p \in Proc, Agreement(p),
           \/ \E s \in Schemas \cup {NoSchema} : Open(p, s)
           \/ OpenStep(p) /\ ~ RejectOpen(p)
    PROVE  Agreement(p)'
<1>0. TypeOK /\ Shapes
  BY DEF TypeInv
<1>1. /\ pc[p] \in Opening \cup {"closed"}
      /\ done' = done /\ left' = left
  BY DEF Open, OpenStep, CheckFormat, CreateFormat, WriteFormat, SyncFormat, ReadSchema,
         OpenWal, CreateWal, WriteMagic, SyncNewWal, Recover, CreateSchema, WriteSchema,
         SyncSchema, Opening
<1>2. done'[p] = 0 /\ left'[p] = {}
  BY <1>1 DEF Agreement, Opening, Checkpointing
<1>3. CASE Recover(p)
  <2>1. Replayed(wal) \in Scan
    BY <1>0, ReplayedType DEF TypeOK, Shapes
  <2>2. \A id \in Replayed(wal).seen : id < NextIdAfter(Replayed(wal).seen)
    BY <2>1, NextIdAfterProperty DEF Scan
  <2>3. /\ data'[p] = Replayed(wal).data
        /\ nextId'[p] = NextIdAfter(Replayed(wal).seen)
        /\ wal' = wal
    BY <1>0, <1>3 DEF Recover, TypeOK
  <2>4. InStep(p)'
    BY <2>2, <2>3 DEF InStep
  <2>5. pc'[p] \in {"persist", "ready"}
    BY <1>0, <1>3 DEF Recover, TypeOK
  <2> QED BY <1>2, <2>4, <2>5 DEF Agreement, LeftIsLive, Writing, Checkpointing
<1>4. CASE CreateSchema(p) \/ WriteSchema(p) \/ SyncSchema(p)
  <2>1. wal' = wal /\ data' = data /\ nextId' = nextId
        /\ pc[p] \in {"persist", "schemaNew", "schemaWritten"}
    BY <1>4 DEF CreateSchema, WriteSchema, SyncSchema
  <2>2. InStep(p)'
    BY <2>1 DEF Agreement, InStep
  <2>3. pc'[p] \in {"schemaNew", "schemaWritten", "ready"}
    BY <1>0, <1>4 DEF CreateSchema, WriteSchema, SyncSchema, TypeOK
  <2> QED BY <1>2, <2>2, <2>3 DEF Agreement, LeftIsLive, Writing, Checkpointing
<1>5. CASE ~ (Recover(p) \/ CreateSchema(p) \/ WriteSchema(p) \/ SyncSchema(p))
  <2>1. pc'[p] \in {"format", "formatNew", "formatWritten", "schema", "wal", "walNew",
                    "walWritten", "recover"}
    BY <1>0, <1>5 DEF Open, OpenStep, CheckFormat, CreateFormat, WriteFormat, SyncFormat,
         ReadSchema, OpenWal, CreateWal, WriteMagic, SyncNewWal, TypeOK
  <2> QED BY <1>2, <2>1 DEF Agreement, LeftIsLive, Writing, Checkpointing
<1> QED BY <1>3, <1>4, <1>5

-----------------------------------------------------------------------------
(* A transaction on its way: what is pending in the log is the part of it
   that has been written, and its COMMIT applies the whole of it. *)
LEMMA TransactionAgrees ==
    ASSUME TypeInv, NEW p \in Proc, Agreement(p),
           \/ \E t \in Transactions : StartTransaction(p, t)
           \/ TransactionStep(p)
           \/ FailTransaction(p)
    PROVE  Agreement(p)'
<1>0. TypeOK /\ Shapes /\ FilesExist
  BY DEF TypeInv
<1>r. wal \in File /\ Shape(wal) /\ Replayed(wal) \in Scan
  BY <1>0, ReplayedType DEF TypeOK, Shapes
<1>t. /\ nextId[p] \in TransactionId /\ data[p] \in Map
      /\ ops[p] \in Seq(Operation) /\ done[p] \in Nat
  BY <1>0 DEF TypeOK
<1>l. left[p] = {}
  <2>1. pc[p] \in {"ready"} \cup Writing
    BY DEF StartTransaction, TransactionStep, WriteBegin, WriteOperation, WriteCommit,
           SyncCommit, FailTransaction, Writing
  <2> QED BY <2>1 DEF Agreement, Writing, Checkpointing
<1> DEFINE id == nextId[p]
           s == Replayed(wal)
<1>1. CASE \E t \in Transactions : StartTransaction(p, t)
  <2>1. /\ pc[p] = "ready" /\ ~ poisoned[p]
        /\ wal' = wal /\ data' = data /\ nextId' = nextId /\ done' = done /\ left' = left
    BY <1>1 DEF StartTransaction, MayCommit
  <2>2. pc'[p] = "begin" /\ poisoned'[p]
    BY <1>0, <1>1 DEF StartTransaction, TypeOK
  <2>3. InStep(p)' /\ done'[p] = 0
    BY <2>1 DEF Agreement, InStep
  <2> QED BY <2>1, <2>2, <2>3, <1>l DEF Agreement, LeftIsLive, Opening, Writing, Checkpointing
<1>2. CASE WriteBegin(p)
  <2>1. /\ pc[p] = "begin" /\ InStep(p) /\ done[p] = 0 /\ poisoned[p] /\ wal.exists
        /\ UNCHANGED << data, nextId, done, left, poisoned, ops >>
    BY <1>0, <1>2 DEF WriteBegin, Agreement, FilesExist, Writing
  <2>2. CASE ~ Fits(wal, BeginRecord(id))
    <3>1. pc'[p] = "ready"
      BY <1>0, <1>2, <2>2 DEF WriteBegin, LogRecord, TypeOK
    <3> QED BY <2>1, <3>1, <1>l DEF Agreement, LeftIsLive, Opening, Writing, Checkpointing
  <2>3. CASE Fits(wal, BeginRecord(id))
    <3>1. wal' = AppendTo(wal, BeginRecord(id)) /\ pc'[p] = "write"
      BY <1>0, <1>2, <2>3 DEF WriteBegin, LogRecord, TypeOK
    <3>2. Replayed(wal') = Advance(s, BeginRecord(id))
      BY <1>0, <1>r, <2>1, <3>1, AppendShape, RecordTypes
    <3>3. /\ Replayed(wal').data = s.data
          /\ Replayed(wal').seen = s.seen \cup {id}
          /\ id \in Replayed(wal').pending
          /\ Replayed(wal').writes[id] = << >>
      BY <1>r, <1>t, <3>2, AdvanceBegin
    <3>4. \A i \in Replayed(wal').seen : i <= id
      <4>1. s.seen \subseteq TransactionId
        BY <1>r DEF Scan
      <4> QED BY <1>t, <2>1, <3>3, <4>1, WalConstants DEF InStep, TransactionId
    <3>5. HalfWritten(p)'
      BY <1>t, <2>1, <3>3, <3>4 DEF HalfWritten, InStep
    <3> QED BY <2>1, <3>1, <3>5, <1>l DEF Agreement, LeftIsLive, Opening, Writing, Checkpointing
  <2> QED BY <2>2, <2>3
<1>3. CASE WriteOperation(p)
  <2>1. /\ pc[p] = "write" /\ HalfWritten(p) /\ poisoned[p] /\ wal.exists
        /\ done[p] < Len(ops[p])
        /\ UNCHANGED << data, nextId, left, poisoned, ops >>
    BY <1>0, <1>3 DEF WriteOperation, Agreement, FilesExist, Writing
  <2>2. done'[p] = done[p] + 1
    BY <1>0, <1>3 DEF WriteOperation, TypeOK
  <2> DEFINE op == ops[p][done[p] + 1]
             r == WriteRecord(id, op)
  <2>3. CASE ~ Fits(wal, r)
    <3>1. pc'[p] = "ready"
      BY <1>0, <1>3, <2>3 DEF WriteOperation, LogRecord, TypeOK
    <3> QED BY <2>1, <3>1, <1>l DEF Agreement, LeftIsLive, Opening, Writing, Checkpointing
  <2>4. CASE Fits(wal, r)
    <3>1. wal' = AppendTo(wal, r) /\ pc'[p] = "write"
      BY <1>0, <1>3, <2>4 DEF WriteOperation, LogRecord, TypeOK
    <3>2. op \in Operation /\ done[p] + 1 \in 1 .. Len(ops[p])
      BY <1>t, <2>1
    <3>3. Replayed(wal') = Advance(s, r)
      BY <1>0, <1>r, <2>1, <3>1, AppendShape, RecordTypes
    <3>4. /\ Replayed(wal').data = s.data
          /\ Replayed(wal').seen = s.seen
          /\ Replayed(wal').pending = s.pending
          /\ Replayed(wal').writes[id] = Append(s.writes[id], op)
      <4> HIDE DEF op, id, s
      <4>1. id \in TransactionId /\ s \in Scan
        BY <1>r, <1>t DEF id, s
      <4> QED BY <3>2, <3>3, <4>1, AdvanceWrite
    <3>5. s.writes[id] \in Seq(Operation) /\ Len(s.writes[id]) = done[p]
          /\ \A i \in 1 .. done[p] : s.writes[id][i] = ops[p][i]
      BY <1>r, <1>t, <2>1 DEF Scan, HalfWritten
    <3>6. /\ Len(Append(s.writes[id], op)) = done[p] + 1
          /\ \A i \in 1 .. done[p] + 1 : Append(s.writes[id], op)[i] = ops[p][i]
      BY <1>t, <3>2, <3>5
    <3>7. HalfWritten(p)'
      <4>1. /\ data[p] = s.data /\ id \in s.pending
            /\ \A i \in s.seen : i <= id
        BY <2>1 DEF HalfWritten
      <4>2. /\ nextId'[p] = id /\ data'[p] = data[p] /\ ops'[p] = ops[p]
            /\ done'[p] = done[p] + 1 /\ done[p] + 1 <= Len(ops[p])
        BY <2>1, <2>2, <3>2, <1>t
      <4> DEFINE v == Append(s.writes[id], op)
                 z == Replayed(wal')
      <4>3. z.data = s.data /\ z.seen = s.seen /\ z.pending = s.pending /\ z.writes[id] = v
        BY <3>4
      <4>4. Len(v) = done[p] + 1 /\ \A i \in 1 .. done[p] + 1 : v[i] = ops[p][i]
        BY <3>6
      <4> HIDE DEF v, z, s, op, id
      <4>5. /\ z.data = data'[p] /\ id \in z.pending /\ (\A i \in z.seen : i <= id)
            /\ done'[p] = Len(z.writes[id]) /\ done'[p] <= Len(ops'[p])
            /\ \A i \in 1 .. done'[p] : z.writes[id][i] = ops'[p][i]
        BY <4>1, <4>2, <4>3, <4>4
      <4> QED BY <4>2, <4>5 DEF HalfWritten, z
    <3> QED BY <2>1, <3>1, <3>7, <1>l DEF Agreement, LeftIsLive, Opening, Writing, Checkpointing
  <2> QED BY <2>3, <2>4
<1>4. CASE WriteCommit(p)
  <2>1. /\ pc[p] = "write" /\ HalfWritten(p) /\ poisoned[p] /\ wal.exists
        /\ done[p] = Len(ops[p])
        /\ UNCHANGED << data, nextId, left, poisoned, ops >>
    BY <1>0, <1>4 DEF WriteCommit, Agreement, FilesExist, Writing
  <2>2. CASE ~ Fits(wal, CommitRecord(id))
    <3>1. pc'[p] = "ready"
      BY <1>0, <1>4, <2>2 DEF WriteCommit, LogRecord, TypeOK
    <3> QED BY <2>1, <3>1, <1>l DEF Agreement, LeftIsLive, Opening, Writing, Checkpointing
  <2>3. CASE Fits(wal, CommitRecord(id))
    <3>1. wal' = AppendTo(wal, CommitRecord(id)) /\ pc'[p] = "sync"
      BY <1>0, <1>4, <2>3 DEF WriteCommit, LogRecord, TypeOK
    <3>2. Replayed(wal') = Advance(s, CommitRecord(id))
      BY <1>0, <1>r, <2>1, <3>1, AppendShape, RecordTypes
    <3>3. /\ Replayed(wal').data = Apply(s.data, s.writes[id])
          /\ Replayed(wal').seen = s.seen
      BY <1>r, <1>t, <3>2, AdvanceCommit
    <3>4. s.writes[id] \in Seq(Operation) /\ Len(s.writes[id]) = Len(ops[p])
          /\ \A i \in 1 .. Len(s.writes[id]) : s.writes[id][i] = ops[p][i]
      BY <1>r, <1>t, <2>1 DEF Scan, HalfWritten
    <3>5. s.writes[id] = ops[p]
      BY <1>t, <3>4, SeqEqual
    <3>6. Committed(p)'
      BY <2>1, <3>3, <3>5 DEF Committed, HalfWritten
    <3> QED BY <2>1, <3>1, <3>6, <1>l DEF Agreement, LeftIsLive, Opening, Writing, Checkpointing
  <2> QED BY <2>2, <2>3
<1>5. CASE SyncCommit(p)
  <2>1. /\ pc[p] = "sync" /\ Committed(p)
        /\ wal' = SyncAll(wal) /\ left' = left
    BY <1>5 DEF SyncCommit, Agreement
  <2>2. Replayed(wal') = s
    BY <1>r, <2>1, EditShape
  <2>3. /\ data'[p] = Apply(data[p], ops[p])
        /\ nextId'[p] = nextId[p] + 1
        /\ done'[p] = 0
        /\ pc'[p] = "ready"
    BY <1>0, <1>5 DEF SyncCommit, TypeOK
  <2>4. InStep(p)'
    <3>1. s.seen \subseteq TransactionId
      BY <1>r DEF Scan
    <3> QED BY <1>t, <2>1, <2>2, <2>3, <3>1, WalConstants DEF InStep, Committed, TransactionId
  <2> QED BY <2>1, <2>3, <2>4, <1>l DEF LeftIsLive, Agreement, Opening, Writing, Checkpointing
<1>6. CASE FailTransaction(p)
  <2>1. /\ pc[p] \in Writing /\ poisoned[p]
        /\ UNCHANGED << data, left, poisoned >>
    BY <1>6 DEF FailTransaction, Agreement
  <2>2. pc'[p] = "ready"
    BY <1>0, <1>6 DEF FailTransaction, TypeOK
  <2> QED BY <2>1, <2>2, <1>l DEF Agreement, LeftIsLive, Opening, Writing, Checkpointing
<1> QED BY <1>1, <1>2, <1>3, <1>4, <1>5, <1>6 DEF TransactionStep

-----------------------------------------------------------------------------
(* A checkpoint on its way: the staging log holds what the handle holds,
   except the entries that are left and those of the open chunk. *)
LEMMA CheckpointAgrees ==
    ASSUME TypeInv, NEW p \in Proc, Agreement(p),
           StartCheckpoint(p) \/ CheckpointStep(p) \/ FailStagingCreate(p)
               \/ FailPublish(p)
    PROVE  Agreement(p)'
<1>0. TypeOK /\ Shapes /\ FilesExist
  BY DEF TypeInv
<1>r. newWal[p] \in File /\ Shape(newWal[p]) /\ Replayed(newWal[p]) \in Scan
  BY <1>0, ReplayedType DEF TypeOK, Shapes
<1>t. ckptId[p] \in TransactionId /\ data[p] \in Map /\ done[p] \in Nat
  BY <1>0 DEF TypeOK
<1> DEFINE id == ckptId[p]
           s == Replayed(newWal[p])
           w == s.writes[id]
<1>s. s.seen \subseteq TransactionId /\ w \in Seq(Operation) /\ s.data \in Map
  BY <1>r, <1>t DEF Scan
<1>1. CASE StartCheckpoint(p)
  <2>1. /\ pc[p] = "ready" /\ ~ poisoned[p]
        /\ wal' = wal /\ data' = data /\ nextId' = nextId /\ done' = done
    BY <1>1 DEF StartCheckpoint
  <2>2. /\ pc'[p] = "ckptNew"
        /\ left'[p] = Live(data[p])
        /\ newWal'[p] = CreatedFile
    BY <1>0, <1>1 DEF StartCheckpoint, TypeOK
  <2>3. InStep(p)' /\ done'[p] = 0
    BY <2>1 DEF Agreement, InStep
  <2>4. Replayed(newWal'[p]) = ScanStart
    BY <2>2, NewFileShape
  <2>5. Staged(p)'
    BY <1>t, <2>1, <2>2, <2>4 DEF Staged, ScanStart, EmptyMap, Live, Map
  <2> QED BY <2>1, <2>2, <2>3, <2>5 DEF Agreement, LeftIsLive, Opening, Writing, Checkpointing
<1>2. CASE WriteStagingMagic(p)
  <2>1. /\ pc[p] = "ckptNew" /\ InStep(p) /\ Staged(p) /\ done[p] = 0 /\ LeftIsLive(p)
        /\ UNCHANGED << wal, data, nextId, done, left, ckptId >>
    BY <1>2 DEF WriteStagingMagic, Agreement
  <2>2. pc'[p] = "ckpt" /\ newWal'[p] = [newWal[p] EXCEPT !.header = TRUE]
    BY <1>0, <1>2 DEF WriteStagingMagic, TypeOK
  <2>3. Replayed(newWal'[p]) = s
    BY <1>r, <2>2, EditShape
  <2>4. InStep(p)' /\ Staged(p)' /\ LeftIsLive(p)'
    BY <2>1, <2>3 DEF InStep, Staged, LeftIsLive
  <2> QED BY <2>1, <2>2, <2>4 DEF Agreement, Opening, Writing, Checkpointing
<1>3. CASE BeginChunk(p)
  <2>1. /\ pc[p] = "ckpt" /\ InStep(p) /\ Staged(p) /\ done[p] = 0 /\ LeftIsLive(p)
        /\ newWal[p].exists
        /\ UNCHANGED << wal, data, nextId, done, left, ckptId >>
    BY <1>0, <1>3 DEF BeginChunk, Agreement, FilesExist
  <2>2. pc'[p] = "chunk" /\ newWal'[p] = AppendTo(newWal[p], BeginRecord(id))
    BY <1>0, <1>3 DEF BeginChunk, StageRecord, TypeOK
  <2>3. Replayed(newWal'[p]) = Advance(s, BeginRecord(id))
    BY <1>0, <1>r, <2>1, <2>2, AppendShape, RecordTypes
  <2>4. /\ Replayed(newWal'[p]).data = s.data
        /\ Replayed(newWal'[p]).seen = s.seen \cup {id}
        /\ id \in Replayed(newWal'[p]).pending
        /\ Replayed(newWal'[p]).writes[id] = << >>
    BY <1>r, <1>t, <2>3, AdvanceBegin
  <2>5. \A i \in Replayed(newWal'[p]).seen : i <= id
    BY <1>s, <1>t, <2>1, <2>4, WalConstants DEF Staged, TransactionId
  <2>6. \A k \in Key : ~ Touches(<< >>, k)
    BY DEF Touches
  <2>7. StagedInChunk(p)'
    BY <2>1, <2>4, <2>5, <2>6, WalConstants DEF StagedInChunk, Staged
  <2>8. InStep(p)' /\ LeftIsLive(p)'
    BY <2>1 DEF InStep, LeftIsLive
  <2> QED BY <2>2, <2>7, <2>8 DEF Agreement, Opening, Writing, Checkpointing
<1>4. ASSUME NEW k \in Key, StageEntry(p, k) PROVE Agreement(p)'
  <2>1. /\ pc[p] = "chunk" /\ InStep(p) /\ StagedInChunk(p) /\ LeftIsLive(p)
        /\ newWal[p].exists /\ k \in left[p] /\ done[p] # MAX_TRANSACTION_OPERATIONS
        /\ UNCHANGED << wal, data, nextId, ckptId >>
    BY <1>0, <1>4 DEF StageEntry, ChunkFull, Agreement, FilesExist
  <2> DEFINE op == [key |-> k, value |-> data[p][k]]
  <2>2. /\ pc'[p] = "chunk" /\ newWal'[p] = AppendTo(newWal[p], WriteRecord(id, op))
        /\ done'[p] = done[p] + 1 /\ left'[p] = left[p] \ {k}
    BY <1>0, <1>4 DEF StageEntry, StageRecord, Entry, TypeOK
  <2>3. op \in Operation /\ op.key = k /\ op.value = data[p][k]
    BY <1>t DEF Operation, Map
  <2>4. WriteRecord(id, op) \in Record
    BY <1>0, RecordTypes DEF Entry
  <2> HIDE DEF op
  <2>5. Replayed(newWal'[p]) = Advance(s, WriteRecord(id, op))
    BY <1>r, <2>1, <2>2, <2>4, AppendShape
  <2>6. /\ Replayed(newWal'[p]).data = s.data
        /\ Replayed(newWal'[p]).seen = s.seen
        /\ Replayed(newWal'[p]).pending = s.pending
        /\ Replayed(newWal'[p]).writes[id] = Append(w, op)
    BY <1>r, <1>t, <2>3, <2>5, AdvanceWrite
  <2>7. /\ Len(w) = done[p]
        /\ Len(Append(w, op)) = done[p] + 1
        /\ \A i \in 1 .. done[p] : Append(w, op)[i] = w[i]
        /\ Append(w, op)[done[p] + 1] = op
    <3>1. w \in Seq(Operation) /\ Len(w) = done[p]
      BY <1>s, <1>t, <2>1 DEF StagedInChunk
    <3> HIDE DEF w
    <3> QED BY <2>3, <3>1
  <2>8. \A i \in 1 .. done[p] : w[i].key \notin left[p] /\ w[i].value = data[p][w[i].key]
    BY <2>1, <2>7 DEF StagedInChunk
  <2>9. \A i \in 1 .. done[p] + 1 :
           /\ Append(w, op)[i].value = data[p][Append(w, op)[i].key]
           /\ Append(w, op)[i].key \notin left[p] \ {k}
    <3> SUFFICES ASSUME NEW i \in 1 .. done[p] + 1
                 PROVE  /\ Append(w, op)[i].value = data[p][Append(w, op)[i].key]
                        /\ Append(w, op)[i].key \notin left[p] \ {k}
      OBVIOUS
    <3> DEFINE v == Append(w, op)
    <3>1. v[done[p] + 1] = op /\ \A n \in 1 .. done[p] : v[n] = w[n]
      BY <2>7
    <3> HIDE DEF v, w
    <3>2. CASE i = done[p] + 1
      <4>1. v[i] = op
        BY <3>1, <3>2
      <4> QED BY <2>3, <4>1 DEF v
    <3>3. CASE i \in 1 .. done[p]
      <4>1. v[i] = w[i]
        BY <3>1, <3>3
      <4> QED BY <2>8, <3>3, <4>1 DEF v
    <3>4. i = done[p] + 1 \/ i \in 1 .. done[p]
      BY <1>t
    <3> QED BY <3>2, <3>3, <3>4
  <2>10. \A i, j \in 1 .. done[p] + 1 :
            Append(w, op)[i].key = Append(w, op)[j].key => i = j
    <3>1. \A i, j \in 1 .. done[p] : w[i].key = w[j].key => i = j
      BY <2>1, <2>7 DEF StagedInChunk
    <3>2. \A i \in 1 .. done[p] : w[i].key # k
      BY <2>1, <2>8
    <3> SUFFICES ASSUME NEW i \in 1 .. done[p] + 1, NEW j \in 1 .. done[p] + 1,
                        Append(w, op)[i].key = Append(w, op)[j].key
                 PROVE  i = j
      OBVIOUS
    <3>3. CASE i \in 1 .. done[p] /\ j \in 1 .. done[p]
      BY <2>7, <3>1, <3>3
    <3>4. CASE i = done[p] + 1 /\ j \in 1 .. done[p]
      BY <2>3, <2>7, <3>2, <3>4
    <3>5. CASE j = done[p] + 1 /\ i \in 1 .. done[p]
      BY <2>3, <2>7, <3>2, <3>5
    <3> QED BY <1>t, <3>3, <3>4, <3>5
  <2>11. \A l \in Key : Touches(Append(w, op), l) <=> (Touches(w, l) \/ l = k)
    BY <1>t, <2>3, <2>7 DEF Touches
  <2>12. \A l \in Key :
            s.data[l] = IF l \in left[p] \ {k} \/ Touches(Append(w, op), l)
                        THEN Absent ELSE data[p][l]
    BY <2>1, <2>11 DEF StagedInChunk
  <2>13. done[p] + 1 <= MAX_TRANSACTION_OPERATIONS
    <3>1. done[p] <= MAX_TRANSACTION_OPERATIONS /\ done[p] # MAX_TRANSACTION_OPERATIONS
      BY <2>1 DEF StagedInChunk
    <3> QED BY <1>t, <3>1, WalConstants
  <2>14. StagedInChunk(p)'
    <3>1. /\ \A i \in s.seen : i <= id
          /\ id \in s.pending
      BY <2>1 DEF StagedInChunk
    <3> DEFINE v == Append(w, op)
    <3> HIDE DEF v
    <3>2. /\ Len(v) = done[p] + 1 /\ Replayed(newWal'[p]).writes[id] = v
          /\ \A i \in 1 .. Len(v) : /\ v[i].value = data[p][v[i].key]
                                    /\ v[i].key \notin left[p] \ {k}
          /\ \A i, j \in 1 .. Len(v) : v[i].key = v[j].key => i = j
          /\ \A l \in Key : s.data[l] = IF l \in left[p] \ {k} \/ Touches(v, l)
                                        THEN Absent ELSE data[p][l]
      BY <2>6, <2>7, <2>9, <2>10, <2>12 DEF v
    <3> DEFINE z == Replayed(newWal'[p])
    <3>3. /\ z.seen = s.seen /\ z.pending = s.pending /\ z.data = s.data
          /\ ckptId'[p] = id /\ data' = data
          /\ done'[p] = done[p] + 1 /\ left'[p] = left[p] \ {k}
      BY <2>1, <2>2, <2>6
    <3> HIDE DEF z, s
    <3>4. /\ (\A i \in z.seen : i <= id) /\ id \in z.pending
          /\ done'[p] = Len(z.writes[id]) /\ done'[p] <= MAX_TRANSACTION_OPERATIONS
      BY <2>13, <3>1, <3>2, <3>3 DEF z
    <3>5. /\ \A i \in 1 .. Len(z.writes[id]) :
                /\ z.writes[id][i].value = data'[p][z.writes[id][i].key]
                /\ z.writes[id][i].key \notin left'[p]
          /\ \A i, j \in 1 .. Len(z.writes[id]) :
                z.writes[id][i].key = z.writes[id][j].key => i = j
          /\ \A l \in Key : z.data[l] = IF l \in left'[p] \/ Touches(z.writes[id], l)
                                        THEN Absent ELSE data'[p][l]
      BY <3>2, <3>3 DEF z
    <3> HIDE DEF id
    <3> QED BY <3>3, <3>4, <3>5 DEF StagedInChunk, z
  <2>15. InStep(p)' /\ LeftIsLive(p)'
    BY <2>1, <2>2 DEF InStep, LeftIsLive
  <2> QED BY <2>2, <2>14, <2>15 DEF Agreement, Opening, Writing, Checkpointing
<1>5. CASE CommitChunk(p)
  <2>1. /\ pc[p] = "chunk" /\ InStep(p) /\ StagedInChunk(p) /\ LeftIsLive(p)
        /\ newWal[p].exists
        /\ UNCHANGED << wal, data, nextId, left >>
    BY <1>0, <1>5 DEF CommitChunk, Agreement, FilesExist
  <2> DEFINE g == AppendTo(newWal[p], CommitRecord(id))
  <2>2. /\ pc'[p] = "ckpt" /\ newWal'[p] = SyncAll(g)
        /\ done'[p] = 0 /\ ckptId'[p] = ckptId[p] + 1
    BY <1>0, <1>5 DEF CommitChunk, TypeOK
  <2>3. g \in File /\ Shape(g) /\ Replayed(g) = Advance(s, CommitRecord(id))
    BY <1>0, <1>r, <2>1, AppendShape, RecordTypes
  <2>4. Replayed(newWal'[p]) = Advance(s, CommitRecord(id))
    BY <2>2, <2>3, EditShape
  <2>5. /\ Replayed(newWal'[p]).data = Apply(s.data, w)
        /\ Replayed(newWal'[p]).seen = s.seen
    BY <1>r, <1>t, <2>4, AdvanceCommit
  <2>6. \A l \in s.seen : l < ckptId[p] + 1
    <3>1. \A l \in s.seen : l <= ckptId[p] /\ l \in TransactionId
      BY <1>s, <2>1 DEF StagedInChunk
    <3> HIDE DEF s
    <3> QED BY <1>t, <3>1, WalConstants DEF TransactionId
  <2>7. ASSUME NEW k \in Key
        PROVE  Apply(s.data, w)[k] = IF k \in left[p] THEN Absent ELSE data[p][k]
    <3>1. \A i, j \in 1 .. Len(w) : w[i].key = w[j].key => i = j
      BY <2>1 DEF StagedInChunk
    <3>2. CASE Touches(w, k)
      <4>1. PICK i \in 1 .. Len(w) : w[i].key = k
        BY <3>2 DEF Touches
      <4>2. w[i].value = data[p][k] /\ k \notin left[p]
        BY <2>1, <4>1 DEF StagedInChunk
      <4>3. Apply(s.data, w)[k] = w[i].value
        BY <1>s, <3>1, <4>1, ApplyDistinct
      <4> QED BY <4>2, <4>3
    <3>3. CASE ~ Touches(w, k)
      <4>1. Apply(s.data, w)[k] = s.data[k]
        BY <3>3 DEF Apply
      <4> QED BY <2>1, <3>3, <4>1 DEF StagedInChunk
    <3> QED BY <3>2, <3>3
  <2>8. Staged(p)'
    BY <2>1, <2>2, <2>5, <2>6, <2>7 DEF Staged
  <2>9. InStep(p)' /\ LeftIsLive(p)'
    BY <2>1 DEF InStep, LeftIsLive
  <2> QED BY <2>2, <2>8, <2>9 DEF Agreement, Opening, Writing, Checkpointing
<1>6. CASE FailStaging(p) \/ FailStagingCreate(p)
  <2>1. /\ pc[p] \in {"ckptNew", "ckpt", "chunk"} /\ InStep(p)
        /\ UNCHANGED << wal, data, nextId >>
    BY <1>6 DEF FailStaging, StagingFull, FailStagingCreate, Agreement
  <2>2. pc'[p] = "ready" /\ left'[p] = {}
    BY <1>0, <1>6 DEF FailStaging, FailStagingCreate, AbandonCheckpoint, EndCheckpoint, TypeOK
  <2>3. done'[p] = 0
    <3>1. CASE FailStaging(p)
      BY <1>0, <3>1 DEF FailStaging, AbandonCheckpoint, TypeOK
    <3>2. CASE FailStagingCreate(p)
      BY <3>2 DEF FailStagingCreate, Agreement
    <3> QED BY <1>6, <3>1, <3>2
  <2>4. InStep(p)'
    BY <2>1 DEF InStep
  <2> QED BY <2>2, <2>3, <2>4 DEF Agreement, LeftIsLive, Opening, Writing, Checkpointing
<1>7. CASE FinishStaging(p)
  <2>1. /\ pc[p] = "ckpt" /\ InStep(p) /\ Staged(p) /\ done[p] = 0 /\ left[p] = {}
        /\ UNCHANGED << wal, data, nextId, done, left, ckptId, newWal >>
    BY <1>7 DEF FinishStaging, Agreement
  <2>2. pc'[p] = "rename" /\ poisoned'[p]
    BY <1>0, <1>7 DEF FinishStaging, TypeOK
  <2>3. InStep(p)' /\ Staged(p)'
    BY <2>1 DEF InStep, Staged
  <2> QED BY <2>1, <2>2, <2>3 DEF Agreement, LeftIsLive, Opening, Writing, Checkpointing
<1>8. CASE Rename(p)
  <2>1. /\ pc[p] = "rename" /\ Staged(p) /\ done[p] = 0 /\ left[p] = {} /\ poisoned[p]
        /\ wal' = newWal[p]
        /\ UNCHANGED << data, done, left, ckptId, poisoned >>
    BY <1>8 DEF Rename, Agreement
  <2>2. pc'[p] = "renamed"
    BY <1>0, <1>8 DEF Rename, TypeOK
  <2>3. \A k \in Key : s.data[k] = data[p][k]
    BY <2>1 DEF Staged
  <2>4. s.data = data[p]
    BY <1>s, <1>t, <2>3 DEF Map
  <2>5. Published(p)'
    BY <2>1, <2>4 DEF Published, Staged
  <2> QED BY <2>1, <2>2, <2>5 DEF Agreement, LeftIsLive, Opening, Writing, Checkpointing
<1>9. CASE FinishCheckpoint(p)
  <2>1. /\ pc[p] = "renamed" /\ Published(p) /\ done[p] = 0 /\ poisoned[p]
        /\ UNCHANGED << wal, data, done >>
    BY <1>9 DEF FinishCheckpoint, Agreement
  <2>2. pc'[p] = "ready" /\ left'[p] = {}
    BY <1>0, <1>9 DEF FinishCheckpoint, EndCheckpoint, TypeOK
  <2>3. CASE RecoveryReads(wal)
    <3>1. nextId'[p] = ckptId[p]
      BY <1>0, <1>9, <2>3 DEF FinishCheckpoint, TypeOK
    <3>2. InStep(p)'
      BY <2>1, <3>1 DEF InStep, Published
    <3> QED BY <2>1, <2>2, <3>2 DEF Agreement, LeftIsLive, Opening, Writing, Checkpointing
  <2>4. CASE ~ RecoveryReads(wal)
    <3>1. poisoned' = poisoned
      BY <1>9, <2>4 DEF FinishCheckpoint
    <3> QED BY <2>1, <2>2, <3>1 DEF Agreement, LeftIsLive, Opening, Writing, Checkpointing
  <2> QED BY <2>3, <2>4
<1>10. CASE FailPublish(p)
  <2>1. poisoned[p] /\ poisoned' = poisoned
    BY <1>10 DEF FailPublish, Agreement
  <2>2. pc'[p] = "ready" /\ left'[p] = {}
    BY <1>0, <1>10 DEF FailPublish, EndCheckpoint, TypeOK
  <2> QED BY <2>1, <2>2 DEF Agreement, LeftIsLive, Opening, Writing, Checkpointing
<1> QED
  BY <1>1, <1>2, <1>3, <1>4, <1>5, <1>6, <1>7, <1>8, <1>9, <1>10 DEF CheckpointStep, CheckpointWork

-----------------------------------------------------------------------------
(* The invariant of layer 2 is inductive, given layer 1. *)
LEMMA AgreementStep ==
    ASSUME TypeInv, AgreementInv, [Next]_vars
    PROVE  AgreementInv'
<1>0. TypeOK /\ \A p \in Proc : Agreement(p)
  BY DEF TypeInv, AgreementInv
<1>1. ASSUME NEW p \in Proc, Step(p) PROVE AgreementInv'
  <2>1. Agreement(p)'
    <3>1. CASE RejectOpen(p) \/ FailOpen(p) \/ Close(p) \/ Kill(p)
      <4>1. Drop({p})
        BY <3>1 DEF RejectOpen, FailOpen, Close, Kill
      <4>2. pc'[p] = "closed" /\ done'[p] = 0 /\ left'[p] = {}
        BY <4>1 DEF Drop
      <4> QED BY <4>2 DEF Agreement, LeftIsLive, Opening, Writing, Checkpointing
    <3>2. CASE \/ \E s \in Schemas \cup {NoSchema} : Open(p, s)
               \/ OpenStep(p) /\ ~ RejectOpen(p)
      BY <1>0, <3>2, OpenAgrees
    <3>3. CASE \/ \E t \in Transactions : StartTransaction(p, t)
               \/ TransactionStep(p)
               \/ FailTransaction(p)
      BY <1>0, <3>3, TransactionAgrees
    <3>4. CASE StartCheckpoint(p) \/ CheckpointStep(p) \/ FailStagingCreate(p)
                   \/ FailPublish(p)
      BY <1>0, <3>4, CheckpointAgrees
    <3> QED BY <1>1, <3>1, <3>2, <3>3, <3>4 DEF Step, Fault
  <2>2. ASSUME NEW q \in Proc, q # p PROVE Agreement(q)'
    <3>1. pc[q] = "closed" /\ pc'[q] = "closed"
      BY <1>1, <2>2, OthersAreClosed
    <3>2. done[q] = 0 /\ left[q] = {}
      BY <1>0, <3>1 DEF Agreement, Opening, Checkpointing
    <3>3. done'[q] = 0 /\ left'[q] = {}
      BY <1>0, <1>1, <2>2, <3>2, StepIsLocal
    <3> QED BY <3>1, <3>3 DEF Agreement, LeftIsLive, Opening, Writing, Checkpointing
  <2> QED BY <2>1, <2>2 DEF AgreementInv
<1>2. CASE PowerCut
  <2>1. Drop(Proc)
    BY <1>2 DEF PowerCut
  <2>2. \A q \in Proc : pc'[q] = "closed" /\ done'[q] = 0 /\ left'[q] = {}
    BY <2>1 DEF Drop
  <2> QED BY <2>2 DEF AgreementInv, Agreement, LeftIsLive, Opening, Writing, Checkpointing
<1>3. CASE UNCHANGED vars
  <2> SUFFICES ASSUME NEW q \in Proc PROVE Agreement(q)'
    BY DEF AgreementInv
  <2>1. Agreement(q) /\ UNCHANGED << wal, newWal, pc, data, nextId, poisoned, ops, done, left, ckptId >>
    BY <1>0, <1>3 DEF vars, AgreementInv
  <2>2. /\ InStep(q)' = InStep(q) /\ HalfWritten(q)' = HalfWritten(q)
        /\ Committed(q)' = Committed(q) /\ Published(q)' = Published(q)
    BY <2>1 DEF InStep, HalfWritten, Committed, Published
  <2>3. /\ Staged(q)' = Staged(q) /\ StagedInChunk(q)' = StagedInChunk(q)
        /\ LeftIsLive(q)' = LeftIsLive(q)
    BY <2>1 DEF Staged, StagedInChunk, LeftIsLive
  <2> QED BY <2>1, <2>2, <2>3 DEF Agreement
<1> QED BY <1>1, <1>2, <1>3 DEF Next

(* Layer 2 holds in every reachable state, whatever fails. *)
THEOREM AgreementInvariance == Spec => []AgreementInv
<1>1. TypeInv /\ AgreementInv /\ [Next]_vars => AgreementInv'
  BY AgreementStep
<1> QED BY <1>1, InitAgreement, TypeInvariance, PTL DEF Spec

(* A usable handle and its log agree, for every number of processes, keys
   and operations, every limit and every combination of kills, I/O errors
   and power cuts: what get and list return is what a reopen would find, and
   the next transaction id is fresh. *)
THEOREM HandlesAgree == Spec => []HandleAgreesWithLog
<1>1. AgreementInv => HandleAgreesWithLog
  BY DEF AgreementInv, Agreement, InStep, HandleAgreesWithLog
<1> QED BY <1>1, AgreementInvariance, PTL

-----------------------------------------------------------------------------
(* No step of a process changes the contents in another way. *)
LEMMA ContentsOfStep ==
    ASSUME TypeInv, AgreementInv, NEW p \in Proc, Step(p)
    PROVE  ContentsStep
<1>0. TypeOK /\ Shapes /\ FilesExist /\ Agreement(p)
  BY DEF TypeInv, AgreementInv
<1>r. wal \in File /\ Shape(wal) /\ Replayed(wal) \in Scan
  BY <1>0, ReplayedType DEF TypeOK, Shapes
<1>t. nextId[p] \in TransactionId /\ ops[p] \in Seq(Operation) /\ done[p] \in Nat
  BY <1>0 DEF TypeOK
<1>1. CASE RejectOpen(p) \/ FailOpen(p) \/ Close(p) \/ Kill(p)
           \/ WriteMagic(p) \/ SyncCommit(p) \/ FailTransaction(p)
  <2>1. \/ wal' = wal
        \/ \E b \in BOOLEAN :
             wal' \in {[wal EXCEPT !.header = b], [wal EXCEPT !.torn = b], SyncAll(wal)}
    <3>1. CASE RejectOpen(p) \/ FailOpen(p) \/ Close(p)
      BY <3>1 DEF RejectOpen, FailOpen, Close
    <3>2. CASE Kill(p) \/ FailTransaction(p)
      BY <3>2, <1>r DEF Kill, FailTransaction, MidFrame, File
    <3>3. CASE WriteMagic(p)
      BY <3>3 DEF WriteMagic
    <3>4. CASE SyncCommit(p)
      BY <3>4 DEF SyncCommit
    <3> QED BY <1>1, <3>1, <3>2, <3>3, <3>4
  <2>2. Replayed(wal') = Replayed(wal)
    BY <1>r, <2>1, EditShape
  <2> QED BY <2>2 DEF ContentsStep
<1>2. CASE \/ \E s \in Schemas \cup {NoSchema} : Open(p, s)
           \/ CheckFormat(p) \/ CreateFormat(p) \/ WriteFormat(p) \/ SyncFormat(p)
           \/ ReadSchema(p) \/ OpenWal(p) \/ SyncNewWal(p) \/ Recover(p)
           \/ CreateSchema(p) \/ WriteSchema(p) \/ SyncSchema(p)
           \/ \E t \in Transactions : StartTransaction(p, t)
  <2>1. wal' = wal
    BY <1>2 DEF Open, CheckFormat, CreateFormat, WriteFormat, SyncFormat, ReadSchema,
                OpenWal, SyncNewWal, Recover, CreateSchema, WriteSchema, SyncSchema,
                StartTransaction
  <2> QED BY <2>1 DEF ContentsStep
<1>3. CASE CreateWal(p)
  <2>1. wal' = CreatedFile /\ ~ wal.exists
    BY <1>3 DEF CreateWal
  <2>2. Replayed(wal) = ScanStart
    BY <1>r, <2>1 DEF Shape, Replayed
  <2> QED BY <2>1, <2>2, NewFileShape DEF ContentsStep
<1>4. CASE WriteBegin(p)
  <2>1. wal' = wal \/ wal' = AppendTo(wal, BeginRecord(nextId[p]))
    BY <1>4 DEF WriteBegin, LogRecord
  <2>2. wal.exists
    BY <1>0, <1>4 DEF WriteBegin, FilesExist, Writing
  <2>3. CASE wal' = AppendTo(wal, BeginRecord(nextId[p]))
    <3>1. Replayed(wal') = Advance(Replayed(wal), BeginRecord(nextId[p]))
      BY <1>0, <1>r, <2>2, <2>3, AppendShape, RecordTypes
    <3> QED BY <1>r, <1>t, <3>1, AdvanceBegin DEF ContentsStep
  <2> QED BY <2>1, <2>3 DEF ContentsStep
<1>5. CASE WriteOperation(p)
  <2> DEFINE op == ops[p][done[p] + 1]
  <2>1. wal' = wal \/ wal' = AppendTo(wal, WriteRecord(nextId[p], op))
    BY <1>5 DEF WriteOperation, LogRecord
  <2>2. wal.exists /\ done[p] < Len(ops[p])
    BY <1>0, <1>5 DEF WriteOperation, FilesExist, Writing
  <2>3. op \in Operation /\ WriteRecord(nextId[p], op) \in Record
    BY <1>0, <1>t, <2>2, RecordTypes
  <2> HIDE DEF op
  <2>4. CASE wal' = AppendTo(wal, WriteRecord(nextId[p], op))
    <3>1. Replayed(wal') = Advance(Replayed(wal), WriteRecord(nextId[p], op))
      BY <1>r, <2>2, <2>3, <2>4, AppendShape
    <3> QED BY <1>r, <1>t, <2>3, <3>1, AdvanceWrite DEF ContentsStep
  <2> QED BY <2>1, <2>4 DEF ContentsStep
<1>6. CASE WriteCommit(p)
  <2>1. Agreement(p)'
    BY <1>0, <1>6, TransactionAgrees DEF TransactionStep
  <2>2. \/ wal' = wal
        \/ pc'[p] = "sync" /\ pc[p] = "write"
    BY <1>0, <1>6 DEF WriteCommit, LogRecord, TypeOK
  <2>3. data' = data /\ ops' = ops
    BY <1>6 DEF WriteCommit
  <2>4. pc'[p] = "sync" => Replayed(wal').data = Apply(data[p], ops[p])
    BY <2>1, <2>3 DEF Agreement, Committed
  <2> QED BY <2>2, <2>4 DEF ContentsStep
<1>7. CASE Rename(p)
  <2>1. Agreement(p)'
    BY <1>0, <1>7, CheckpointAgrees DEF CheckpointStep, CheckpointWork
  <2>2. pc[p] = "rename" /\ pc'[p] = "renamed" /\ data' = data
    BY <1>0, <1>7 DEF Rename, TypeOK
  <2>3. data[p] = Replayed(wal).data /\ data[p] = Replayed(wal').data
    BY <1>0, <2>1, <2>2 DEF Agreement, InStep, Published
  <2> QED BY <2>3 DEF ContentsStep
<1>8. CASE StartCheckpoint(p) \/ (CheckpointStep(p) /\ ~ Rename(p))
               \/ FailStagingCreate(p) \/ FailPublish(p)
  <2>1. wal' = wal
    BY <1>8 DEF StartCheckpoint, CheckpointStep, CheckpointWork, WriteStagingMagic, BeginChunk, StageEntry,
                CommitChunk, FailStaging, FinishStaging, FinishCheckpoint,
                FailStagingCreate, FailPublish
  <2> QED BY <2>1 DEF ContentsStep
<1> QED
  BY <1>1, <1>2, <1>3, <1>4, <1>5, <1>6, <1>7, <1>8
     DEF Step, OpenStep, TransactionStep, CheckpointStep, CheckpointWork, Fault

(* The atomicity of transactions and of checkpoints on disk, for every value
   of the constants: short of a power cut, the COMMIT record of a transaction
   is the only thing that changes what a reopen finds, and it changes it to
   the whole transaction's result. *)
THEOREM ContentsChangeAtomically == Spec => ContentsChangeOnlyAtCommit
<1>1. TypeInv /\ AgreementInv /\ [Next]_vars => [ContentsStep]_vars
  <2> SUFFICES ASSUME TypeInv, AgreementInv, Next PROVE ContentsStep
    OBVIOUS
  <2>1. CASE PowerCut
    BY <2>1 DEF PowerCut, ContentsStep
  <2>2. ASSUME NEW p \in Proc, Step(p) PROVE ContentsStep
    BY <2>2, ContentsOfStep
  <2> QED BY <2>1, <2>2 DEF Next
<1> QED
  BY <1>1, TypeInvariance, AgreementInvariance, PTL
     DEF Spec, ContentsChangeOnlyAtCommit

-----------------------------------------------------------------------------
(* Layer 3: sound logs. *)

(* A new log is sound. *)
LEMMA NewFileSound == SoundFile(CreatedFile) /\ SoundFile(NoFile)
<1>1. SoundScan(ScanStart)
  BY WalConstants DEF SoundScan, ScanStart, MagicBytes
<1> QED BY <1>1 DEF SoundFile, CreatedFile, NoFile, EmptyFile

(* A log stays sound when it gets a record the scan accepts and it fits. *)
LEMMA AppendSound ==
    ASSUME NEW f \in File, Shape(f), f.exists, SoundFile(f), NEW r \in Record,
           Fits(f, r), Accepts(Replayed(f), r), r.id < MaxTxId
    PROVE  SoundFile(AppendTo(f, r))
<1> DEFINE g == AppendTo(f, r)
           s == Replayed(f)
<1>1. /\ Len(g.recs) = Len(f.recs) + 1
      /\ g.recs[Len(f.recs) + 1] = r
      /\ \A n \in 1 .. Len(f.recs) : g.recs[n] = f.recs[n]
      /\ \A n \in 1 .. Len(f.recs) + 1 : g.replay[n] = f.replay[n]
      /\ g.replay[Len(f.recs) + 2] = Advance(s, r)
  BY AppendShape
<1>2. Len(f.recs) \in Nat /\ s = f.replay[Len(f.recs) + 1] /\ s \in Scan
  BY ReplayedType DEF File, Replayed
<1>3. SoundScan(s)
  BY <1>2 DEF SoundFile
<1>4. SoundScan(Advance(s, r))
  <2>1. /\ Advance(s, r).cursor = s.cursor + RecordBytes(r)
        /\ Advance(s, r).seen \in {s.seen, s.seen \cup {r.id}}
        /\ Advance(s, r).pending \subseteq s.pending \cup {r.id}
        /\ r.id \in Advance(s, r).pending => r.id \in Advance(s, r).seen \/ r.id \in s.pending
    BY <1>2 DEF Advance, Record, Scan
  <2>2. Advance(s, r).cursor <= MAX_WAL_BYTES
    BY <2>1 DEF Fits, Length
  <2>3. Advance(s, r).pending \subseteq Advance(s, r).seen
    BY <1>3, <2>1 DEF SoundScan
  <2>4. \A id \in Advance(s, r).seen : id < MaxTxId
    BY <1>3, <2>1 DEF SoundScan
  <2> QED BY <2>2, <2>3, <2>4 DEF SoundScan
<1> HIDE DEF g, s
<1>5. ASSUME NEW n \in 1 .. Len(g.recs) + 1 PROVE SoundScan(g.replay[n])
  <2>1. CASE n = Len(f.recs) + 2
    BY <1>1, <1>4, <2>1
  <2>2. CASE n \in 1 .. Len(f.recs) + 1
    BY <1>1, <2>2 DEF SoundFile
  <2> QED BY <1>1, <1>2, <2>1, <2>2
<1>6. ASSUME NEW n \in 1 .. Len(g.recs) PROVE Accepts(g.replay[n], g.recs[n])
  <2>1. CASE n = Len(f.recs) + 1
    <3>1. g.replay[n] = s /\ g.recs[n] = r
      BY <1>1, <1>2, <2>1
    <3> QED BY <3>1 DEF s
  <2>2. CASE n \in 1 .. Len(f.recs)
    <3>1. g.replay[n] = f.replay[n] /\ g.recs[n] = f.recs[n]
      BY <1>1, <1>2, <2>2
    <3> QED BY <2>2, <3>1 DEF SoundFile
  <2> QED BY <1>1, <1>2, <2>1, <2>2
<1> QED BY <1>5, <1>6 DEF SoundFile, g

(* Whether a log is sound depends on its records alone. *)
LEMMA SameRecordsSound ==
    ASSUME NEW f, NEW g, g.recs = f.recs, g.replay = f.replay, SoundFile(f)
    PROVE  SoundFile(g)
BY DEF SoundFile

(* A prefix of a sound log is sound. *)
LEMMA PowerCutSound ==
    ASSUME NEW f \in File, Shape(f), NEW w \in BOOLEAN,
           NEW g \in AfterPowerCut(f, w), SoundFile(f)
    PROVE  SoundFile(g)
<1>1. /\ Len(g.recs) \in f.synced .. Len(f.recs)
      /\ \A n \in 1 .. Len(g.recs) : g.recs[n] = f.recs[n]
      /\ \A n \in 1 .. Len(g.recs) + 1 : g.replay[n] = f.replay[n]
  BY PowerCutShape
<1>2. f.synced \in Nat /\ Len(f.recs) \in Nat
  BY DEF File
<1>3. ASSUME NEW n \in 1 .. Len(g.recs) + 1 PROVE SoundScan(g.replay[n])
  BY <1>1, <1>2 DEF SoundFile
<1>4. ASSUME NEW n \in 1 .. Len(g.recs) PROVE Accepts(g.replay[n], g.recs[n])
  <2>1. n \in 1 .. Len(g.recs) + 1 /\ n \in 1 .. Len(f.recs)
    BY <1>1, <1>2
  <2> QED BY <1>1, <2>1 DEF SoundFile
<1> QED BY <1>3, <1>4 DEF SoundFile

(* The records of a transaction and of a checkpoint are accepted. *)
LEMMA RecordsAccepted ==
    ASSUME TypeInv, AgreementInv, SoundInv, NEW p \in Proc
    PROVE  /\ pc[p] = "begin" => Accepts(Replayed(wal), BeginRecord(nextId[p]))
           /\ pc[p] = "write" =>
                 Accepts(Replayed(wal), CommitRecord(nextId[p]))
           /\ pc[p] = "write" /\ done[p] < Len(ops[p]) =>
                 Accepts(Replayed(wal), WriteRecord(nextId[p], ops[p][done[p] + 1]))
           /\ pc[p] = "ckpt" => Accepts(Replayed(newWal[p]), BeginRecord(ckptId[p]))
           /\ pc[p] = "chunk" => Accepts(Replayed(newWal[p]), CommitRecord(ckptId[p]))
           /\ \A k \in Key : pc[p] = "chunk" /\ ~ ChunkFull(p) =>
                 Accepts(Replayed(newWal[p]), Entry(p, k))
<1>0. TypeOK /\ Shapes /\ Agreement(p)
  BY DEF TypeInv, AgreementInv
<1>1. /\ Len(wal.recs) \in Nat /\ Len(newWal[p].recs) \in Nat
      /\ Replayed(wal) \in Scan /\ Replayed(newWal[p]) \in Scan
  BY <1>0, ReplayedType DEF TypeOK, Shapes, File
<1>2. SoundScan(Replayed(wal)) /\ SoundScan(Replayed(newWal[p]))
  <2>1. /\ Len(wal.recs) + 1 \in 1 .. Len(wal.recs) + 1
        /\ Len(newWal[p].recs) + 1 \in 1 .. Len(newWal[p].recs) + 1
    BY <1>1
  <2>2. SoundFile(wal) /\ SoundFile(newWal[p])
    BY DEF SoundInv
  <2>3. /\ SoundScan(wal.replay[Len(wal.recs) + 1])
        /\ SoundScan(newWal[p].replay[Len(newWal[p].recs) + 1])
    BY <2>1, <2>2 DEF SoundFile
  <2> QED BY <2>3 DEF Replayed
<1>3. nextId[p] \in TransactionId /\ ckptId[p] \in TransactionId
      /\ done[p] \in Nat /\ Len(ops[p]) \in Nat
  BY <1>0 DEF TypeOK
<1>4. pc[p] = "begin" => Accepts(Replayed(wal), BeginRecord(nextId[p]))
  <2>1. pc[p] = "begin" => nextId[p] \notin Replayed(wal).seen
    BY <1>0, <1>3, WalConstants DEF Agreement, InStep, TransactionId
  <2> QED BY <1>2, <2>1 DEF Accepts, BeginRecord, SoundScan
<1>5. pc[p] = "write" => Accepts(Replayed(wal), CommitRecord(nextId[p]))
  BY <1>0 DEF Agreement, HalfWritten, Accepts, CommitRecord
<1>6. pc[p] = "write" /\ done[p] < Len(ops[p]) =>
         Accepts(Replayed(wal), WriteRecord(nextId[p], ops[p][done[p] + 1]))
  <2> SUFFICES ASSUME pc[p] = "write", done[p] < Len(ops[p])
               PROVE  Accepts(Replayed(wal), WriteRecord(nextId[p], ops[p][done[p] + 1]))
    OBVIOUS
  <2>1. HalfWritten(p)
    BY <1>0 DEF Agreement
  <2>2. Len(ops[p]) <= MAX_TRANSACTION_OPERATIONS
    BY DEF SoundInv, Writing
  <2>3. nextId[p] \in Replayed(wal).pending
        /\ Len(Replayed(wal).writes[nextId[p]]) < MAX_TRANSACTION_OPERATIONS
    BY <1>3, <2>1, <2>2, WalConstants DEF HalfWritten
  <2> QED BY <2>3 DEF Accepts, WriteRecord
<1>7. pc[p] = "ckpt" => Accepts(Replayed(newWal[p]), BeginRecord(ckptId[p]))
  <2>1. pc[p] = "ckpt" => ckptId[p] \notin Replayed(newWal[p]).seen
    BY <1>0, <1>3, WalConstants DEF Agreement, Staged, TransactionId
  <2> QED BY <1>2, <2>1 DEF Accepts, BeginRecord, SoundScan
<1>8. pc[p] = "chunk" => Accepts(Replayed(newWal[p]), CommitRecord(ckptId[p]))
  BY <1>0 DEF Agreement, StagedInChunk, Accepts, CommitRecord
<1>9. ASSUME NEW k \in Key, pc[p] = "chunk", ~ ChunkFull(p)
      PROVE  Accepts(Replayed(newWal[p]), Entry(p, k))
  <2>1. StagedInChunk(p) /\ done[p] # MAX_TRANSACTION_OPERATIONS
    BY <1>0, <1>9 DEF Agreement, ChunkFull
  <2>2. ckptId[p] \in Replayed(newWal[p]).pending
        /\ Len(Replayed(newWal[p]).writes[ckptId[p]]) < MAX_TRANSACTION_OPERATIONS
    BY <1>3, <2>1, WalConstants DEF StagedInChunk
  <2> QED BY <2>2 DEF Accepts, Entry, WriteRecord
<1> QED BY <1>4, <1>5, <1>6, <1>7, <1>8, <1>9

LEMMA InitSound == Init => SoundInv
BY NewFileSound DEF Init, SoundInv, Writing

(* The transaction being written stays within the operation limit. *)
LEMMA OperationsStep ==
    ASSUME TypeInv, SoundInv, NEW p \in Proc, Step(p)
    PROVE  \A q \in Proc : pc'[q] \in Writing => Len(ops'[q]) <= MAX_TRANSACTION_OPERATIONS
<1>0. TypeOK
  BY DEF TypeInv
<1> SUFFICES pc'[p] \in Writing => Len(ops'[p]) <= MAX_TRANSACTION_OPERATIONS
  BY OthersAreClosed DEF Writing
<1>1. CASE \E t \in Transactions : StartTransaction(p, t)
  <2>1. PICK t \in Transactions : StartTransaction(p, t)
    BY <1>1
  <2>2. ops'[p] = t /\ Len(t) \in 1 .. MAX_TRANSACTION_OPERATIONS
    BY <1>0, <2>1 DEF StartTransaction, MayCommit, WithinLimits, TypeOK
  <2> QED BY <2>2, WalConstants
<1>2. CASE WriteBegin(p) \/ WriteOperation(p) \/ WriteCommit(p)
  <2>1. pc[p] \in Writing /\ ops' = ops
    BY <1>2 DEF WriteBegin, WriteOperation, WriteCommit, Writing
  <2> QED BY <2>1 DEF SoundInv
<1>3. CASE RejectOpen(p) \/ FailOpen(p) \/ Close(p) \/ Kill(p)
  <2>1. Drop({p})
    BY <1>3 DEF RejectOpen, FailOpen, Close, Kill
  <2>2. pc'[p] = "closed"
    BY <2>1 DEF Drop
  <2> QED BY <2>2 DEF Writing
<1>4. CASE \/ \E s \in Schemas \cup {NoSchema} : Open(p, s)
           \/ OpenStep(p) /\ ~ RejectOpen(p)
  <2>1. pc'[p] \in Opening \cup {"ready"}
    BY <1>0, <1>4
       DEF Open, OpenStep, CheckFormat, CreateFormat, WriteFormat, SyncFormat, ReadSchema,
              OpenWal, CreateWal, WriteMagic, SyncNewWal, Recover, CreateSchema,
              WriteSchema, SyncSchema, TypeOK, Opening
  <2> QED BY <2>1 DEF Opening, Writing
<1>5. CASE SyncCommit(p) \/ FailTransaction(p) \/ FailStaging(p) \/ FailStagingCreate(p)
           \/ FailPublish(p) \/ FinishCheckpoint(p) \/ CommitChunk(p)
           \/ StartCheckpoint(p) \/ WriteStagingMagic(p) \/ FinishStaging(p) \/ Rename(p)
           \/ BeginChunk(p) \/ (\E k \in Key : StageEntry(p, k))
  <2>1. pc'[p] \in {"ready", "ckptNew", "ckpt", "chunk", "rename", "renamed"}
    BY <1>0, <1>5
       DEF SyncCommit, FailTransaction, FailStaging, FailStagingCreate, FailPublish,
           FinishCheckpoint, AbandonCheckpoint, EndCheckpoint, CommitChunk, StartCheckpoint,
           WriteStagingMagic, FinishStaging, Rename, BeginChunk, StageEntry, StageRecord,
           TypeOK
  <2> QED BY <2>1 DEF Writing
<1> QED
  BY <1>1, <1>2, <1>3, <1>4, <1>5
     DEF Step, OpenStep, TransactionStep, CheckpointStep, CheckpointWork, Fault

(* Every step of a process keeps every log sound. *)
LEMMA LogsStaySound ==
    ASSUME TypeInv, AgreementInv, SoundInv, NEW p \in Proc, Step(p)
    PROVE  /\ SoundFile(wal')
           /\ \A f \in undo' : SoundFile(f)
           /\ \A q \in Proc : SoundFile(newWal'[q])
<1>0. TypeOK /\ Shapes /\ FilesExist /\ IdsHaveSuccessors
  BY DEF TypeInv
<1>r. /\ wal \in File /\ Shape(wal) /\ SoundFile(wal)
      /\ newWal \in [Proc -> File]
      /\ newWal[p] \in File /\ Shape(newWal[p]) /\ SoundFile(newWal[p])
      /\ \A f \in undo : SoundFile(f)
      /\ \A q \in Proc : SoundFile(newWal[q])
  BY <1>0 DEF TypeOK, Shapes, SoundInv
<1>1. CASE RejectOpen(p) \/ FailOpen(p) \/ Close(p) \/ Kill(p)
  <2>1. /\ newWal' = [q \in Proc |-> IF q \in {p} THEN NoFile ELSE newWal[q]]
        /\ undo' = undo
    BY <1>1 DEF RejectOpen, FailOpen, Close, Kill, Drop
  <2>2. wal' = wal \/ \E b \in BOOLEAN : wal' = [wal EXCEPT !.torn = b]
    BY <1>1, <1>r DEF RejectOpen, FailOpen, Close, Kill, MidFrame, File
  <2>3. wal'.recs = wal.recs /\ wal'.replay = wal.replay
    BY <1>r, <2>2 DEF File
  <2>4. SoundFile(wal')
    BY <1>r, <2>3, SameRecordsSound
  <2> QED BY <1>r, <2>1, <2>4, NewFileSound
<1>2. CASE \/ \E s \in Schemas \cup {NoSchema} : Open(p, s)
           \/ CheckFormat(p) \/ CreateFormat(p) \/ WriteFormat(p) \/ SyncFormat(p)
           \/ ReadSchema(p) \/ OpenWal(p) \/ SyncNewWal(p) \/ Recover(p)
           \/ CreateSchema(p) \/ WriteSchema(p) \/ SyncSchema(p)
           \/ \E t \in Transactions : StartTransaction(p, t)
           \/ FinishStaging(p)
  <2>1. wal' = wal /\ newWal' = newWal /\ undo' \in {undo, {}}
    BY <1>2 DEF Open, CheckFormat, CreateFormat, WriteFormat, SyncFormat, ReadSchema,
                OpenWal, SyncNewWal, Recover, CreateSchema, WriteSchema, SyncSchema,
                StartTransaction, FinishStaging, SyncDir
  <2> QED BY <1>r, <2>1
<1>3. CASE CreateWal(p)
  <2>1. wal' = CreatedFile /\ newWal' = newWal /\ undo' \in {undo \cup {wal}, {}}
    BY <1>3 DEF CreateWal, Replaced
  <2> QED BY <1>r, <2>1, NewFileSound
<1>4. CASE WriteMagic(p) \/ SyncCommit(p) \/ FailTransaction(p)
  <2>1. newWal' = newWal /\ undo' = undo
    BY <1>4 DEF WriteMagic, SyncCommit, FailTransaction
  <2>2. \E b \in BOOLEAN :
           wal' \in {[wal EXCEPT !.header = b], [wal EXCEPT !.torn = b], SyncAll(wal)}
    BY <1>4 DEF WriteMagic, SyncCommit, FailTransaction
  <2>3. wal'.recs = wal.recs /\ wal'.replay = wal.replay
    <3>1. PICK b \in BOOLEAN :
             wal' \in {[wal EXCEPT !.header = b], [wal EXCEPT !.torn = b], SyncAll(wal)}
      BY <2>2
    <3>2. CASE wal' = [wal EXCEPT !.header = b]
      BY <1>r, <3>2, HeaderShape
    <3>3. CASE wal' = [wal EXCEPT !.torn = b]
      BY <1>r, <3>3, TornShape
    <3>4. CASE wal' = SyncAll(wal)
      BY <1>r, <3>4, SyncShape
    <3> QED BY <3>1, <3>2, <3>3, <3>4
  <2>4. SoundFile(wal')
    BY <1>r, <2>3, SameRecordsSound
  <2> QED BY <1>r, <2>1, <2>4
<1>5. CASE WriteBegin(p) \/ WriteOperation(p) \/ WriteCommit(p)
  <2>1. PICK r \in Record :
           \/ wal' = wal
           \/ wal' = AppendTo(wal, r) /\ Fits(wal, r) /\ Accepts(Replayed(wal), r)
                 /\ r.id = nextId[p]
    <3>1. CASE WriteBegin(p)
      <4>1. BeginRecord(nextId[p]) \in Record /\ BeginRecord(nextId[p]).id = nextId[p]
            /\ Accepts(Replayed(wal), BeginRecord(nextId[p]))
        BY <1>0, <3>1, RecordTypes, RecordsAccepted DEF WriteBegin, BeginRecord
      <4> QED BY <3>1, <4>1 DEF WriteBegin, LogRecord
    <3>2. CASE WriteOperation(p)
      <4> DEFINE r == WriteRecord(nextId[p], ops[p][done[p] + 1])
      <4>1. r \in Record /\ Accepts(Replayed(wal), r)
        BY <1>0, <3>2, RecordTypes, RecordsAccepted DEF WriteOperation
      <4>2. r.id = nextId[p]
        BY DEF WriteRecord
      <4> QED BY <3>2, <4>1, <4>2 DEF WriteOperation, LogRecord
    <3>3. CASE WriteCommit(p)
      <4>1. CommitRecord(nextId[p]) \in Record /\ CommitRecord(nextId[p]).id = nextId[p]
            /\ Accepts(Replayed(wal), CommitRecord(nextId[p]))
        BY <1>0, <3>3, RecordTypes, RecordsAccepted DEF WriteCommit, CommitRecord
      <4> QED BY <3>3, <4>1 DEF WriteCommit, LogRecord
    <3> QED BY <1>5, <3>1, <3>2, <3>3
  <2>2. wal.exists /\ nextId[p] < MaxTxId
    BY <1>0, <1>5 DEF FilesExist, IdsHaveSuccessors, WriteBegin, WriteOperation, WriteCommit,
                      Writing
  <2>3. SoundFile(wal')
    BY <1>r, <2>1, <2>2, AppendSound
  <2>4. newWal' = newWal /\ undo' = undo
    BY <1>5 DEF WriteBegin, WriteOperation, WriteCommit
  <2> QED BY <1>r, <2>3, <2>4
<1>6. CASE StartCheckpoint(p)
  BY <1>r, <1>6, NewFileSound DEF StartCheckpoint
<1>7. CASE WriteStagingMagic(p)
  <2> DEFINE g == [newWal[p] EXCEPT !.header = TRUE]
  <2>1. g.recs = newWal[p].recs /\ g.replay = newWal[p].replay
    BY <1>r, EditShape
  <2>2. SoundFile(g)
    BY <1>r, <2>1, SameRecordsSound
  <2>3. newWal' = [newWal EXCEPT ![p] = g] /\ wal' = wal /\ undo' = undo
    BY <1>0, <1>7 DEF WriteStagingMagic, TypeOK
  <2> HIDE DEF g
  <2> QED BY <1>r, <2>2, <2>3
<1>8. CASE BeginChunk(p) \/ (\E k \in Key : StageEntry(p, k)) \/ CommitChunk(p)
  <2>1. PICK r \in Record :
           /\ newWal' \in {[newWal EXCEPT ![p] = AppendTo(newWal[p], r)],
                           [newWal EXCEPT ![p] = SyncAll(AppendTo(newWal[p], r))]}
           /\ Fits(newWal[p], r) /\ Accepts(Replayed(newWal[p]), r)
           /\ r.id = ckptId[p]
    <3>1. CASE BeginChunk(p)
      <4>1. BeginRecord(ckptId[p]) \in Record /\ BeginRecord(ckptId[p]).id = ckptId[p]
            /\ Accepts(Replayed(newWal[p]), BeginRecord(ckptId[p]))
        BY <1>0, <3>1, RecordTypes, RecordsAccepted DEF BeginChunk, BeginRecord
      <4> QED BY <3>1, <4>1 DEF BeginChunk, StageRecord
    <3>2. ASSUME NEW k \in Key, StageEntry(p, k)
          PROVE  \E r \in Record :
                    /\ newWal' = [newWal EXCEPT ![p] = AppendTo(newWal[p], r)]
                    /\ Fits(newWal[p], r) /\ Accepts(Replayed(newWal[p]), r)
                    /\ r.id = ckptId[p]
      <4>1. Entry(p, k) \in Record /\ Accepts(Replayed(newWal[p]), Entry(p, k))
        BY <1>0, <3>2, RecordTypes, RecordsAccepted DEF StageEntry
      <4>2. Entry(p, k).id = ckptId[p]
        BY DEF Entry, WriteRecord
      <4> QED BY <3>2, <4>1, <4>2 DEF StageEntry, StageRecord
    <3>3. CASE CommitChunk(p)
      <4>1. CommitRecord(ckptId[p]) \in Record /\ CommitRecord(ckptId[p]).id = ckptId[p]
            /\ Accepts(Replayed(newWal[p]), CommitRecord(ckptId[p]))
        BY <1>0, <3>3, RecordTypes, RecordsAccepted DEF CommitChunk, CommitRecord
      <4> QED BY <3>3, <4>1 DEF CommitChunk
    <3> QED BY <1>8, <3>1, <3>2, <3>3
  <2>2. newWal[p].exists /\ ckptId[p] < MaxTxId
    BY <1>0, <1>8 DEF FilesExist, IdsHaveSuccessors, BeginChunk, StageEntry, CommitChunk
  <2> DEFINE g == AppendTo(newWal[p], r)
  <2>3. SoundFile(g)
    BY <1>r, <2>1, <2>2, AppendSound
  <2>4. g \in File /\ Shape(g)
    BY <1>r, <2>2, AppendShape
  <2>5. SyncAll(g).recs = g.recs /\ SyncAll(g).replay = g.replay
    BY <2>4, EditShape
  <2>6. SoundFile(SyncAll(g))
    BY <2>3, <2>5, SameRecordsSound
  <2>7. wal' = wal /\ undo' = undo
    BY <1>8 DEF BeginChunk, StageEntry, CommitChunk
  <2> QED BY <1>r, <2>1, <2>3, <2>6, <2>7
<1>9. CASE FailStaging(p) \/ FailStagingCreate(p) \/ FailPublish(p) \/ FinishCheckpoint(p)
  <2>1. wal' = wal /\ undo' \in {undo, {}} /\ newWal' = [newWal EXCEPT ![p] = NoFile]
    BY <1>9 DEF FailStaging, FailStagingCreate, FailPublish, FinishCheckpoint,
                AbandonCheckpoint, EndCheckpoint, SyncDir
  <2> QED BY <1>r, <2>1, NewFileSound
<1>10. CASE Rename(p)
  <2>1. wal' = newWal[p] /\ newWal' = newWal /\ undo' \in {undo \cup {wal}, {}}
    BY <1>10 DEF Rename, Replaced
  <2> QED BY <1>r, <2>1
<1> QED
  BY <1>1, <1>2, <1>3, <1>4, <1>5, <1>6, <1>7, <1>8, <1>9, <1>10
     DEF Step, OpenStep, TransactionStep, CheckpointStep, CheckpointWork, Fault

(* The invariant of layer 3 is inductive, given layers 1 and 2. *)
LEMMA SoundStep ==
    ASSUME TypeInv, AgreementInv, SoundInv, [Next]_vars
    PROVE  SoundInv'
<1>1. ASSUME NEW p \in Proc, Step(p) PROVE SoundInv'
  BY <1>1, LogsStaySound, OperationsStep DEF SoundInv
<1>2. CASE PowerCut
  <2>1. PICK before \in undo \cup {wal} :
           wal' \in AfterPowerCut(before, before = wal /\ \E p \in Proc : MidFrame(p))
    BY <1>2 DEF PowerCut
  <2>2. before \in File /\ Shape(before) /\ SoundFile(before)
    BY DEF TypeInv, TypeOK, Shapes, SoundInv
  <2>3. SoundFile(wal')
    BY <2>1, <2>2, PowerCutSound
  <2>4. undo' = {} /\ Drop(Proc)
    BY <1>2 DEF PowerCut
  <2>5. newWal' = [p \in Proc |-> NoFile] /\ \A p \in Proc : pc'[p] = "closed"
    BY <2>4 DEF Drop
  <2> QED BY <2>3, <2>4, <2>5, NewFileSound DEF SoundInv, Writing
<1>3. CASE UNCHANGED vars
  BY <1>3 DEF vars, SoundInv
<1> QED BY <1>1, <1>2, <1>3 DEF Next

(* Layer 3 holds in every reachable state, whatever fails. *)
THEOREM SoundInvariance == Spec => []SoundInv
<1>1. TypeInv /\ AgreementInv /\ SoundInv /\ [Next]_vars => SoundInv'
  BY SoundStep
<1> QED BY <1>1, InitSound, TypeInvariance, AgreementInvariance, PTL DEF Spec

-----------------------------------------------------------------------------
(* Layer 4: the maps that crashes may leave. *)

(* The whole log is among what may survive. *)
LEMMA WholeLogSurvives ==
    ASSUME NEW f \in File, Shape(f), NEW P, MapsIn(f, P)
    PROVE  Replayed(f).data \in P
<1>1. Len(f.recs) \in SurvivingLengths(f)
  BY DEF SurvivingLengths, File, Shape
<1> QED BY <1>1 DEF MapsIn, Replayed

(* A synced log survives as it is. *)
LEMMA SyncedLogSurvives ==
    ASSUME NEW f \in File, Shape(f), f.synced = Len(f.recs), NEW P, Replayed(f).data \in P
    PROVE  MapsIn(f, P)
<1>1. SurvivingLengths(f) = {Len(f.recs)}
  BY DEF SurvivingLengths, File
<1> QED BY <1>1 DEF MapsIn, Replayed

LEMMA AppendMaps ==
    ASSUME NEW f \in File, Shape(f), f.exists, NEW r \in Record, NEW P,
           MapsIn(f, P), Replayed(AppendTo(f, r)).data \in P
    PROVE  MapsIn(AppendTo(f, r), P)
<1> DEFINE g == AppendTo(f, r)
<1>1. /\ Len(g.recs) = Len(f.recs) + 1
      /\ \A n \in 1 .. Len(f.recs) + 1 : g.replay[n] = f.replay[n]
      /\ Replayed(g) = g.replay[Len(f.recs) + 2]
      /\ g.synced = f.synced
  BY AppendShape
<1>2. Len(f.recs) \in Nat /\ f.synced \in Nat
  BY DEF File
<1> HIDE DEF g
<1>3. ASSUME NEW n \in SurvivingLengths(g) PROVE g.replay[n + 1].data \in P
  <2>1. CASE n = Len(f.recs) + 1
    BY <1>1, <1>2, <2>1 DEF g
  <2>2. CASE n # Len(f.recs) + 1
    <3>1. n \in SurvivingLengths(f) /\ n + 1 \in 1 .. Len(f.recs) + 1
      BY <1>1, <1>2, <2>2 DEF SurvivingLengths
    <3> QED BY <1>1, <3>1 DEF MapsIn
  <2> QED BY <2>1, <2>2
<1> QED BY <1>3 DEF MapsIn, g

(* With the same records and no fewer of them synced, no more may survive. *)
LEMMA SameRecordsMaps ==
    ASSUME NEW f \in File, Shape(f), NEW g, NEW P, MapsIn(f, P),
           g.recs = f.recs, g.replay = f.replay,
           g.synced \in {f.synced, Len(f.recs)}
    PROVE  MapsIn(g, P)
<1>1. SurvivingLengths(g) \subseteq SurvivingLengths(f)
  BY DEF SurvivingLengths, File, Shape
<1> QED BY <1>1 DEF MapsIn

LEMMA PowerCutMaps ==
    ASSUME "power" \in Faults, NEW f \in File, Shape(f), NEW w \in BOOLEAN,
           NEW g \in AfterPowerCut(f, w), NEW P, MapsIn(f, P)
    PROVE  MapsIn(g, P)
<1>1. /\ g \in File /\ Shape(g) /\ g.synced = Len(g.recs)
      /\ Len(g.recs) \in f.synced .. Len(f.recs)
      /\ \A n \in 1 .. Len(g.recs) + 1 : g.replay[n] = f.replay[n]
  BY PowerCutShape
<1>2. Len(g.recs) \in SurvivingLengths(f) /\ Len(g.recs) \in Nat
  BY <1>1 DEF SurvivingLengths, File
<1>3. Replayed(g).data \in P
  BY <1>1, <1>2 DEF MapsIn, Replayed
<1> QED BY <1>1, <1>3, SyncedLogSurvives

LEMMA InitPromises == Init => PromiseInv
<1> SUFFICES ASSUME Init PROVE PromiseInv
  OBVIOUS
<1>1. NamesAreSynced /\ ViewsArePromised
  BY DEF Init, NamesAreSynced, ViewsArePromised, HasHandle, Writing, Checkpointing
<1>2. Replayed(NoFile).data \in promised /\ NoFile.synced = Len(NoFile.recs)
  BY NewFileShape DEF Init, ScanStart, NoFile, EmptyFile
<1>3. MapsIn(NoFile, promised)
  BY <1>2, NewFileShape, SyncedLogSurvives
<1>4. ReopenFindsPromisedMap
  BY <1>3 DEF Init, ReopenFindsPromisedMap, SurvivingFiles, MapsIn
<1> QED BY <1>1, <1>4 DEF PromiseInv

(* A name that was given to a log is synced before the call returns. *)
LEMMA NamesStep ==
    ASSUME SupportedFaults, TypeInv, NamesAreSynced, NEW p \in Proc, Step(p)
    PROVE  NamesAreSynced'
<1>0. TypeOK /\ Shapes /\ FilesExist
  BY DEF TypeInv
<1>1. CASE "power" \notin Faults
  <2>1. undo = {}
    BY <1>1 DEF NamesAreSynced
  <2>2. undo' \in {undo, {}}
    BY <1>1 DEF Step, OpenStep, TransactionStep, CheckpointStep, CheckpointWork, Fault,
       Open, CheckFormat, CreateFormat, WriteFormat, SyncFormat, ReadSchema,
       OpenWal, CreateWal, WriteMagic, SyncNewWal, Recover, CreateSchema, WriteSchema,
       SyncSchema, RejectOpen, Close, StartTransaction, WriteBegin, WriteOperation,
       WriteCommit, SyncCommit, StartCheckpoint, WriteStagingMagic, BeginChunk, StageEntry,
       CommitChunk, FailStaging, FinishStaging, Rename, FinishCheckpoint, FailOpen,
       FailTransaction, FailStagingCreate, FailPublish, Kill, SyncDir, Replaced
  <2> QED BY <1>1, <2>1, <2>2 DEF NamesAreSynced
<1>2. CASE "power" \in Faults
  <2>0. "io" \notin Faults /\ "kill" \notin Faults
    BY <1>2 DEF SupportedFaults
  <2>n. ~ FailOpen(p) /\ ~ FailTransaction(p) /\ ~ FailStagingCreate(p) /\ ~ FailPublish(p)
        /\ ~ Kill(p)
    BY <2>0 DEF FailOpen, FailTransaction, FailStagingCreate, FailPublish, Kill
  <2>u. pc[p] \notin {"walNew", "walWritten", "renamed"} => undo = {}
    BY <1>2, OthersAreClosed DEF NamesAreSynced
  <2> SUFFICES /\ pc'[p] \notin {"walNew", "walWritten", "renamed"} => undo' = {}
               /\ pc'[p] \in {"ckptNew", "ckpt", "rename"}
                     => newWal'[p].synced = Len(newWal'[p].recs)
               /\ pc'[p] = "renamed" => wal'.synced = Len(wal'.recs)
    BY <1>2, OthersAreClosed DEF NamesAreSynced
  <2>1. CASE RejectOpen(p) \/ Close(p)
    <3>1. pc[p] \notin {"walNew", "walWritten", "renamed"} /\ undo' = undo /\ Drop({p})
      BY <2>1 DEF RejectOpen, Refused, Close
    <3>2. pc'[p] = "closed"
      BY <3>1 DEF Drop
    <3> QED BY <2>u, <3>1, <3>2
  <2>2. CASE \/ \E s \in Schemas \cup {NoSchema} : Open(p, s)
             \/ OpenStep(p) /\ ~ RejectOpen(p)
    <3>1. pc'[p] \in Opening \cup {"ready"}
      BY <1>0, <2>2
         DEF Open, OpenStep, CheckFormat, CreateFormat, WriteFormat, SyncFormat, ReadSchema,
              OpenWal, CreateWal, WriteMagic, SyncNewWal, Recover, CreateSchema,
              WriteSchema, SyncSchema, TypeOK, Opening
    <3>2. \/ pc'[p] \in {"walNew", "walWritten"}
          \/ undo' = {}
          \/ undo' = undo /\ pc[p] \notin {"walNew", "walWritten", "renamed"}
      BY <1>0, <2>2
         DEF Open, OpenStep, CheckFormat, CreateFormat, WriteFormat, SyncFormat, ReadSchema,
              OpenWal, CreateWal, WriteMagic, SyncNewWal, Recover, CreateSchema,
              WriteSchema, SyncSchema, SyncDir, TypeOK
    <3> QED BY <2>u, <3>1, <3>2 DEF Opening
  <2>3. CASE (\E t \in Transactions : StartTransaction(p, t)) \/ TransactionStep(p)
    <3>1. pc'[p] \in {"ready", "begin", "write", "sync"}
      BY <1>0, <2>3 DEF StartTransaction, TransactionStep, WriteBegin, WriteOperation,
              WriteCommit, SyncCommit, LogRecord, TypeOK
    <3>2. pc[p] \notin {"walNew", "walWritten", "renamed"} /\ undo' = undo
      BY <2>3 DEF StartTransaction, TransactionStep, WriteBegin, WriteOperation,
              WriteCommit, SyncCommit
    <3> QED BY <2>u, <3>1, <3>2
  <2>4. CASE StartCheckpoint(p)
    <3>1. pc'[p] = "ckptNew" /\ newWal'[p] = CreatedFile /\ undo' = undo /\ pc[p] = "ready"
      BY <1>0, <2>4 DEF StartCheckpoint, TypeOK
    <3> QED BY <2>u, <3>1 DEF CreatedFile, EmptyFile
  <2>5. CASE WriteStagingMagic(p) \/ FinishStaging(p)
    <3>1. /\ pc[p] \in {"ckptNew", "ckpt"} /\ undo' = undo
          /\ newWal'[p].synced = newWal[p].synced /\ newWal'[p].recs = newWal[p].recs
      BY <1>0, <2>5 DEF WriteStagingMagic, FinishStaging, TypeOK, File
    <3>2. pc'[p] \in {"ckpt", "rename"}
      BY <1>0, <2>5 DEF WriteStagingMagic, FinishStaging, TypeOK
    <3> QED BY <1>2, <2>u, <3>1, <3>2 DEF NamesAreSynced
  <2>6. CASE BeginChunk(p) \/ (\E k \in Key : StageEntry(p, k)) \/ FailStaging(p)
    <3>1. pc'[p] \in {"chunk", "ready"} /\ pc[p] \in {"ckpt", "chunk"} /\ undo' = undo
      BY <1>0, <2>6 DEF BeginChunk, StageEntry, StageRecord, FailStaging, StagingFull,
                        AbandonCheckpoint, EndCheckpoint, TypeOK
    <3> QED BY <2>u, <3>1
  <2>7. CASE CommitChunk(p)
    <3> DEFINE g == AppendTo(newWal[p], CommitRecord(ckptId[p]))
    <3>1. /\ pc'[p] = "ckpt" /\ pc[p] = "chunk" /\ undo' = undo
          /\ newWal'[p] = SyncAll(g)
      BY <1>0, <2>7 DEF CommitChunk, TypeOK
    <3>2. newWal[p] \in File /\ Shape(newWal[p]) /\ newWal[p].exists
      BY <1>0, <3>1 DEF TypeOK, Shapes, FilesExist
    <3>3. g \in File
      BY <1>0, <3>2, RecordTypes, AppendShape
    <3>4. SyncAll(g).synced = Len(SyncAll(g).recs)
      BY <3>3 DEF SyncAll, File
    <3> QED BY <2>u, <3>1, <3>4
  <2>8. CASE Rename(p)
    <3>1. pc[p] = "rename" /\ pc'[p] = "renamed" /\ wal' = newWal[p]
      BY <1>0, <2>8 DEF Rename, TypeOK
    <3> QED BY <1>2, <3>1 DEF NamesAreSynced
  <2>9. CASE FinishCheckpoint(p)
    <3>1. pc'[p] = "ready" /\ undo' = {}
      BY <1>0, <2>9 DEF FinishCheckpoint, EndCheckpoint, SyncDir, TypeOK
    <3> QED BY <3>1
  <2> QED
    BY <2>n, <2>1, <2>2, <2>3, <2>4, <2>5, <2>6, <2>7, <2>8, <2>9
       DEF Step, OpenStep, TransactionStep, CheckpointStep, CheckpointWork, Fault
<1> QED BY <1>1, <1>2

(* Without power cuts the whole log is all that survives. *)
LEMMA WithoutPowerCuts ==
    ASSUME "power" \notin Faults, NEW f, NEW P, Replayed(f).data \in P
    PROVE  MapsIn(f, P)
BY DEF MapsIn, SurvivingLengths, Replayed

(* A step that writes a record appends it, or is refused by the limit. *)
LEMMA RecordWritten ==
    ASSUME TypeInv, NEW p \in Proc, WriteBegin(p) \/ WriteOperation(p) \/ WriteCommit(p)
    PROVE  \E r \in Record : \/ wal' = AppendTo(wal, r) /\ pc'[p] \in {"write", "sync"}
                             \/ wal' = wal /\ pc'[p] = "ready"
<1>0. TypeOK
  BY DEF TypeInv
<1>1. ASSUME NEW rec, NEW label, LogRecord(p, rec, label)
      PROVE  \/ wal' = AppendTo(wal, rec) /\ pc'[p] = label
             \/ wal' = wal /\ pc'[p] = "ready"
  BY <1>1, <1>0 DEF LogRecord, TypeOK
<1>2. CASE WriteBegin(p)
  <2> DEFINE rec == BeginRecord(nextId[p])
  <2>1. rec \in Record
    BY <1>0, <1>2, RecordTypes DEF WriteBegin
  <2>2. LogRecord(p, rec, "write")
    BY <1>2 DEF WriteBegin
  <2> HIDE DEF rec
  <2>3. \/ wal' = AppendTo(wal, rec) /\ pc'[p] = "write"
        \/ wal' = wal /\ pc'[p] = "ready"
    BY <1>1, <2>2
  <2> QED BY <2>1, <2>3
<1>3. CASE WriteOperation(p)
  <2> DEFINE rec == WriteRecord(nextId[p], ops[p][done[p] + 1])
  <2>1. rec \in Record
    BY <1>0, <1>3, RecordTypes DEF WriteOperation
  <2>2. LogRecord(p, rec, "write")
    BY <1>3 DEF WriteOperation
  <2> HIDE DEF rec
  <2>3. \/ wal' = AppendTo(wal, rec) /\ pc'[p] = "write"
        \/ wal' = wal /\ pc'[p] = "ready"
    BY <1>1, <2>2
  <2> QED BY <2>1, <2>3
<1>4. CASE WriteCommit(p)
  <2> DEFINE rec == CommitRecord(nextId[p])
  <2>1. rec \in Record
    BY <1>0, <1>4, RecordTypes DEF WriteCommit
  <2>2. LogRecord(p, rec, "sync")
    BY <1>4 DEF WriteCommit
  <2> HIDE DEF rec
  <2>3. \/ wal' = AppendTo(wal, rec) /\ pc'[p] = "sync"
        \/ wal' = wal /\ pc'[p] = "ready"
    BY <1>1, <2>2
  <2> QED BY <2>1, <2>3
<1> QED BY <1>2, <1>3, <1>4

(* Every step of a process keeps the promises: what it reads, what it is
   committing and what a crash may leave are promised maps. *)
LEMMA PromisesStep ==
    ASSUME TypeInv, AgreementInv, PromiseInv, NEW p \in Proc, Step(p)
    PROVE  ViewsArePromised' /\ ReopenFindsPromisedMap'
<1>0. TypeOK /\ Shapes /\ FilesExist /\ Agreement(p) /\ NamesAreSynced
  BY DEF TypeInv, AgreementInv, PromiseInv
<1>r. /\ wal \in File /\ Shape(wal) /\ (\A f \in undo : f \in File /\ Shape(f))
      /\ newWal[p] \in File /\ Shape(newWal[p])
  BY <1>0 DEF TypeOK, Shapes
<1>m. MapsIn(wal, promised) /\ ("power" \in Faults => \A f \in undo : MapsIn(f, promised))
  BY DEF PromiseInv, ReopenFindsPromisedMap, SurvivingFiles, MapsIn
<1>d. Replayed(wal).data \in promised
  BY <1>r, <1>m, WholeLogSurvives
<1>v. /\ HasHandle(p) => data[p] \in promised
      /\ pc[p] \in Writing => Apply(data[p], ops[p]) \in promised
  BY DEF PromiseInv, ViewsArePromised
<1>u. "power" \in Faults =>
         (pc[p] \notin {"walNew", "walWritten", "renamed"} => undo = {})
  BY <1>0, OthersAreClosed DEF NamesAreSynced
<1> SUFFICES /\ HasHandle(p)' => data'[p] \in promised'
             /\ pc'[p] \in Writing => Apply(data'[p], ops'[p]) \in promised'
             /\ MapsIn(wal', promised')
             /\ "power" \in Faults => \A f \in undo' : MapsIn(f, promised')
  <2>1. \A q \in Proc : q # p => pc'[q] = "closed"
    BY OthersAreClosed
  <2>2. ViewsArePromised'
    BY <2>1 DEF ViewsArePromised, HasHandle, Writing, Checkpointing
  <2>3. ReopenFindsPromisedMap'
    BY DEF ReopenFindsPromisedMap, SurvivingFiles, MapsIn
  <2> QED BY <2>2, <2>3
<1>1. CASE RejectOpen(p) \/ FailOpen(p) \/ Close(p) \/ Kill(p)
  <2>1. Drop({p}) /\ promised' = promised /\ undo' = undo
    BY <1>1 DEF RejectOpen, FailOpen, Close, Kill
  <2>2. pc'[p] = "closed"
    BY <2>1 DEF Drop
  <2>3. wal' = wal \/ \E b \in BOOLEAN : wal' = [wal EXCEPT !.torn = b]
    BY <1>1, <1>r DEF RejectOpen, FailOpen, Close, Kill, MidFrame, File
  <2>4. wal'.recs = wal.recs /\ wal'.replay = wal.replay /\ wal'.synced = wal.synced
    BY <1>r, <2>3 DEF File
  <2>5. MapsIn(wal', promised)
    BY <1>r, <1>m, <2>4, SameRecordsMaps
  <2> QED BY <1>m, <2>1, <2>2, <2>5 DEF HasHandle, Writing, Checkpointing
<1>2. CASE \/ \E s \in Schemas \cup {NoSchema} : Open(p, s)
           \/ CheckFormat(p) \/ CreateFormat(p) \/ WriteFormat(p) \/ SyncFormat(p)
           \/ ReadSchema(p) \/ OpenWal(p) \/ SyncNewWal(p)
           \/ CreateSchema(p) \/ WriteSchema(p)
  <2>1. wal' = wal /\ undo' \in {undo, {}} /\ promised' = promised
    BY <1>2 DEF Open, CheckFormat, CreateFormat, WriteFormat, SyncFormat, ReadSchema,
                OpenWal, SyncNewWal, CreateSchema, WriteSchema, SyncDir
  <2>2. pc'[p] \in Opening
    BY <1>0, <1>2 DEF Open, CheckFormat, CreateFormat, WriteFormat, SyncFormat, ReadSchema,
                OpenWal, SyncNewWal, CreateSchema, WriteSchema, TypeOK, Opening
  <2> QED BY <1>m, <2>1, <2>2 DEF HasHandle, Opening, Writing, Checkpointing
<1>3. CASE CreateWal(p)
  <2>1. /\ wal' = CreatedFile /\ ~ wal.exists /\ undo' \in {undo \cup {wal}, {}}
        /\ promised' = promised
    BY <1>3 DEF CreateWal, Replaced
  <2>2. Replayed(wal) = ScanStart
    BY <1>r, <2>1 DEF Shape, Replayed
  <2>3. MapsIn(CreatedFile, promised)
    <3>1. CreatedFile.synced = Len(CreatedFile.recs)
      BY DEF CreatedFile, EmptyFile
    <3> QED BY <1>d, <2>2, <3>1, NewFileShape, SyncedLogSurvives
  <2>4. pc'[p] = "walNew"
    BY <1>0, <1>3 DEF CreateWal, TypeOK
  <2> QED BY <1>m, <2>1, <2>3, <2>4 DEF HasHandle, Writing, Checkpointing
<1>4. CASE WriteMagic(p)
  <2>1. /\ wal' = [wal EXCEPT !.header = TRUE] /\ undo' = undo /\ promised' = promised
    BY <1>4 DEF WriteMagic
  <2>2. MapsIn(wal', promised)
    <3>1. wal'.recs = wal.recs /\ wal'.replay = wal.replay /\ wal'.synced = wal.synced
      BY <1>r, <2>1 DEF File
    <3> QED BY <1>r, <1>m, <3>1, SameRecordsMaps
  <2>3. pc'[p] = "walWritten"
    BY <1>0, <1>4 DEF WriteMagic, TypeOK
  <2> QED BY <1>m, <2>1, <2>2, <2>3 DEF HasHandle, Writing, Checkpointing
<1>5. CASE Recover(p)
  <2>1. wal' = wal /\ undo' = undo /\ promised' \in {promised, {Replayed(wal).data}}
        /\ ("power" \in Faults => promised' = promised)
    BY <1>5 DEF Recover, PromisedOnOpen
  <2>2. data'[p] = Replayed(wal).data /\ pc'[p] \in {"persist", "ready"}
    BY <1>0, <1>5 DEF Recover, TypeOK
  <2>3. MapsIn(wal, promised')
    BY <1>m, <2>1, WithoutPowerCuts
  <2> QED BY <1>d, <1>m, <2>1, <2>2, <2>3 DEF Writing
<1>6. CASE SyncSchema(p)
  <2>1. wal' = wal /\ undo' = {} /\ promised' \in {promised, {data[p]}} /\ data' = data
        /\ ("power" \in Faults => promised' = promised) /\ pc[p] = "schemaWritten"
    BY <1>6 DEF SyncSchema, SyncDir, PromisedOnOpen
  <2>2. pc'[p] = "ready"
    BY <1>0, <1>6 DEF SyncSchema, TypeOK
  <2>3. data[p] = Replayed(wal).data
    BY <1>0, <2>1 DEF Agreement, InStep
  <2>4. MapsIn(wal, promised')
    BY <1>m, <2>1, <2>3, WithoutPowerCuts
  <2> QED BY <1>d, <2>1, <2>2, <2>3, <2>4 DEF Writing
<1>7. CASE \E t \in Transactions : StartTransaction(p, t)
  <2>1. PICK t \in Transactions : StartTransaction(p, t)
    BY <1>7
  <2>2. /\ wal' = wal /\ undo' = undo /\ data' = data /\ pc[p] = "ready"
        /\ promised' = promised \cup {Apply(data[p], t)}
    BY <2>1 DEF StartTransaction
  <2>3. ops'[p] = t
    BY <1>0, <2>1 DEF StartTransaction, TypeOK
  <2>4. MapsIn(wal, promised') /\ ("power" \in Faults => \A f \in undo : MapsIn(f, promised'))
    BY <1>m, <2>2 DEF MapsIn
  <2> QED BY <1>v, <2>2, <2>3, <2>4 DEF HasHandle
<1>8. CASE WriteBegin(p) \/ WriteOperation(p) \/ WriteCommit(p)
  <2>1. PICK r \in Record : \/ wal' = AppendTo(wal, r) /\ pc'[p] \in {"write", "sync"}
                            \/ wal' = wal /\ pc'[p] = "ready"
    BY <1>8, RecordWritten
  <2>2. /\ wal.exists /\ pc[p] \in Writing
        /\ UNCHANGED << undo, data, ops, promised >>
    BY <1>0, <1>8 DEF FilesExist, WriteBegin, WriteOperation, WriteCommit, Writing
  <2>3. Agreement(p)'
    BY <1>0, <1>8, TransactionAgrees DEF TransactionStep
  <2>4. pc'[p] \in {"write", "sync"} => Replayed(wal').data \in promised
    BY <1>v, <2>2, <2>3 DEF Agreement, HalfWritten, Committed, HasHandle
  <2>5. MapsIn(wal', promised)
    BY <1>r, <1>m, <2>1, <2>2, <2>4, AppendMaps
  <2> QED BY <1>m, <1>v, <2>2, <2>5 DEF HasHandle
<1>9. CASE SyncCommit(p)
  <2>1. /\ pc[p] = "sync" /\ wal' = SyncAll(wal) /\ undo' = undo
        /\ promised' = {Apply(data[p], ops[p])}
    BY <1>9 DEF SyncCommit
  <2>2. data'[p] = Apply(data[p], ops[p]) /\ pc'[p] = "ready"
    BY <1>0, <1>9 DEF SyncCommit, TypeOK
  <2>3. wal' \in File /\ Shape(wal') /\ Replayed(wal') = Replayed(wal)
    BY <1>r, <2>1, EditShape
  <2>4. Replayed(wal').data \in promised' /\ wal'.synced = Len(wal'.recs)
    BY <1>0, <1>r, <2>1, <2>3 DEF Agreement, Committed, SyncAll, File
  <2>5. MapsIn(wal', promised')
    BY <2>3, <2>4, SyncedLogSurvives
  <2> QED BY <1>u, <2>1, <2>2, <2>5 DEF Writing
<1>10. CASE FailTransaction(p)
  <2>1. /\ pc[p] \in Writing /\ UNCHANGED << undo, data, promised >>
        /\ \E b \in BOOLEAN : wal' = [wal EXCEPT !.torn = b]
    BY <1>10 DEF FailTransaction
  <2>2. wal'.recs = wal.recs /\ wal'.replay = wal.replay /\ wal'.synced = wal.synced
    BY <1>r, <2>1 DEF File
  <2>3. MapsIn(wal', promised)
    BY <1>r, <1>m, <2>2, SameRecordsMaps
  <2>4. pc'[p] = "ready"
    BY <1>0, <1>10 DEF FailTransaction, TypeOK
  <2> QED BY <1>m, <1>v, <2>1, <2>3, <2>4 DEF HasHandle, Writing
<1>11. CASE \/ StartCheckpoint(p) \/ WriteStagingMagic(p) \/ BeginChunk(p)
            \/ (\E k \in Key : StageEntry(p, k)) \/ CommitChunk(p) \/ FailStaging(p)
            \/ FinishStaging(p) \/ FailStagingCreate(p) \/ FailPublish(p)
  <2>1. UNCHANGED << wal, undo, data, promised >>
    BY <1>11 DEF StartCheckpoint, WriteStagingMagic, BeginChunk, StageEntry, CommitChunk,
                 FailStaging, FinishStaging, FailStagingCreate, FailPublish
  <2>2. pc[p] \in {"ready"} \cup Checkpointing
    BY <1>11 DEF StartCheckpoint, WriteStagingMagic, BeginChunk, StageEntry, CommitChunk,
                 FailStaging, StagingFull, FinishStaging, FailStagingCreate, FailPublish,
                 Checkpointing
  <2>3. pc'[p] \in {"ready", "ckptNew", "ckpt", "chunk", "rename"}
    BY <1>0, <1>11 DEF StartCheckpoint, WriteStagingMagic, BeginChunk, StageEntry,
                 StageRecord, CommitChunk, FailStaging, AbandonCheckpoint, EndCheckpoint,
                 FinishStaging, FailStagingCreate, FailPublish, TypeOK
  <2> QED BY <1>m, <1>v, <2>1, <2>2, <2>3 DEF HasHandle, Writing
<1>12. CASE Rename(p)
  <2>1. /\ pc[p] = "rename" /\ wal' = newWal[p] /\ undo' \in {undo \cup {wal}, {}}
        /\ UNCHANGED << data, promised >>
    BY <1>12 DEF Rename, Replaced
  <2>2. pc'[p] = "renamed"
    BY <1>0, <1>12 DEF Rename, TypeOK
  <2>3. Agreement(p)'
    BY <1>0, <1>12, CheckpointAgrees DEF CheckpointStep, CheckpointWork
  <2>4. Replayed(newWal[p]).data \in promised
    BY <1>v, <2>1, <2>2, <2>3 DEF Agreement, Published, HasHandle, Checkpointing
  <2>5. "power" \in Faults => newWal[p].synced = Len(newWal[p].recs)
    BY <1>0, <2>1 DEF NamesAreSynced
  <2>6. MapsIn(newWal[p], promised)
    BY <1>r, <2>4, <2>5, SyncedLogSurvives, WithoutPowerCuts
  <2> QED BY <1>m, <1>v, <2>1, <2>2, <2>6 DEF HasHandle, Writing, Checkpointing
<1>13. CASE FinishCheckpoint(p)
  <2>1. /\ pc[p] = "renamed" /\ wal' = wal /\ undo' = {} /\ data' = data
        /\ promised' \in {promised, {data[p]}}
    BY <1>13 DEF FinishCheckpoint, SyncDir
  <2>2. pc'[p] = "ready"
    BY <1>0, <1>13 DEF FinishCheckpoint, EndCheckpoint, TypeOK
  <2>3. data[p] = Replayed(wal).data
    BY <1>0, <2>1 DEF Agreement, Published
  <2>4. "power" \in Faults => wal.synced = Len(wal.recs)
    BY <1>0, <2>1 DEF NamesAreSynced
  <2>5. MapsIn(wal, {data[p]})
    BY <1>r, <2>3, <2>4, SyncedLogSurvives, WithoutPowerCuts
  <2> QED BY <1>m, <1>v, <2>1, <2>2, <2>5 DEF HasHandle, Writing, Checkpointing
<1> QED
  BY <1>1, <1>2, <1>3, <1>4, <1>5, <1>6, <1>7, <1>8, <1>9, <1>10, <1>11, <1>12, <1>13
     DEF Step, OpenStep, TransactionStep, CheckpointStep, CheckpointWork, Fault

(* The invariant of layer 4 is inductive, given the ones before it. *)
LEMMA PromiseStep ==
    ASSUME SupportedFaults, TypeInv, AgreementInv, PromiseInv, [Next]_vars
    PROVE  PromiseInv'
<1>1. ASSUME NEW p \in Proc, Step(p) PROVE PromiseInv'
  BY <1>1, NamesStep, PromisesStep DEF PromiseInv
<1>2. CASE PowerCut
  <2>1. PICK before \in undo \cup {wal} :
           wal' \in AfterPowerCut(before, before = wal /\ \E p \in Proc : MidFrame(p))
    BY <1>2 DEF PowerCut
  <2>2. "power" \in Faults /\ undo' = {} /\ promised' = promised /\ Drop(Proc)
    BY <1>2 DEF PowerCut
  <2>3. before \in File /\ Shape(before) /\ MapsIn(before, promised)
    BY <2>2 DEF TypeInv, TypeOK, Shapes, PromiseInv, ReopenFindsPromisedMap, SurvivingFiles,
                MapsIn
  <2>4. MapsIn(wal', promised)
    BY <2>1, <2>2, <2>3, PowerCutMaps
  <2>5. \A p \in Proc : pc'[p] = "closed"
    BY <2>2 DEF Drop
  <2>6. NamesAreSynced' /\ ViewsArePromised'
    BY <2>2, <2>5 DEF NamesAreSynced, ViewsArePromised, HasHandle, Writing, Checkpointing
  <2>7. ReopenFindsPromisedMap'
    BY <2>2, <2>4 DEF ReopenFindsPromisedMap, SurvivingFiles, MapsIn
  <2> QED BY <2>6, <2>7 DEF PromiseInv
<1>3. CASE UNCHANGED vars
  BY <1>3 DEF vars, PromiseInv, NamesAreSynced, ViewsArePromised, ReopenFindsPromisedMap,
              HasHandle, SurvivingFiles
<1> QED BY <1>1, <1>2, <1>3 DEF Next

(* Durability and atomicity, for every value of the constants and for the
   fault models the code is written for (kills and I/O errors, or power cuts
   alone): whatever the moment of a crash, recovery finds the last
   acknowledged map or the one whose commit was under way. *)
THEOREM PromisesKept ==
    ASSUME SupportedFaults
    PROVE  Spec => []ReopenFindsPromisedMap
<1>1. TypeInv /\ AgreementInv /\ PromiseInv /\ [Next]_vars => PromiseInv'
  BY PromiseStep
<1>2. Spec => []PromiseInv
  BY <1>1, InitPromises, TypeInvariance, AgreementInvariance, PTL DEF Spec
<1>3. PromiseInv => ReopenFindsPromisedMap
  BY DEF PromiseInv
<1> QED BY <1>2, <1>3, PTL

-----------------------------------------------------------------------------
(* Layer 5: the metadata files and the log fit. *)

(* What may survive of a log are maps. *)
LEMMA SurvivorsAreMaps ==
    ASSUME NEW f \in File, Shape(f)
    PROVE  MapsIn(f, Map)
<1>1. ASSUME NEW n \in SurvivingLengths(f) PROVE f.replay[n + 1].data \in Map
  <2>1. n + 1 \in 1 .. Len(f.replay)
    BY DEF SurvivingLengths, File, Shape
  <2>2. f.replay[n + 1] \in Scan
    BY <2>1 DEF File
  <2> QED BY <2>2 DEF Scan
<1> QED BY <1>1 DEF MapsIn

LEMMA MoreMaps ==
    ASSUME NEW f, NEW P, NEW Q, MapsIn(f, P), P \subseteq Q
    PROVE  MapsIn(f, Q)
BY DEF MapsIn

LEMMA InitMetadata == Init => MetadataInv
<1> SUFFICES ASSUME Init PROVE MetadataInv
  OBVIOUS
<1>1. \A p \in Proc : MetadataKnown(p)
  BY DEF Init, MetadataKnown, AfterSchema, Writing, Checkpointing
<1>2. SurvivingFiles = {NoFile} /\ ~ NoFile.exists
  BY DEF Init, SurvivingFiles, NoFile, EmptyFile
<1>3. MapsIn(NoFile, {Replayed(NoFile).data}) /\ Replayed(NoFile).data \in Map
  <2>1. NoFile.synced = Len(NoFile.recs)
    BY DEF NoFile, EmptyFile
  <2> QED BY <2>1, NewFileShape, SyncedLogSurvives, ScanStartType DEF Scan
<1>4. Suitable = Map
  BY DatabaseConstants DEF Init, Suitable, Valid
<1>5. MapsIn(NoFile, Suitable)
  BY <1>3, <1>4, MoreMaps
<1> QED BY <1>1, <1>2, <1>3, <1>5 DEF Init, MetadataInv, TailChangesNothing, FormatIsSynced

(* What every step may rely on. *)
LEMMA MetadataFacts ==
    ASSUME SupportedFaults, TypeInv, AgreementInv, PromiseInv, MetadataInv, NEW p \in Proc,
           Step(p)
    PROVE  /\ TypeOK /\ Shapes /\ FilesExist /\ Agreement(p) /\ MetadataKnown(p)
           /\ wal \in File /\ Shape(wal) /\ newWal[p] \in File /\ Shape(newWal[p])
           /\ \A f \in undo : f \in File /\ Shape(f)
           /\ MapsIn(wal, Suitable)
           /\ wal.exists => FormatIsDurable
           /\ "power" \in Faults =>
                 \A f \in undo : MapsIn(f, Suitable) /\ (f.exists => FormatIsDurable)
           /\ "power" \in Faults =>
                 (pc[p] \notin {"walNew", "walWritten", "renamed"} => undo = {})
           /\ "power" \in Faults /\ pc[p] \notin {"formatNew", "formatWritten"} =>
                 "format" \notin dirty
           /\ pc[p] # "sync" => MapsIn(wal, {Replayed(wal).data})
           /\ Replayed(wal).data \in Suitable
<1>1. /\ TypeOK /\ Shapes /\ FilesExist /\ Agreement(p) /\ MetadataKnown(p)
      /\ wal \in File /\ Shape(wal) /\ newWal[p] \in File /\ Shape(newWal[p])
      /\ \A f \in undo : f \in File /\ Shape(f)
  BY DEF TypeInv, AgreementInv, MetadataInv, TypeOK, Shapes
<1>2. /\ MapsIn(wal, Suitable)
      /\ wal.exists => FormatIsDurable
      /\ "power" \in Faults =>
            \A f \in undo : MapsIn(f, Suitable) /\ (f.exists => FormatIsDurable)
  BY DEF MetadataInv, SurvivingFiles
<1>3. "power" \in Faults =>
         (pc[p] \notin {"walNew", "walWritten", "renamed"} => undo = {})
  BY OthersAreClosed DEF PromiseInv, NamesAreSynced
<1>4. pc[p] # "sync" => MapsIn(wal, {Replayed(wal).data})
  BY OthersAreClosed DEF MetadataInv, TailChangesNothing
<1>5. Replayed(wal).data \in Suitable
  BY <1>1, <1>2, WholeLogSurvives
<1>6. "power" \in Faults /\ pc[p] \notin {"formatNew", "formatWritten"} =>
         "format" \notin dirty
  BY OthersAreClosed DEF MetadataInv, FormatIsSynced
<1> QED BY <1>1, <1>2, <1>3, <1>4, <1>5, <1>6

(* It is enough to look at the process that moves. *)
LEMMA MetadataOfMover ==
    ASSUME TypeInv, NEW p \in Proc, Step(p),
           MetadataKnown(p)',
           wal'.exists => FormatIsDurable',
           MapsIn(wal', Suitable'),
           "power" \in Faults =>
               \A f \in undo' : MapsIn(f, Suitable') /\ (f.exists => FormatIsDurable'),
           "power" \in Faults /\ pc'[p] \notin {"formatNew", "formatWritten"} =>
               "format" \notin dirty',
           pc'[p] # "sync" => MapsIn(wal', {Replayed(wal').data})
    PROVE  MetadataInv'
<1>1. ASSUME NEW q \in Proc PROVE MetadataKnown(q)'
  <2>1. CASE q # p
    <3>1. pc'[q] = "closed"
      BY <2>1, OthersAreClosed
    <3> QED BY <3>1 DEF MetadataKnown, AfterSchema, Writing, Checkpointing
  <2> QED BY <2>1
<1>2. \A f \in SurvivingFiles' : MapsIn(f, Suitable') /\ (f.exists => FormatIsDurable')
  BY DEF SurvivingFiles
<1>3. TailChangesNothing' /\ FormatIsSynced'
  BY DEF TailChangesNothing, FormatIsSynced, MapsIn
<1> QED BY <1>1, <1>2, <1>3 DEF MetadataInv, MapsIn, SurvivingFiles

(* A handle is dropped, and the log at most torn. *)
LEMMA DropMetadata ==
    ASSUME SupportedFaults, TypeInv, AgreementInv, PromiseInv, MetadataInv, NEW p \in Proc,
           RejectOpen(p) \/ FailOpen(p) \/ Close(p) \/ Kill(p)
    PROVE  MetadataInv'
<1>s. Step(p)
  BY DEF Step, OpenStep, Fault
<1>1. Drop({p}) /\ UNCHANGED << metaVars, undo >>
  BY DEF RejectOpen, FailOpen, Close, Kill
<1>2. pc'[p] = "closed"
  BY <1>1 DEF Drop
<1>3. wal' = wal \/ \E b \in BOOLEAN : wal' = [wal EXCEPT !.torn = b]
  BY <1>s, MetadataFacts DEF RejectOpen, FailOpen, Close, Kill, MidFrame, File
<1>4. /\ wal'.recs = wal.recs /\ wal'.replay = wal.replay /\ wal'.synced = wal.synced
      /\ wal'.exists = wal.exists
  BY <1>s, <1>3, MetadataFacts DEF File
<1>5. ASSUME NEW P, MapsIn(wal, P) PROVE MapsIn(wal', P)
  BY <1>s, <1>4, <1>5, MetadataFacts, SameRecordsMaps
<1>6. Replayed(wal') = Replayed(wal) /\ FormatIsDurable' = FormatIsDurable
      /\ Suitable' = Suitable
  BY <1>1, <1>4 DEF Replayed, FormatIsDurable, Suitable
<1>7. MapsIn(wal', {Replayed(wal').data})
  <2>1. CASE pc[p] # "sync"
    BY <1>s, <1>5, <1>6, <2>1, MetadataFacts
  <2>2. CASE pc[p] = "sync"
    <3>1. "power" \notin Faults
      BY <2>2 DEF RejectOpen, Refused, FailOpen, Close, Kill, SupportedFaults, Opening
    <3> QED BY <3>1, WithoutPowerCuts
  <2> QED BY <2>1, <2>2
<1>8. MetadataKnown(p)'
  BY <1>2 DEF MetadataKnown, AfterSchema, Writing, Checkpointing
<1>9. MapsIn(wal', Suitable') /\ (wal'.exists => FormatIsDurable')
      /\ ("power" \in Faults =>
            \A f \in undo' : MapsIn(f, Suitable') /\ (f.exists => FormatIsDurable'))
  <2>1. MapsIn(wal', Suitable)
    BY <1>s, <1>5, MetadataFacts
  <2> QED BY <1>s, <1>1, <1>4, <1>6, <2>1, MetadataFacts
<1>10. "power" \in Faults => "format" \notin dirty'
  <2>1. "power" \in Faults => pc[p] \notin {"formatNew", "formatWritten"}
    BY DEF RejectOpen, Refused, FailOpen, Close, Kill, SupportedFaults
  <2> QED BY <1>s, <1>1, <2>1, MetadataFacts
<1> QED BY <1>s, <1>7, <1>8, <1>9, <1>10, MetadataOfMover

(* Opening, up to the log: format.json comes before everything else. *)
LEMMA FormatMetadata ==
    ASSUME SupportedFaults, TypeInv, AgreementInv, PromiseInv, MetadataInv, NEW p \in Proc,
           \/ \E s \in Schemas \cup {NoSchema} : Open(p, s)
           \/ CheckFormat(p) \/ CreateFormat(p) \/ WriteFormat(p) \/ SyncFormat(p)
           \/ ReadSchema(p)
    PROVE  MetadataInv'
<1>s. Step(p)
  BY DEF Step, OpenStep
<1>0. TypeOK
  BY DEF TypeInv
<1>1. wal' = wal /\ schemaFile' = schemaFile /\ pc[p] \in {"closed"} \cup Opening
  BY DEF Open, CheckFormat, CreateFormat, WriteFormat, SyncFormat, ReadSchema, Opening
<1>2. pc[p] # "sync" /\ pc'[p] \in {"format", "formatNew", "formatWritten", "schema", "wal"}
  BY <1>0, <1>1
     DEF Open, CheckFormat, CreateFormat, WriteFormat, SyncFormat, ReadSchema, Opening,
         TypeOK
<1>3. undo' = undo \/ undo' = {}
  BY DEF Open, CheckFormat, CreateFormat, WriteFormat, SyncFormat, ReadSchema, SyncDir
<1>4. Suitable' = Suitable
  BY <1>1 DEF Suitable
<1>5. FormatIsDurable /\ wal.exists => FormatIsDurable'
  <2>1. wal.exists => /\ format' \in {format, "ok"}
                      /\ dirty' \in {dirty, {}}
    BY DEF Open, CheckFormat, CreateFormat, WriteFormat, SyncFormat, ReadSchema, SyncDir
  <2> QED BY <2>1 DEF FormatIsDurable
<1>f. "power" \in Faults /\ pc'[p] \notin {"formatNew", "formatWritten"} =>
         "format" \notin dirty'
  <2>1. \/ dirty' = {}
        \/ dirty' = dirty /\ pc[p] \notin {"formatNew", "formatWritten"}
        \/ pc'[p] \in {"formatNew", "formatWritten"}
    BY <1>0 DEF Open, CheckFormat, CreateFormat, WriteFormat, SyncFormat, ReadSchema,
                SyncDir, TypeOK, Opening
  <2> QED BY <1>s, <2>1, MetadataFacts
<1>6. MetadataKnown(p)'
  <2>1. pc'[p] \in {"schema", "wal"} => format' = "ok" /\ FormatIsDurable'
    <3>1. CASE CheckFormat(p)
      <4>1. pc[p] = "format" /\ format = "ok" /\ UNCHANGED << format, dirty >>
        BY <3>1 DEF CheckFormat
      <4>2. "power" \in Faults => "format" \notin dirty
        BY <1>s, <4>1, MetadataFacts
      <4> QED BY <4>1, <4>2 DEF FormatIsDurable
    <3>2. CASE SyncFormat(p)
      BY <1>s, <3>2, MetadataFacts DEF SyncFormat, SyncDir, MetadataKnown, FormatIsDurable
    <3>3. CASE ReadSchema(p)
      BY <1>s, <3>3, MetadataFacts DEF ReadSchema, MetadataKnown, FormatIsDurable
    <3>4. CASE \/ \E s \in Schemas \cup {NoSchema} : Open(p, s)
               \/ CreateFormat(p) \/ WriteFormat(p)
      BY <1>0, <3>4 DEF Open, CreateFormat, WriteFormat, TypeOK
    <3> QED BY <3>1, <3>2, <3>3, <3>4
  <2>2. pc'[p] = "formatWritten" => format' = "ok"
    BY <1>0 DEF Open, CheckFormat, CreateFormat, WriteFormat, SyncFormat, ReadSchema, TypeOK
  <2>3. pc'[p] = "wal" /\ schemaFile' \in Schemas => schema'[p] = schemaFile'
    BY <1>0, DatabaseConstants
       DEF Open, CheckFormat, CreateFormat, WriteFormat, SyncFormat, ReadSchema, TypeOK
  <2> QED BY <1>2, <2>1, <2>2, <2>3 DEF MetadataKnown, AfterSchema, Writing, Checkpointing
<1>7. wal'.exists => FormatIsDurable'
  BY <1>s, <1>1, <1>5, MetadataFacts
<1>8. "power" \in Faults => undo' = {}
  <2>1. pc[p] \notin {"walNew", "walWritten", "renamed"}
    BY DEF Open, CheckFormat, CreateFormat, WriteFormat, SyncFormat, ReadSchema
  <2> QED BY <1>s, <1>3, <2>1, MetadataFacts
<1>9. MapsIn(wal', Suitable') /\ MapsIn(wal', {Replayed(wal').data})
  BY <1>s, <1>1, <1>2, <1>4, MetadataFacts
<1> QED BY <1>s, <1>f, <1>6, <1>7, <1>8, <1>9, MetadataOfMover

(* The log is created, opened and read. *)
LEMMA OpenLogMetadata ==
    ASSUME SupportedFaults, TypeInv, AgreementInv, PromiseInv, MetadataInv, NEW p \in Proc,
           OpenWal(p) \/ CreateWal(p) \/ WriteMagic(p) \/ SyncNewWal(p) \/ Recover(p)
    PROVE  MetadataInv'
<1>s. Step(p)
  BY DEF Step, OpenStep
<1>0. TypeOK /\ pc[p] \in AfterSchema
  BY DEF TypeInv, OpenWal, CreateWal, WriteMagic, SyncNewWal, Recover, AfterSchema
<1>1. /\ UNCHANGED << format, schemaFile, schema >> /\ dirty' \in {dirty, {}}
      /\ pc'[p] \in AfterSchema \ (Writing \cup {"schemaNew", "schemaWritten"})
  BY <1>0 DEF OpenWal, CreateWal, WriteMagic, SyncNewWal, Recover, SyncDir, AfterSchema,
              Writing, Checkpointing, TypeOK
<1>2. format = "ok" /\ FormatIsDurable /\ "power" \in Faults => "format" \notin dirty
  BY <1>s, <1>0, MetadataFacts DEF MetadataKnown, FormatIsDurable
<1>3. FormatIsDurable' /\ Suitable' = Suitable
  BY <1>s, <1>0, <1>1, MetadataFacts DEF FormatIsDurable, Suitable, MetadataKnown
<1>4. MetadataKnown(p)'
  <2>1. pc'[p] = "persist" => schema[p] \in Schemas /\ Valid(schema[p], data'[p])
    BY <1>0 DEF OpenWal, CreateWal, WriteMagic, SyncNewWal, Recover, RecoveryOk, TypeOK
  <2>2. schemaFile \in Schemas => schema[p] = schemaFile
    BY <1>s, <1>0, MetadataFacts DEF MetadataKnown
  <2>3. format' = "ok"
    BY <1>s, <1>0, <1>1, MetadataFacts DEF MetadataKnown
  <2> QED BY <1>1, <1>3, <2>1, <2>2, <2>3 DEF MetadataKnown
<1>5. /\ MapsIn(wal', Suitable) /\ MapsIn(wal', {Replayed(wal').data})
      /\ "power" \in Faults =>
            \A f \in undo' : MapsIn(f, Suitable)
  <2>1. CASE OpenWal(p) \/ SyncNewWal(p) \/ Recover(p)
    <3>1. wal' = wal /\ undo' \in {undo, {}} /\ pc[p] # "sync"
      BY <2>1 DEF OpenWal, SyncNewWal, Recover, SyncDir
    <3> QED BY <1>s, <3>1, MetadataFacts
  <2>2. CASE CreateWal(p)
    <3>1. /\ wal' = CreatedFile /\ ~ wal.exists /\ undo' \in {undo \cup {wal}, {}}
      BY <2>2 DEF CreateWal, Replaced
    <3>2. Replayed(wal) = ScanStart
      BY <1>s, <3>1, MetadataFacts DEF Shape, Replayed
    <3>3. ASSUME NEW P, ScanStart.data \in P PROVE MapsIn(CreatedFile, P)
      <4>1. CreatedFile.synced = Len(CreatedFile.recs)
        BY DEF CreatedFile, EmptyFile
      <4> QED BY <3>3, <4>1, NewFileShape, SyncedLogSurvives
    <3>4. ScanStart.data \in Suitable /\ Replayed(CreatedFile) = ScanStart
      BY <1>s, <3>2, MetadataFacts, NewFileShape
    <3> QED BY <1>s, <3>1, <3>3, <3>4, MetadataFacts
  <2>3. CASE WriteMagic(p)
    <3>1. wal' = [wal EXCEPT !.header = TRUE] /\ undo' = undo /\ pc[p] = "walNew"
      BY <2>3 DEF WriteMagic
    <3>2. /\ wal'.recs = wal.recs /\ wal'.replay = wal.replay /\ wal'.synced = wal.synced
      BY <1>s, <3>1, MetadataFacts DEF File
    <3>3. ASSUME NEW P, MapsIn(wal, P) PROVE MapsIn(wal', P)
      BY <1>s, <3>2, <3>3, MetadataFacts, SameRecordsMaps
    <3>4. Replayed(wal') = Replayed(wal)
      BY <3>2 DEF Replayed
    <3> QED BY <1>s, <3>1, <3>3, <3>4, MetadataFacts
  <2> QED BY <2>1, <2>2, <2>3
<1>6. "power" \in Faults => "format" \notin dirty'
  BY <1>3 DEF FormatIsDurable
<1> QED BY <1>s, <1>3, <1>4, <1>5, <1>6, MetadataOfMover

(* schema.json is only written for a log it accepts. *)
LEMMA SchemaMetadata ==
    ASSUME SupportedFaults, TypeInv, AgreementInv, PromiseInv, MetadataInv, NEW p \in Proc,
           CreateSchema(p) \/ WriteSchema(p) \/ SyncSchema(p)
    PROVE  MetadataInv'
<1>s. Step(p)
  BY DEF Step, OpenStep
<1>0. TypeOK /\ pc[p] \in {"persist", "schemaNew", "schemaWritten"}
  BY DEF TypeInv, CreateSchema, WriteSchema, SyncSchema
<1>1. /\ UNCHANGED << format, wal, schema, data >>
      /\ dirty' \in {dirty, {}, dirty \cup {"schema"}} /\ undo' \in {undo, {}}
      /\ pc'[p] \in {"schemaNew", "schemaWritten", "ready"}
      /\ schemaFile' \in {schemaFile, TornSchema, schema[p]}
      /\ schemaFile' = schemaFile \/ pc'[p] # "ready"
  BY <1>0 DEF CreateSchema, WriteSchema, SyncSchema, SyncDir, Unsynced, TypeOK
<1>2. /\ schema[p] \in Schemas /\ Valid(schema[p], data[p])
      /\ schemaFile \in Schemas => schema[p] = schemaFile
      /\ format = "ok" /\ FormatIsDurable
  BY <1>s, <1>0, MetadataFacts DEF MetadataKnown, AfterSchema
<1>3. FormatIsDurable'
  BY <1>1, <1>2 DEF FormatIsDurable
<1>4. MetadataKnown(p)'
  <2>1. schemaFile' \in Schemas => schema[p] = schemaFile'
    BY <1>1, <1>2, DatabaseConstants
  <2> QED BY <1>1, <1>2, <1>3, <2>1 DEF MetadataKnown, AfterSchema, Writing, Checkpointing
<1>5. Replayed(wal).data \in Suitable'
  <2>1. data[p] = Replayed(wal).data
    BY <1>s, <1>0, MetadataFacts DEF Agreement, InStep
  <2>2. Replayed(wal).data \in Suitable
    BY <1>s, MetadataFacts
  <2> QED BY <1>1, <1>2, <2>1, <2>2, DatabaseConstants DEF Suitable, Valid
<1>6. MapsIn(wal, {Replayed(wal).data})
  BY <1>s, <1>0, MetadataFacts
<1>7. MapsIn(wal, Suitable')
  BY <1>5, <1>6, MoreMaps
<1>8. "power" \in Faults => undo' = {} /\ "format" \notin dirty'
  BY <1>s, <1>0, <1>1, <1>3, MetadataFacts DEF FormatIsDurable
<1> QED BY <1>s, <1>1, <1>3, <1>4, <1>6, <1>7, <1>8, MetadataOfMover

(* A transaction is checked before it is written, so what its COMMIT record
   makes of the log suits the schema. *)
LEMMA TransactionMetadata ==
    ASSUME SupportedFaults, TypeInv, AgreementInv, PromiseInv, MetadataInv, NEW p \in Proc,
           \/ \E t \in Transactions : StartTransaction(p, t)
           \/ TransactionStep(p)
           \/ FailTransaction(p)
    PROVE  MetadataInv'
<1>s. Step(p)
  BY DEF Step, Fault
<1>0. TypeOK /\ FilesExist /\ pc[p] \in {"ready"} \cup Writing
  BY DEF TypeInv, StartTransaction, TransactionStep, WriteBegin, WriteOperation, WriteCommit,
         SyncCommit, FailTransaction, Writing
<1>1. /\ UNCHANGED << format, dirty, schemaFile, schema, undo >>
      /\ pc'[p] \in {"ready"} \cup Writing
  BY <1>0 DEF StartTransaction, TransactionStep, WriteBegin, WriteOperation, WriteCommit,
              SyncCommit, LogRecord, FailTransaction, Writing, TypeOK
<1>2. /\ FormatIsDurable' = FormatIsDurable /\ Suitable' = Suitable
      /\ format = "ok" /\ FormatIsDurable /\ wal.exists
      /\ schemaFile \in Schemas => schema[p] = schemaFile
  BY <1>s, <1>0, <1>1, MetadataFacts
     DEF FormatIsDurable, Suitable, MetadataKnown, AfterSchema, FilesExist
<1>3. pc'[p] \in Writing => Valid(schema[p], Apply(data'[p], ops'[p]))
  <2>1. CASE \E t \in Transactions : StartTransaction(p, t)
    <3>1. PICK t \in Transactions : StartTransaction(p, t)
      BY <2>1
    <3>2. ops'[p] = t /\ data' = data /\ Valid(schema[p], Apply(data[p], t))
      BY <1>0, <3>1 DEF StartTransaction, MayCommit, TypeOK
    <3> QED BY <3>2
  <2>2. CASE WriteBegin(p) \/ WriteOperation(p) \/ WriteCommit(p)
    <3>1. pc[p] \in Writing /\ UNCHANGED << data, ops >>
      BY <2>2 DEF WriteBegin, WriteOperation, WriteCommit, Writing
    <3>2. Valid(schema[p], Apply(data[p], ops[p]))
      BY <1>s, <3>1, MetadataFacts DEF MetadataKnown
    <3> QED BY <3>1, <3>2
  <2>3. CASE SyncCommit(p) \/ FailTransaction(p)
    <3>1. pc'[p] = "ready"
      BY <1>0, <2>3 DEF SyncCommit, FailTransaction, TypeOK
    <3> QED BY <3>1 DEF Writing
  <2> QED BY <2>1, <2>2, <2>3 DEF TransactionStep
<1>4. MetadataKnown(p)'
  BY <1>1, <1>2, <1>3 DEF MetadataKnown, AfterSchema, Writing
<1>5. "power" \in Faults => undo' = {} /\ "format" \notin dirty'
  <2>1. pc[p] \notin {"walNew", "walWritten", "renamed", "formatNew", "formatWritten"}
    BY <1>0 DEF Writing
  <2> QED BY <1>s, <1>1, <2>1, MetadataFacts
<1>6. /\ MapsIn(wal', Suitable)
      /\ pc'[p] # "sync" => MapsIn(wal', {Replayed(wal').data})
  <2>1. CASE \E t \in Transactions : StartTransaction(p, t)
    <3>1. wal' = wal /\ pc[p] = "ready"
      BY <2>1 DEF StartTransaction
    <3> QED BY <1>s, <3>1, MetadataFacts
  <2>2. CASE WriteBegin(p) \/ WriteOperation(p) \/ WriteCommit(p)
    <3>0. pc[p] \in {"begin", "write"} /\ UNCHANGED << data, ops >>
      BY <2>2 DEF WriteBegin, WriteOperation, WriteCommit
    <3>1. PICK r \in Record : \/ wal' = AppendTo(wal, r) /\ pc'[p] \in {"write", "sync"}
                              \/ wal' = wal /\ pc'[p] = "ready"
      BY <2>2, RecordWritten
    <3>2. CASE wal' = wal /\ pc'[p] = "ready"
      BY <1>s, <3>0, <3>2, MetadataFacts
    <3>3. CASE wal' = AppendTo(wal, r) /\ pc'[p] \in {"write", "sync"}
      <4>1. Agreement(p)'
        BY <1>s, <2>2, MetadataFacts, TransactionAgrees DEF TransactionStep
      <4>2. wal \in File /\ Shape(wal) /\ MapsIn(wal, {Replayed(wal).data})
            /\ MapsIn(wal, Suitable) /\ Replayed(wal).data \in Suitable
        BY <1>s, <3>0, MetadataFacts
      <4>3. CASE pc'[p] = "write"
        <5>1. data[p] = Replayed(wal).data
          BY <1>s, <3>0, MetadataFacts DEF Agreement, InStep, HalfWritten
        <5>2. data[p] = Replayed(wal').data
          BY <3>0, <4>1, <4>3 DEF Agreement, HalfWritten
        <5> QED BY <1>2, <3>3, <4>2, <5>1, <5>2, AppendMaps
      <4>4. CASE pc'[p] = "sync"
        <5>1. Replayed(wal').data = Apply(data[p], ops[p])
          BY <3>0, <4>1, <4>4 DEF Agreement, Committed
        <5>2. Apply(data[p], ops[p]) \in Map /\ Valid(schema[p], Apply(data[p], ops[p]))
          BY <1>0, <1>s, <3>0, ApplyType, MetadataFacts DEF TypeOK, MetadataKnown, Writing
        <5>3. Replayed(wal').data \in Suitable
          BY <1>2, <5>1, <5>2 DEF Suitable, Valid
        <5> QED BY <1>2, <3>3, <4>2, <4>4, <5>3, AppendMaps
      <4> QED BY <3>3, <4>3, <4>4
    <3> QED BY <3>1, <3>2, <3>3
  <2>3. CASE SyncCommit(p)
    <3>1. wal' = SyncAll(wal)
      BY <2>3 DEF SyncCommit
    <3>2. wal' \in File /\ Shape(wal') /\ Replayed(wal') = Replayed(wal)
      BY <1>s, <3>1, MetadataFacts, EditShape
    <3>3. wal'.synced = Len(wal'.recs)
      BY <1>s, <3>1, MetadataFacts DEF SyncAll, File
    <3>4. Replayed(wal').data \in Suitable
      BY <1>s, <3>2, MetadataFacts
    <3>5. ASSUME NEW P, Replayed(wal').data \in P PROVE MapsIn(wal', P)
      BY <3>2, <3>3, <3>5, SyncedLogSurvives
    <3> QED BY <3>4, <3>5
  <2>4. CASE FailTransaction(p)
    <3>0. "power" \notin Faults
      BY <2>4 DEF FailTransaction, SupportedFaults
    <3>1. \E b \in BOOLEAN : wal' = [wal EXCEPT !.torn = b]
      BY <2>4 DEF FailTransaction
    <3>2. wal'.recs = wal.recs /\ wal'.replay = wal.replay
      BY <1>s, <3>1, MetadataFacts DEF File
    <3>3. Replayed(wal').data \in Suitable
      BY <1>s, <3>2, MetadataFacts DEF Replayed
    <3> QED BY <3>0, <3>3, WithoutPowerCuts
  <2> QED BY <2>1, <2>2, <2>3, <2>4 DEF TransactionStep
<1> QED BY <1>s, <1>1, <1>2, <1>4, <1>5, <1>6, MetadataOfMover

(* A checkpoint puts a log in place that has the same contents. *)
LEMMA CheckpointMetadata ==
    ASSUME SupportedFaults, TypeInv, AgreementInv, PromiseInv, MetadataInv, NEW p \in Proc,
           StartCheckpoint(p) \/ CheckpointStep(p) \/ FailStagingCreate(p)
               \/ FailPublish(p)
    PROVE  MetadataInv'
<1>s. Step(p)
  BY DEF Step, Fault
<1>0. TypeOK /\ FilesExist /\ pc[p] \in {"ready"} \cup Checkpointing
  BY DEF TypeInv, StartCheckpoint, CheckpointStep, CheckpointWork, WriteStagingMagic,
         BeginChunk, StageEntry, CommitChunk, FailStaging, StagingFull, FinishStaging, Rename,
         FinishCheckpoint, FailStagingCreate, FailPublish, Checkpointing
<1>1. /\ UNCHANGED << format, schemaFile, schema >> /\ dirty' \in {dirty, {}}
      /\ pc'[p] \in {"ready"} \cup Checkpointing
  BY <1>0 DEF StartCheckpoint, CheckpointStep, CheckpointWork, WriteStagingMagic,
         BeginChunk, StageEntry, StageRecord, CommitChunk, FailStaging, AbandonCheckpoint,
         EndCheckpoint, FinishStaging, Rename, FinishCheckpoint, FailStagingCreate,
         FailPublish, SyncDir, Checkpointing, TypeOK
<1>2. /\ format = "ok" /\ FormatIsDurable
      /\ schemaFile \in Schemas => schema[p] = schemaFile
  BY <1>s, <1>0, MetadataFacts DEF MetadataKnown, AfterSchema
<1>3. FormatIsDurable' /\ Suitable' = Suitable
  BY <1>1, <1>2 DEF FormatIsDurable, Suitable
<1>4. MetadataKnown(p)'
  BY <1>1, <1>2, <1>3 DEF MetadataKnown, AfterSchema, Checkpointing, Writing
<1>5. /\ MapsIn(wal', Suitable) /\ MapsIn(wal', {Replayed(wal').data})
      /\ "power" \in Faults => \A f \in undo' : MapsIn(f, Suitable)
  <2>1. CASE Rename(p)
    <3>1. pc[p] = "rename" /\ wal' = newWal[p] /\ undo' \in {undo \cup {wal}, {}}
      BY <2>1 DEF Rename, Replaced
    <3>2. data' = data /\ pc'[p] = "renamed"
      BY <1>0, <2>1 DEF Rename, TypeOK
    <3>3. Agreement(p)'
      BY <1>s, <2>1, MetadataFacts, CheckpointAgrees DEF CheckpointStep, CheckpointWork
    <3>4. Replayed(newWal[p]).data = Replayed(wal).data
      <4>1. Replayed(wal').data = data[p]
        BY <3>2, <3>3 DEF Agreement, Published
      <4>2. Replayed(wal).data = data[p]
        BY <1>s, <3>1, MetadataFacts DEF Agreement, InStep
      <4> QED BY <3>1, <4>1, <4>2
    <3>5. "power" \in Faults => newWal[p].synced = Len(newWal[p].recs)
      BY <3>1 DEF PromiseInv, NamesAreSynced
    <3>6. ASSUME NEW P, Replayed(wal).data \in P PROVE MapsIn(newWal[p], P)
      BY <1>s, <3>4, <3>5, <3>6, MetadataFacts, SyncedLogSurvives, WithoutPowerCuts
    <3> QED BY <1>s, <3>1, <3>4, <3>6, MetadataFacts
  <2>2. CASE ~ Rename(p)
    <3>1. wal' = wal /\ undo' \in {undo, {}} /\ pc[p] # "sync"
      BY <1>0, <2>2
         DEF StartCheckpoint, CheckpointStep, CheckpointWork, WriteStagingMagic, BeginChunk,
             StageEntry, CommitChunk, FailStaging, FinishStaging, FinishCheckpoint,
             FailStagingCreate, FailPublish, SyncDir, Checkpointing
    <3> QED BY <1>s, <3>1, MetadataFacts
  <2> QED BY <2>1, <2>2
<1>6. "power" \in Faults => "format" \notin dirty'
  BY <1>3 DEF FormatIsDurable
<1> QED BY <1>s, <1>3, <1>4, <1>5, <1>6, MetadataOfMover

(* What a power cut leaves are prefixes of logs that survive anyway, and a
   schema.json or none. *)
LEMMA PowerCutMetadata ==
    ASSUME TypeInv, MetadataInv, PowerCut
    PROVE  MetadataInv'
<1>1. PICK before \in undo \cup {wal} :
         wal' \in AfterPowerCut(before, before = wal /\ \E p \in Proc : MidFrame(p))
  BY DEF PowerCut
<1>2. /\ "power" \in Faults /\ undo' = {} /\ dirty' = {} /\ Drop(Proc)
      /\ schemaFile' \in {schemaFile, NoSchema}
      /\ format' = format \/ "format" \in dirty
  BY DEF PowerCut
<1>3. /\ before \in File /\ Shape(before) /\ MapsIn(before, Suitable)
      /\ before.exists => FormatIsDurable
  BY <1>1, <1>2 DEF TypeInv, TypeOK, Shapes, MetadataInv, SurvivingFiles, MapsIn
<1>4. wal' \in File /\ Shape(wal') /\ wal'.synced = Len(wal'.recs)
  BY <1>1, <1>3, PowerCutShape
<1>5. wal'.exists = before.exists
  BY <1>1 DEF AfterPowerCut
<1>6. MapsIn(wal', Suitable')
  <2>1. Suitable \subseteq Suitable'
    BY <1>2, DatabaseConstants DEF Suitable, Valid
  <2>2. MapsIn(before, Suitable')
    BY <1>3, <2>1, MoreMaps
  <2> QED BY <1>1, <1>2, <1>3, <2>2, PowerCutMaps
<1>7. MapsIn(wal', {Replayed(wal').data})
  BY <1>4, SyncedLogSurvives
<1>8. wal'.exists => FormatIsDurable'
  BY <1>2, <1>3, <1>5 DEF FormatIsDurable
<1>9. \A p \in Proc : MetadataKnown(p)'
  <2>1. \A p \in Proc : pc'[p] = "closed"
    BY <1>2 DEF Drop
  <2> QED BY <2>1 DEF MetadataKnown, AfterSchema, Writing, Checkpointing
<1>10. SurvivingFiles' = {wal'}
  BY <1>2 DEF SurvivingFiles
<1> QED
  BY <1>2, <1>6, <1>7, <1>8, <1>9, <1>10
     DEF MetadataInv, FormatIsSynced, TailChangesNothing, MapsIn

(* The invariant of layer 5 is inductive, given the ones before it. *)
LEMMA MetadataStep ==
    ASSUME SupportedFaults, TypeInv, AgreementInv, PromiseInv, MetadataInv, [Next]_vars
    PROVE  MetadataInv'
<1>1. ASSUME NEW p \in Proc, Step(p) PROVE MetadataInv'
  BY <1>1, DropMetadata, FormatMetadata, OpenLogMetadata, SchemaMetadata,
     TransactionMetadata, CheckpointMetadata
     DEF Step, OpenStep, Fault
<1>2. CASE PowerCut
  BY <1>2, PowerCutMetadata
<1>3. CASE UNCHANGED vars
  BY <1>3 DEF vars, MetadataInv, MetadataKnown, FormatIsDurable, FormatIsSynced, Suitable,
              TailChangesNothing, SurvivingFiles, MapsIn, SurvivingLengths
<1> QED BY <1>1, <1>2, <1>3 DEF Next

(* The database never writes itself into a state that open refuses, for every
   value of the constants and under kills and I/O errors or under power cuts:
   no record out of place, no log above the limit, no id space exhausted, no
   contents that the stored schema rejects, no log without format.json. *)
THEOREM LogsReopen ==
    ASSUME SupportedFaults
    PROVE  Spec => []SurvivorsReopen
<1>1. TypeInv /\ AgreementInv /\ PromiseInv /\ [Next]_vars => PromiseInv'
  BY PromiseStep
<1>2. TypeInv /\ AgreementInv /\ PromiseInv /\ MetadataInv /\ [Next]_vars => MetadataInv'
  BY MetadataStep
<1>3. TypeInv /\ SoundInv /\ MetadataInv => SurvivorsReopen
  <2> SUFFICES ASSUME TypeInv, SoundInv, MetadataInv,
                      NEW f \in SurvivingFiles, NEW n \in SurvivingLengths(f), f.exists
               PROVE  /\ \A i \in 1 .. n : Accepts(f.replay[i], f.recs[i])
                      /\ f.replay[n + 1].cursor <= MAX_WAL_BYTES
                      /\ NextIdAfter(f.replay[n + 1].seen) <= MaxTxId
                      /\ Valid(schemaFile, f.replay[n + 1].data)
                      /\ format # "absent"
                      /\ "power" \in Faults => "format" \notin dirty
    BY DEF SurvivorsReopen
  <2>1. f \in File /\ Shape(f) /\ SoundFile(f)
    BY DEF TypeInv, TypeOK, Shapes, SoundInv, SurvivingFiles
  <2>2. n \in Nat /\ n <= Len(f.recs) /\ Len(f.recs) \in Nat
        /\ n + 1 \in 1 .. Len(f.recs) + 1 /\ n + 1 \in 1 .. Len(f.replay)
    BY <2>1 DEF SurvivingLengths, File, Shape
  <2>3. \A i \in 1 .. n : Accepts(f.replay[i], f.recs[i])
    BY <2>1, <2>2 DEF SoundFile
  <2>4. SoundScan(f.replay[n + 1]) /\ f.replay[n + 1] \in Scan
    BY <2>1, <2>2 DEF SoundFile, File
  <2>5. NextIdAfter(f.replay[n + 1].seen) <= MaxTxId
    <3> DEFINE seen == f.replay[n + 1].seen
    <3>1. seen \in SUBSET TransactionId /\ \A id \in seen : id < MaxTxId
      BY <2>4 DEF Scan, SoundScan
    <3> HIDE DEF seen
    <3>2. /\ NextIdAfter(seen) \in 1 .. MaxTxId + 1
          /\ NextIdAfter(seen) = 1 \/ NextIdAfter(seen) - 1 \in seen
      BY <3>1, NextIdAfterProperty
    <3>3. NextIdAfter(seen) <= MaxTxId
      BY <3>1, <3>2, WalConstants
    <3> QED BY <3>3 DEF seen
  <2>6. FormatIsDurable /\ f.replay[n + 1].data \in Suitable
    BY DEF MetadataInv, MapsIn
  <2> QED BY <2>3, <2>4, <2>5, <2>6 DEF SoundScan, FormatIsDurable, Suitable
<1> QED
  BY <1>1, <1>2, <1>3, InitPromises, InitMetadata, TypeInvariance, AgreementInvariance,
     SoundInvariance, PTL DEF Spec

-----------------------------------------------------------------------------
(* The refinement: WalDatabase implements DurableMap. *)

LEMMA InitHealth == Init => HealthInv
BY DEF Init, HealthInv

(* Nothing poisons a handle before a transaction or a rename begins. *)
LEMMA HealthStep ==
    ASSUME TypeInv, AgreementInv, HealthInv, [Next]_vars
    PROVE  HealthInv'
<1>0. TypeOK
  BY DEF TypeInv
<1>1. ASSUME NEW p \in Proc, Step(p) PROVE HealthInv'
  <2> DEFINE Healthy(q) ==
               pc[q] \in Opening \cup {"closed", "ckptNew", "ckpt", "chunk"} => ~ poisoned[q]
  <2>1. ASSUME NEW q \in Proc, q # p PROVE Healthy(q)'
    <3>1. pc[q] = "closed" /\ pc'[q] = "closed"
      BY <1>1, <2>1, OthersAreClosed
    <3>2. poisoned'[q] = poisoned[q]
      <4>1. CASE RejectOpen(p) \/ FailOpen(p) \/ Close(p) \/ Kill(p)
        <5>1. Drop({p})
          BY <4>1 DEF RejectOpen, FailOpen, Close, Kill
        <5> QED BY <2>1, <5>1 DEF Drop
      <4>2. CASE ~ (RejectOpen(p) \/ FailOpen(p) \/ Close(p) \/ Kill(p))
        <5>1. \/ poisoned' = poisoned
              \/ \E b \in BOOLEAN : poisoned' = [poisoned EXCEPT ![p] = b]
          BY <1>1, <4>2
             DEF Step, OpenStep, TransactionStep, CheckpointStep, CheckpointWork, Fault,
                 Open, CheckFormat, CreateFormat, WriteFormat, SyncFormat, ReadSchema,
                 OpenWal, CreateWal, WriteMagic, SyncNewWal, Recover, CreateSchema,
                 WriteSchema, SyncSchema, StartTransaction, WriteBegin, WriteOperation,
                 WriteCommit, SyncCommit, StartCheckpoint, WriteStagingMagic, BeginChunk,
                 StageEntry, CommitChunk, FailStaging, FinishStaging, Rename,
                 FinishCheckpoint, FailTransaction, FailStagingCreate, FailPublish
        <5> QED BY <1>0, <2>1, <5>1 DEF TypeOK
      <4> QED BY <4>1, <4>2
    <3> QED BY <3>1, <3>2 DEF HealthInv
  <2>2. Healthy(p)'
    <3>1. CASE RejectOpen(p) \/ FailOpen(p) \/ Close(p) \/ Kill(p)
      <4>1. Drop({p})
        BY <3>1 DEF RejectOpen, FailOpen, Close, Kill
      <4> QED BY <4>1 DEF Drop
    <3>2. CASE \/ \E s \in Schemas \cup {NoSchema} : Open(p, s)
               \/ OpenStep(p) /\ ~ RejectOpen(p)
      <4>1. pc[p] \in Opening \cup {"closed"} /\ poisoned' = poisoned
        BY <3>2
           DEF Open, OpenStep, CheckFormat, CreateFormat, WriteFormat, SyncFormat,
               ReadSchema, OpenWal, CreateWal, WriteMagic, SyncNewWal, Recover,
               CreateSchema, WriteSchema, SyncSchema, Opening
      <4> QED BY <4>1 DEF HealthInv
    <3>3. CASE (\E t \in Transactions : StartTransaction(p, t)) \/ TransactionStep(p)
               \/ FailTransaction(p)
      <4>1. pc'[p] \in {"ready"} \cup Writing
        BY <1>0, <3>3 DEF StartTransaction, TransactionStep, WriteBegin, WriteOperation,
              WriteCommit, SyncCommit, LogRecord, FailTransaction, Writing, TypeOK
      <4> QED BY <4>1 DEF Writing, Opening
    <3>4. CASE \/ StartCheckpoint(p) \/ WriteStagingMagic(p) \/ BeginChunk(p)
               \/ (\E k \in Key : StageEntry(p, k)) \/ CommitChunk(p)
      <4>1. poisoned' = poisoned
            /\ (pc[p] \in {"ckptNew", "ckpt", "chunk"} \/ ~ poisoned[p])
        BY <3>4 DEF StartCheckpoint, WriteStagingMagic, BeginChunk, StageEntry, CommitChunk
      <4> QED BY <4>1 DEF HealthInv
    <3>5. CASE \/ FailStaging(p) \/ FinishStaging(p) \/ Rename(p)
               \/ FinishCheckpoint(p) \/ FailStagingCreate(p) \/ FailPublish(p)
      <4>1. pc'[p] \in {"ready", "rename", "renamed"}
        BY <1>0, <3>5 DEF FailStaging, AbandonCheckpoint, EndCheckpoint, FinishStaging,
                          Rename, FinishCheckpoint, FailStagingCreate, FailPublish, TypeOK
      <4> QED BY <4>1 DEF Opening
    <3> QED
      BY <1>1, <3>1, <3>2, <3>3, <3>4, <3>5
         DEF Step, OpenStep, TransactionStep, CheckpointStep, CheckpointWork, Fault
  <2> QED BY <2>1, <2>2 DEF HealthInv
<1>2. CASE PowerCut
  BY <1>2 DEF PowerCut, Drop, HealthInv
<1>3. CASE UNCHANGED vars
  BY <1>3 DEF vars, HealthInv
<1> QED BY <1>1, <1>2, <1>3 DEF Next

(* A process that leaves nobody's view changed takes a stuttering step. *)
LEMMA Stutter ==
    ASSUME TypeInv, NEW p \in Proc, Step(p), promised' = promised,
           viewOf'[p] = viewOf[p], submittedBy'[p] = submittedBy[p]
    PROVE  UNCHANGED Durable!vars
<1>1. ASSUME NEW q \in Proc, q # p
      PROVE  viewOf'[q] = viewOf[q] /\ submittedBy'[q] = submittedBy[q]
  <2>1. pc[q] = "closed" /\ pc'[q] = "closed"
    BY <1>1, OthersAreClosed
  <2> QED BY <2>1 DEF viewOf, submittedBy, HasHandle, Writing, Checkpointing
<1>2. viewOf' = [q \in Proc |-> viewOf'[q]] /\ viewOf = [q \in Proc |-> viewOf[q]]
  BY DEF viewOf
<1>3. submittedBy' = [q \in Proc |-> submittedBy'[q]]
      /\ submittedBy = [q \in Proc |-> submittedBy[q]]
  BY DEF submittedBy
<1>4. viewOf' = viewOf
  <2>1. \A q \in Proc : viewOf'[q] = viewOf[q]
    BY <1>1
  <2> QED BY <1>2, <2>1, Zenon
<1>5. submittedBy' = submittedBy
  <2>1. \A q \in Proc : submittedBy'[q] = submittedBy[q]
    BY <1>1
  <2> QED BY <1>3, <2>1, Zenon
<1> QED BY <1>4, <1>5 DEF Durable!vars

(* What a step does to the view and to the submission of its process. *)
LEMMA OnlyItsOwn ==
    ASSUME TypeInv, NEW p \in Proc, Step(p)
    PROVE  /\ viewOf' = [viewOf EXCEPT ![p] = viewOf'[p]]
           /\ submittedBy' = [submittedBy EXCEPT ![p] = submittedBy'[p]]
           /\ \A q \in Proc : q # p => viewOf[q] = Closed
<1>1. ASSUME NEW q \in Proc, q # p
      PROVE  /\ viewOf'[q] = viewOf[q] /\ submittedBy'[q] = submittedBy[q]
             /\ viewOf[q] = Closed
  <2>1. pc[q] = "closed" /\ pc'[q] = "closed"
    BY <1>1, OthersAreClosed
  <2> QED BY <2>1 DEF viewOf, submittedBy, HasHandle, Writing, Checkpointing
<1>2. viewOf' = [viewOf EXCEPT ![p] = viewOf'[p]]
  <2>1. /\ viewOf' = [q \in Proc |-> viewOf'[q]]
        /\ [viewOf EXCEPT ![p] = viewOf'[p]]
              = [q \in Proc |-> IF q = p THEN viewOf'[p] ELSE viewOf[q]]
    BY DEF viewOf
  <2>2. \A q \in Proc : viewOf'[q] = IF q = p THEN viewOf'[p] ELSE viewOf[q]
    BY <1>1
  <2> QED BY <2>1, <2>2, Zenon
<1>3. submittedBy' = [submittedBy EXCEPT ![p] = submittedBy'[p]]
  <2>1. /\ submittedBy' = [q \in Proc |-> submittedBy'[q]]
        /\ [submittedBy EXCEPT ![p] = submittedBy'[p]]
              = [q \in Proc |-> IF q = p THEN submittedBy'[p] ELSE submittedBy[q]]
    BY DEF submittedBy
  <2>2. \A q \in Proc : submittedBy'[q] = IF q = p THEN submittedBy'[p] ELSE submittedBy[q]
    BY <1>1
  <2> QED BY <2>1, <2>2, Zenon
<1> QED BY <1>1, <1>2, <1>3

(* The call that ends an open shows its client a promised map. *)
LEMMA OpenRefines ==
    ASSUME TypeInv, AgreementInv, PromiseInv, HealthInv, NEW p \in Proc,
           Recover(p) \/ SyncSchema(p)
    PROVE  Durable!Open(p) \/ UNCHANGED Durable!vars
<1>0. TypeOK /\ Shapes /\ Agreement(p) /\ Step(p) /\ Map # {} /\ ~ poisoned[p]
  <2>1. TypeOK /\ Shapes /\ Agreement(p) /\ Step(p)
    BY DEF TypeInv, AgreementInv, Step, OpenStep
  <2>2. ~ poisoned[p]
    BY DEF HealthInv, Recover, SyncSchema, Opening
  <2>3. EmptyMap \in Map
    BY DEF EmptyMap, Map
  <2> QED BY <2>1, <2>2, <2>3
<1>1. wal \in File /\ Shape(wal) /\ MapsIn(wal, promised)
  BY <1>0 DEF TypeOK, Shapes, PromiseInv, ReopenFindsPromisedMap, SurvivingFiles, MapsIn
<1>2. Replayed(wal).data \in promised
  BY <1>1, WholeLogSurvives
<1>3. /\ pc[p] \in Opening /\ viewOf[p] = Closed /\ submittedBy[p] = None
  BY DEF Recover, SyncSchema, Opening, viewOf, submittedBy, HasHandle, Writing,
         Checkpointing
<1>4. CASE pc'[p] = "persist"
  <2>1. promised' = promised
    BY <1>0, <1>4 DEF Recover, SyncSchema, TypeOK
  <2>2. viewOf'[p] = Closed /\ submittedBy'[p] = None
    BY <1>4 DEF viewOf, submittedBy, HasHandle, Writing, Checkpointing
  <2> QED BY <1>0, <1>3, <2>1, <2>2, Stutter
<1>5. CASE pc'[p] # "persist"
  <2> DEFINE m == Replayed(wal).data
  <2>1. /\ pc'[p] = "ready" /\ data'[p] = m /\ poisoned' = poisoned
        /\ promised' = PromisedOnOpen(m)
    <3>1. CASE Recover(p)
      BY <1>0, <1>5, <3>1 DEF Recover, TypeOK
    <3>2. CASE SyncSchema(p)
      <4>1. data[p] = m
        BY <1>0, <3>2 DEF SyncSchema, Agreement, InStep
      <4> QED BY <1>0, <3>2, <4>1 DEF SyncSchema, TypeOK
    <3> QED BY <3>1, <3>2
  <2> HIDE DEF m
  <2>2. viewOf'[p] = m /\ submittedBy'[p] = None
    BY <1>0, <2>1 DEF viewOf, submittedBy, HasHandle, Writing
  <2>3. /\ viewOf' = [viewOf EXCEPT ![p] = m]
        /\ submittedBy' = [submittedBy EXCEPT ![p] = None]
        /\ \A q \in Proc : viewOf[q] = Closed
    BY <1>0, <1>3, <2>2, OnlyItsOwn
  <2>4. submittedBy' = submittedBy
    BY <1>3, <2>3 DEF submittedBy
  <2>5. promised' = IF "power" \notin Faults THEN {m} ELSE promised
    BY <2>1 DEF PromisedOnOpen
  <2> QED BY <1>2, <2>3, <2>4, <2>5 DEF Durable!Open, m
<1> QED BY <1>4, <1>5

(* A transaction is submitted when it starts and acknowledged when its COMMIT
   record is synced; if it fails in between its outcome is unknown. *)
LEMMA TransactionRefines ==
    ASSUME TypeInv, AgreementInv, NEW p \in Proc,
           \/ \E t \in Transactions : StartTransaction(p, t)
           \/ TransactionStep(p)
           \/ FailTransaction(p)
    PROVE  \/ \E m \in Map : Durable!Submit(p, m)
           \/ Durable!Acknowledge(p)
           \/ Durable!Poison(p)
           \/ UNCHANGED Durable!vars
<1>0. TypeOK /\ Agreement(p) /\ Step(p)
  BY DEF TypeInv, AgreementInv, Step, Fault
<1>m. data[p] \in Map /\ Apply(data[p], ops[p]) \in Map
  BY <1>0, ApplyType DEF TypeOK
<1>c. ASSUME NEW m \in Map PROVE m # Closed /\ m # None /\ m # Uncertain
  BY RefinementConstants
<1>1. CASE \E t \in Transactions : StartTransaction(p, t)
  <2>1. PICK t \in Transactions : StartTransaction(p, t)
    BY <1>1
  <2> DEFINE m == Apply(data[p], t)
  <2>2. m \in Map
    BY <1>m, <2>1, ApplyType, DatabaseConstants
  <2>3. /\ pc[p] = "ready" /\ ~ poisoned[p] /\ data' = data
        /\ promised' = promised \cup {m}
    BY <2>1 DEF StartTransaction, MayCommit
  <2>4. pc'[p] = "begin" /\ ops'[p] = t
    BY <1>0, <2>1 DEF StartTransaction, TypeOK
  <2> HIDE DEF m
  <2>5. viewOf[p] = data[p] /\ viewOf'[p] = data[p] /\ submittedBy[p] = None
    BY <2>3, <2>4 DEF viewOf, submittedBy, HasHandle, Writing
  <2>6. submittedBy'[p] = m
    BY <2>3, <2>4 DEF submittedBy, Writing, m
  <2>7. viewOf' = [viewOf EXCEPT ![p] = data[p]]
        /\ submittedBy' = [submittedBy EXCEPT ![p] = m]
    BY <1>0, <2>5, <2>6, OnlyItsOwn
  <2>8. viewOf' = viewOf
    BY <2>5, <2>7 DEF viewOf
  <2> QED BY <1>c, <1>m, <2>2, <2>3, <2>5, <2>7, <2>8 DEF Durable!Submit
<1>2. CASE SyncCommit(p)
  <2> DEFINE m == Apply(data[p], ops[p])
  <2>1. pc[p] = "sync" /\ promised' = {m}
    BY <1>2 DEF SyncCommit
  <2>2. pc'[p] = "ready" /\ data'[p] = m /\ ~ poisoned'[p]
    BY <1>0, <1>2 DEF SyncCommit, TypeOK
  <2>3. submittedBy[p] = m
    BY <2>1 DEF submittedBy, Writing
  <2>4. viewOf'[p] = m /\ submittedBy'[p] = None
    BY <2>2 DEF viewOf, submittedBy, HasHandle, Writing
  <2> HIDE DEF m
  <2>5. viewOf' = [viewOf EXCEPT ![p] = m]
        /\ submittedBy' = [submittedBy EXCEPT ![p] = None]
    BY <1>0, <2>4, OnlyItsOwn
  <2> QED BY <1>m, <2>1, <2>3, <2>5 DEF Durable!Acknowledge, m
<1>3. CASE WriteBegin(p) \/ WriteOperation(p) \/ WriteCommit(p) \/ FailTransaction(p)
  <2>1. /\ pc[p] \in Writing /\ UNCHANGED << data, ops, promised, poisoned >>
        /\ pc'[p] \in Writing \cup {"ready"}
    BY <1>0, <1>3 DEF WriteBegin, WriteOperation, WriteCommit, FailTransaction, LogRecord,
                      Writing, TypeOK
  <2>2. viewOf[p] = data[p] /\ viewOf'[p] = data[p]
    BY <2>1 DEF viewOf, HasHandle
  <2>3. CASE pc'[p] \in Writing
    <3>1. submittedBy'[p] = submittedBy[p]
      BY <2>1, <2>3 DEF submittedBy
    <3> QED BY <1>0, <2>1, <2>2, <3>1, Stutter
  <2>4. CASE pc'[p] = "ready"
    <3>1. poisoned[p]
      BY <1>0, <2>1 DEF Agreement
    <3>2. submittedBy'[p] = Uncertain
      BY <2>1, <2>4, <3>1 DEF submittedBy, Writing
    <3>3. viewOf' = [viewOf EXCEPT ![p] = data[p]]
          /\ submittedBy' = [submittedBy EXCEPT ![p] = Uncertain]
      BY <1>0, <2>2, <3>2, OnlyItsOwn
    <3>4. viewOf' = viewOf
      BY <2>2, <3>3 DEF viewOf
    <3> QED BY <1>c, <1>m, <2>1, <2>2, <3>3, <3>4 DEF Durable!Poison
  <2> QED BY <2>1, <2>3, <2>4
<1> QED BY <1>1, <1>2, <1>3 DEF TransactionStep

(* A checkpoint changes nothing, settles the contents, or fails after it
   poisoned the handle. *)
LEMMA CheckpointRefines ==
    ASSUME TypeInv, AgreementInv, HealthInv, NEW p \in Proc,
           StartCheckpoint(p) \/ CheckpointStep(p) \/ FailStagingCreate(p)
               \/ FailPublish(p)
    PROVE  Durable!Settle(p) \/ Durable!Poison(p) \/ UNCHANGED Durable!vars
<1>0. TypeOK /\ Agreement(p) /\ Step(p) /\ data[p] \in Map
  BY DEF TypeInv, TypeOK, AgreementInv, Step, Fault
<1>c. data[p] # Closed
  BY <1>0, RefinementConstants
<1>1. CASE \/ StartCheckpoint(p) \/ WriteStagingMagic(p) \/ BeginChunk(p)
           \/ (\E k \in Key : StageEntry(p, k)) \/ CommitChunk(p) \/ FinishStaging(p)
           \/ Rename(p) \/ FailStaging(p) \/ FailStagingCreate(p)
  <2>1. UNCHANGED << data, promised >>
    BY <1>1 DEF StartCheckpoint, WriteStagingMagic, BeginChunk, StageEntry, CommitChunk,
                FinishStaging, Rename, FailStaging, FailStagingCreate
  <2>2. /\ \/ pc[p] = "ready" /\ ~ poisoned[p]
           \/ pc[p] \in Checkpointing
        /\ \/ pc'[p] \in Checkpointing
           \/ pc'[p] = "ready" /\ ~ poisoned'[p]
    <3>1. CASE FailStaging(p) \/ FailStagingCreate(p)
      <4>1. pc[p] \in {"ckptNew", "ckpt", "chunk"} /\ poisoned' = poisoned
        BY <3>1 DEF FailStaging, StagingFull, FailStagingCreate
      <4>2. pc'[p] = "ready"
        BY <1>0, <3>1 DEF FailStaging, AbandonCheckpoint, EndCheckpoint,
                          FailStagingCreate, TypeOK
      <4> QED BY <4>1, <4>2 DEF HealthInv, Checkpointing
    <3>2. CASE ~ (FailStaging(p) \/ FailStagingCreate(p))
      BY <1>0, <1>1, <3>2 DEF StartCheckpoint, WriteStagingMagic, BeginChunk, StageEntry,
            StageRecord, CommitChunk, FinishStaging, Rename, Checkpointing, TypeOK
    <3> QED BY <3>1, <3>2
  <2>3. viewOf[p] = data[p] /\ viewOf'[p] = data[p]
    BY <2>1, <2>2 DEF viewOf, HasHandle
  <2>4. submittedBy[p] = None /\ submittedBy'[p] = None
    BY <2>2 DEF submittedBy, Checkpointing, Writing
  <2> QED BY <1>0, <2>1, <2>3, <2>4, Stutter
<1>2. CASE FinishCheckpoint(p) \/ FailPublish(p)
  <2>1. pc[p] \in {"rename", "renamed"} /\ data' = data
    BY <1>2 DEF FinishCheckpoint, FailPublish
  <2>2. /\ pc'[p] = "ready"
        /\ \/ promised' = promised /\ poisoned' = poisoned
           \/ promised' = {data[p]} /\ ~ poisoned'[p]
    BY <1>0, <1>2 DEF FinishCheckpoint, FailPublish, EndCheckpoint, TypeOK
  <2>3. poisoned[p]
    BY <1>0, <2>1 DEF Agreement
  <2>4. viewOf[p] = data[p] /\ viewOf'[p] = data[p] /\ submittedBy[p] = None
    BY <2>1, <2>2 DEF viewOf, submittedBy, HasHandle, Checkpointing, Writing
  <2>5. viewOf' = viewOf
    <3>1. viewOf' = [viewOf EXCEPT ![p] = data[p]]
      BY <1>0, <2>4, OnlyItsOwn
    <3> QED BY <2>4, <3>1 DEF viewOf
  <2>6. CASE promised' = promised /\ poisoned' = poisoned
    <3>1. submittedBy'[p] = Uncertain
      BY <2>2, <2>3, <2>6 DEF submittedBy, Writing
    <3>2. submittedBy' = [submittedBy EXCEPT ![p] = Uncertain]
      BY <1>0, <3>1, OnlyItsOwn
    <3> QED BY <1>c, <2>4, <2>5, <2>6, <3>2 DEF Durable!Poison
  <2>7. CASE promised' = {data[p]} /\ ~ poisoned'[p]
    <3>1. submittedBy'[p] = None
      BY <2>2, <2>7 DEF submittedBy, Writing
    <3>2. submittedBy' = [submittedBy EXCEPT ![p] = None]
      BY <1>0, <3>1, OnlyItsOwn
    <3>3. submittedBy' = submittedBy
      BY <2>4, <3>2 DEF submittedBy
    <3> QED BY <1>c, <2>4, <2>5, <2>7, <3>3 DEF Durable!Settle
  <2> QED BY <2>2, <2>6, <2>7
<1> QED BY <1>1, <1>2 DEF CheckpointStep, CheckpointWork

(* A handle that is dropped, or a machine that goes down, leaves. *)
LEMMA DropRefines ==
    ASSUME NEW C \in SUBSET Proc, Drop(C), promised' = promised
    PROVE  Durable!Leave(C)
<1>1. viewOf' = [q \in Proc |-> IF q \in C THEN Closed ELSE viewOf[q]]
  <2>1. viewOf' = [q \in Proc |-> viewOf'[q]]
    BY DEF viewOf
  <2>2. ASSUME NEW q \in Proc PROVE viewOf'[q] = IF q \in C THEN Closed ELSE viewOf[q]
    BY DEF Drop, viewOf, HasHandle, Writing, Checkpointing
  <2> QED BY <2>1, <2>2, Zenon
<1>2. submittedBy' = [q \in Proc |-> IF q \in C THEN None ELSE submittedBy[q]]
  <2>1. submittedBy' = [q \in Proc |-> submittedBy'[q]]
    BY DEF submittedBy
  <2>2. ASSUME NEW q \in Proc PROVE submittedBy'[q] = IF q \in C THEN None ELSE submittedBy[q]
    BY DEF Drop, submittedBy, Writing
  <2> QED BY <2>1, <2>2, Zenon
<1> QED BY <1>1, <1>2 DEF Durable!Leave

LEMMA InitRefines == Init => Durable!Init
<1> SUFFICES ASSUME Init PROVE Durable!Init
  OBVIOUS
<1>1. \A p \in Proc : pc[p] = "closed"
  BY DEF Init
<1>2. viewOf = [p \in Proc |-> Closed] /\ submittedBy = [p \in Proc |-> None]
  BY <1>1 DEF viewOf, submittedBy, HasHandle, Writing, Checkpointing
<1> QED BY <1>2 DEF Init, Durable!Init

(* Every step maps to a step of the durable map or to a stutter. *)
LEMMA StepRefines ==
    ASSUME TypeInv, AgreementInv, PromiseInv, HealthInv, [Next]_vars
    PROVE  [Durable!Next]_(Durable!vars)
<1>1. ASSUME NEW p \in Proc, Step(p) PROVE [Durable!Next]_(Durable!vars)
  <2>1. CASE RejectOpen(p) \/ FailOpen(p) \/ Close(p) \/ Kill(p)
    <3>1. Drop({p}) /\ promised' = promised
      BY <2>1 DEF RejectOpen, FailOpen, Close, Kill
    <3>2. Durable!Leave({p})
      BY <3>1, DropRefines
    <3> QED BY <3>2 DEF Durable!Next
  <2>2. CASE Recover(p) \/ SyncSchema(p)
    BY <2>2, OpenRefines DEF Durable!Next
  <2>3. CASE \/ \E s \in Schemas \cup {NoSchema} : Open(p, s)
             \/ OpenStep(p) /\ ~ RejectOpen(p) /\ ~ Recover(p) /\ ~ SyncSchema(p)
    <3>1. pc[p] \in Opening \cup {"closed"} /\ promised' = promised
      BY <2>3
         DEF Open, OpenStep, CheckFormat, CreateFormat, WriteFormat, SyncFormat,
             ReadSchema, OpenWal, CreateWal, WriteMagic, SyncNewWal, CreateSchema,
             WriteSchema, Opening
    <3>2. pc'[p] \in Opening
      <4>1. TypeOK
        BY DEF TypeInv
      <4> QED
        BY <2>3, <4>1
           DEF Open, OpenStep, CheckFormat, CreateFormat, WriteFormat, SyncFormat,
               ReadSchema, OpenWal, CreateWal, WriteMagic, SyncNewWal, CreateSchema,
               WriteSchema, Opening, TypeOK
    <3>3. /\ viewOf[p] = Closed /\ viewOf'[p] = Closed
          /\ submittedBy[p] = None /\ submittedBy'[p] = None
      BY <3>1, <3>2 DEF viewOf, submittedBy, HasHandle, Opening, Writing, Checkpointing
    <3> QED BY <1>1, <3>1, <3>3, Stutter
  <2>4. CASE \/ \E t \in Transactions : StartTransaction(p, t)
             \/ TransactionStep(p)
             \/ FailTransaction(p)
    BY <2>4, TransactionRefines DEF Durable!Next
  <2>5. CASE StartCheckpoint(p) \/ CheckpointStep(p) \/ FailStagingCreate(p)
               \/ FailPublish(p)
    BY <2>5, CheckpointRefines DEF Durable!Next
  <2> QED BY <1>1, <2>1, <2>2, <2>3, <2>4, <2>5 DEF Step, OpenStep, Fault
<1>2. CASE PowerCut
  <2>1. Drop(Proc) /\ promised' = promised
    BY <1>2 DEF PowerCut
  <2>2. Durable!Leave(Proc)
    BY <2>1, DropRefines
  <2> QED BY <2>2 DEF Durable!Next
<1>3. CASE UNCHANGED vars
  BY <1>3 DEF vars, Durable!vars, viewOf, submittedBy, HasHandle
<1> QED BY <1>1, <1>2, <1>3 DEF Next

(* The files implement the promise: for every value of the constants, under
   kills and I/O errors or under power cuts, a client of the database sees a
   map that changes as a whole, and an acknowledged change is the only thing
   the next open may find. *)
THEOREM ImplementsMap ==
    ASSUME SupportedFaults
    PROVE  Spec => ImplementsDurableMap
<1>1. TypeInv /\ AgreementInv /\ PromiseInv /\ [Next]_vars => PromiseInv'
  BY PromiseStep
<1>2. TypeInv /\ AgreementInv /\ HealthInv /\ [Next]_vars => HealthInv'
  BY HealthStep
<1>3. TypeInv /\ AgreementInv /\ PromiseInv /\ HealthInv /\ [Next]_vars
         => [Durable!Next]_(Durable!vars)
  BY StepRefines
<1> QED
  BY <1>1, <1>2, <1>3, InitRefines, InitPromises, InitHealth, TypeInvariance,
     AgreementInvariance, PTL
     DEF Spec, ImplementsDurableMap, Durable!Spec

-----------------------------------------------------------------------------
(* Sums.  A recursive function exists because each of its beginnings does. *)

(* f holds the totals of the first n sizes. *)
TotalsUpTo(f, sizes, n) ==
    /\ f \in [0 .. n -> Nat] /\ f[0] = 0
    /\ \A i \in 1 .. n : f[i] = f[i - 1] + sizes[i]

LEMMA TotalsExist ==
    ASSUME NEW sizes \in Seq(Nat)
    PROVE  \E f : TotalsUpTo(f, sizes, Len(sizes))
<1>1. Len(sizes) \in Nat /\ sizes \in [1 .. Len(sizes) -> Nat]
  BY LenProperties
<1>2. SUFFICES ASSUME \E n \in 0 .. Len(sizes) : ~ \E f : TotalsUpTo(f, sizes, n) PROVE FALSE
  BY <1>1
<1>3. PICK n \in {x \in 0 .. Len(sizes) : ~ \E f : TotalsUpTo(f, sizes, x)} :
          \A m \in {x \in 0 .. Len(sizes) : ~ \E f : TotalsUpTo(f, sizes, x)} : n <= m
  <2>1. {x \in 0 .. Len(sizes) : ~ \E f : TotalsUpTo(f, sizes, x)} \in SUBSET Nat
    OBVIOUS
  <2> QED BY <1>2, <2>1, LeastNatural
<1>4. n # 0
  <2>1. TotalsUpTo([i \in 0 .. 0 |-> 0], sizes, 0)
    BY DEF TotalsUpTo
  <2> QED BY <1>3, <2>1
<1>5. n - 1 \in 0 .. Len(sizes) /\ n \in 1 .. Len(sizes) /\ n - 1 < n
  BY <1>1, <1>3, <1>4
<1>6. PICK f : TotalsUpTo(f, sizes, n - 1)
  BY <1>3, <1>5
<1>7. PICK g : g = [i \in 0 .. n |-> IF i = n THEN f[n - 1] + sizes[n] ELSE f[i]]
  OBVIOUS
<1>8. f \in [0 .. n - 1 -> Nat] /\ sizes[n] \in Nat /\ f[n - 1] \in Nat /\ f[0] = 0
  BY <1>1, <1>5, <1>6 DEF TotalsUpTo
<1>9. g \in [0 .. n -> Nat]
  <2>1. \A i \in 0 .. n : i # n => i \in 0 .. n - 1
    BY <1>5
  <2> QED BY <1>7, <1>8, <2>1
<1>10. g[0] = 0
  BY <1>5, <1>7, <1>8
<1>11. ASSUME NEW i \in 1 .. n PROVE g[i] = g[i - 1] + sizes[i]
  <2>1. CASE i = n
    BY <1>5, <1>7, <2>1
  <2>2. CASE i # n
    <3>1. i \in 1 .. n - 1 /\ i - 1 # n /\ i \in 0 .. n /\ i - 1 \in 0 .. n
      BY <1>5, <2>2
    <3>2. g[i] = f[i] /\ g[i - 1] = f[i - 1]
      BY <1>7, <2>2, <3>1
    <3> QED BY <1>6, <3>1, <3>2 DEF TotalsUpTo
  <2> QED BY <2>1, <2>2
<1>12. TotalsUpTo(g, sizes, n)
  BY <1>9, <1>10, <1>11 DEF TotalsUpTo
<1> QED BY <1>3, <1>12

LEMMA RunningTotalProperty ==
    ASSUME NEW sizes \in Seq(Nat)
    PROVE  TotalsUpTo(RunningTotal(sizes), sizes, Len(sizes))
<1> DEFINE N == Len(sizes)
           Sums(t) == t = [i \in 0 .. N |-> IF i = 0 THEN 0 ELSE t[i - 1] + sizes[i]]
<1>1. N \in Nat /\ sizes \in [1 .. N -> Nat]
  BY LenProperties
<1>2. RunningTotal(sizes) = CHOOSE t : Sums(t)
  BY DEF RunningTotal
<1>3. \E t : Sums(t)
  <2>1. PICK f : TotalsUpTo(f, sizes, N)
    BY TotalsExist
  <2>2. \A i \in 0 .. N : i = 0 \/ i \in 1 .. N
    BY <1>1
  <2>3. Sums(f)
    BY <1>1, <2>1, <2>2 DEF TotalsUpTo
  <2> QED BY <2>3
<1>4. PICK t : t = RunningTotal(sizes)
  OBVIOUS
<1>5. Sums(t)
  BY <1>2, <1>3, <1>4
<1> HIDE DEF N
<1>6. DOMAIN t = 0 .. N /\ t[0] = 0
  BY <1>1, <1>5
<1>7. ASSUME NEW i \in 1 .. N PROVE t[i] = t[i - 1] + sizes[i]
  BY <1>1, <1>5
<1>8. \A i \in 0 .. N : t[i] \in Nat
  <2>1. SUFFICES ASSUME \E i \in 0 .. N : t[i] \notin Nat PROVE FALSE
    OBVIOUS
  <2>2. PICK n \in {i \in 0 .. N : t[i] \notin Nat} :
            \A m \in {i \in 0 .. N : t[i] \notin Nat} : n <= m
    <3>1. {i \in 0 .. N : t[i] \notin Nat} \in SUBSET Nat
      OBVIOUS
    <3> QED BY <2>1, <3>1, LeastNatural
  <2>3. n \in 1 .. N /\ n - 1 \in 0 .. N /\ n - 1 < n
    BY <1>1, <1>6, <2>2
  <2>4. t[n - 1] \in Nat /\ sizes[n] \in Nat
    BY <1>1, <2>2, <2>3
  <2> QED BY <1>7, <2>2, <2>3, <2>4
<1>9. t \in [0 .. N -> Nat]
  <2>1. t = [i \in 0 .. N |-> IF i = 0 THEN 0 ELSE t[i - 1] + sizes[i]]
    BY <1>5
  <2> QED BY <1>8, <2>1
<1> QED BY <1>4, <1>6, <1>7, <1>9 DEF TotalsUpTo, N

LEMMA OperationBytesType ==
    ASSUME NEW op \in Operation
    PROVE  OperationBytes(op) \in Nat
<1>1. KeyBytes[op.key] \in Nat
  BY WalConstants DEF Operation
<1>2. op.value # Absent => ValueBytes[op.value] \in Nat
  BY WalConstants DEF Operation
<1> QED BY <1>1, <1>2 DEF OperationBytes

LEMMA FrameSizesType ==
    ASSUME NEW t \in Seq(Operation)
    PROVE  /\ FrameSizes(t) \in Seq(Nat) /\ Len(FrameSizes(t)) = Len(t)
           /\ \A i \in 1 .. Len(t) : /\ t[i] \in Operation
                                     /\ FrameSizes(t)[i] = OperationBytes(t[i])
                                     /\ OperationBytes(t[i]) \in Nat
<1>1. Len(t) \in Nat /\ t \in [1 .. Len(t) -> Operation]
  BY LenProperties
<1>2. \A op \in Operation : OperationBytes(op) \in Nat
  BY OperationBytesType
<1>3. PICK s : s = FrameSizes(t)
  OBVIOUS
<1>4. s = [i \in 1 .. Len(t) |-> OperationBytes(t[i])]
  BY <1>3 DEF FrameSizes
<1>5. s \in [1 .. Len(t) -> Nat]
  BY <1>1, <1>2, <1>4
<1>6. s \in Seq(Nat) /\ Len(s) = Len(t)
  BY <1>1, <1>5, IsASeq, LenProperties
<1> QED BY <1>1, <1>2, <1>3, <1>4, <1>6

(* What is left to write shrinks by each operation that is written. *)
LEMMA BytesAfterProperty ==
    ASSUME NEW t \in Seq(Operation)
    PROVE  /\ TransactionBytes(t) = 34 + BytesAfter(t, 0)
           /\ BytesAfter(t, Len(t)) = 0
           /\ \A n \in 0 .. Len(t) : BytesAfter(t, n) \in Int
           /\ \A n \in 0 .. Len(t) - 1 :
                 BytesAfter(t, n) = BytesAfter(t, n + 1) + OperationBytes(t[n + 1])
<1>1. PICK s : s = FrameSizes(t)
  OBVIOUS
<1>2. /\ s \in Seq(Nat) /\ Len(s) = Len(t) /\ Len(t) \in Nat
      /\ \A i \in 1 .. Len(t) : s[i] = OperationBytes(t[i]) /\ OperationBytes(t[i]) \in Nat
  BY <1>1, FrameSizesType, LenProperties
<1>3. PICK f : f = RunningTotal(s)
  OBVIOUS
<1>4. /\ f \in [0 .. Len(t) -> Nat] /\ f[0] = 0
      /\ \A i \in 1 .. Len(t) : f[i] = f[i - 1] + s[i]
  BY <1>2, <1>3, RunningTotalProperty DEF TotalsUpTo
<1>5. \A n : BytesAfter(t, n) = f[Len(t)] - f[n]
  BY <1>1, <1>2, <1>3 DEF BytesAfter, SumOf
<1>6. TransactionBytes(t) = 34 + f[Len(t)]
  BY <1>1, <1>2, <1>3 DEF TransactionBytes, SumOf
<1>7. \A n \in 0 .. Len(t) : f[n] \in Nat
  BY <1>4
<1>8. 0 \in 0 .. Len(t) /\ Len(t) \in 0 .. Len(t)
  BY <1>2
<1>9. ASSUME NEW n \in 0 .. Len(t) - 1
      PROVE  BytesAfter(t, n) = BytesAfter(t, n + 1) + OperationBytes(t[n + 1])
  <2>1. n + 1 \in 1 .. Len(t) /\ n \in 0 .. Len(t) /\ n + 1 \in 0 .. Len(t) /\ (n + 1) - 1 = n
    BY <1>2
  <2>2. f[n + 1] = f[n] + s[n + 1] /\ s[n + 1] = OperationBytes(t[n + 1])
        /\ OperationBytes(t[n + 1]) \in Nat
    BY <1>2, <1>4, <2>1
  <2>3. f[n + 1] \in Nat /\ f[n] \in Nat /\ f[Len(t)] \in Nat
    BY <1>7, <1>8, <2>1
  <2> QED BY <1>5, <2>2, <2>3
<1>10. TransactionBytes(t) = 34 + BytesAfter(t, 0)
  <2>1. f[Len(t)] \in Nat /\ BytesAfter(t, 0) = f[Len(t)] - 0
    BY <1>4, <1>5, <1>7, <1>8
  <2> QED BY <1>6, <2>1
<1>11. BytesAfter(t, Len(t)) = 0
  BY <1>5, <1>7, <1>8
<1>12. ASSUME NEW n \in 0 .. Len(t) PROVE BytesAfter(t, n) \in Int
  BY <1>5, <1>7, <1>8
<1> QED BY <1>9, <1>10, <1>11, <1>12

(* What is left to write is never negative. *)
LEMMA BytesLeft ==
    ASSUME NEW t \in Seq(Operation)
    PROVE  \A n \in 0 .. Len(t) : BytesAfter(t, n) >= 0
<1>1. Len(t) \in Nat
  BY LenProperties
<1>2. SUFFICES ASSUME \E d \in 0 .. Len(t) : BytesAfter(t, Len(t) - d) < 0 PROVE FALSE
  <2>1. ASSUME NEW n \in 0 .. Len(t) PROVE BytesAfter(t, n) >= 0
    <3>1. Len(t) - n \in 0 .. Len(t) /\ Len(t) - (Len(t) - n) = n
      BY <1>1
    <3>2. ~ (BytesAfter(t, n) < 0) /\ BytesAfter(t, n) \in Int
      BY <1>2, <3>1, BytesAfterProperty
    <3> QED BY <3>2
  <2> QED BY <2>1
<1>3. PICK d \in {e \in 0 .. Len(t) : BytesAfter(t, Len(t) - e) < 0} :
          \A e \in {e \in 0 .. Len(t) : BytesAfter(t, Len(t) - e) < 0} : d <= e
  <2>1. {e \in 0 .. Len(t) : BytesAfter(t, Len(t) - e) < 0} \in SUBSET Nat
    OBVIOUS
  <2> QED BY <1>2, <2>1, LeastNatural
<1>4. CASE d = 0
  BY <1>1, <1>3, <1>4, BytesAfterProperty
<1>5. CASE d # 0
  <2> DEFINE n == Len(t) - d
  <2>1. /\ d - 1 \in 0 .. Len(t) /\ Len(t) - (d - 1) = n + 1 /\ n \in 0 .. Len(t) - 1
        /\ n + 1 \in 1 .. Len(t) /\ n + 1 \in 0 .. Len(t) /\ d - 1 < d /\ n \in 0 .. Len(t)
    BY <1>1, <1>3, <1>5
  <2>2. BytesAfter(t, n) < 0
    BY <1>3
  <2> HIDE DEF n
  <2>3. BytesAfter(t, n) = BytesAfter(t, n + 1) + OperationBytes(t[n + 1])
        /\ BytesAfter(t, n + 1) \in Int /\ BytesAfter(t, n) \in Int
    BY <2>1, BytesAfterProperty
  <2>4. OperationBytes(t[n + 1]) \in Nat
    BY <2>1, FrameSizesType
  <2>5. ~ (BytesAfter(t, n + 1) < 0)
    BY <1>1, <1>3, <2>1
  <2> QED BY <2>2, <2>3, <2>4, <2>5
<1> QED BY <1>4, <1>5

-----------------------------------------------------------------------------
(* Room in the log. *)

(* The groups of variables and Goto only abbreviate. *)
USE DEF Goto, memVars, diskVars, metaVars, logVars, handleVars, txnVars,
        ckptVars

LEMMA InitRoom == Init => StagingIsWhole /\ RoomInv
BY DEF Init, StagingIsWhole, WholeStaging, RoomInv, HasRoomLeft

LEMMA StagingWholeStep ==
    ASSUME TypeInv, StagingIsWhole, [Next]_vars
    PROVE  StagingIsWhole'
<1>0. TypeOK /\ Shapes /\ FilesExist
  BY DEF TypeInv
<1>1. ASSUME NEW p \in Proc, Step(p) PROVE StagingIsWhole'
  <2>1. SUFFICES WholeStaging(p)'
    BY <1>1, OthersAreClosed DEF StagingIsWhole, WholeStaging
  <2>2. CASE RejectOpen(p) \/ FailOpen(p) \/ Close(p) \/ Kill(p)
    <3>1. Drop({p})
      BY <2>2 DEF RejectOpen, FailOpen, Close, Kill
    <3>2. pc'[p] = "closed"
      BY <3>1 DEF Drop
    <3> QED BY <3>2 DEF WholeStaging
  <2>3. CASE \/ \E s \in Schemas \cup {NoSchema} : Open(p, s)
             \/ OpenStep(p) /\ ~ RejectOpen(p)
    <3>1. pc'[p] \in Opening \cup {"ready"}
      BY <1>0, <2>3
         DEF Open, OpenStep, CheckFormat, CreateFormat, WriteFormat, SyncFormat, ReadSchema,
             OpenWal, CreateWal, WriteMagic, SyncNewWal, Recover, CreateSchema,
             WriteSchema, SyncSchema, TypeOK, Opening
    <3> QED BY <3>1 DEF Opening, WholeStaging
  <2>4. CASE (\E t \in Transactions : StartTransaction(p, t)) \/ TransactionStep(p)
             \/ FailTransaction(p)
    <3>1. pc'[p] \in {"ready"} \cup Writing
      BY <1>0, <2>4 DEF StartTransaction, TransactionStep, WriteBegin, WriteOperation,
            WriteCommit, SyncCommit, LogRecord, FailTransaction, Writing, TypeOK
    <3> QED BY <3>1 DEF Writing, WholeStaging
  <2>5. CASE FailStaging(p) \/ FailStagingCreate(p) \/ FailPublish(p) \/ FinishCheckpoint(p)
    <3>1. pc'[p] = "ready"
      BY <1>0, <2>5 DEF FailStaging, AbandonCheckpoint, EndCheckpoint, FailStagingCreate,
            FailPublish, FinishCheckpoint, TypeOK
    <3> QED BY <3>1 DEF WholeStaging
  <2>6. CASE StartCheckpoint(p)
    <3>1. pc'[p] = "ckptNew" /\ newWal'[p] = CreatedFile
      BY <1>0, <2>6 DEF StartCheckpoint, TypeOK
    <3>2. ~ CreatedFile.torn
      BY DEF CreatedFile, EmptyFile
    <3> QED BY <3>1, <3>2 DEF WholeStaging
  <2>7. CASE WriteStagingMagic(p)
    <3>1. /\ pc'[p] = "ckpt" /\ newWal'[p] = [newWal[p] EXCEPT !.header = TRUE]
          /\ ~ newWal[p].torn
      BY <1>0, <2>7 DEF WriteStagingMagic, TypeOK, StagingIsWhole, WholeStaging
    <3>2. newWal[p] \in File
      BY <1>0 DEF TypeOK
    <3>3. newWal'[p].header /\ newWal'[p].torn = newWal[p].torn
      BY <3>1, <3>2 DEF File
    <3> QED BY <3>1, <3>3 DEF WholeStaging
  <2>8. CASE BeginChunk(p) \/ (\E k \in Key : StageEntry(p, k)) \/ CommitChunk(p)
    <3>1. PICK r : newWal'[p] \in {AppendTo(newWal[p], r), SyncAll(AppendTo(newWal[p], r))}
      BY <1>0, <2>8 DEF BeginChunk, StageEntry, CommitChunk, StageRecord, TypeOK
    <3>2. pc[p] \in {"ckpt", "chunk"} /\ pc'[p] \in {"ckpt", "chunk"}
      BY <1>0, <2>8 DEF BeginChunk, StageEntry, CommitChunk, StageRecord, TypeOK
    <3>3. newWal'[p].header = newWal[p].header /\ newWal'[p].torn = newWal[p].torn
      BY <3>1 DEF AppendTo, SyncAll
    <3> QED BY <3>2, <3>3 DEF StagingIsWhole, WholeStaging
  <2>9. CASE FinishStaging(p)
    <3>1. pc[p] = "ckpt" /\ pc'[p] = "rename" /\ newWal' = newWal
      BY <1>0, <2>9 DEF FinishStaging, TypeOK
    <3> QED BY <3>1 DEF StagingIsWhole, WholeStaging
  <2>10. CASE Rename(p)
    <3>1. pc[p] = "rename" /\ pc'[p] = "renamed" /\ wal' = newWal[p]
      BY <1>0, <2>10 DEF Rename, TypeOK
    <3> QED BY <3>1 DEF StagingIsWhole, WholeStaging
  <2> QED
    BY <1>1, <2>2, <2>3, <2>4, <2>5, <2>6, <2>7, <2>8, <2>9, <2>10
       DEF Step, OpenStep, CheckpointStep, CheckpointWork, Fault
<1>2. CASE PowerCut
  <2>1. \A p \in Proc : pc'[p] = "closed"
    BY <1>2 DEF PowerCut, Drop
  <2> QED BY <2>1 DEF StagingIsWhole, WholeStaging
<1>3. CASE UNCHANGED vars
  BY <1>3 DEF vars, StagingIsWhole, WholeStaging
<1> QED BY <1>1, <1>2, <1>3 DEF Next

(* A record takes its bytes and nothing else. *)
LEMMA AppendLength ==
    ASSUME NEW f \in File, Shape(f), f.exists, NEW r \in Record
    PROVE  Length(AppendTo(f, r)) = Length(f) + RecordBytes(r)
<1>1. Replayed(AppendTo(f, r)) = Advance(Replayed(f), r)
  BY AppendShape
<1>2. r.kind \in {"BEGIN", "WRITE", "COMMIT"}
  BY DEF Record
<1>3. Advance(Replayed(f), r).cursor = Replayed(f).cursor + RecordBytes(r)
  BY <1>2 DEF Advance
<1> QED BY <1>1, <1>3 DEF Length

(* What a transaction writes was counted before it began. *)
LEMMA TransactionHasRoom ==
    ASSUME TypeInv, AgreementInv, "io" \notin Faults, NEW p \in Proc, HasRoomLeft(p),
           \/ \E t \in Transactions : StartTransaction(p, t)
           \/ TransactionStep(p)
    PROVE  HasRoomLeft(p)'
<1>0. TypeOK /\ Shapes /\ FilesExist /\ Agreement(p)
  BY DEF TypeInv, AgreementInv
<1>r. wal \in File /\ Shape(wal) /\ Replayed(wal) \in Scan
  BY <1>0, ReplayedType DEF TypeOK, Shapes
<1>t. nextId[p] \in TransactionId /\ ops[p] \in Seq(Operation) /\ done[p] \in Nat
  BY <1>0 DEF TypeOK
<1>b. /\ TransactionBytes(ops[p]) = 34 + BytesAfter(ops[p], 0)
      /\ BytesAfter(ops[p], Len(ops[p])) = 0
      /\ \A n \in 0 .. Len(ops[p]) : BytesAfter(ops[p], n) \in Int
      /\ \A n \in 0 .. Len(ops[p]) - 1 :
            BytesAfter(ops[p], n) = BytesAfter(ops[p], n + 1) + OperationBytes(ops[p][n + 1])
  BY <1>t, BytesAfterProperty
<1>c. Length(wal) \in Nat /\ MAX_WAL_BYTES \in Nat /\ Len(ops[p]) \in Nat
  BY <1>r, <1>t, WalConstants, LenProperties DEF Length, Scan
<1>d. 0 \in 0 .. Len(ops[p]) /\ Len(ops[p]) \in 0 .. Len(ops[p])
  BY <1>c
<1>e. ASSUME NEW r \in Record, wal.exists, wal' = AppendTo(wal, r)
      PROVE  Length(wal)' = Length(wal) + RecordBytes(r)
  <2>1. Length(AppendTo(wal, r)) = Length(wal) + RecordBytes(r)
    BY <1>r, <1>e, AppendLength
  <2> QED BY <1>e, <2>1
<1>1. CASE \E t \in Transactions : StartTransaction(p, t)
  <2>1. PICK t \in Transactions : StartTransaction(p, t)
    BY <1>1
  <2>2. pc'[p] = "begin" /\ ops'[p] = t /\ wal' = wal /\ HasRoom(t)
    BY <1>0, <2>1 DEF StartTransaction, MayCommit, TypeOK
  <2>3. Length(wal') = Length(wal)
    BY <2>2
  <2>4. HasRoom(ops[p])'
    BY <2>2, <2>3 DEF HasRoom
  <2> QED BY <2>2, <2>4 DEF HasRoomLeft
<1>2. CASE WriteBegin(p)
  <2> DEFINE r == BeginRecord(nextId[p])
  <2>1. pc[p] = "begin" /\ ops' = ops /\ done' = done /\ done[p] = 0 /\ wal.exists
    BY <1>0, <1>2 DEF WriteBegin, Agreement, FilesExist, Writing
  <2>2. Length(wal) + 34 + BytesAfter(ops[p], 0) <= MAX_WAL_BYTES
    <3>1. BytesAfter(ops[p], 0) \in Int
      BY <1>b, <1>d
    <3> QED BY <1>b, <1>c, <2>1, <3>1 DEF HasRoomLeft, HasRoom
  <2>3. RecordBytes(r) = 17 /\ r \in Record
    BY <1>0, RecordTypes DEF RecordBytes, BeginRecord
  <2>4. BytesAfter(ops[p], 0) >= 0
    BY <1>t, BytesLeft, <1>d
  <2>5. Fits(wal, r)
    <3>1. BytesAfter(ops[p], 0) \in Int
      BY <1>b, <1>d
    <3> QED BY <1>c, <2>2, <2>3, <2>4, <3>1 DEF Fits
  <2>6. wal' = AppendTo(wal, r) /\ pc'[p] = "write"
    BY <1>0, <1>2, <2>5 DEF WriteBegin, LogRecord, TypeOK
  <2> HIDE DEF r
  <2>7. Length(wal)' = Length(wal) + 17
    BY <1>e, <2>1, <2>3, <2>6
  <2>8. BytesAfter(ops[p], done[p])' = BytesAfter(ops[p], 0)
    BY <2>1
  <2>9. Length(wal)' + 17 + BytesAfter(ops[p], done[p])' <= MAX_WAL_BYTES
    <3>1. BytesAfter(ops[p], 0) \in Int
      BY <1>b, <1>d
    <3> QED BY <1>c, <2>2, <2>7, <2>8, <3>1
  <2> QED BY <2>6, <2>9 DEF HasRoomLeft
<1>3. CASE WriteOperation(p)
  <2> DEFINE op == ops[p][done[p] + 1]
             r == WriteRecord(nextId[p], op)
             after == BytesAfter(ops[p], done[p] + 1)
  <2>1. /\ pc[p] = "write" /\ ops' = ops /\ done' = [done EXCEPT ![p] = @ + 1]
        /\ done[p] < Len(ops[p]) /\ wal.exists
    BY <1>0, <1>3 DEF WriteOperation, FilesExist, Writing
  <2>2. /\ done[p] \in 0 .. Len(ops[p]) - 1 /\ done[p] + 1 \in 0 .. Len(ops[p])
        /\ done[p] + 1 \in 1 .. Len(ops[p])
    BY <1>c, <1>t, <2>1
  <2>3. r \in Record
    BY <1>0, <2>1, RecordTypes
  <2>4. RecordBytes(r) = OperationBytes(op) /\ OperationBytes(op) \in Nat
    BY <1>t, <2>2, FrameSizesType DEF RecordBytes, WriteRecord
  <2>5. BytesAfter(ops[p], done[p]) = after + RecordBytes(r) /\ after \in Int /\ after >= 0
    BY <1>b, <1>t, <2>2, <2>4, BytesLeft
  <2> HIDE DEF after
  <2>6. Length(wal) + 17 + after + RecordBytes(r) <= MAX_WAL_BYTES
    BY <1>c, <2>1, <2>4, <2>5 DEF HasRoomLeft
  <2>7. Fits(wal, r)
    BY <1>c, <2>4, <2>5, <2>6 DEF Fits
  <2>8. wal' = AppendTo(wal, r) /\ pc'[p] = "write"
    BY <1>0, <1>3, <2>7 DEF WriteOperation, LogRecord, TypeOK
  <2> HIDE DEF r, op
  <2>9. Length(wal)' = Length(wal) + RecordBytes(r)
    BY <1>e, <2>1, <2>3, <2>8
  <2>10. BytesAfter(ops[p], done[p])' = after
    <3>1. done'[p] = done[p] + 1
      BY <1>0, <2>1 DEF TypeOK
    <3> QED BY <2>1, <3>1 DEF after
  <2>11. Length(wal)' + 17 + BytesAfter(ops[p], done[p])' <= MAX_WAL_BYTES
    BY <1>c, <2>4, <2>5, <2>6, <2>9, <2>10
  <2> QED BY <2>8, <2>11 DEF HasRoomLeft
<1>4. CASE WriteCommit(p)
  <2>1. pc[p] = "write" /\ done[p] = Len(ops[p])
    BY <1>4 DEF WriteCommit
  <2>2. RecordBytes(CommitRecord(nextId[p])) = 17
    BY DEF RecordBytes, CommitRecord
  <2>3. Fits(wal, CommitRecord(nextId[p]))
    BY <1>b, <1>c, <2>1, <2>2 DEF HasRoomLeft, Fits
  <2>4. pc'[p] = "sync"
    BY <1>0, <1>4, <2>3 DEF WriteCommit, LogRecord, TypeOK
  <2> QED BY <2>4 DEF HasRoomLeft
<1>5. CASE SyncCommit(p)
  <2>1. pc'[p] = "ready" /\ ~ poisoned'[p]
    BY <1>0, <1>5 DEF SyncCommit, TypeOK
  <2> QED BY <2>1 DEF HasRoomLeft
<1> QED BY <1>1, <1>2, <1>3, <1>4, <1>5 DEF TransactionStep

(* A handle that is not poisoned stays so, until a transaction or a rename. *)
LEMMA RoomStep ==
    ASSUME TypeInv, AgreementInv, SoundInv, HealthInv, StagingIsWhole, RoomInv, [Next]_vars
    PROVE  RoomInv'
<1>0. TypeOK /\ Shapes /\ FilesExist
  BY DEF TypeInv
<1> SUFFICES ASSUME "io" \notin Faults PROVE \A p \in Proc : HasRoomLeft(p)'
  BY DEF RoomInv
<1>1. ASSUME NEW p \in Proc, Step(p) PROVE \A q \in Proc : HasRoomLeft(q)'
  <2>0. /\ pc[p] \in Opening \cup {"closed", "ckptNew", "ckpt", "chunk"} => ~ poisoned[p]
        /\ WholeStaging(p) /\ HasRoomLeft(p) /\ poisoned \in [Proc -> BOOLEAN]
        /\ pc \in [Proc -> {"closed", "ready"} \cup Opening \cup Writing \cup Checkpointing]
    BY <1>0 DEF HealthInv, StagingIsWhole, RoomInv, TypeOK
  <2>1. SUFFICES HasRoomLeft(p)'
    BY <1>1, OthersAreClosed DEF HasRoomLeft
  <2>2. CASE RejectOpen(p) \/ FailOpen(p) \/ Close(p) \/ Kill(p)
    <3>1. Drop({p})
      BY <2>2 DEF RejectOpen, FailOpen, Close, Kill
    <3>2. pc'[p] = "closed"
      BY <3>1 DEF Drop
    <3> QED BY <3>2 DEF HasRoomLeft
  <2>3. CASE \/ \E s \in Schemas \cup {NoSchema} : Open(p, s)
             \/ OpenStep(p) /\ ~ RejectOpen(p)
    <3>1. pc'[p] \in Opening \cup {"ready"} /\ pc[p] \in Opening \cup {"closed"}
          /\ poisoned' = poisoned
      BY <2>0, <2>3
         DEF Open, OpenStep, CheckFormat, CreateFormat, WriteFormat, SyncFormat, ReadSchema,
             OpenWal, CreateWal, WriteMagic, SyncNewWal, Recover, CreateSchema,
             WriteSchema, SyncSchema, Opening
    <3> QED BY <2>0, <3>1 DEF Opening, HasRoomLeft
  <2>4. CASE (\E t \in Transactions : StartTransaction(p, t)) \/ TransactionStep(p)
    BY <2>0, <2>4, TransactionHasRoom
  <2>5. CASE StartCheckpoint(p) \/ WriteStagingMagic(p) \/ BeginChunk(p)
             \/ (\E k \in Key : StageEntry(p, k)) \/ CommitChunk(p) \/ FinishStaging(p)
             \/ Rename(p)
    <3>1. pc'[p] \in {"ckptNew", "ckpt", "chunk", "rename", "renamed"}
      BY <2>0, <2>5 DEF StartCheckpoint, WriteStagingMagic, BeginChunk, StageEntry,
            CommitChunk, StageRecord, FinishStaging, Rename
    <3> QED BY <3>1 DEF HasRoomLeft
  <2>6. CASE FailStaging(p)
    <3>1. pc[p] \in {"ckpt", "chunk"} /\ pc'[p] = "ready" /\ poisoned' = poisoned
      BY <2>0, <2>6 DEF FailStaging, StagingFull, AbandonCheckpoint, EndCheckpoint
    <3> QED BY <2>0, <3>1 DEF HasRoomLeft
  <2>7. CASE FinishCheckpoint(p)
    <3>1. wal.header /\ ~ wal.torn /\ pc[p] = "renamed"
      BY <2>0, <2>7 DEF FinishCheckpoint, WholeStaging
    <3>2. Length(wal) <= MAX_WAL_BYTES /\ \A n \in 1 .. Len(wal.recs) : Accepts(wal.replay[n], wal.recs[n])
      <4>1. wal \in File /\ SoundFile(wal)
        BY <1>0 DEF TypeOK, SoundInv
      <4>2. Len(wal.recs) + 1 \in 1 .. Len(wal.recs) + 1
        BY <4>1 DEF File
      <4> QED BY <4>1, <4>2 DEF SoundFile, SoundScan, Length, Replayed
    <3>3. pc'[p] = "ready" /\ ~ poisoned'[p]
      BY <2>0, <2>7, <3>1, <3>2 DEF FinishCheckpoint, RecoveryReads, EndCheckpoint
    <3> QED BY <3>3 DEF HasRoomLeft
  <2>8. CASE FailTransaction(p) \/ FailStagingCreate(p) \/ FailPublish(p)
    BY <2>8 DEF FailTransaction, FailStagingCreate, FailPublish
  <2> QED
    BY <1>1, <2>2, <2>3, <2>4, <2>5, <2>6, <2>7, <2>8
       DEF Step, OpenStep, CheckpointStep, CheckpointWork, Fault
<1>2. CASE PowerCut
  <2>1. \A p \in Proc : pc'[p] = "closed"
    BY <1>2 DEF PowerCut, Drop
  <2> QED BY <2>1 DEF HasRoomLeft
<1>3. CASE UNCHANGED vars
  <2>1. pc' = pc /\ poisoned' = poisoned /\ ops' = ops /\ done' = done /\ wal' = wal
    BY <1>3 DEF vars
  <2>2. Length(wal') = Length(wal)
    BY <2>1
  <2>3. \A p \in Proc : HasRoom(ops[p])' = HasRoom(ops[p])
                         /\ BytesAfter(ops[p], done[p])' = BytesAfter(ops[p], done[p])
    BY <2>1, <2>2 DEF HasRoom
  <2> QED BY <2>1, <2>2, <2>3 DEF RoomInv, HasRoomLeft
<1> QED BY <1>1, <1>2, <1>3 DEF Next

(* The size that transaction computes is exact, for every list of operations
   and every size of keys and values: as long as no write fails, no handle is
   left poisoned, neither by a transaction nor by a checkpoint. *)
THEOREM OnlyIoErrorsPoison == Spec => []PoisonedOnlyByIoError
<1> DEFINE I == TypeInv /\ AgreementInv /\ SoundInv
           J == HealthInv /\ StagingIsWhole /\ RoomInv
<1>1. Spec => []I
  BY TypeInvariance, AgreementInvariance, SoundInvariance, PTL
<1>2. Init => J
  BY InitHealth, InitRoom
<1>3. I /\ J /\ [Next]_vars => J'
  BY HealthStep, StagingWholeStep, RoomStep
<1>4. J => PoisonedOnlyByIoError
  BY DEF RoomInv, HasRoomLeft, PoisonedOnlyByIoError
<1> QED BY <1>1, <1>2, <1>3, <1>4, PTL DEF Spec

-----------------------------------------------------------------------------
(* Counting bytes. *)

LEMMA ImageCardinality ==
    ASSUME NEW S, IsFiniteSet(S), NEW f, NEW T, \A t \in T : \E x \in S : f[x] = t
    PROVE  IsFiniteSet(T) /\ Cardinality(T) <= Cardinality(S)
<1> DEFINE R == {f[x] : x \in S}
           g == [x \in S |-> f[x]]
<1>1. g \in Surjection(S, R)
  BY DEF Surjection
<1>2. IsFiniteSet(R) /\ Cardinality(R) <= Cardinality(S)
  <2> HIDE DEF g, R
  <2> QED BY <1>1, FS_Surjection
<1>3. T \in SUBSET R
  OBVIOUS
<1> HIDE DEF R
<1>4. IsFiniteSet(T) /\ Cardinality(T) <= Cardinality(R)
  BY <1>2, <1>3, FS_Subset
<1>5. Cardinality(T) \in Nat /\ Cardinality(R) \in Nat /\ Cardinality(S) \in Nat
  BY <1>2, <1>4, FS_CardinalityType
<1> QED BY <1>2, <1>4, <1>5

(* The bytes of one record. *)
LEMMA ColumnSize ==
    ASSUME NEW x, NEW n \in Nat
    PROVE  IsFiniteSet({x} \X (1 .. n)) /\ Cardinality({x} \X (1 .. n)) = n
<1> DEFINE C == {x} \X (1 .. n)
           f == [i \in 1 .. n |-> <<x, i>>]
<1>1. f \in [1 .. n -> C]
  OBVIOUS
<1>2. ASSUME NEW a \in 1 .. n, NEW b \in 1 .. n, f[a] = f[b] PROVE a = b
  BY <1>2
<1>3. ASSUME NEW c \in C PROVE \E i \in 1 .. n : f[i] = c
  <2>1. PICK i \in 1 .. n : c = <<x, i>>
    OBVIOUS
  <2> QED BY <2>1
<1>4. f \in Bijection(1 .. n, C)
  <2> HIDE DEF C, f
  <2> QED BY <1>1, <1>2, <1>3 DEF Bijection, Injection, Surjection, IsInjective
<1>5. ExistsBijection(1 .. n, C)
  BY <1>4 DEF ExistsBijection
<1> HIDE DEF C
<1> QED BY <1>5, FS_NatBijection, FS_CountingElements DEF C

LEMMA ByteOfWrites ==
    ASSUME NEW t, NEW z
    PROVE  z \in BytesOfWrites(t) <=>
              \E i \in 1 .. Len(t) : z \in {i} \X (1 .. OperationBytes(t[i]))
<1> DEFINE col(i) == {i} \X (1 .. OperationBytes(t[i]))
<1>1. BytesOfWrites(t) = UNION {col(i) : i \in 1 .. Len(t)}
  BY DEF BytesOfWrites
<1> HIDE DEF col
<1>2. ASSUME z \in BytesOfWrites(t) PROVE \E i \in 1 .. Len(t) : z \in col(i)
  BY <1>1, <1>2
<1>3. ASSUME NEW i \in 1 .. Len(t), z \in col(i) PROVE z \in BytesOfWrites(t)
  <2>1. col(i) \in {col(j) : j \in 1 .. Len(t)}
    OBVIOUS
  <2> QED BY <1>1, <1>3, <2>1
<1>4. \A i : col(i) = {i} \X (1 .. OperationBytes(t[i]))
  BY DEF col
<1> QED BY <1>2, <1>3, <1>4

(* One more operation takes its own bytes. *)
LEMMA BytesOfAppended ==
    ASSUME NEW t \in Seq(Operation), NEW op \in Operation, IsFiniteSet(BytesOfWrites(t))
    PROVE  /\ IsFiniteSet(BytesOfWrites(Append(t, op)))
           /\ Cardinality(BytesOfWrites(Append(t, op)))
                 <= Cardinality(BytesOfWrites(t)) + OperationBytes(op)
<1> DEFINE n == Len(t) + 1
           col == {n} \X (1 .. OperationBytes(op))
<1>1. PICK u : u = Append(t, op)
  OBVIOUS
<1>2. /\ Len(t) \in Nat /\ Len(u) = n /\ u[n] = op
      /\ \A i \in 1 .. Len(t) : u[i] = t[i]
  BY <1>1
<1>3. OperationBytes(op) \in Nat
  BY OperationBytesType
<1>4. BytesOfWrites(u) = BytesOfWrites(t) \cup col
  <2>1. \A i : i \in 1 .. Len(u) <=> i \in 1 .. Len(t) \/ i = n
    BY <1>2
  <2>2. \A z, v : z \in BytesOfWrites(v)
                    <=> \E i \in 1 .. Len(v) : z \in {i} \X (1 .. OperationBytes(v[i]))
    BY ByteOfWrites
  <2> HIDE DEF n
  <2>3. ASSUME NEW z, z \in BytesOfWrites(u) PROVE z \in BytesOfWrites(t) \cup col
    <3>1. PICK i \in 1 .. Len(u) : z \in {i} \X (1 .. OperationBytes(u[i]))
      BY <2>2, <2>3
    <3>2. CASE i = n
      BY <1>2, <3>1, <3>2
    <3>3. CASE i \in 1 .. Len(t)
      BY <1>2, <2>2, <3>1, <3>3
    <3> QED BY <2>1, <3>2, <3>3
  <2>4. ASSUME NEW z, z \in BytesOfWrites(t) PROVE z \in BytesOfWrites(u)
    <3>1. PICK i \in 1 .. Len(t) : z \in {i} \X (1 .. OperationBytes(t[i]))
      BY <2>2, <2>4
    <3> QED BY <1>2, <2>1, <2>2, <3>1
  <2>5. ASSUME NEW z \in col PROVE z \in BytesOfWrites(u)
    <3>1. z \in {n} \X (1 .. OperationBytes(u[n])) /\ n \in 1 .. Len(u)
      BY <1>2, <2>1
    <3> QED BY <2>2, <3>1
  <2> HIDE DEF col
  <2> QED BY <2>3, <2>4, <2>5
<1>5. IsFiniteSet(col) /\ Cardinality(col) = OperationBytes(op)
  BY <1>3, ColumnSize
<1> HIDE DEF col
<1>6. /\ IsFiniteSet(BytesOfWrites(u))
      /\ Cardinality(BytesOfWrites(u))
            = Cardinality(BytesOfWrites(t)) + Cardinality(col) - Cardinality(BytesOfWrites(t) \cap col)
  BY <1>4, <1>5, FS_Union
<1>7. Cardinality(BytesOfWrites(t)) \in Nat /\ Cardinality(BytesOfWrites(t) \cap col) \in Nat
  BY FS_CardinalityType, FS_Intersection
<1> QED BY <1>1, <1>3, <1>5, <1>6, <1>7

LEMMA ByteOfEntries ==
    ASSUME NEW m, NEW S, NEW z
    PROVE  z \in BytesOfEntries(m, S) <=>
              \E k \in S : z \in {k} \X (1 .. EntryBytes(m, k))
<1> DEFINE col(k) == {k} \X (1 .. EntryBytes(m, k))
<1>1. BytesOfEntries(m, S) = UNION {col(k) : k \in S}
  BY DEF BytesOfEntries
<1> HIDE DEF col
<1>2. ASSUME z \in BytesOfEntries(m, S) PROVE \E k \in S : z \in col(k)
  BY <1>1, <1>2
<1>3. ASSUME NEW k \in S, z \in col(k) PROVE z \in BytesOfEntries(m, S)
  <2>1. col(k) \in {col(j) : j \in S}
    OBVIOUS
  <2> QED BY <1>1, <1>3, <2>1
<1>4. \A k : col(k) = {k} \X (1 .. EntryBytes(m, k))
  BY DEF col
<1> QED BY <1>2, <1>3, <1>4

LEMMA EntryBytesType ==
    ASSUME NEW m \in Map, NEW k \in Key
    PROVE  EntryBytes(m, k) \in Nat
<1>1. [key |-> k, value |-> m[k]] \in Operation
  BY DEF Map, Operation
<1> QED BY <1>1, OperationBytesType DEF EntryBytes

(* An entry more takes its own bytes. *)
LEMMA BytesOfOneMore ==
    ASSUME NEW m \in Map, NEW S \in SUBSET Key, NEW k \in Key, k \notin S,
           IsFiniteSet(BytesOfEntries(m, S))
    PROVE  /\ IsFiniteSet(BytesOfEntries(m, S \cup {k}))
           /\ Cardinality(BytesOfEntries(m, S \cup {k}))
                 = Cardinality(BytesOfEntries(m, S)) + EntryBytes(m, k)
<1> DEFINE col == {k} \X (1 .. EntryBytes(m, k))
<1>1. EntryBytes(m, k) \in Nat
  BY EntryBytesType
<1>2. IsFiniteSet(col) /\ Cardinality(col) = EntryBytes(m, k)
  BY <1>1, ColumnSize
<1>3. BytesOfEntries(m, S \cup {k}) = BytesOfEntries(m, S) \cup col
  <2>1. \A z, T : z \in BytesOfEntries(m, T)
                    <=> \E j \in T : z \in {j} \X (1 .. EntryBytes(m, j))
    BY ByteOfEntries
  <2>2. ASSUME NEW z, z \in BytesOfEntries(m, S \cup {k}) PROVE z \in BytesOfEntries(m, S) \cup col
    <3>1. PICK j \in S \cup {k} : z \in {j} \X (1 .. EntryBytes(m, j))
      BY <2>1, <2>2
    <3>2. CASE j = k
      BY <3>1, <3>2
    <3>3. CASE j \in S
      BY <2>1, <3>1, <3>3
    <3> QED BY <3>2, <3>3
  <2>3. ASSUME NEW z, z \in BytesOfEntries(m, S) PROVE z \in BytesOfEntries(m, S \cup {k})
    <3>1. PICK j \in S : z \in {j} \X (1 .. EntryBytes(m, j))
      BY <2>1, <2>3
    <3> QED BY <2>1, <3>1
  <2>4. ASSUME NEW z \in col PROVE z \in BytesOfEntries(m, S \cup {k})
    BY <2>1
  <2> HIDE DEF col
  <2> QED BY <2>2, <2>3, <2>4
<1>4. BytesOfEntries(m, S) \cap col = {}
  <2>1. ASSUME NEW z \in BytesOfEntries(m, S), z \in col PROVE FALSE
    <3>1. PICK j \in S : z \in {j} \X (1 .. EntryBytes(m, j))
      BY ByteOfEntries
    <3>2. z[1] = j /\ z[1] = k
      BY <2>1, <3>1
    <3> QED BY <3>1, <3>2
  <2> QED BY <2>1
<1> HIDE DEF col
<1>5. /\ IsFiniteSet(BytesOfEntries(m, S) \cup col)
      /\ Cardinality(BytesOfEntries(m, S) \cup col)
            = Cardinality(BytesOfEntries(m, S)) + Cardinality(col) - 0
  BY <1>2, <1>4, FS_Union, FS_EmptySet
<1>6. Cardinality(BytesOfEntries(m, S)) \in Nat
  BY FS_CardinalityType
<1>7. /\ IsFiniteSet(BytesOfEntries(m, S \cup {k}))
      /\ Cardinality(BytesOfEntries(m, S \cup {k}))
            = Cardinality(BytesOfEntries(m, S)) + Cardinality(col) - 0
  BY <1>3, <1>5, Zenon
<1> QED BY <1>1, <1>2, <1>6, <1>7

(* A committed transaction leaves at most an entry for each of its writes,
   of the bytes of that write. *)
LEMMA BytesOfApplied ==
    ASSUME NEW m \in Map, NEW t \in Seq(Operation),
           IsFiniteSet(Live(m)), IsFiniteSet(BytesOfEntries(m, Live(m))),
           IsFiniteSet(BytesOfWrites(t))
    PROVE  LET n == Apply(m, t) IN
           /\ IsFiniteSet(Live(n))
           /\ Cardinality(Live(n)) <= Cardinality(Live(m)) + Len(t)
           /\ IsFiniteSet(BytesOfEntries(n, Live(n)))
           /\ Cardinality(BytesOfEntries(n, Live(n)))
                 <= Cardinality(BytesOfEntries(m, Live(m))) + Cardinality(BytesOfWrites(t))
<1>1. PICK n : n = Apply(m, t)
  OBVIOUS
<1>2. /\ Len(t) \in Nat
      /\ n = [k \in Key |-> IF Touches(t, k) THEN t[LastOn(t, k)].value ELSE m[k]]
  BY <1>1, LenProperties DEF Apply
<1> DEFINE touched == {k \in Key : Touches(t, k)}
           old == {k \in Live(n) : ~ Touches(t, k)}
           new == {k \in Live(n) : Touches(t, k)}
<1>3. \A k \in old : k \in Live(m) /\ n[k] = m[k]
  BY <1>2 DEF Live
<1>4. \A k \in new : /\ LastOn(t, k) \in 1 .. Len(t) /\ t[LastOn(t, k)].key = k
                      /\ n[k] = t[LastOn(t, k)].value
  <2>1. ASSUME NEW k \in new
        PROVE  /\ LastOn(t, k) \in 1 .. Len(t) /\ t[LastOn(t, k)].key = k
               /\ n[k] = t[LastOn(t, k)].value
    <3>1. k \in Key /\ Touches(t, k)
      BY DEF Live
    <3> QED BY <1>2, <3>1, LastOnProperty
  <2> QED BY <2>1
<1>5. IsFiniteSet(old) /\ Cardinality(old) <= Cardinality(Live(m))
  <2>1. old \in SUBSET Live(m)
    BY <1>3
  <2> HIDE DEF old
  <2> QED BY <2>1, FS_Subset
<1>6. IsFiniteSet(new) /\ Cardinality(new) <= Len(t)
  <2> DEFINE f == [i \in 1 .. Len(t) |-> t[i].key]
  <2>1. \A k \in new : \E i \in 1 .. Len(t) : f[i] = k
    BY <1>4
  <2>2. IsFiniteSet(1 .. Len(t)) /\ Cardinality(1 .. Len(t)) = Len(t)
    <3>1. /\ IsFiniteSet(1 .. Len(t))
          /\ Cardinality(1 .. Len(t)) = IF 1 > Len(t) THEN 0 ELSE Len(t) - 1 + 1
      <4>1. 1 \in Int /\ Len(t) \in Int
        BY <1>2
      <4> QED BY <4>1, FS_Interval
    <3> QED BY <1>2, <3>1
  <2> HIDE DEF f, new
  <2>3. IsFiniteSet(new) /\ Cardinality(new) <= Cardinality(1 .. Len(t))
    BY <2>1, <2>2, ImageCardinality
  <2> QED BY <2>2, <2>3
<1>7. Live(n) = old \cup new
  OBVIOUS
<1>8. Cardinality(Live(m)) \in Nat /\ Cardinality(old) \in Nat /\ Cardinality(new) \in Nat
      /\ Cardinality(old \cap new) \in Nat
  <2> HIDE DEF old, new
  <2> QED BY <1>5, <1>6, FS_CardinalityType, FS_Intersection
<1>9. IsFiniteSet(Live(n)) /\ Cardinality(Live(n)) <= Cardinality(Live(m)) + Len(t)
  <2> HIDE DEF old, new
  <2>1. IsFiniteSet(old \cup new)
        /\ Cardinality(old \cup new)
              = Cardinality(old) + Cardinality(new) - Cardinality(old \cap new)
    BY <1>5, <1>6, FS_Union
  <2>2. IsFiniteSet(Live(n))
        /\ Cardinality(Live(n))
              = Cardinality(old) + Cardinality(new) - Cardinality(old \cap new)
    BY <1>7, <2>1, Zenon
  <2> QED BY <1>2, <1>5, <1>6, <1>8, <2>2
<1> DEFINE kept == BytesOfEntries(n, old)
           written == BytesOfEntries(n, new)
<1>10. BytesOfEntries(n, Live(n)) = kept \cup written
  <2> HIDE DEF old, new
  <2>1. \A z, T : z \in BytesOfEntries(n, T)
                    <=> \E j \in T : z \in {j} \X (1 .. EntryBytes(n, j))
    BY ByteOfEntries
  <2>2. ASSUME NEW z
        PROVE  z \in BytesOfEntries(n, Live(n))
                  <=> z \in BytesOfEntries(n, old) \/ z \in BytesOfEntries(n, new)
    <3>1. ASSUME z \in BytesOfEntries(n, Live(n))
          PROVE  z \in BytesOfEntries(n, old) \/ z \in BytesOfEntries(n, new)
      <4>1. PICK j \in Live(n) : z \in {j} \X (1 .. EntryBytes(n, j))
        BY <2>1, <3>1
      <4> QED BY <1>7, <2>1, <4>1
    <3>2. ASSUME NEW T \in {old, new}, z \in BytesOfEntries(n, T)
          PROVE  z \in BytesOfEntries(n, Live(n))
      <4>1. PICK j \in T : z \in {j} \X (1 .. EntryBytes(n, j))
        BY <2>1, <3>2
      <4> QED BY <1>7, <2>1, <4>1
    <3> QED BY <3>1, <3>2
  <2> QED BY <2>2
<1>11. IsFiniteSet(kept) /\ Cardinality(kept) <= Cardinality(BytesOfEntries(m, Live(m)))
  <2>1. ASSUME NEW z \in kept PROVE z \in BytesOfEntries(m, Live(m))
    <3>1. PICK k \in old : z \in {k} \X (1 .. EntryBytes(n, k))
      BY ByteOfEntries
    <3>2. EntryBytes(n, k) = EntryBytes(m, k) /\ k \in Live(m)
      BY <1>3 DEF EntryBytes
    <3> QED BY <3>1, <3>2, ByteOfEntries
  <2> HIDE DEF kept
  <2>2. kept \in SUBSET BytesOfEntries(m, Live(m))
    BY <2>1
  <2> QED BY <2>2, FS_Subset
<1>12. IsFiniteSet(written) /\ Cardinality(written) <= Cardinality(BytesOfWrites(t))
  <2> DEFINE f == [x \in BytesOfWrites(t) |-> <<t[x[1]].key, x[2]>>]
  <2>1. ASSUME NEW z \in written PROVE \E x \in BytesOfWrites(t) : f[x] = z
    <3>1. PICK k \in new : z \in {k} \X (1 .. EntryBytes(n, k))
      BY ByteOfEntries
    <3>2. PICK i : i = LastOn(t, k)
      OBVIOUS
    <3>3. i \in 1 .. Len(t) /\ t[i].key = k /\ n[k] = t[i].value
      BY <1>4, <3>2
    <3>4. EntryBytes(n, k) = OperationBytes(t[i])
      BY <3>3 DEF EntryBytes, OperationBytes
    <3>5. PICK b \in 1 .. OperationBytes(t[i]) : z = <<k, b>>
      BY <3>1, <3>4
    <3>6. <<i, b>> \in BytesOfWrites(t)
      BY <3>3, <3>5, ByteOfWrites
    <3>7. f[<<i, b>>] = z
      BY <3>3, <3>5, <3>6
    <3> QED BY <3>6, <3>7
  <2> HIDE DEF f, written
  <2> QED BY <2>1, ImageCardinality
<1>13. Cardinality(kept) \in Nat /\ Cardinality(written) \in Nat
       /\ Cardinality(kept \cap written) \in Nat
       /\ Cardinality(BytesOfEntries(m, Live(m))) \in Nat
       /\ Cardinality(BytesOfWrites(t)) \in Nat
  <2> HIDE DEF kept, written
  <2> QED BY <1>11, <1>12, FS_CardinalityType, FS_Intersection
<1>14. /\ IsFiniteSet(kept \cup written)
       /\ Cardinality(kept \cup written)
             = Cardinality(kept) + Cardinality(written) - Cardinality(kept \cap written)
  <2> HIDE DEF kept, written
  <2> QED BY <1>11, <1>12, FS_Union
<1> HIDE DEF kept, written, old, new
<1>15. IsFiniteSet(BytesOfEntries(n, Live(n)))
       /\ Cardinality(BytesOfEntries(n, Live(n)))
             <= Cardinality(BytesOfEntries(m, Live(m))) + Cardinality(BytesOfWrites(t))
  BY <1>10, <1>11, <1>12, <1>13, <1>14
<1> QED BY <1>1, <1>9, <1>15

-----------------------------------------------------------------------------
(* Every log is as long as its entries need. *)

LEMMA StartIsLongEnough == LongEnough(ScanStart)
<1>1. Live(ScanStart.data) = {}
  BY DEF Live, ScanStart, EmptyMap
<1>2. BytesOfEntries(ScanStart.data, {}) = {}
  BY ByteOfEntries
<1>3. IsFiniteSet({}) /\ Cardinality({}) = 0
  BY FS_EmptySet
<1>4. AtLeast(ScanStart, 0, 0)
  <2>1. ScanStart.cursor = MagicBytes /\ MagicBytes = 8 /\ MAX_TRANSACTION_OPERATIONS \in Nat
    BY WalConstants DEF ScanStart, MagicBytes
  <2> QED BY <1>1, <1>2, <1>3, <2>1 DEF AtLeast
<1>5. ScanStart.pending = {}
  BY DEF ScanStart
<1> QED BY <1>1, <1>2, <1>3, <1>4, <1>5 DEF LongEnough

(* The log has grown as its entries have. *)
LEMMA AtLeastAfter ==
    ASSUME NEW s \in Scan, NEW t \in Scan, NEW c \in Nat, NEW a \in Nat, NEW b \in Nat,
           LongEnough(s), AtLeast(s, c, a), t.data = s.data, t.cursor - s.cursor >= b - a
    PROVE  AtLeast(t, c, b)
<1>1. Cardinality(BytesOfEntries(s.data, Live(s.data))) \in Nat
  BY FS_CardinalityType DEF LongEnough
<1>2. s.cursor \in Nat /\ t.cursor \in Nat /\ MagicBytes = 8
  BY DEF Scan, MagicBytes
<1> QED BY <1>1, <1>2 DEF AtLeast

LEMMA BeginLongEnough ==
    ASSUME NEW s \in Scan, LongEnough(s), SoundScan(s), NEW id \in TransactionId,
           \A other \in s.seen : other < id
    PROVE  LongEnough(Advance(s, BeginRecord(id)))
<1>1. PICK t : t = Advance(s, BeginRecord(id))
  OBVIOUS
<1>2. /\ t.data = s.data /\ t.seen = s.seen \cup {id} /\ t.pending = s.pending \cup {id}
      /\ t.writes[id] = << >> /\ t.cursor = s.cursor + 17
  BY <1>1, AdvanceBegin
<1>3. t \in Scan /\ BeginRecord(id) \in Record
  BY <1>1, AdvanceType DEF BeginRecord, Record
<1>4. PICK c \in Nat : AtLeast(s, c, 0)
  BY DEF LongEnough
<1>5. s.cursor \in Nat
  BY DEF Scan
<1>6. AtLeast(t, c, 0) /\ AtLeast(t, c, 17)
  <2>1. t.cursor - s.cursor >= 0 - 0 /\ t.cursor - s.cursor >= 17 - 0
    BY <1>2, <1>5
  <2> QED BY <1>2, <1>3, <1>4, <2>1, AtLeastAfter
<1>7. ASSUME NEW x \in t.pending, \A other \in t.seen : other <= x
      PROVE  /\ IsFiniteSet(BytesOfWrites(t.writes[x]))
             /\ \E d \in Nat : AtLeast(t, d, 17 + Cardinality(BytesOfWrites(t.writes[x])))
  <2>1. x \in TransactionId /\ s.pending \subseteq s.seen
    BY <1>3 DEF Scan, SoundScan
  <2>2. x = id
    <3>1. id <= x /\ (x \in s.pending => x < id) /\ x \in Nat /\ id \in Nat
      BY <1>2, <1>7, <2>1 DEF TransactionId
    <3> QED BY <1>2, <3>1
  <2>3. BytesOfWrites(<< >>) = {}
    BY ByteOfWrites
  <2>4. BytesOfWrites(t.writes[x]) = {} /\ Cardinality({}) = 0 /\ IsFiniteSet({})
    BY <1>2, <2>2, <2>3, FS_EmptySet
  <2> QED BY <1>6, <2>4
<1> QED BY <1>1, <1>2, <1>6, <1>7 DEF LongEnough

LEMMA WriteLongEnough ==
    ASSUME NEW s \in Scan, LongEnough(s), SoundScan(s), NEW id \in s.pending,
           \A other \in s.seen : other <= id, NEW op \in Operation
    PROVE  LongEnough(Advance(s, WriteRecord(id, op)))
<1>0. id \in TransactionId
  BY DEF Scan
<1>1. PICK t : t = Advance(s, WriteRecord(id, op))
  OBVIOUS
<1>2. /\ t.data = s.data /\ t.seen = s.seen /\ t.pending = s.pending
      /\ t.writes[id] = Append(s.writes[id], op) /\ t.cursor = s.cursor + OperationBytes(op)
  BY <1>0, <1>1, AdvanceWrite
<1>3. t \in Scan
  <2>1. WriteRecord(id, op) \in Record
    BY <1>0 DEF WriteRecord, Record
  <2> QED BY <1>1, <2>1, AdvanceType
<1>4. s.cursor \in Nat /\ OperationBytes(op) \in Nat /\ s.writes[id] \in Seq(Operation)
  BY <1>0, OperationBytesType DEF Scan
<1>5. \E c \in Nat : AtLeast(t, c, 0)
  <2>1. PICK c \in Nat : AtLeast(s, c, 0)
    BY DEF LongEnough
  <2>2. t.cursor - s.cursor >= 0 - 0
    BY <1>2, <1>4
  <2> QED BY <1>2, <1>3, <2>1, <2>2, AtLeastAfter
<1> DEFINE size == Cardinality(BytesOfWrites(s.writes[id]))
           more == Cardinality(BytesOfWrites(Append(s.writes[id], op)))
<1>6. IsFiniteSet(BytesOfWrites(s.writes[id])) /\ \E c \in Nat : AtLeast(s, c, 17 + size)
  BY DEF LongEnough
<1>7. IsFiniteSet(BytesOfWrites(Append(s.writes[id], op))) /\ more <= size + OperationBytes(op)
  BY <1>4, <1>6, BytesOfAppended
<1>8. size \in Nat /\ more \in Nat
  BY <1>6, <1>7, FS_CardinalityType
<1> HIDE DEF size, more
<1>9. PICK c \in Nat : AtLeast(s, c, 17 + size)
  BY <1>6
<1>10. AtLeast(t, c, 17 + more)
  <2>1. t.cursor - s.cursor >= (17 + more) - (17 + size) /\ 17 + more \in Nat /\ 17 + size \in Nat
    BY <1>2, <1>4, <1>7, <1>8
  <2> QED BY <1>2, <1>3, <1>9, <2>1, AtLeastAfter
<1>11. ASSUME NEW x \in t.pending, \A other \in t.seen : other <= x
       PROVE  x = id
  <2>1. x \in s.seen /\ id \in s.seen /\ x \in Nat /\ id \in Nat
    BY <1>2 DEF SoundScan, Scan, TransactionId
  <2>2. x <= id /\ id <= x
    BY <1>2, <1>11, <2>1
  <2> QED BY <2>1, <2>2
<1>12. t.writes[id] = Append(s.writes[id], op) /\ more = Cardinality(BytesOfWrites(t.writes[id]))
  BY <1>2 DEF more
<1>13. LongEnough(t)
  <2>1. IsFiniteSet(BytesOfWrites(t.writes[id]))
        /\ AtLeast(t, c, 17 + Cardinality(BytesOfWrites(t.writes[id])))
    BY <1>7, <1>10, <1>12
  <2>2. ASSUME NEW x \in t.pending, \A other \in t.seen : other <= x
        PROVE  /\ IsFiniteSet(BytesOfWrites(t.writes[x]))
               /\ \E d \in Nat : AtLeast(t, d, 17 + Cardinality(BytesOfWrites(t.writes[x])))
    BY <1>11, <2>1, <2>2
  <2>3. IsFiniteSet(Live(t.data)) /\ IsFiniteSet(BytesOfEntries(t.data, Live(t.data)))
    BY <1>2 DEF LongEnough
  <2> QED BY <1>5, <2>2, <2>3 DEF LongEnough
<1> QED BY <1>1, <1>13

LEMMA CommitLongEnough ==
    ASSUME NEW s \in Scan, LongEnough(s), SoundScan(s), NEW id \in s.pending,
           \A other \in s.seen : other <= id,
           Len(s.writes[id]) <= MAX_TRANSACTION_OPERATIONS
    PROVE  LongEnough(Advance(s, CommitRecord(id)))
<1>0. id \in TransactionId
  BY DEF Scan
<1>1. PICK t : t = Advance(s, CommitRecord(id))
  OBVIOUS
<1>2. PICK w : w = s.writes[id]
  OBVIOUS
<1>3. /\ t.data = Apply(s.data, w) /\ t.seen = s.seen /\ t.pending = s.pending \ {id}
      /\ t.cursor = s.cursor + 17
  BY <1>0, <1>1, <1>2, AdvanceCommit
<1>4. /\ s.cursor \in Nat /\ w \in Seq(Operation) /\ s.data \in Map /\ Len(w) \in Nat
      /\ MAX_TRANSACTION_OPERATIONS \in Nat
  BY <1>0, <1>2, WalConstants, LenProperties DEF Scan
<1>5. /\ IsFiniteSet(Live(s.data)) /\ IsFiniteSet(BytesOfEntries(s.data, Live(s.data)))
      /\ IsFiniteSet(BytesOfWrites(w))
      /\ \E c \in Nat : AtLeast(s, c, 17 + Cardinality(BytesOfWrites(w)))
  BY <1>2 DEF LongEnough
<1>6. /\ IsFiniteSet(Live(t.data)) /\ IsFiniteSet(BytesOfEntries(t.data, Live(t.data)))
      /\ Cardinality(Live(t.data)) <= Cardinality(Live(s.data)) + Len(w)
      /\ Cardinality(BytesOfEntries(t.data, Live(t.data)))
            <= Cardinality(BytesOfEntries(s.data, Live(s.data))) + Cardinality(BytesOfWrites(w))
  BY <1>3, <1>4, <1>5, BytesOfApplied
<1>7. PICK c \in Nat : AtLeast(s, c, 17 + Cardinality(BytesOfWrites(w)))
  BY <1>5
<1>8. AtLeast(t, c + 1, 0)
  <2> DEFINE a == Cardinality(Live(s.data))
             b == Cardinality(BytesOfEntries(s.data, Live(s.data)))
             x == Cardinality(BytesOfWrites(w))
             d == Cardinality(Live(t.data))
             e == Cardinality(BytesOfEntries(t.data, Live(t.data)))
             M == MAX_TRANSACTION_OPERATIONS
  <2>1. a \in Nat /\ b \in Nat /\ x \in Nat /\ d \in Nat /\ e \in Nat /\ M \in Nat
    BY <1>4, <1>5, <1>6, FS_CardinalityType
  <2>2. a <= c * M /\ MagicBytes + 34 * c + b + (17 + x) <= s.cursor
    BY <1>7 DEF AtLeast
  <2>3. d <= a + Len(w) /\ e <= b + x /\ Len(w) <= M
    BY <1>2, <1>6
  <2>4. MagicBytes = 8
    BY DEF MagicBytes
  <2>5. (d <= (c + 1) * M /\ MagicBytes + 34 * (c + 1) + e + 0 <= t.cursor) => AtLeast(t, c + 1, 0)
    BY DEF AtLeast
  <2> HIDE DEF a, b, x, d, e, M
  <2>6. c * M \in Nat /\ (c + 1) * M = c * M + M
    BY <2>1
  <2>7. d <= (c + 1) * M
    <3>1. PICK q : q = c * M
      OBVIOUS
    <3>2. q \in Nat /\ a <= q /\ d <= a + Len(w) /\ Len(w) <= M
      BY <2>2, <2>3, <2>6, <3>1
    <3>3. d <= q + M
      BY <1>4, <2>1, <3>2
    <3> QED BY <2>6, <3>1, <3>3
  <2>8. MagicBytes + 34 * (c + 1) + e + 0 <= t.cursor
    <3>1. t.cursor = s.cursor + 17 /\ s.cursor \in Nat /\ 34 * (c + 1) = 34 * c + 34
      BY <1>3, <1>4
    <3>2. 8 + 34 * c + b + (17 + x) <= s.cursor /\ e <= b + x
      BY <2>2, <2>3, <2>4
    <3>3. 8 + (34 * c + 34) + e + 0 <= s.cursor + 17
      <4>1. 34 * c \in Nat
        OBVIOUS
      <4> QED BY <2>1, <3>1, <3>2, <4>1
    <3> QED BY <2>4, <3>1, <3>3
  <2> QED BY <2>5, <2>7, <2>8
<1>9. ASSUME NEW y \in t.pending, \A other \in t.seen : other <= y
      PROVE  FALSE
  <2>1. y \in s.seen /\ id \in s.seen /\ y \in Nat /\ id \in Nat /\ y # id
    BY <1>3 DEF SoundScan, Scan, TransactionId
  <2>2. y <= id /\ id <= y
    BY <1>3, <1>9, <2>1
  <2> QED BY <2>1, <2>2
<1>10. c + 1 \in Nat
  OBVIOUS
<1> QED BY <1>1, <1>6, <1>8, <1>9, <1>10 DEF LongEnough

LEMMA NewFileLong == LongEnoughFile(CreatedFile) /\ LongEnoughFile(NoFile)
BY StartIsLongEnough DEF LongEnoughFile, CreatedFile, NoFile, EmptyFile

(* The length of a log depends on its records alone. *)
LEMMA SameRecordsLong ==
    ASSUME NEW f, NEW g, g.recs = f.recs, g.replay = f.replay, LongEnoughFile(f)
    PROVE  LongEnoughFile(g)
BY DEF LongEnoughFile

LEMMA AppendLong ==
    ASSUME NEW f \in File, Shape(f), f.exists, LongEnoughFile(f), NEW r \in Record,
           LongEnough(Advance(Replayed(f), r))
    PROVE  LongEnoughFile(AppendTo(f, r))
<1>1. PICK g : g = AppendTo(f, r)
  OBVIOUS
<1>2. /\ Len(g.recs) = Len(f.recs) + 1 /\ Len(f.recs) \in Nat
      /\ \A n \in 1 .. Len(f.recs) + 1 : g.replay[n] = f.replay[n]
      /\ g.replay[Len(f.recs) + 2] = Advance(Replayed(f), r)
  <2>1. Len(f.recs) \in Nat
    BY DEF File
  <2> QED BY <1>1, <2>1, AppendShape
<1>3. ASSUME NEW n \in 1 .. Len(g.recs) + 1 PROVE LongEnough(g.replay[n])
  <2>1. CASE n = Len(f.recs) + 2
    BY <1>2, <2>1
  <2>2. CASE n \in 1 .. Len(f.recs) + 1
    BY <1>2, <2>2 DEF LongEnoughFile
  <2> QED BY <1>2, <2>1, <2>2
<1> QED BY <1>1, <1>3 DEF LongEnoughFile

(* So is every prefix of it. *)
LEMMA PowerCutLong ==
    ASSUME NEW f \in File, Shape(f), NEW w \in BOOLEAN,
           NEW g \in AfterPowerCut(f, w), LongEnoughFile(f)
    PROVE  LongEnoughFile(g)
<1>1. /\ Len(g.recs) \in f.synced .. Len(f.recs)
      /\ \A n \in 1 .. Len(g.recs) + 1 : g.replay[n] = f.replay[n]
  BY PowerCutShape
<1>2. f.synced \in Nat /\ Len(f.recs) \in Nat
  BY DEF File
<1> QED BY <1>1, <1>2 DEF LongEnoughFile

(* The scan of a whole log. *)
LEMMA WholeScan ==
    ASSUME NEW f \in File, Shape(f), LongEnoughFile(f), SoundFile(f)
    PROVE  Replayed(f) \in Scan /\ LongEnough(Replayed(f)) /\ SoundScan(Replayed(f))
<1>1. Len(f.recs) + 1 \in 1 .. Len(f.recs) + 1
  BY DEF File
<1> QED BY <1>1, ReplayedType DEF LongEnoughFile, SoundFile, Replayed

(* The records of a transaction and of a checkpoint. *)
LEMMA RecordsLong ==
    ASSUME TypeInv, AgreementInv, SoundInv, LogsAreLongEnough, NEW p \in Proc
    PROVE  /\ pc[p] = "begin" =>
                 LongEnough(Advance(Replayed(wal), BeginRecord(nextId[p])))
           /\ pc[p] = "write" =>
                 LongEnough(Advance(Replayed(wal), CommitRecord(nextId[p])))
           /\ pc[p] = "write" /\ done[p] < Len(ops[p]) =>
                 LongEnough(Advance(Replayed(wal),
                                    WriteRecord(nextId[p], ops[p][done[p] + 1])))
           /\ pc[p] = "ckpt" =>
                 LongEnough(Advance(Replayed(newWal[p]), BeginRecord(ckptId[p])))
           /\ pc[p] = "chunk" =>
                 LongEnough(Advance(Replayed(newWal[p]), CommitRecord(ckptId[p])))
           /\ \A k \in Key : pc[p] = "chunk" =>
                 LongEnough(Advance(Replayed(newWal[p]), Entry(p, k)))
<1>0. TypeOK /\ Shapes /\ Agreement(p)
  BY DEF TypeInv, AgreementInv
<1>1. PICK s : s = Replayed(wal)
  OBVIOUS
<1>2. PICK t : t = Replayed(newWal[p])
  OBVIOUS
<1>3. /\ s \in Scan /\ LongEnough(s) /\ SoundScan(s)
      /\ t \in Scan /\ LongEnough(t) /\ SoundScan(t)
  BY <1>0, <1>1, <1>2, WholeScan DEF TypeOK, Shapes, SoundInv, LogsAreLongEnough
<1>4. nextId[p] \in TransactionId /\ ckptId[p] \in TransactionId
      /\ done[p] \in Nat /\ ops[p] \in Seq(Operation)
  BY <1>0 DEF TypeOK
<1>5. ASSUME pc[p] = "begin" PROVE LongEnough(Advance(s, BeginRecord(nextId[p])))
  <2>1. \A id \in s.seen : id < nextId[p]
    BY <1>0, <1>1, <1>5 DEF Agreement, InStep
  <2> QED BY <1>3, <1>4, <2>1, BeginLongEnough
<1>6. ASSUME pc[p] = "write"
      PROVE  /\ LongEnough(Advance(s, CommitRecord(nextId[p])))
             /\ done[p] < Len(ops[p]) =>
                   LongEnough(Advance(s, WriteRecord(nextId[p], ops[p][done[p] + 1])))
  <2>1. /\ \A id \in s.seen : id <= nextId[p]
        /\ nextId[p] \in s.pending
        /\ Len(s.writes[nextId[p]]) = done[p] /\ done[p] <= Len(ops[p])
    BY <1>0, <1>1, <1>6 DEF Agreement, HalfWritten
  <2>2. Len(ops[p]) <= MAX_TRANSACTION_OPERATIONS
    BY <1>6 DEF SoundInv, Writing
  <2>3. Len(s.writes[nextId[p]]) <= MAX_TRANSACTION_OPERATIONS
    BY <1>4, <2>1, <2>2, WalConstants, LenProperties
  <2>4. done[p] < Len(ops[p]) => ops[p][done[p] + 1] \in Operation
    BY <1>4
  <2> QED BY <1>3, <2>1, <2>3, <2>4, CommitLongEnough, WriteLongEnough
<1>7. ASSUME pc[p] = "ckpt" PROVE LongEnough(Advance(t, BeginRecord(ckptId[p])))
  <2>1. \A id \in t.seen : id < ckptId[p]
    BY <1>0, <1>2, <1>7 DEF Agreement, Staged
  <2> QED BY <1>3, <1>4, <2>1, BeginLongEnough
<1>8. ASSUME pc[p] = "chunk"
      PROVE  /\ LongEnough(Advance(t, CommitRecord(ckptId[p])))
             /\ \A k \in Key : LongEnough(Advance(t, Entry(p, k)))
  <2>1. /\ \A id \in t.seen : id <= ckptId[p]
        /\ ckptId[p] \in t.pending
        /\ Len(t.writes[ckptId[p]]) = done[p] /\ done[p] <= MAX_TRANSACTION_OPERATIONS
    BY <1>0, <1>2, <1>8 DEF Agreement, StagedInChunk
  <2>2. \A k \in Key : [key |-> k, value |-> data[p][k]] \in Operation
    BY <1>0 DEF TypeOK, Map, Operation
  <2>3. \A k \in Key : LongEnough(Advance(t, Entry(p, k)))
    BY <1>3, <2>1, <2>2, WriteLongEnough DEF Entry
  <2>4. Len(t.writes[ckptId[p]]) <= MAX_TRANSACTION_OPERATIONS
    BY <2>1
  <2>5. LongEnough(Advance(t, CommitRecord(ckptId[p])))
    BY <1>3, <2>1, <2>4, CommitLongEnough
  <2> QED BY <2>3, <2>5
<1> QED BY <1>1, <1>2, <1>5, <1>6, <1>7, <1>8

LEMMA LogsStayLong ==
    ASSUME TypeInv, AgreementInv, SoundInv, LogsAreLongEnough, NEW p \in Proc, Step(p)
    PROVE  /\ LongEnoughFile(wal')
           /\ \A f \in undo' : LongEnoughFile(f)
           /\ \A q \in Proc : LongEnoughFile(newWal'[q])
<1>0. TypeOK /\ Shapes /\ FilesExist /\ IdsHaveSuccessors
  BY DEF TypeInv
<1>r. /\ wal \in File /\ Shape(wal) /\ LongEnoughFile(wal)
      /\ newWal \in [Proc -> File]
      /\ newWal[p] \in File /\ Shape(newWal[p]) /\ LongEnoughFile(newWal[p])
      /\ \A f \in undo : LongEnoughFile(f)
      /\ \A q \in Proc : LongEnoughFile(newWal[q])
  BY <1>0 DEF TypeOK, Shapes, LogsAreLongEnough
<1>1. CASE RejectOpen(p) \/ FailOpen(p) \/ Close(p) \/ Kill(p)
  <2>1. /\ newWal' = [q \in Proc |-> IF q \in {p} THEN NoFile ELSE newWal[q]]
        /\ undo' = undo
    BY <1>1 DEF RejectOpen, FailOpen, Close, Kill, Drop
  <2>2. wal' = wal \/ \E b \in BOOLEAN : wal' = [wal EXCEPT !.torn = b]
    BY <1>1, <1>r DEF RejectOpen, FailOpen, Close, Kill, MidFrame, File
  <2>3. wal'.recs = wal.recs /\ wal'.replay = wal.replay
    BY <1>r, <2>2 DEF File
  <2>4. LongEnoughFile(wal')
    BY <1>r, <2>3, SameRecordsLong
  <2> QED BY <1>r, <2>1, <2>4, NewFileLong
<1>2. CASE \/ \E s \in Schemas \cup {NoSchema} : Open(p, s)
           \/ CheckFormat(p) \/ CreateFormat(p) \/ WriteFormat(p) \/ SyncFormat(p)
           \/ ReadSchema(p) \/ OpenWal(p) \/ SyncNewWal(p) \/ Recover(p)
           \/ CreateSchema(p) \/ WriteSchema(p) \/ SyncSchema(p)
           \/ \E t \in Transactions : StartTransaction(p, t)
           \/ FinishStaging(p)
  <2>1. wal' = wal /\ newWal' = newWal /\ undo' \in {undo, {}}
    BY <1>2 DEF Open, CheckFormat, CreateFormat, WriteFormat, SyncFormat, ReadSchema,
                OpenWal, SyncNewWal, Recover, CreateSchema, WriteSchema, SyncSchema,
                StartTransaction, FinishStaging, SyncDir
  <2> QED BY <1>r, <2>1
<1>3. CASE CreateWal(p)
  <2>1. wal' = CreatedFile /\ newWal' = newWal /\ undo' \in {undo \cup {wal}, {}}
    BY <1>3 DEF CreateWal, Replaced
  <2> QED BY <1>r, <2>1, NewFileLong
<1>4. CASE WriteMagic(p) \/ SyncCommit(p) \/ FailTransaction(p)
  <2>1. newWal' = newWal /\ undo' = undo
    BY <1>4 DEF WriteMagic, SyncCommit, FailTransaction
  <2>2. \E b \in BOOLEAN :
           wal' \in {[wal EXCEPT !.header = b], [wal EXCEPT !.torn = b], SyncAll(wal)}
    BY <1>4 DEF WriteMagic, SyncCommit, FailTransaction
  <2>3. wal'.recs = wal.recs /\ wal'.replay = wal.replay
    <3>1. PICK b \in BOOLEAN :
             wal' \in {[wal EXCEPT !.header = b], [wal EXCEPT !.torn = b], SyncAll(wal)}
      BY <2>2
    <3>2. CASE wal' = [wal EXCEPT !.header = b]
      BY <1>r, <3>2, HeaderShape
    <3>3. CASE wal' = [wal EXCEPT !.torn = b]
      BY <1>r, <3>3, TornShape
    <3>4. CASE wal' = SyncAll(wal)
      BY <1>r, <3>4, SyncShape
    <3> QED BY <3>1, <3>2, <3>3, <3>4
  <2>4. LongEnoughFile(wal')
    BY <1>r, <2>3, SameRecordsLong
  <2> QED BY <1>r, <2>1, <2>4
<1>5. CASE WriteBegin(p) \/ WriteOperation(p) \/ WriteCommit(p)
  <2>1. PICK r \in Record :
           \/ wal' = wal
           \/ wal' = AppendTo(wal, r) /\ LongEnough(Advance(Replayed(wal), r))
    <3>1. CASE WriteBegin(p)
      <4>1. BeginRecord(nextId[p]) \in Record
            /\ LongEnough(Advance(Replayed(wal), BeginRecord(nextId[p])))
        BY <1>0, <3>1, RecordTypes, RecordsLong DEF WriteBegin
      <4> QED BY <3>1, <4>1 DEF WriteBegin, LogRecord
    <3>2. CASE WriteOperation(p)
      <4> DEFINE r == WriteRecord(nextId[p], ops[p][done[p] + 1])
      <4>1. r \in Record /\ LongEnough(Advance(Replayed(wal), r))
        BY <1>0, <3>2, RecordTypes, RecordsLong DEF WriteOperation
      <4> QED BY <3>2, <4>1 DEF WriteOperation, LogRecord
    <3>3. CASE WriteCommit(p)
      <4>1. CommitRecord(nextId[p]) \in Record
            /\ LongEnough(Advance(Replayed(wal), CommitRecord(nextId[p])))
        BY <1>0, <3>3, RecordTypes, RecordsLong DEF WriteCommit
      <4> QED BY <3>3, <4>1 DEF WriteCommit, LogRecord
    <3> QED BY <1>5, <3>1, <3>2, <3>3
  <2>2. wal.exists
    BY <1>0, <1>5 DEF FilesExist, WriteBegin, WriteOperation, WriteCommit,
                      Writing
  <2>3. LongEnoughFile(wal')
    BY <1>r, <2>1, <2>2, AppendLong
  <2>4. newWal' = newWal /\ undo' = undo
    BY <1>5 DEF WriteBegin, WriteOperation, WriteCommit
  <2> QED BY <1>r, <2>3, <2>4
<1>6. CASE StartCheckpoint(p)
  BY <1>r, <1>6, NewFileLong DEF StartCheckpoint
<1>7. CASE WriteStagingMagic(p)
  <2> DEFINE g == [newWal[p] EXCEPT !.header = TRUE]
  <2>1. g.recs = newWal[p].recs /\ g.replay = newWal[p].replay
    BY <1>r, EditShape
  <2>2. LongEnoughFile(g)
    BY <1>r, <2>1, SameRecordsLong
  <2>3. newWal' = [newWal EXCEPT ![p] = g] /\ wal' = wal /\ undo' = undo
    BY <1>0, <1>7 DEF WriteStagingMagic, TypeOK
  <2> HIDE DEF g
  <2> QED BY <1>r, <2>2, <2>3
<1>8. CASE BeginChunk(p) \/ (\E k \in Key : StageEntry(p, k)) \/ CommitChunk(p)
  <2>1. PICK r \in Record :
           /\ newWal' \in {[newWal EXCEPT ![p] = AppendTo(newWal[p], r)],
                           [newWal EXCEPT ![p] = SyncAll(AppendTo(newWal[p], r))]}
           /\ LongEnough(Advance(Replayed(newWal[p]), r))
    <3>1. CASE BeginChunk(p)
      <4>1. BeginRecord(ckptId[p]) \in Record
            /\ LongEnough(Advance(Replayed(newWal[p]), BeginRecord(ckptId[p])))
        BY <1>0, <3>1, RecordTypes, RecordsLong DEF BeginChunk
      <4> QED BY <3>1, <4>1 DEF BeginChunk, StageRecord
    <3>2. ASSUME NEW k \in Key, StageEntry(p, k)
          PROVE  \E r \in Record :
                    /\ newWal' = [newWal EXCEPT ![p] = AppendTo(newWal[p], r)]
                    /\ LongEnough(Advance(Replayed(newWal[p]), r))
      <4>1. Entry(p, k) \in Record /\ LongEnough(Advance(Replayed(newWal[p]), Entry(p, k)))
        BY <1>0, <3>2, RecordTypes, RecordsLong DEF StageEntry
      <4> QED BY <3>2, <4>1 DEF StageEntry, StageRecord
    <3>3. CASE CommitChunk(p)
      <4>1. CommitRecord(ckptId[p]) \in Record
            /\ LongEnough(Advance(Replayed(newWal[p]), CommitRecord(ckptId[p])))
        BY <1>0, <3>3, RecordTypes, RecordsLong DEF CommitChunk
      <4> QED BY <3>3, <4>1 DEF CommitChunk
    <3> QED BY <1>8, <3>1, <3>2, <3>3
  <2>2. newWal[p].exists
    BY <1>0, <1>8 DEF FilesExist, BeginChunk, StageEntry, CommitChunk
  <2> DEFINE g == AppendTo(newWal[p], r)
  <2>3. LongEnoughFile(g)
    BY <1>r, <2>1, <2>2, AppendLong
  <2>4. g \in File /\ Shape(g)
    BY <1>r, <2>2, AppendShape
  <2>5. SyncAll(g).recs = g.recs /\ SyncAll(g).replay = g.replay
    BY <2>4, EditShape
  <2>6. LongEnoughFile(SyncAll(g))
    BY <2>3, <2>5, SameRecordsLong
  <2>7. wal' = wal /\ undo' = undo
    BY <1>8 DEF BeginChunk, StageEntry, CommitChunk
  <2> QED BY <1>r, <2>1, <2>3, <2>6, <2>7
<1>9. CASE FailStaging(p) \/ FailStagingCreate(p) \/ FailPublish(p) \/ FinishCheckpoint(p)
  <2>1. wal' = wal /\ undo' \in {undo, {}} /\ newWal' = [newWal EXCEPT ![p] = NoFile]
    BY <1>9 DEF FailStaging, FailStagingCreate, FailPublish, FinishCheckpoint,
                AbandonCheckpoint, EndCheckpoint, SyncDir
  <2> QED BY <1>r, <2>1, NewFileLong
<1>10. CASE Rename(p)
  <2>1. wal' = newWal[p] /\ newWal' = newWal /\ undo' \in {undo \cup {wal}, {}}
    BY <1>10 DEF Rename, Replaced
  <2> QED BY <1>r, <2>1
<1> QED
  BY <1>1, <1>2, <1>3, <1>4, <1>5, <1>6, <1>7, <1>8, <1>9, <1>10
     DEF Step, OpenStep, TransactionStep, CheckpointStep, CheckpointWork, Fault

LEMMA InitLong == Init => LogsAreLongEnough
BY NewFileLong DEF Init, LogsAreLongEnough

LEMMA LongStep ==
    ASSUME TypeInv, AgreementInv, SoundInv, LogsAreLongEnough, [Next]_vars
    PROVE  LogsAreLongEnough'
<1>1. ASSUME NEW p \in Proc, Step(p) PROVE LogsAreLongEnough'
  BY <1>1, LogsStayLong DEF LogsAreLongEnough
<1>2. CASE PowerCut
  <2>1. PICK before \in undo \cup {wal} :
           wal' \in AfterPowerCut(before, before = wal /\ \E p \in Proc : MidFrame(p))
    BY <1>2 DEF PowerCut
  <2>2. before \in File /\ Shape(before) /\ LongEnoughFile(before)
    BY DEF TypeInv, TypeOK, Shapes, LogsAreLongEnough
  <2>3. LongEnoughFile(wal')
    BY <2>1, <2>2, PowerCutLong
  <2>4. undo' = {} /\ Drop(Proc)
    BY <1>2 DEF PowerCut
  <2>5. newWal' = [p \in Proc |-> NoFile]
    BY <2>4 DEF Drop
  <2> QED BY <2>3, <2>4, <2>5, NewFileLong DEF LogsAreLongEnough
<1>3. CASE UNCHANGED vars
  BY <1>3 DEF vars, LogsAreLongEnough
<1> QED BY <1>1, <1>2, <1>3 DEF Next

-----------------------------------------------------------------------------
(* A checkpoint packs its entries. *)

(* Nothing of the staging log changed but its label. *)
LEMMA SamePacking ==
    ASSUME NEW p \in Proc, NEW c \in Nat, PackedAs(p, c),
           pc[p] \in {"ckptNew", "ckpt", "rename"}, pc'[p] \in {"ckptNew", "ckpt", "rename"},
           data' = data, left' = left, Length(newWal[p])' = Length(newWal[p])
    PROVE  PackedAs(p, c)'
<1>1. Cardinality(StagedKeys(p))' = Cardinality(StagedKeys(p))
      /\ Cardinality(BytesOfEntries(data[p], StagedKeys(p)))'
            = Cardinality(BytesOfEntries(data[p], StagedKeys(p)))
  BY DEF StagedKeys
<1> QED BY <1>1 DEF PackedAs

LEMMA StartPacks ==
    ASSUME TypeInv, NEW p \in Proc, StartCheckpoint(p)
    PROVE  PackedAs(p, 0)'
<1>0. TypeOK
  BY DEF TypeInv
<1>1. /\ pc'[p] = "ckptNew" /\ newWal'[p] = CreatedFile /\ left'[p] = Live(data[p])
      /\ data' = data
  BY <1>0 DEF StartCheckpoint, TypeOK
<1>2. Length(newWal'[p]) = MagicBytes
  BY <1>1, NewFileShape DEF Length, ScanStart
<1>3. StagedKeys(p)' = {}
  BY <1>1 DEF StagedKeys
<1>4. BytesOfEntries(data'[p], {}) = {}
  BY ByteOfEntries
<1>5. Cardinality({}) = 0
  BY FS_EmptySet
<1>6. Cardinality(StagedKeys(p))' = 0
      /\ Cardinality(BytesOfEntries(data[p], StagedKeys(p)))' = 0
  BY <1>3, <1>4, <1>5
<1>7. MagicBytes = 8 /\ MAX_TRANSACTION_OPERATIONS \in Nat
  BY WalConstants DEF MagicBytes
<1> QED BY <1>1, <1>2, <1>6, <1>7 DEF PackedAs

(* A chunk opens, grows by an entry, and closes. *)
LEMMA ChunkPacks ==
    ASSUME TypeInv, AgreementInv, SoundInv, LogsAreLongEnough, NEW p \in Proc,
           NEW c \in Nat, PackedAs(p, c),
           BeginChunk(p) \/ (\E k \in Key : StageEntry(p, k)) \/ CommitChunk(p)
    PROVE  \E d \in Nat : PackedAs(p, d)'
<1>0. TypeOK /\ Shapes /\ FilesExist /\ Agreement(p)
  BY DEF TypeInv, AgreementInv
<1>1. /\ newWal[p] \in File /\ Shape(newWal[p]) /\ Replayed(newWal[p]) \in Scan
      /\ newWal[p].exists
      /\ data[p] \in Map /\ done[p] \in Nat /\ left[p] \in SUBSET Key
      /\ MAX_TRANSACTION_OPERATIONS \in Nat \ {0}
  BY <1>0, ReplayedType, WalConstants
     DEF TypeOK, Shapes, FilesExist, BeginChunk, StageEntry, CommitChunk
<1>2. PICK M : M = MAX_TRANSACTION_OPERATIONS
  OBVIOUS
<1>3. PICK n : n = Cardinality(StagedKeys(p))
  OBVIOUS
<1>4. PICK b : b = Cardinality(BytesOfEntries(data[p], StagedKeys(p)))
  OBVIOUS
<1>5. PICK len : len = Length(newWal[p])
  OBVIOUS
<1>6. /\ IsFiniteSet(StagedKeys(p)) /\ StagedKeys(p) \in SUBSET Key
      /\ IsFiniteSet(BytesOfEntries(data[p], StagedKeys(p)))
  <2>1. /\ IsFiniteSet(Live(data[p])) /\ IsFiniteSet(BytesOfEntries(data[p], Live(data[p])))
    <3>1. data[p] = Replayed(wal).data
      BY <1>0 DEF Agreement, InStep, BeginChunk, StageEntry, CommitChunk
    <3>2. LongEnough(Replayed(wal))
      BY <1>0, WholeScan DEF TypeOK, Shapes, SoundInv, LogsAreLongEnough
    <3> QED BY <3>1, <3>2 DEF LongEnough
  <2>2. StagedKeys(p) \in SUBSET Live(data[p]) /\ StagedKeys(p) \in SUBSET Key
    BY DEF StagedKeys, Live
  <2>3. BytesOfEntries(data[p], StagedKeys(p)) \in SUBSET BytesOfEntries(data[p], Live(data[p]))
    <3>1. ASSUME NEW z \in BytesOfEntries(data[p], StagedKeys(p))
          PROVE  z \in BytesOfEntries(data[p], Live(data[p]))
      <4>1. PICK k \in StagedKeys(p) : z \in {k} \X (1 .. EntryBytes(data[p], k))
        BY ByteOfEntries
      <4>2. k \in Live(data[p])
        BY <2>2
      <4> QED BY <4>1, <4>2, ByteOfEntries
    <3> QED BY <3>1
  <2> QED BY <2>1, <2>2, <2>3, FS_Subset
<1>7. n \in Nat /\ b \in Nat /\ len \in Nat /\ M \in Nat /\ M # 0 /\ MagicBytes = 8
      /\ c * M \in Nat
  BY <1>1, <1>2, <1>3, <1>4, <1>5, <1>6, FS_CardinalityType DEF Length, Scan, MagicBytes
<1>8. CASE BeginChunk(p)
  <2>1. /\ pc[p] = "ckpt" /\ pc'[p] = "chunk" /\ left[p] # {} /\ data' = data /\ left' = left
        /\ done' = done /\ newWal'[p] = AppendTo(newWal[p], BeginRecord(ckptId[p]))
    BY <1>0, <1>8 DEF BeginChunk, StageRecord, TypeOK
  <2>2. done[p] = 0
    BY <1>0, <2>1 DEF Agreement
  <2>3. Length(newWal'[p]) = len + 17
    <3>1. BeginRecord(ckptId[p]) \in Record /\ RecordBytes(BeginRecord(ckptId[p])) = 17
      BY <1>0, RecordTypes DEF RecordBytes, BeginRecord
    <3> QED BY <1>1, <1>5, <2>1, <3>1, AppendLength
  <2>4. n = c * M /\ len = MagicBytes + 34 * c + b
    BY <1>2, <1>3, <1>4, <1>5, <2>1 DEF PackedAs
  <2>5. Cardinality(StagedKeys(p))' = n
        /\ Cardinality(BytesOfEntries(data[p], StagedKeys(p)))' = b
    BY <1>3, <1>4, <2>1 DEF StagedKeys
  <2>6. Length(newWal'[p]) = (MagicBytes + 34 * c + b) + 17 /\ n = c * M + done'[p]
    BY <1>7, <2>1, <2>2, <2>3, <2>4
  <2>7. PackedAs(p, c)'
    BY <1>2, <2>1, <2>5, <2>6 DEF PackedAs
  <2> QED BY <2>7
<1>9. ASSUME NEW k \in Key, StageEntry(p, k) PROVE PackedAs(p, c)'
  <2>1. /\ pc[p] = "chunk" /\ pc'[p] = "chunk" /\ k \in left[p] /\ data' = data
        /\ left'[p] = left[p] \ {k} /\ done'[p] = done[p] + 1
        /\ newWal'[p] = AppendTo(newWal[p], Entry(p, k))
    BY <1>0, <1>9 DEF StageEntry, StageRecord, TypeOK
  <2>2. left[p] \subseteq Live(data[p])
    BY <1>0 DEF Agreement, LeftIsLive
  <2>3. StagedKeys(p)' = StagedKeys(p) \cup {k} /\ k \notin StagedKeys(p)
    BY <2>1, <2>2 DEF StagedKeys
  <2>4. Cardinality(StagedKeys(p))' = n + 1
    BY <1>3, <1>6, <2>3, FS_AddElement
  <2>5. EntryBytes(data[p], k) \in Nat
    BY <1>1, EntryBytesType
  <2>6. Cardinality(BytesOfEntries(data[p], StagedKeys(p)))' = b + EntryBytes(data[p], k)
    <3>1. Cardinality(BytesOfEntries(data[p], StagedKeys(p) \cup {k})) = b + EntryBytes(data[p], k)
      BY <1>1, <1>4, <1>6, <2>3, BytesOfOneMore
    <3> QED BY <2>1, <2>3, <3>1
  <2>7. Length(newWal'[p]) = len + EntryBytes(data[p], k)
    <3>1. Entry(p, k) \in Record /\ RecordBytes(Entry(p, k)) = EntryBytes(data[p], k)
      BY <1>0, RecordTypes DEF RecordBytes, Entry, WriteRecord, EntryBytes
    <3> QED BY <1>1, <1>5, <2>1, <3>1, AppendLength
  <2>8. n = c * M + done[p] /\ len = (MagicBytes + 34 * c + b) + 17
    BY <1>2, <1>3, <1>4, <1>5, <2>1 DEF PackedAs
  <2>9. /\ n + 1 = c * M + done'[p]
        /\ Length(newWal'[p]) = (MagicBytes + 34 * c + (b + EntryBytes(data[p], k))) + 17
        /\ done'[p] # 0
    BY <1>1, <1>7, <2>1, <2>5, <2>7, <2>8
  <2> QED BY <1>2, <2>1, <2>4, <2>6, <2>9 DEF PackedAs
<1>10. CASE CommitChunk(p)
  <2> DEFINE r == CommitRecord(ckptId[p])
             g == AppendTo(newWal[p], r)
  <2>1. /\ pc[p] = "chunk" /\ pc'[p] = "ckpt" /\ ChunkFull(p) /\ data' = data /\ left' = left
        /\ newWal'[p] = SyncAll(g)
    BY <1>0, <1>10 DEF CommitChunk, TypeOK
  <2>2. Length(newWal'[p]) = len + 17
    <3>1. r \in Record /\ RecordBytes(r) = 17
      BY <1>0, RecordTypes DEF RecordBytes, CommitRecord
    <3>2. g \in File /\ Shape(g) /\ Length(g) = len + 17
      BY <1>1, <1>5, <3>1, AppendLength, AppendShape
    <3> HIDE DEF g
    <3>3. Length(SyncAll(g)) = Length(g)
      BY <3>2, SyncShape DEF Length, Replayed
    <3> QED BY <2>1, <3>2, <3>3
  <2>3. /\ n = c * M + done[p] /\ len = (MagicBytes + 34 * c + b) + 17
        /\ done[p] = 0 => left[p] # {}
    BY <1>2, <1>3, <1>4, <1>5, <2>1 DEF PackedAs
  <2>4. Cardinality(StagedKeys(p))' = n
        /\ Cardinality(BytesOfEntries(data[p], StagedKeys(p)))' = b
    BY <1>3, <1>4, <2>1 DEF StagedKeys
  <2>5. done[p] = M \/ left[p] = {}
    BY <1>2, <2>1 DEF ChunkFull
  <2>6. done[p] > 0
    BY <1>1, <1>7, <2>3, <2>5
  <2>7. (c + 1) * M = c * M + M /\ (c + 1) - 1 = c /\ c + 1 \in Nat
    BY <1>7
  <2>8. Length(newWal'[p]) = MagicBytes + 34 * (c + 1) + b
    BY <1>7, <2>2, <2>3
  <2>9. left'[p] # {} => n = (c + 1) * M
    BY <1>7, <2>1, <2>3, <2>5, <2>7
  <2>10. ((c + 1) - 1) * M < n
    BY <1>1, <1>7, <2>3, <2>6, <2>7
  <2>11. PackedAs(p, c + 1)'
    BY <1>2, <2>1, <2>4, <2>8, <2>9, <2>10 DEF PackedAs
  <2> QED BY <2>7, <2>11
<1> QED BY <1>8, <1>9, <1>10

LEMMA PackingStep ==
    ASSUME TypeInv, AgreementInv, SoundInv, SizeInv, [Next]_vars
    PROVE  StagingIsPacked'
<1> DEFINE Staging == {"ckptNew", "ckpt", "chunk", "rename"}
<1>0. TypeOK /\ Shapes /\ LogsAreLongEnough /\ StagingIsPacked
  BY DEF TypeInv, SizeInv
<1>1. ASSUME NEW p \in Proc, Step(p) PROVE StagingIsPacked'
  <2>0. pc[p] \in Staging => \E c \in Nat : PackedAs(p, c)
    BY <1>0 DEF StagingIsPacked
  <2>1. SUFFICES pc'[p] \in Staging => \E c \in Nat : PackedAs(p, c)'
    BY <1>1, OthersAreClosed DEF StagingIsPacked
  <2>2. CASE RejectOpen(p) \/ FailOpen(p) \/ Close(p) \/ Kill(p)
    <3>1. Drop({p})
      BY <2>2 DEF RejectOpen, FailOpen, Close, Kill
    <3>2. pc'[p] = "closed"
      BY <3>1 DEF Drop
    <3> QED BY <3>2
  <2>3. CASE \/ \E s \in Schemas \cup {NoSchema} : Open(p, s)
             \/ OpenStep(p) /\ ~ RejectOpen(p)
    <3>1. pc'[p] \in Opening \cup {"ready"}
      BY <1>0, <2>3
         DEF Open, OpenStep, CheckFormat, CreateFormat, WriteFormat, SyncFormat, ReadSchema,
             OpenWal, CreateWal, WriteMagic, SyncNewWal, Recover, CreateSchema,
             WriteSchema, SyncSchema, TypeOK, Opening
    <3> QED BY <3>1 DEF Opening
  <2>4. CASE (\E t \in Transactions : StartTransaction(p, t)) \/ TransactionStep(p)
             \/ FailTransaction(p)
    <3>1. pc'[p] \in {"ready"} \cup Writing
      BY <1>0, <2>4 DEF StartTransaction, TransactionStep, WriteBegin, WriteOperation,
            WriteCommit, SyncCommit, LogRecord, FailTransaction, Writing, TypeOK
    <3> QED BY <3>1 DEF Writing
  <2>5. CASE FailStaging(p) \/ FailStagingCreate(p) \/ FailPublish(p) \/ FinishCheckpoint(p)
             \/ Rename(p)
    <3>1. pc'[p] \in {"ready", "renamed"}
      BY <1>0, <2>5 DEF FailStaging, AbandonCheckpoint, EndCheckpoint, FailStagingCreate,
            FailPublish, FinishCheckpoint, Rename, TypeOK
    <3> QED BY <3>1
  <2>6. CASE StartCheckpoint(p)
    <3>1. PackedAs(p, 0)'
      BY <2>6, StartPacks
    <3> QED BY <3>1
  <2>7. CASE WriteStagingMagic(p)
    <3>1. /\ pc[p] = "ckptNew" /\ pc'[p] = "ckpt" /\ data' = data /\ left' = left
          /\ newWal'[p] = [newWal[p] EXCEPT !.header = TRUE]
      BY <1>0, <2>7 DEF WriteStagingMagic, TypeOK
    <3>2. newWal[p] \in File /\ Shape(newWal[p])
      BY <1>0 DEF TypeOK, Shapes
    <3>3. newWal'[p].recs = newWal[p].recs /\ newWal'[p].replay = newWal[p].replay
      BY <3>1, <3>2, HeaderShape
    <3>4. Length(newWal[p])' = Length(newWal[p])
      BY <3>3 DEF Length, Replayed
    <3> QED BY <2>0, <3>1, <3>4, SamePacking
  <2>8. CASE BeginChunk(p) \/ (\E k \in Key : StageEntry(p, k)) \/ CommitChunk(p)
    <3>1. pc[p] \in Staging
      BY <2>8 DEF BeginChunk, StageEntry, CommitChunk
    <3> QED BY <1>0, <2>0, <2>8, <3>1, ChunkPacks
  <2>9. CASE FinishStaging(p)
    <3>1. /\ pc[p] = "ckpt" /\ pc'[p] = "rename" /\ data' = data /\ left' = left
          /\ newWal' = newWal
      BY <1>0, <2>9 DEF FinishStaging, TypeOK
    <3>2. Length(newWal[p])' = Length(newWal[p])
      BY <3>1
    <3> QED BY <2>0, <3>1, <3>2, SamePacking
  <2> QED
    BY <1>1, <2>2, <2>3, <2>4, <2>5, <2>6, <2>7, <2>8, <2>9
       DEF Step, OpenStep, CheckpointStep, CheckpointWork, Fault
<1>2. CASE PowerCut
  <2>1. \A p \in Proc : pc'[p] = "closed"
    BY <1>2 DEF PowerCut, Drop
  <2> QED BY <2>1 DEF StagingIsPacked
<1>3. CASE UNCHANGED vars
  <2>1. pc' = pc /\ data' = data /\ left' = left /\ newWal' = newWal /\ done' = done
    BY <1>3 DEF vars
  <2>2. \A p \in Proc, c \in Nat : PackedAs(p, c)' = PackedAs(p, c)
    BY <2>1 DEF PackedAs, StagedKeys
  <2> QED BY <1>0, <2>1, <2>2 DEF StagingIsPacked
<1> QED BY <1>1, <1>2, <1>3 DEF Next

(* More full transactions hold more writes. *)
LEMMA FewerChunks ==
    ASSUME NEW a \in Nat, NEW c \in Nat, NEW M \in Nat, (a - 1) * M < c * M
    PROVE  a <= c
<1>1. SUFFICES ASSUME a > c PROVE FALSE
  OBVIOUS
<1>2. PICK d \in Nat : a - 1 = c + d
  <2>1. a - 1 - c \in Nat /\ a - 1 = c + (a - 1 - c)
    BY <1>1
  <2> QED BY <2>1
<1>3. (c + d) * M = c * M + d * M /\ d * M \in Nat /\ c * M \in Nat
  OBVIOUS
<1> QED BY <1>2, <1>3

LEMMA PackedIsShorter ==
    ASSUME TypeInv, AgreementInv, SoundInv, SizeInv, NEW p \in Proc,
           pc[p] \in {"ckpt", "rename"}
    PROVE  Length(newWal[p]) <= Length(wal)
<1>0. TypeOK /\ Shapes /\ Agreement(p) /\ LogsAreLongEnough /\ StagingIsPacked
  BY DEF TypeInv, AgreementInv, SizeInv
<1>1. PICK s : s = Replayed(wal)
  OBVIOUS
<1>2. s \in Scan /\ LongEnough(s)
  BY <1>0, <1>1, WholeScan DEF TypeOK, Shapes, SoundInv, LogsAreLongEnough
<1>3. data[p] = s.data
  BY <1>0, <1>1 DEF Agreement, InStep
<1>4. PICK c \in Nat : AtLeast(s, c, 0)
  BY <1>2 DEF LongEnough
<1>5. PICK a \in Nat : PackedAs(p, a)
  BY <1>0 DEF StagingIsPacked
<1> DEFINE n == Cardinality(StagedKeys(p))
           live == Cardinality(Live(s.data))
           b == Cardinality(BytesOfEntries(s.data, StagedKeys(p)))
           all == Cardinality(BytesOfEntries(s.data, Live(s.data)))
           M == MAX_TRANSACTION_OPERATIONS
<1>6. IsFiniteSet(Live(s.data)) /\ IsFiniteSet(BytesOfEntries(s.data, Live(s.data)))
  BY <1>2 DEF LongEnough
<1>7. StagedKeys(p) \in SUBSET Live(s.data)
  BY <1>3 DEF StagedKeys
<1>8. BytesOfEntries(s.data, StagedKeys(p)) \in SUBSET BytesOfEntries(s.data, Live(s.data))
  <2>1. ASSUME NEW z \in BytesOfEntries(s.data, StagedKeys(p))
        PROVE  z \in BytesOfEntries(s.data, Live(s.data))
    <3>1. PICK k \in StagedKeys(p) : z \in {k} \X (1 .. EntryBytes(s.data, k))
      BY ByteOfEntries
    <3> QED BY <1>7, <3>1, ByteOfEntries
  <2> QED BY <2>1
<1>9. /\ n \in Nat /\ live \in Nat /\ b \in Nat /\ all \in Nat /\ M \in Nat
      /\ n <= live /\ b <= all
  BY <1>6, <1>7, <1>8, FS_Subset, FS_CardinalityType, WalConstants
<1>10. live <= c * M /\ MagicBytes + 34 * c + all + 0 <= s.cursor
  BY <1>4 DEF AtLeast
<1>11. /\ Length(newWal[p]) = MagicBytes + 34 * a + b
       /\ a = 0 \/ (a - 1) * M < n
  BY <1>3, <1>5 DEF PackedAs
<1>12. Length(wal) = s.cursor /\ s.cursor \in Nat /\ MagicBytes = 8
  BY <1>1, <1>2 DEF Length, Scan, MagicBytes
<1> HIDE DEF n, live, b, all, M
<1>13. a <= c
  <2>1. CASE a = 0
    BY <2>1
  <2>2. CASE a # 0
    <3>1. (a - 1) * M \in Int /\ c * M \in Int
      BY <1>9
    <3>2. (a - 1) * M < c * M
      BY <1>9, <1>10, <1>11, <2>2, <3>1
    <3> QED BY <1>9, <3>2, FewerChunks
  <2> QED BY <2>1, <2>2
<1> QED BY <1>9, <1>10, <1>11, <1>12, <1>13

(* A checkpoint never grows the log, whatever was in it: transactions that
   failed half-way, keys written many times over, deletes.  The staging log
   holds its entries in transactions as full as they can be, and no log can
   hold them in fewer bytes. *)
THEOREM CheckpointsShrink == Spec => []CheckpointNeverGrowsLog
<1> DEFINE I == TypeInv /\ AgreementInv /\ SoundInv
<1>1. Spec => []I
  BY TypeInvariance, AgreementInvariance, SoundInvariance, PTL
<1>2. Init => SizeInv
  <2>1. Init => StagingIsPacked
    BY DEF Init, StagingIsPacked
  <2> QED BY <2>1, InitLong DEF SizeInv
<1>3. I /\ SizeInv /\ [Next]_vars => SizeInv'
  BY LongStep, PackingStep DEF SizeInv
<1>4. I /\ SizeInv => CheckpointNeverGrowsLog
  BY PackedIsShorter DEF CheckpointNeverGrowsLog
<1> QED BY <1>1, <1>2, <1>3, <1>4, PTL DEF Spec
================================================================================
