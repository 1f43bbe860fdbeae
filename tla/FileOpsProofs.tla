--------------------------- MODULE FileOpsProofs ---------------------------
(***************************************************************************)
(* The promises of the commands, for any number of processes, any paths    *)
(* and any jobs: what is published is whole and stays, and nothing that    *)
(* exists is replaced; and of the lines of an export, that an import of    *)
(* them rebuilds the database, and that validation is exact.               *)
(*                                                                         *)
(* The argument: while a command holds the lock of its source, the source  *)
(* is what it was (Locked); so what it builds is a part of that moment     *)
(* (Building), and what it published all of it (Published).                *)
(***************************************************************************)
EXTENDS MCCommands, WellFoundedInduction, SequenceTheorems, TLAPS

Labels ==
    {"idle", "open", "append", "stageBackup", "copyBackup", "publishBackup",
     "syncBackup", "validate", "stage", "copy", "write", "build", "records",
     "manifest", "verify", "publish", "sync", "done", "failed", "dead"}

Lefts == {<< "format", "wal", "schema" >>, << "wal", "schema" >>, << "schema" >>, << >>}

TypeOK ==
    /\ dir \in [Name -> Nodes \cup {Absent}]
    /\ undo \in SUBSET Name
    /\ lock \in [Name -> Proc \cup {Writer, Nobody}]
    /\ pc \in [Proc \cup {Writer} -> Labels]
    /\ job \in [Proc -> Job \cup {NoJob}]
    /\ staging \in [Proc -> Nodes \cup {None}]
    /\ left \in [Proc -> Lefts]
    /\ next \in Nat
    /\ snapshot \in [Proc -> Nodes \cup {None, Absent}]

(* What is in the directory survives a power cut. *)
SyncedInv == \A n \in Name : dir[n] # Absent => dir[n].synced

(* The writer holds locks of its own databases only. *)
WriterInv ==
    /\ pc[Writer] \in {"idle", "open", "append"}
    /\ \A n \in Name : lock[n] = Writer =>
           /\ n \in Written /\ pc[Writer] # "idle" /\ dir[n] # Absent
           /\ pc[Writer] = "open" => dir[n].wal \in Nat
    /\ \A m, n \in Name : lock[m] = Writer /\ lock[n] = Writer => m = n

(* Which command is where. *)
BackingUp == {"stageBackup", "copyBackup", "publishBackup", "syncBackup", "validate"}

JobInv(p) ==
    /\ pc[p] # "append"
    /\ pc[p] # "idle" => job[p] \in Job
    /\ pc[p] \in BackingUp \cup {"manifest"} => job[p].kind = "migrate"
    /\ pc[p] \in {"copy", "verify"} => job[p].kind \in {"copy", "migrate"}
    /\ pc[p] = "write" => job[p].kind = "export"
    /\ pc[p] \in {"build", "records"} => job[p].kind = "import"
    /\ pc[p] = "open" =>
           /\ job[p].kind # "import"
           /\ job[p].kind = "migrate" => dir[job[p].from] # Absent
    /\ pc[p] \notin {"idle", "failed", "dead"} /\ job[p].kind = "migrate" => job[p].to # job[p].backup

(* From the opening on, the source is what it was when it was locked. *)
HasSource(p) ==
    pc[p] \in BackingUp \cup {"stage", "copy", "write", "manifest", "verify", "publish", "sync"}

LockedInv(p) ==
    /\ HasSource(p) /\ job[p].kind # "import" =>
           /\ lock[job[p].from] = p
           /\ dir[job[p].from] = snapshot[p]
    /\ HasSource(p) /\ job[p].kind = "import" /\ pc[p] # "stage" => snapshot[p] \in Nodes
    /\ HasSource(p) /\ job[p].kind # "import" => snapshot[p] \in Nodes
    /\ pc[p] = "records" => snapshot[p] \in Nodes

(* What is built so far is a part of the source. *)
Copied(p) ==
    /\ Len(left[p]) < 3 => staging[p].format = snapshot[p].format
    /\ Len(left[p]) < 2 => staging[p].wal = snapshot[p].wal
    /\ Len(left[p]) < 1 => staging[p].schema = snapshot[p].schema

Whole(p) == staging[p].synced /\ Holds(staging[p], Expected(p))

BuildInv(p) ==
    /\ pc[p] \in {"copyBackup", "publishBackup", "copy", "write", "records", "manifest",
                  "verify", "publish"} =>
           staging[p] \in Nodes /\ staging[p].by = p
    /\ pc[p] \in {"copyBackup", "copy"} => Copied(p)
    /\ pc[p] = "write" => staging[p].synced /\ ~ staging[p].format
    /\ pc[p] = "records" =>
           /\ staging[p].synced /\ staging[p].format /\ staging[p].wal \in Nat
           /\ staging[p].schema = snapshot[p].schema
    /\ pc[p] \in {"publishBackup", "manifest"} =>
           staging[p].synced /\ Contents(staging[p]) = Contents(snapshot[p])
    /\ pc[p] \in {"verify", "publish"} => Whole(p)

(* What is published is the whole source; a migration has its backup first. *)
BuiltBy(n, p) == dir[n] # Absent /\ dir[n].by = p

PublishedInv(p) ==
    \A n \in Name : BuiltBy(n, p) =>
        \/ /\ n = job[p].to /\ pc[p] \in {"sync", "done", "failed", "dead"}
           /\ Holds(dir[n], Expected(p))
        \/ /\ n = job[p].backup /\ job[p].kind = "migrate"
           /\ pc[p] \in {"syncBackup", "validate", "stage", "copy", "manifest", "verify",
                         "publish", "sync", "done", "failed", "dead"}
           /\ Contents(dir[n]) = Contents(snapshot[p])

BackupKept(p) == BuiltBy(job[p].backup, p) /\ job[p].backup \notin undo

KeptInv(p) ==
    /\ pc[p] \in {"sync", "done"} => BuiltBy(job[p].to, p)
    /\ pc[p] = "done" => job[p].to \notin undo
    /\ pc[p] = "syncBackup" => BuiltBy(job[p].backup, p)
    /\ /\ pc[p] \in {"validate", "stage", "copy", "manifest", "verify", "publish"}
       /\ job[p].kind = "migrate"
       => BackupKept(p)
    /\ \A n \in Name :
           BuiltBy(n, p) /\ job[p].kind = "migrate" /\ n = job[p].to => BackupKept(p)

ProcInv(p) ==
    JobInv(p) /\ LockedInv(p) /\ BuildInv(p) /\ PublishedInv(p) /\ KeptInv(p)

IInv == TypeOK /\ SyncedInv /\ WriterInv /\ \A p \in Proc : ProcInv(p)

-----------------------------------------------------------------------------
LEMMA InitInv == Init => IInv
<1> SUFFICES ASSUME Init PROVE IInv
  OBVIOUS
<1>1. TypeOK
  BY FileOpsConstants, FileOpsNames DEF Init, TypeOK, Labels, Lefts
<1>2. SyncedInv /\ WriterInv
  BY FileOpsConstants, FileOpsNames DEF Init, SyncedInv, WriterInv
<1>3. ASSUME NEW p \in Proc PROVE ProcInv(p)
  <2>1. pc[p] = "idle" /\ \A n \in Name : ~ BuiltBy(n, p)
    BY FileOpsConstants, FileOpsNames DEF Init, BuiltBy
  <2>2. JobInv(p) /\ LockedInv(p) /\ BuildInv(p)
    BY <2>1 DEF JobInv, LockedInv, HasSource, BuildInv, BackingUp
  <2>3. PublishedInv(p) /\ KeptInv(p)
    BY <2>1 DEF PublishedInv, KeptInv
  <2> QED BY <2>2, <2>3 DEF ProcInv
<1> QED BY <1>1, <1>2, <1>3 DEF IInv

LEMMA FinishTypes ==
    ASSUME TypeOK, NEW p \in Proc, NEW outcome \in Labels, Finish(p, outcome)
    PROVE  /\ pc' \in [Proc \cup {Writer} -> Labels]
           /\ lock' \in [Name -> Proc \cup {Writer, Nobody}]
           /\ staging' \in [Proc -> Nodes \cup {None}]
           /\ left' \in [Proc -> Lefts]
<1>1. pc' \in [Proc \cup {Writer} -> Labels]
  BY DEF Finish, Goto, TypeOK
<1>2. lock' \in [Name -> Proc \cup {Writer, Nobody}]
  BY DEF Finish, Unlocked, TypeOK
<1>3. staging' \in [Proc -> Nodes \cup {None}]
  BY DEF Finish, TypeOK
<1>4. left' \in [Proc -> Lefts]
  <2>1. << >> \in Lefts
    BY DEF Lefts
  <2> QED BY <2>1 DEF Finish, TypeOK
<1> QED BY <1>1, <1>2, <1>3, <1>4

(* The head and the rest of the files left to copy. *)
LEMMA LeftFiles ==
    ASSUME NEW l \in Lefts, NEW rest, l # << >> => rest = Tail(l)
    PROVE  \/ /\ l = << "format", "wal", "schema" >> /\ Head(l) = "format"
              /\ Len(l) = 3 /\ rest \in Lefts /\ Len(rest) = 2
           \/ /\ l = << "wal", "schema" >> /\ Head(l) = "wal"
              /\ Len(l) = 2 /\ rest \in Lefts /\ Len(rest) = 1
           \/ /\ l = << "schema" >> /\ Head(l) = "schema"
              /\ Len(l) = 1 /\ rest \in Lefts /\ Len(rest) = 0
           \/ l = << >> /\ Len(l) = 0
<1>1. CASE l = << "format", "wal", "schema" >>
  <2>1. Head(l) = "format" /\ Len(l) = 3 /\ rest = << "wal", "schema" >>
    BY <1>1
  <2>2. Len(<< "wal", "schema" >>) = 2
    OBVIOUS
  <2> QED BY <1>1, <2>1, <2>2 DEF Lefts
<1>2. CASE l = << "wal", "schema" >>
  <2>1. Head(l) = "wal" /\ Len(l) = 2 /\ rest = << "schema" >>
    BY <1>2
  <2>2. Len(<< "schema" >>) = 1
    OBVIOUS
  <2> QED BY <1>2, <2>1, <2>2 DEF Lefts
<1>3. CASE l = << "schema" >>
  <2>1. Head(l) = "schema" /\ Len(l) = 1 /\ rest = << >>
    BY <1>3
  <2>2. Len(<< >>) = 0
    OBVIOUS
  <2> QED BY <1>3, <2>1, <2>2 DEF Lefts
<1>4. CASE l = << >>
  BY <1>4
<1> QED BY <1>1, <1>2, <1>3, <1>4 DEF Lefts

LEMMA CopyTypes ==
    ASSUME TypeOK, NEW p \in Proc, ProcInv(p), CopyFile(p)
    PROVE  /\ staging' = [staging EXCEPT ![p] = staging'[p]]
           /\ staging'[p] \in Nodes /\ staging'[p].by = p
           /\ left' = [left EXCEPT ![p] = left'[p]] /\ left'[p] \in Lefts
           /\ Copied(p)'
<1>1. /\ staging[p] \in Nodes /\ staging[p].by = p /\ Copied(p)
      /\ dir[job[p].from] = snapshot[p] /\ snapshot[p] \in Nodes
      /\ left[p] \in Lefts /\ left[p] # << >>
  BY DEF ProcInv, BuildInv, LockedInv, JobInv, HasSource, BackingUp, CopyFile, Copying, TypeOK
<1>2. /\ left' = [left EXCEPT ![p] = Tail(left[p])] /\ left'[p] = Tail(left[p])
      /\ staging' = [staging EXCEPT ![p][Head(left[p])] = snapshot[p][Head(left[p])],
                                    ![p].synced = FALSE]
  BY <1>1 DEF CopyFile, TypeOK
<1>c. left'[p] = Tail(left[p])
  BY <1>2
<1>a. /\ Len(left'[p]) < 3 => staging'[p].format = snapshot[p].format
      /\ Len(left'[p]) < 2 => staging'[p].wal = snapshot[p].wal
      /\ Len(left'[p]) < 1 => staging'[p].schema = snapshot[p].schema
      => Copied(p)'
  BY DEF Copied, CopyFile
<1>b. staging' = [staging EXCEPT ![p] = staging'[p]] /\ left' = [left EXCEPT ![p] = left'[p]]
  BY <1>2 DEF TypeOK
<1>3. CASE /\ Head(left[p]) = "format" /\ Len(left[p]) = 3
           /\ left'[p] \in Lefts /\ Len(left'[p]) = 2
  <2>1. staging'[p] = [staging[p] EXCEPT !.format = snapshot[p].format, !.synced = FALSE]
    BY <1>1, <1>2, <1>3 DEF TypeOK
  <2>2. staging'[p] \in Nodes /\ staging'[p].by = p
    BY <1>1, <2>1 DEF Nodes
  <2>3. staging'[p].format = snapshot[p].format
    BY <1>1, <2>1 DEF Nodes
  <2>4. ~ (Len(left'[p]) < 2) /\ ~ (Len(left'[p]) < 1) /\ left'[p] \in Lefts
    BY <1>3
  <2>5. Copied(p)'
    BY <1>a, <2>3, <2>4, Zenon
  <2> QED BY <1>b, <2>2, <2>4, <2>5
<1>4. CASE /\ Head(left[p]) = "wal" /\ Len(left[p]) = 2
           /\ left'[p] \in Lefts /\ Len(left'[p]) = 1
  <2>1. staging'[p] = [staging[p] EXCEPT !.wal = snapshot[p].wal, !.synced = FALSE]
    BY <1>1, <1>2, <1>4 DEF TypeOK
  <2>2. staging'[p] \in Nodes /\ staging'[p].by = p
    BY <1>1, <2>1 DEF Nodes
  <2>3. staging'[p].wal = snapshot[p].wal /\ staging'[p].format = staging[p].format
    BY <1>1, <2>1 DEF Nodes
  <2>4. staging[p].format = snapshot[p].format
    BY <1>1, <1>4 DEF Copied
  <2>5. ~ (Len(left'[p]) < 1) /\ left'[p] \in Lefts
    BY <1>4
  <2>6. Copied(p)'
    BY <1>a, <2>3, <2>4, <2>5, Zenon
  <2> QED BY <1>b, <2>2, <2>5, <2>6
<1>5. CASE /\ Head(left[p]) = "schema" /\ Len(left[p]) = 1
           /\ left'[p] \in Lefts /\ Len(left'[p]) = 0
  <2>1. staging'[p] = [staging[p] EXCEPT !.schema = snapshot[p].schema, !.synced = FALSE]
    BY <1>1, <1>2, <1>5 DEF TypeOK
  <2>2. staging'[p] \in Nodes /\ staging'[p].by = p
    BY <1>1, <2>1 DEF Nodes
  <2>3. /\ staging'[p].schema = snapshot[p].schema
        /\ staging'[p].format = staging[p].format
        /\ staging'[p].wal = staging[p].wal
    BY <1>1, <2>1 DEF Nodes
  <2>4. staging[p].format = snapshot[p].format /\ staging[p].wal = snapshot[p].wal
    BY <1>1, <1>5 DEF Copied
  <2> QED BY <1>1, <1>2, <1>5, <1>a, <1>b, <2>2, <2>3, <2>4
<1>6. Len(left[p]) # 0
  BY <1>1 DEF Lefts
<1> QED BY <1>1, <1>3, <1>4, <1>5, <1>6, <1>c, LeftFiles

LEMMA NodeTypes ==
    /\ \A p \in Proc : Node(p, FALSE, NoFile, NoFile) \in Nodes
    /\ Node(Nobody, FALSE, NoFile, NoFile) \in Nodes
    /\ \A p \in Proc, n \in Nodes : Node(p, TRUE, 0, n.schema) \in Nodes
BY DEF Node, Nodes

LEMMA TypeStep ==
    ASSUME IInv, Next
    PROVE  TypeOK'
<1>0. TypeOK /\ WriterInv /\ \A p \in Proc : ProcInv(p)
  BY DEF IInv
<1>a. Writer \notin Proc
  BY FileOpsConstants
<1>1. ASSUME NEW p \in Proc, CommandStep(p) PROVE TypeOK'
  <2>0. JobInv(p) /\ LockedInv(p) /\ BuildInv(p)
    BY <1>0 DEF ProcInv
  <2>1. CASE \E j \in Job : Start(p, j)
    BY <2>1, <1>0 DEF Start, Goto, TypeOK, Labels
  <2>2. CASE OpenSource(p)
    <3>1. job[p].from \in Name
      BY <2>2, <2>0, <1>0, FileOpsNames DEF OpenSource, JobInv
    <3>2. pc' \in [Proc \cup {Writer} -> Labels]
      BY <2>2, <1>0 DEF OpenSource, Goto, TypeOK, Labels
    <3>3. lock' \in [Name -> Proc \cup {Writer, Nobody}]
      BY <2>2, <1>0 DEF OpenSource, TypeOK
    <3>4. snapshot' \in [Proc -> Nodes \cup {None, Absent}]
      BY <2>2, <3>1, <1>0 DEF OpenSource, TypeOK
    <3> QED BY <2>2, <3>2, <3>3, <3>4, <1>0 DEF OpenSource, TypeOK
  <2>3. CASE Stage(p)
    <3>1. pc' \in [Proc \cup {Writer} -> Labels]
      <4>1. Building(job[p].kind) \in Labels
        <5>1. job[p].kind \in {"copy", "migrate", "export", "import"}
          BY <2>3, <2>0, FileOpsNames DEF Stage, JobInv
        <5> QED BY <5>1 DEF Building, Labels
      <4> QED BY <2>3, <4>1, <1>0 DEF Stage, Goto, TypeOK, Labels
    <3>2. staging' \in [Proc -> Nodes \cup {None}]
      BY <2>3, <1>0, NodeTypes DEF Stage, TypeOK
    <3>3. left' \in [Proc -> Lefts]
      BY <2>3, <1>0 DEF Stage, TypeOK, Lefts
    <3> QED BY <2>3, <3>1, <3>2, <3>3, <1>0 DEF Stage, TypeOK
  <2>4. CASE CopyFile(p)
    <3>1. /\ staging' = [staging EXCEPT ![p] = staging'[p]] /\ staging'[p] \in Nodes
          /\ left' = [left EXCEPT ![p] = left'[p]] /\ left'[p] \in Lefts
      BY <2>4, <1>0, CopyTypes
    <3> QED BY <2>4, <3>1, <1>0 DEF CopyFile, TypeOK
  <2>5. CASE EndCopy(p)
    <3>1. staging[p] \in Nodes
      BY <2>5, <2>0 DEF EndCopy, Copying, BuildInv
    <3>2. [staging[p] EXCEPT !.synced = TRUE] \in Nodes
      BY <3>1 DEF Nodes
    <3>3. staging' = [staging EXCEPT ![p] = [staging[p] EXCEPT !.synced = TRUE]]
      BY <2>5, <1>0 DEF EndCopy, TypeOK
    <3>4. staging' \in [Proc -> Nodes \cup {None}]
      BY <3>2, <3>3, <1>0 DEF TypeOK
    <3>5. AfterCopy(p) \in Labels
      BY DEF AfterCopy, Labels
    <3> QED BY <2>5, <3>4, <3>5, <1>0 DEF EndCopy, Goto, TypeOK
  <2>6. CASE WriteManifest(p)
    <3>1. staging[p] \in Nodes
      BY <2>6, <2>0 DEF WriteManifest, BuildInv
    <3>2. [staging[p] EXCEPT !.format = TRUE] \in Nodes
      BY <3>1 DEF Nodes
    <3>3. staging' = [staging EXCEPT ![p] = [staging[p] EXCEPT !.format = TRUE]]
      BY <2>6, <1>0 DEF WriteManifest, TypeOK
    <3>4. staging' \in [Proc -> Nodes \cup {None}]
      BY <3>2, <3>3, <1>0 DEF TypeOK
    <3> QED BY <2>6, <3>4, <1>0 DEF WriteManifest, Goto, TypeOK, Labels
  <2>7. CASE Export(p)
    <3>1. staging[p] \in Nodes /\ snapshot[p] \in Nodes
      BY <2>7, <2>0 DEF Export, BuildInv, LockedInv, HasSource, JobInv
    <3>2. [staging[p] EXCEPT !.wal = snapshot[p].wal, !.schema = snapshot[p].schema] \in Nodes
      BY <3>1 DEF Nodes
    <3>3. staging' = [staging EXCEPT ![p] =
             [staging[p] EXCEPT !.wal = snapshot[p].wal, !.schema = snapshot[p].schema]]
      BY <2>7, <1>0 DEF Export, TypeOK
    <3>4. staging' \in [Proc -> Nodes \cup {None}]
      BY <3>2, <3>3, <1>0 DEF TypeOK
    <3> QED BY <2>7, <3>4, <1>0 DEF Export, Goto, TypeOK, Labels
  <2>8. CASE ImportSchema(p)
    <3>1. job[p].from \in Name
      BY <2>8, <2>0, FileOpsNames DEF ImportSchema, JobInv
    <3>2. /\ staging' \in [Proc -> Nodes \cup {None}]
          /\ snapshot' \in [Proc -> Nodes \cup {None, Absent}]
      <4>1. CASE dir[job[p].from] = Absent
        BY <2>8, <4>1, <1>0 DEF ImportSchema, TypeOK
      <4>2. CASE dir[job[p].from] # Absent
        <5>1. dir[job[p].from] \in Nodes
          BY <3>1, <4>2, <1>0 DEF TypeOK
        <5>2. Node(p, TRUE, 0, dir[job[p].from].schema) \in Nodes
          BY <5>1, NodeTypes
        <5> QED BY <2>8, <4>2, <5>1, <5>2, <1>0 DEF ImportSchema, TypeOK
      <4> QED BY <4>1, <4>2
    <3> QED BY <2>8, <3>2, <1>0 DEF ImportSchema, Goto, TypeOK, Labels
  <2>9. CASE ImportRecords(p)
    <3>1. staging[p] \in Nodes /\ staging[p].wal \in Nat
      BY <2>9, <2>0 DEF ImportRecords, BuildInv
    <3>2. [staging[p] EXCEPT !.wal = staging[p].wal + 1] \in Nodes
      BY <3>1 DEF Nodes
    <3>3. \/ staging' = staging
          \/ staging' = [staging EXCEPT ![p] = [staging[p] EXCEPT !.wal = staging[p].wal + 1]]
      BY <2>9, <1>0 DEF ImportRecords, TypeOK
    <3>4. staging' \in [Proc -> Nodes \cup {None}]
      BY <3>2, <3>3, <1>0 DEF TypeOK
    <3> QED BY <2>9, <3>4, <1>0 DEF ImportRecords, Goto, TypeOK, Labels
  <2>10. CASE Verify(p) \/ Validate(p) \/ Fail(p) \/ Kill(p)
    <3>1. {"failed", "dead", "publish", "stage"} \subseteq Labels
      BY DEF Labels
    <3>2. \/ \E o \in Labels : Finish(p, o)
          \/ \E o \in Labels : Goto(p, o) /\ UNCHANGED << lock, staging, left >>
      BY <2>10, <3>1 DEF Verify, Validate, Fail, Kill, FinishOnly
    <3>3. /\ pc' \in [Proc \cup {Writer} -> Labels]
          /\ lock' \in [Name -> Proc \cup {Writer, Nobody}]
          /\ staging' \in [Proc -> Nodes \cup {None}]
          /\ left' \in [Proc -> Lefts]
      BY <3>2, <1>0, FinishTypes DEF Goto, TypeOK
    <3>4. UNCHANGED << dir, undo, job, next, snapshot >>
      BY <2>10 DEF Verify, Validate, Fail, Kill, FinishOnly
    <3> QED BY <3>3, <3>4, <1>0 DEF TypeOK
  <2>11. CASE Publish(p)
    <3>1. Target(p) \in Name /\ staging[p] \in Nodes
      BY <2>11, <2>0, FileOpsNames DEF Publish, Target, BuildInv, JobInv
    <3>2. CASE Finish(p, "failed") /\ UNCHANGED << dir, undo >>
      BY <2>11, <3>2, <1>0, FinishTypes DEF Publish, TypeOK, Labels
    <3>3. CASE /\ dir' = [dir EXCEPT ![Target(p)] = staging[p]]
               /\ undo' = undo \cup {Target(p)}
               /\ staging' = [staging EXCEPT ![p] = None]
               /\ Goto(p, IF pc[p] = "publish" THEN "sync" ELSE "syncBackup")
               /\ UNCHANGED << lock, left >>
      BY <2>11, <3>1, <3>3, <1>0 DEF Publish, Goto, TypeOK, Labels
    <3> QED BY <2>11, <3>2, <3>3 DEF Publish
  <2>12. CASE SyncParent(p)
    <3>1. CASE Finish(p, "done")
      BY <2>12, <3>1, <1>0, FinishTypes DEF SyncParent, AtRiskOnceSynced, TypeOK, Labels
    <3>2. CASE Goto(p, "validate") /\ UNCHANGED << lock, staging, left >>
      BY <2>12, <3>2, <1>0 DEF SyncParent, AtRiskOnceSynced, Goto, TypeOK, Labels
    <3> QED BY <2>12, <3>1, <3>2 DEF SyncParent
  <2> QED
    BY <1>1, <2>1, <2>2, <2>3, <2>4, <2>5, <2>6, <2>7, <2>8, <2>9, <2>10, <2>11, <2>12
       DEF CommandStep
<1>2. CASE OtherStep
  <2>1. ASSUME NEW n \in Name, WriterOpens(n) PROVE TypeOK'
    BY <2>1, <1>0 DEF WriterOpens, Goto, TypeOK, Labels
  <2>2. ASSUME NEW n \in Name, WriterSetsSchema(n) PROVE TypeOK'
    <3>1. dir[n] \in Nodes
      BY <2>2, <1>0 DEF WriterSetsSchema, WriterInv, TypeOK
    <3>2. [dir[n] EXCEPT !.schema = "schema"] \in Nodes
      BY <3>1 DEF Nodes
    <3>3. dir' = [dir EXCEPT ![n] = [dir[n] EXCEPT !.schema = "schema"]]
      BY <2>2, <1>0 DEF WriterSetsSchema, TypeOK
    <3> QED BY <2>2, <3>2, <3>3, <1>0 DEF WriterSetsSchema, TypeOK
  <2>3. ASSUME NEW n \in Name, WriterAppends(n) PROVE TypeOK'
    <3>1. dir[n] \in Nodes /\ dir[n].wal \in Nat
      BY <2>3, <1>0 DEF WriterAppends, WriterInv, TypeOK
    <3>2. [dir[n] EXCEPT !.wal = Torn] \in Nodes
      BY <3>1 DEF Nodes
    <3>3. dir' = [dir EXCEPT ![n] = [dir[n] EXCEPT !.wal = Torn]]
      BY <2>3, <1>0 DEF WriterAppends, TypeOK
    <3> QED BY <2>3, <3>1, <3>2, <3>3, <1>0 DEF WriterAppends, Goto, TypeOK, Labels
  <2>4. ASSUME NEW n \in Name, WriterCommits(n) PROVE TypeOK'
    <3>1. dir[n] \in Nodes /\ next \in Nat
      BY <2>4, <1>0 DEF WriterCommits, WriterInv, TypeOK
    <3>2. [dir[n] EXCEPT !.wal = next] \in Nodes
      BY <3>1 DEF Nodes
    <3>3. dir' = [dir EXCEPT ![n] = [dir[n] EXCEPT !.wal = next]]
      BY <2>4, <1>0 DEF WriterCommits, TypeOK
    <3> QED BY <2>4, <3>2, <3>3, <1>0 DEF WriterCommits, Goto, TypeOK, Labels
  <2>5. ASSUME NEW n \in Name, Stranger(n) PROVE TypeOK'
    BY <2>5, <1>0, NodeTypes DEF Stranger, TypeOK
  <2>6. CASE WriterCloses
    BY <2>6, <1>0 DEF WriterCloses, Goto, Unlocked, TypeOK, Labels
  <2> QED BY <1>2, <2>1, <2>2, <2>3, <2>4, <2>5, <2>6 DEF OtherStep
<1>3. CASE PowerCut
  <2>1. PICK lost \in SUBSET undo :
           dir' = [n \in Name |->
                    IF n \in lost THEN Absent
                    ELSE IF dir[n] # Absent /\ ~ dir[n].synced
                         THEN [dir[n] EXCEPT !.wal = Torn] ELSE dir[n]]
    BY <1>3 DEF PowerCut
  <2>2. ASSUME NEW n \in Name, dir[n] # Absent PROVE [dir[n] EXCEPT !.wal = Torn] \in Nodes
    BY <2>2, <1>0 DEF TypeOK, Nodes
  <2>3. dir' \in [Name -> Nodes \cup {Absent}]
    BY <2>1, <2>2, <1>0 DEF TypeOK
  <2>4. << >> \in Lefts
    BY DEF Lefts
  <2>5. pc' \in [Proc \cup {Writer} -> Labels]
    BY <1>3, <1>0 DEF PowerCut, TypeOK, Labels
  <2> QED BY <1>3, <2>3, <2>4, <2>5, <1>0 DEF PowerCut, TypeOK
<1> QED BY <1>1, <1>2, <1>3 DEF Next

-----------------------------------------------------------------------------
(* What is in the directory stays there, and changes under the writer's lock
   only: every step but a power cut. *)
NameStays(n) ==
    /\ dir'[n] # Absent /\ dir'[n].by = dir[n].by /\ dir'[n].synced = dir[n].synced
    /\ lock[n] # Writer => dir'[n] = dir[n]

DirectoryStays ==
    /\ \A n \in Name : dir[n] # Absent => NameStays(n)
    /\ \A n \in undo' : n \in undo \/ dir[n] = Absent

LEMMA DirectoryStep ==
    ASSUME IInv, (\E p \in Proc : CommandStep(p)) \/ OtherStep
    PROVE  DirectoryStays
<1>0. TypeOK /\ WriterInv /\ (\A p \in Proc : ProcInv(p)) /\ Absent \notin Nodes
  BY FileOpsNames DEF IInv
<1>1. ASSUME UNCHANGED dir, undo' \subseteq undo PROVE DirectoryStays
  BY <1>1 DEF DirectoryStays, NameStays
<1>2. ASSUME NEW p \in Proc, CommandStep(p) PROVE DirectoryStays
  <2>1. CASE Publish(p)
    <3>1. Target(p) \in Name
      BY <2>1, <1>0, FileOpsNames DEF Publish, Target, JobInv, ProcInv
    <3>2. \/ UNCHANGED << dir, undo >>
          \/ /\ dir[Target(p)] = Absent
             /\ dir' = [dir EXCEPT ![Target(p)] = staging[p]]
             /\ undo' = undo \cup {Target(p)}
      BY <2>1 DEF Publish, Taken
    <3> QED BY <1>0, <3>1, <3>2 DEF DirectoryStays, NameStays, TypeOK
  <2>2. CASE SyncParent(p)
    BY <2>2, <1>1 DEF SyncParent, AtRiskOnceSynced
  <2>3. CASE ~ Publish(p) /\ ~ SyncParent(p)
    <3>1. UNCHANGED << dir, undo >>
      BY <1>2, <2>3
         DEF CommandStep, Start, OpenSource, Stage, CopyFile, EndCopy, WriteManifest, Verify,
             Export, ImportSchema, ImportRecords, Validate, Fail, Kill, FinishOnly
    <3> QED BY <3>1, <1>1
  <2> QED BY <2>1, <2>2, <2>3
<1>3. CASE OtherStep
  <2>1. ASSUME NEW n \in Name, WriterOpens(n) PROVE DirectoryStays
    BY <2>1, <1>1 DEF WriterOpens
  <2>2. ASSUME NEW n \in Name, NEW d, d.by = dir[n].by, d.synced = dir[n].synced,
               d # Absent, lock[n] = Writer, dir' = [dir EXCEPT ![n] = d], undo' = undo
        PROVE  DirectoryStays
    BY <2>2, <1>0 DEF DirectoryStays, NameStays, TypeOK
  <2>3. ASSUME NEW n \in Name, lock[n] = Writer, NEW v,
               \/ dir' = [dir EXCEPT ![n].wal = v] /\ v \in Nat \cup {Torn}
               \/ dir' = [dir EXCEPT ![n].schema = v] /\ v = "schema",
               undo' = undo
        PROVE  DirectoryStays
    <3>1. dir[n] \in Nodes
      BY <2>3, <1>0 DEF WriterInv, TypeOK
    <3>2. /\ [dir[n] EXCEPT !.wal = v].by = dir[n].by
          /\ [dir[n] EXCEPT !.wal = v].synced = dir[n].synced
          /\ [dir[n] EXCEPT !.schema = v].by = dir[n].by
          /\ [dir[n] EXCEPT !.schema = v].synced = dir[n].synced
      BY <3>1 DEF Nodes
    <3>3. CASE dir' = [dir EXCEPT ![n].wal = v] /\ v \in Nat \cup {Torn}
      <4>1. [dir[n] EXCEPT !.wal = v] \in Nodes
        BY <3>1, <3>3 DEF Nodes
      <4>2. dir' = [dir EXCEPT ![n] = [dir[n] EXCEPT !.wal = v]]
        BY <3>3, <1>0 DEF TypeOK
      <4> QED BY <2>2, <2>3, <3>2, <4>1, <4>2, <1>0
    <3>4. CASE dir' = [dir EXCEPT ![n].schema = v] /\ v = "schema"
      <4>1. [dir[n] EXCEPT !.schema = v] \in Nodes
        BY <3>1, <3>4 DEF Nodes
      <4>2. dir' = [dir EXCEPT ![n] = [dir[n] EXCEPT !.schema = v]]
        BY <3>4, <1>0 DEF TypeOK
      <4> QED BY <2>2, <2>3, <3>2, <4>1, <4>2, <1>0
    <3> QED BY <2>3, <3>3, <3>4
  <2>4. ASSUME NEW n \in Name, WriterSetsSchema(n) \/ WriterAppends(n) \/ WriterCommits(n)
        PROVE  DirectoryStays
    <3>1. next \in Nat
      BY <1>0 DEF TypeOK
    <3> QED BY <2>3, <2>4, <3>1 DEF WriterSetsSchema, WriterAppends, WriterCommits
  <2>5. ASSUME NEW n \in Name, Stranger(n) PROVE DirectoryStays
    BY <2>5, <1>0 DEF Stranger, DirectoryStays, NameStays, TypeOK
  <2>6. CASE WriterCloses
    BY <2>6, <1>1 DEF WriterCloses
  <2> QED BY <1>3, <2>1, <2>4, <2>5, <2>6 DEF OtherStep
<1> QED BY <1>2, <1>3

(* A command changes no entry that exists, and no lock but its own. *)
LEMMA CommandTouches ==
    ASSUME IInv, NEW p \in Proc, CommandStep(p)
    PROVE  /\ \A n \in Name : dir[n] # Absent => dir'[n] = dir[n]
           /\ \A n \in Name : dir[n] = Absent /\ dir'[n] # Absent =>
                  dir'[n] = staging[p] /\ staging[p].by = p /\ staging[p].synced
           /\ \A n \in Name : lock[n] \notin {p, Nobody} => lock'[n] = lock[n]
           /\ \A n \in Name : lock'[n] # lock[n] => lock'[n] \in {p, Nobody}
           /\ \A q \in (Proc \cup {Writer}) \ {p} : pc'[q] = pc[q]
           /\ \A q \in Proc \ {p} :
                  /\ job'[q] = job[q] /\ staging'[q] = staging[q]
                  /\ left'[q] = left[q] /\ snapshot'[q] = snapshot[q]
<1>0. TypeOK /\ JobInv(p) /\ BuildInv(p)
  BY DEF IInv, ProcInv
<1>1. /\ \A n \in Name : dir[n] # Absent => dir'[n] = dir[n]
      /\ \A n \in Name : dir[n] = Absent /\ dir'[n] # Absent =>
             dir'[n] = staging[p] /\ staging[p].by = p /\ staging[p].synced
  <2>1. CASE Publish(p)
    <3>1. Target(p) \in Name
      BY <2>1, <1>0, FileOpsNames DEF Publish, Target, JobInv
    <3>2. \/ UNCHANGED << dir, undo >>
          \/ /\ dir[Target(p)] = Absent
             /\ dir' = [dir EXCEPT ![Target(p)] = staging[p]]
      BY <2>1 DEF Publish, Taken
    <3>3. staging[p].by = p /\ staging[p].synced
      BY <2>1, <1>0 DEF Publish, BuildInv, Whole
    <3> QED BY <1>0, <3>1, <3>2, <3>3 DEF TypeOK
  <2>2. CASE ~ Publish(p)
    BY <2>2
       DEF CommandStep, Start, OpenSource, Stage, CopyFile, EndCopy, WriteManifest, Verify,
           Export, ImportSchema, ImportRecords, Validate, Fail, Kill, FinishOnly, SyncParent
  <2> QED BY <2>1, <2>2
<1>2. /\ \A n \in Name : lock[n] \notin {p, Nobody} => lock'[n] = lock[n]
      /\ \A n \in Name : lock'[n] # lock[n] => lock'[n] \in {p, Nobody}
  <2>1. CASE OpenSource(p)
    BY <2>1, <1>0 DEF OpenSource, TypeOK
  <2>2. CASE ~ OpenSource(p)
    <3>1. lock' = lock \/ lock' = Unlocked(p)
      BY <2>2
         DEF CommandStep, Start, Stage, CopyFile, EndCopy, WriteManifest, Verify, Finish,
             Export, ImportSchema, ImportRecords, Validate, Fail, Kill, FinishOnly, Publish,
             SyncParent
    <3> QED BY <3>1, <1>0 DEF Unlocked, TypeOK
  <2> QED BY <2>1, <2>2
<1>3. \A q \in (Proc \cup {Writer}) \ {p} : pc'[q] = pc[q]
  <2>1. \/ pc' = pc
        \/ \E label : pc' = [pc EXCEPT ![p] = label]
    BY DEF CommandStep, Start, OpenSource, Stage, CopyFile, EndCopy, WriteManifest, Verify, Finish,
           Export, ImportSchema, ImportRecords, Validate, Fail, Kill, FinishOnly, Publish,
           SyncParent, Goto
  <2> QED BY <2>1, <1>0 DEF TypeOK
<1>4. \A q \in Proc \ {p} :
          /\ job'[q] = job[q] /\ staging'[q] = staging[q]
          /\ left'[q] = left[q] /\ snapshot'[q] = snapshot[q]
  <2>1. CASE CopyFile(p)
    <3>1. /\ staging' = [staging EXCEPT ![p] = staging'[p]]
          /\ left' = [left EXCEPT ![p] = left'[p]]
      BY <2>1, CopyTypes DEF IInv
    <3> QED BY <2>1, <3>1, <1>0 DEF CopyFile, TypeOK
  <2>2. CASE EndCopy(p) \/ WriteManifest(p) \/ Export(p) \/ ImportRecords(p)
    BY <2>2, <1>0 DEF EndCopy, WriteManifest, Export, ImportRecords, TypeOK
  <2>3. CASE ~ CopyFile(p) /\ ~ EndCopy(p) /\ ~ WriteManifest(p) /\ ~ Export(p)
             /\ ~ ImportRecords(p)
    BY <2>3, <1>0
       DEF CommandStep, Start, OpenSource, Stage, Verify, Finish, ImportSchema, Validate, Fail,
           Kill, FinishOnly, Publish, SyncParent, TypeOK
  <2> QED BY <2>1, <2>2, <2>3
<1> QED BY <1>1, <1>2, <1>3, <1>4

(* The others change neither a command nor its locks. *)
LEMMA OthersTouch ==
    ASSUME IInv, OtherStep
    PROVE  /\ \A n \in Name : dir[n] = Absent /\ dir'[n] # Absent =>
                  dir'[n].by = Nobody /\ dir'[n].synced
           /\ \A n \in Name : lock[n] \in Proc => lock'[n] = lock[n]
           /\ \A q \in Proc :
                  /\ pc'[q] = pc[q] /\ job'[q] = job[q] /\ staging'[q] = staging[q]
                  /\ left'[q] = left[q] /\ snapshot'[q] = snapshot[q]
<1>0. TypeOK /\ WriterInv /\ Writer \notin Proc /\ Nobody \notin Proc
  BY FileOpsConstants DEF IInv
<1>1. \A n \in Name : dir[n] = Absent /\ dir'[n] # Absent => dir'[n].by = Nobody /\ dir'[n].synced
  BY <1>0
     DEF OtherStep, WriterOpens, WriterSetsSchema, WriterAppends, WriterCommits, WriterCloses,
         Stranger, Node, WriterInv, TypeOK
<1>2. \A n \in Name : lock[n] \in Proc => lock'[n] = lock[n]
  BY <1>0
     DEF OtherStep, WriterOpens, WriterSetsSchema, WriterAppends, WriterCommits, WriterCloses,
         Stranger, Unlocked, TypeOK
<1>3. \A q \in Proc : pc'[q] = pc[q]
  BY <1>0
     DEF OtherStep, WriterOpens, WriterSetsSchema, WriterAppends, WriterCommits, WriterCloses,
         Stranger, Goto, TypeOK
<1>4. job' = job /\ staging' = staging /\ left' = left /\ snapshot' = snapshot
  BY DEF OtherStep, WriterOpens, WriterSetsSchema, WriterAppends, WriterCommits, WriterCloses,
         Stranger
<1> QED BY <1>1, <1>2, <1>3, <1>4

(* A command that does not move keeps its invariant. *)
Rests(q) ==
    /\ pc'[q] = pc[q] /\ job'[q] = job[q] /\ staging'[q] = staging[q]
    /\ left'[q] = left[q] /\ snapshot'[q] = snapshot[q]

LEMMA RestingKeeps ==
    ASSUME IInv, DirectoryStays, NEW q \in Proc, Rests(q),
           \A n \in Name : lock[n] = q => lock'[n] = q,
           \A n \in Name : dir[n] = Absent /\ dir'[n] # Absent => dir'[n].by # q
    PROVE  ProcInv(q)'
<1>0. /\ JobInv(q) /\ LockedInv(q) /\ BuildInv(q) /\ PublishedInv(q) /\ KeptInv(q)
      /\ WriterInv /\ Writer # q /\ TypeOK
  BY FileOpsConstants DEF IInv, ProcInv
<1>1. pc[q] # "idle" => job[q] \in Job /\ job[q].from \in Name /\ job[q].to \in Name
                        /\ job[q].backup \in Name
                        /\ job[q].to \notin Written /\ job[q].backup \notin Written
  BY <1>0, FileOpsNames DEF JobInv
<1>2. ASSUME NEW n \in Name
      PROVE  /\ BuiltBy(n, q)' <=> BuiltBy(n, q)
             /\ BuiltBy(n, q) => dir'[n] = dir[n]
  <2>1. BuiltBy(n, q) => lock[n] # Writer
    BY <1>0, <1>1 DEF PublishedInv, BuiltBy, WriterInv
  <2> QED BY <2>1 DEF BuiltBy, DirectoryStays, NameStays
<1>3. ASSUME NEW n \in Name, BuiltBy(n, q), n \notin undo PROVE n \notin undo'
  BY <1>3 DEF BuiltBy, DirectoryStays
<1>4. JobInv(q)'
  BY <1>0, <1>1 DEF JobInv, Rests, DirectoryStays, NameStays
<1>5. LockedInv(q)'
  <2>1. CASE HasSource(q) /\ job[q].kind # "import"
    <3>1. /\ job[q].from \in Name /\ lock[job[q].from] = q
          /\ dir[job[q].from] = snapshot[q] /\ snapshot[q] \in Nodes
      BY <1>0, <1>1, <2>1 DEF LockedInv, HasSource, BackingUp
    <3>2. dir'[job[q].from] = dir[job[q].from] /\ lock'[job[q].from] = q
      BY <1>0, <3>1, FileOpsNames DEF DirectoryStays, NameStays
    <3> QED BY <3>1, <3>2, <2>1 DEF LockedInv, HasSource, Rests
  <2>2. CASE ~ (HasSource(q) /\ job[q].kind # "import")
    BY <1>0, <2>2 DEF LockedInv, HasSource, Rests
  <2> QED BY <2>1, <2>2
<1>6. BuildInv(q)'
  BY <1>0 DEF BuildInv, Rests, Copied, Whole, Holds, Contents, Expected
<1>7. PublishedInv(q)'
  <2> SUFFICES ASSUME NEW n \in Name, BuiltBy(n, q)'
               PROVE  PublishedInv(q)!(n)!2'
    BY DEF PublishedInv
  <2>1. BuiltBy(n, q) /\ dir'[n] = dir[n]
    BY <1>2
  <2> QED BY <1>0, <2>1 DEF PublishedInv, Rests, Holds, Contents, Expected
<1>8. KeptInv(q)'
  <2>1. ASSUME job[q].backup \in Name, BackupKept(q) PROVE BackupKept(q)'
    BY <1>2, <1>3, <2>1 DEF BackupKept, Rests
  <2>2. pc[q] \in {"sync", "done"} => BuiltBy(job[q].to, q)'
    BY <1>0, <1>1, <1>2 DEF KeptInv, Rests
  <2>3. pc[q] = "done" => job[q].to \notin undo'
    BY <1>0, <1>1, <1>3 DEF KeptInv
  <2>4. pc[q] = "syncBackup" => BuiltBy(job[q].backup, q)'
    BY <1>0, <1>1, <1>2 DEF KeptInv, Rests
  <2>5. /\ pc[q] \in {"validate", "stage", "copy", "manifest", "verify", "publish"}
        /\ job[q].kind = "migrate"
        => BackupKept(q)'
    BY <1>0, <1>1, <2>1 DEF KeptInv
  <2>6. ASSUME NEW n \in Name, BuiltBy(n, q)', job[q].kind = "migrate", n = job[q].to
        PROVE  BackupKept(q)'
    <3>1. BuiltBy(n, q) /\ pc[q] # "idle"
      BY <1>0, <1>2, <2>6 DEF PublishedInv
    <3> QED BY <1>0, <1>1, <2>1, <2>6, <3>1 DEF KeptInv
  <2> QED BY <2>2, <2>3, <2>4, <2>5, <2>6 DEF KeptInv, Rests, BuiltBy
<1> QED BY <1>4, <1>5, <1>6, <1>7, <1>8 DEF ProcInv

LEMMA DirectoryAndWriter ==
    ASSUME IInv, (\E p \in Proc : CommandStep(p)) \/ OtherStep
    PROVE  SyncedInv' /\ WriterInv'
<1>0. DirectoryStays /\ SyncedInv /\ WriterInv /\ TypeOK
      /\ Writer \notin Proc /\ Writer # Nobody
  BY DirectoryStep, FileOpsConstants DEF IInv
<1>1. ASSUME NEW p \in Proc, CommandStep(p) PROVE SyncedInv' /\ WriterInv'
  <2>1. SyncedInv'
    BY <1>0, <1>1, CommandTouches DEF SyncedInv
  <2>2. pc'[Writer] = pc[Writer]
    BY <1>0, <1>1, CommandTouches
  <2>3. ASSUME NEW n \in Name, lock'[n] = Writer
        PROVE  lock[n] = Writer /\ dir'[n] = dir[n] /\ dir[n] # Absent
    BY <1>0, <1>1, <2>3, CommandTouches DEF WriterInv
  <2>4. WriterInv'
    BY <1>0, <2>2, <2>3 DEF WriterInv
  <2> QED BY <2>1, <2>4
<1>2. CASE OtherStep
  <2>1. SyncedInv'
    BY <1>0, <1>2, OthersTouch DEF SyncedInv, DirectoryStays, NameStays
  <2>2. ASSUME NEW n \in Name, WriterOpens(n) PROVE WriterInv'
    <3>1. dir[n] # Absent /\ dir[n].wal \in Nat /\ n \in Written
      BY <1>0, <2>2 DEF WriterOpens, IsDatabase, TypeOK, Nodes
    <3> QED BY <1>0, <2>2, <3>1 DEF WriterOpens, WriterInv, Goto, TypeOK
  <2>3. ASSUME NEW n \in Name, WriterSetsSchema(n) PROVE WriterInv'
    <3>1. dir[n] \in Nodes
      BY <1>0, <2>3 DEF WriterSetsSchema, WriterInv, TypeOK
    <3>2. [dir[n] EXCEPT !.schema = "schema"].wal = dir[n].wal
      BY <3>1 DEF Nodes
    <3>3. \A m \in Name : dir[m] # Absent => dir'[m] # Absent /\ dir'[m].wal = dir[m].wal
      BY <1>0, <2>3, <3>2 DEF WriterSetsSchema, DirectoryStays, NameStays, TypeOK
    <3> QED BY <1>0, <2>3, <3>3 DEF WriterSetsSchema, WriterInv
  <2>4. ASSUME NEW n \in Name, WriterAppends(n) PROVE WriterInv'
    <3>1. \A m \in Name : dir[m] # Absent => dir'[m] # Absent
      BY <1>0 DEF DirectoryStays, NameStays
    <3>2. pc'[Writer] = "append" /\ lock' = lock
      BY <1>0, <2>4 DEF WriterAppends, Goto, TypeOK
    <3> QED BY <1>0, <3>1, <3>2 DEF WriterInv
  <2>5. ASSUME NEW n \in Name, WriterCommits(n) PROVE WriterInv'
    <3>1. dir[n] \in Nodes /\ next \in Nat
      BY <1>0, <2>5 DEF WriterCommits, WriterInv, TypeOK
    <3>2. [dir[n] EXCEPT !.wal = next].wal = next
      BY <3>1 DEF Nodes
    <3>3. dir'[n].wal \in Nat
      BY <1>0, <2>5, <3>1, <3>2 DEF WriterCommits, TypeOK
    <3>4. \A m \in Name : lock'[m] = Writer => m = n
      BY <1>0, <2>5 DEF WriterCommits, WriterInv
    <3> QED
      BY <1>0, <2>5, <3>3, <3>4
         DEF WriterCommits, WriterInv, Goto, DirectoryStays, NameStays, TypeOK
  <2>6. ASSUME NEW n \in Name, Stranger(n) PROVE WriterInv'
    BY <1>0, <2>6 DEF Stranger, WriterInv, DirectoryStays, NameStays, TypeOK
  <2>7. CASE WriterCloses
    <3>1. pc'[Writer] = "idle"
      BY <1>0, <2>7 DEF WriterCloses, Goto, TypeOK
    <3>2. \A n \in Name : lock'[n] # Writer
      BY <1>0, <2>7 DEF WriterCloses, Unlocked, TypeOK
    <3> QED BY <2>1, <3>1, <3>2 DEF WriterInv
  <2> QED BY <1>2, <2>1, <2>2, <2>3, <2>4, <2>5, <2>6, <2>7 DEF OtherStep
<1> QED BY <1>1, <1>2

-----------------------------------------------------------------------------
(* The step of a command that leaves the directory alone keeps what it has
   published. *)
LEMMA PublishedKeeps ==
    ASSUME TypeOK, NEW p \in Proc, JobInv(p), PublishedInv(p), KeptInv(p),
           UNCHANGED << dir, job >>, undo' \subseteq undo, snapshot'[p] = snapshot[p],
           pc[p] \in {"sync", "done", "failed", "dead"}
               => pc'[p] \in {"sync", "done", "failed", "dead"},
           pc[p] \in {"syncBackup", "validate", "stage", "copy", "manifest", "verify",
                      "publish", "sync", "done", "failed", "dead"}
               => pc'[p] \in {"syncBackup", "validate", "stage", "copy", "manifest", "verify",
                              "publish", "sync", "done", "failed", "dead"}
    PROVE  /\ PublishedInv(p)'
           /\ \A n \in Name :
                  BuiltBy(n, p)' /\ job'[p].kind = "migrate" /\ n = job'[p].to => BackupKept(p)'
           /\ BackupKept(p) => BackupKept(p)'
<1>1. PublishedInv(p)'
  BY DEF PublishedInv, BuiltBy, Holds, Contents, Expected
<1>2. BackupKept(p) => BackupKept(p)'
  BY DEF BackupKept, BuiltBy
<1>3. \A n \in Name :
          BuiltBy(n, p)' /\ job'[p].kind = "migrate" /\ n = job'[p].to => BackupKept(p)'
  BY <1>2 DEF KeptInv, BuiltBy
<1> QED BY <1>1, <1>2, <1>3

LEMMA NothingBuilt ==
    ASSUME NEW p \in Proc, dir' = dir, \A n \in Name : ~ BuiltBy(n, p),
           pc'[p] \notin {"sync", "done", "syncBackup", "validate", "copy", "manifest",
                          "verify", "publish"},
           pc'[p] = "stage" => job'[p].kind # "migrate"
    PROVE  PublishedInv(p)' /\ KeptInv(p)'
<1>1. \A n \in Name : ~ BuiltBy(n, p)'
  BY DEF BuiltBy
<1> QED BY <1>1 DEF PublishedInv, KeptInv

LEMMA EndKeeps ==
    ASSUME TypeOK, NEW p \in Proc, ProcInv(p), pc[p] # "idle",
           pc'[p] \in {"failed", "dead"}, UNCHANGED << dir, undo, job, snapshot >>
    PROVE  ProcInv(p)'
<1>1. JobInv(p)' /\ LockedInv(p)' /\ BuildInv(p)'
  BY DEF ProcInv, JobInv, LockedInv, HasSource, BuildInv, BackingUp
<1>2. /\ PublishedInv(p)'
      /\ \A n \in Name :
             BuiltBy(n, p)' /\ job'[p].kind = "migrate" /\ n = job'[p].to => BackupKept(p)'
  BY PublishedKeeps DEF ProcInv
<1>3. KeptInv(p)'
  BY <1>2 DEF KeptInv
<1> QED BY <1>1, <1>2, <1>3 DEF ProcInv

LEMMA StartKeeps ==
    ASSUME IInv, NEW p \in Proc, NEW j \in Job, Start(p, j)
    PROVE  ProcInv(p)'
<1>0. TypeOK /\ ProcInv(p) /\ pc[p] = "idle"
  BY DEF IInv, Start
<1>1. /\ job'[p] = j /\ dir' = dir /\ UNCHANGED << lock, snapshot >>
      /\ pc'[p] = IF Refused(j) THEN "failed" ELSE IF j.kind = "import" THEN "stage" ELSE "open"
  BY <1>0 DEF Start, Goto, TypeOK
<1>2. \A n \in Name : ~ BuiltBy(n, p)
  BY <1>0 DEF ProcInv, PublishedInv
<1>3. PublishedInv(p)' /\ KeptInv(p)'
  BY <1>1, <1>2, NothingBuilt
<1>4. JobInv(p)'
  BY <1>1 DEF JobInv, BackingUp, Refused, IsDatabase
<1>5. LockedInv(p)' /\ BuildInv(p)'
  BY <1>1 DEF LockedInv, HasSource, BuildInv, BackingUp
<1> QED BY <1>3, <1>4, <1>5 DEF ProcInv

LEMMA OpenSourceKeeps ==
    ASSUME IInv, NEW p \in Proc, OpenSource(p)
    PROVE  ProcInv(p)'
<1> DEFINE n == job[p].from
<1>0. TypeOK /\ ProcInv(p) /\ pc[p] = "open" /\ job' = job /\ dir' = dir
      /\ job[p] \in Job /\ n \in Name
  BY FileOpsNames DEF IInv, OpenSource, ProcInv, JobInv
<1>1. \A m \in Name : ~ BuiltBy(m, p)
  BY <1>0 DEF ProcInv, PublishedInv
<1>2. CASE pc'[p] = "failed"
  <2>1. PublishedInv(p)' /\ KeptInv(p)'
    BY <1>0, <1>1, <1>2, NothingBuilt
  <2>2. JobInv(p)' /\ LockedInv(p)' /\ BuildInv(p)'
    BY <1>0, <1>2 DEF JobInv, LockedInv, HasSource, BuildInv, BackingUp
  <2> QED BY <2>1, <2>2 DEF ProcInv
<1>3. CASE /\ lock'[n] = p /\ snapshot'[p] = dir[n] /\ dir[n] # Absent
           /\ pc'[p] = IF job[p].kind = "migrate" THEN "stageBackup" ELSE "stage"
  <2>1. PublishedInv(p)' /\ KeptInv(p)'
    BY <1>0, <1>1, <1>3, NothingBuilt
  <2>2. JobInv(p)'
    BY <1>0, <1>3 DEF ProcInv, JobInv, BackingUp
  <2>3. snapshot'[p] \in Nodes
    BY <1>0, <1>3 DEF TypeOK
  <2>4. LockedInv(p)' /\ BuildInv(p)'
    BY <1>0, <1>3, <2>3 DEF LockedInv, HasSource, BuildInv, BackingUp
  <2> QED BY <2>1, <2>2, <2>4 DEF ProcInv
<1>4. \/ pc'[p] = "failed"
      \/ /\ lock'[n] = p /\ snapshot'[p] = dir[n]
         /\ pc'[p] = IF job[p].kind = "migrate" THEN "stageBackup" ELSE "stage"
         /\ job[p].kind = "migrate" \/ MayOpen(n)
  BY <1>0 DEF OpenSource, Goto, TypeOK
<1>5. job[p].kind = "migrate" \/ MayOpen(n) => dir[n] # Absent
  BY <1>0 DEF ProcInv, JobInv, MayOpen, IsDatabase
<1> QED BY <1>2, <1>3, <1>4, <1>5

LEMMA StageKeeps ==
    ASSUME IInv, NEW p \in Proc, Stage(p)
    PROVE  ProcInv(p)'
<1>0. TypeOK /\ ProcInv(p) /\ job' = job /\ dir' = dir /\ undo' = undo
      /\ lock' = lock /\ snapshot' = snapshot /\ job[p] \in Job
      /\ pc[p] \in {"stage", "stageBackup"}
      /\ job[p].kind \in {"copy", "migrate", "export", "import"}
  BY FileOpsNames DEF IInv, Stage, ProcInv, JobInv
<1>1. /\ staging'[p] = Node(p, FALSE, NoFile, NoFile)
      /\ job[p].kind \in {"copy", "migrate"} => left'[p] = << "format", "wal", "schema" >>
      /\ pc'[p] = IF pc[p] = "stageBackup" THEN "copyBackup" ELSE Building(job[p].kind)
  BY <1>0 DEF Stage, Goto, TypeOK
<1>2. /\ pc[p] = "stageBackup" => pc'[p] = "copyBackup" /\ job[p].kind = "migrate"
      /\ pc[p] = "stage" =>
            \/ job[p].kind \in {"copy", "migrate"} /\ pc'[p] = "copy"
            \/ job[p].kind = "export" /\ pc'[p] = "write"
            \/ job[p].kind = "import" /\ pc'[p] = "build"
  BY <1>0, <1>1 DEF Building, ProcInv, JobInv, BackingUp
<1>3. JobInv(p)'
  BY <1>0, <1>2 DEF JobInv, BackingUp, ProcInv
<1>4. LockedInv(p)'
  BY <1>0, <1>2 DEF LockedInv, HasSource, BackingUp, ProcInv
<1>5. BuildInv(p)'
  <2>1. /\ staging'[p] \in Nodes /\ staging'[p].by = p /\ staging'[p].synced
        /\ staging'[p].format = FALSE
    BY <1>1, NodeTypes DEF Node
  <2>2. job[p].kind \in {"copy", "migrate"} => Copied(p)'
    <3>1. Len(<< "format", "wal", "schema" >>) = 3
      OBVIOUS
    <3>2. \A l : l = << "format", "wal", "schema" >>
                  => ~ (Len(l) < 3) /\ ~ (Len(l) < 2) /\ ~ (Len(l) < 1)
      BY <3>1
    <3> QED BY <1>1, <3>2, Zenon DEF Copied
  <2> QED BY <1>0, <1>2, <2>1, <2>2 DEF BuildInv
<1>6. PublishedInv(p)' /\ KeptInv(p)'
  <2>1. CASE pc[p] = "stageBackup" \/ job[p].kind # "migrate"
    <3>1. \A n \in Name : ~ BuiltBy(n, p)
      BY <1>0, <2>1 DEF ProcInv, PublishedInv
    <3>2. \A n \in Name : ~ BuiltBy(n, p)'
      BY <1>0, <3>1 DEF BuiltBy
    <3> QED BY <1>0, <1>2, <2>1, <3>2 DEF PublishedInv, KeptInv
  <2>2. CASE pc[p] = "stage" /\ job[p].kind = "migrate"
    <3>1. pc'[p] = "copy"
      BY <1>2, <2>2
    <3>2. /\ PublishedInv(p)'
          /\ \A n \in Name :
                 BuiltBy(n, p)' /\ job'[p].kind = "migrate" /\ n = job'[p].to => BackupKept(p)'
          /\ BackupKept(p) => BackupKept(p)'
      BY <1>0, <2>2, <3>1, PublishedKeeps DEF ProcInv
    <3>3. BackupKept(p)
      BY <1>0, <2>2 DEF ProcInv, KeptInv
    <3> QED BY <3>1, <3>2, <3>3 DEF KeptInv
  <2> QED BY <1>0, <2>1, <2>2
<1> QED BY <1>3, <1>4, <1>5, <1>6 DEF ProcInv

LEMMA CopyFileKeeps ==
    ASSUME IInv, NEW p \in Proc, CopyFile(p)
    PROVE  ProcInv(p)'
<1>0. TypeOK /\ ProcInv(p) /\ UNCHANGED << dir, undo, lock, pc, job, snapshot >>
      /\ pc[p] \in {"copy", "copyBackup"}
  BY DEF IInv, CopyFile, Copying
<1>1. staging'[p] \in Nodes /\ staging'[p].by = p /\ Copied(p)'
  BY <1>0, CopyTypes
<1>2. JobInv(p)' /\ LockedInv(p)'
  BY <1>0 DEF JobInv, LockedInv, HasSource, BackingUp, ProcInv
<1>3. BuildInv(p)'
  BY <1>0, <1>1 DEF BuildInv
<1>4. PublishedInv(p)' /\ KeptInv(p)'
  BY <1>0
     DEF ProcInv, PublishedInv, KeptInv, BackupKept, BuiltBy, Holds, Contents, Expected
<1> QED BY <1>2, <1>3, <1>4 DEF ProcInv

(* A step between the last byte of the copy and its publication. *)
LEMMA BuildKeeps ==
    ASSUME TypeOK, NEW p \in Proc, ProcInv(p),
           UNCHANGED << dir, undo, lock, job >>, snapshot'[p] = snapshot[p],
           \/ pc[p] = "copyBackup" /\ pc'[p] = "publishBackup"
           \/ pc[p] = "copy" /\ job[p].kind = "migrate" /\ pc'[p] = "manifest"
           \/ pc[p] = "copy" /\ pc'[p] = "verify"
           \/ pc[p] = "manifest" /\ pc'[p] = "verify"
           \/ pc[p] = "verify" /\ pc'[p] = "publish"
           \/ pc[p] = "write" /\ pc'[p] = "publish"
           \/ pc[p] = "records" /\ pc'[p] = "publish",
           BuildInv(p)'
    PROVE  ProcInv(p)'
<1>1. JobInv(p)' /\ LockedInv(p)'
  BY DEF ProcInv, JobInv, LockedInv, HasSource, BackingUp
<1>2. CASE pc[p] \in {"copyBackup", "write", "records"}
  <2>1. \A n \in Name : ~ BuiltBy(n, p)
    BY <1>2 DEF ProcInv, PublishedInv
  <2>2. \A n \in Name : ~ BuiltBy(n, p)'
    BY <2>1 DEF BuiltBy
  <2>3. pc'[p] = "publish" => job'[p].kind # "migrate"
    BY <1>2 DEF ProcInv, JobInv
  <2>4. PublishedInv(p)' /\ KeptInv(p)'
    BY <1>2, <2>2, <2>3 DEF PublishedInv, KeptInv
  <2> QED BY <1>1, <2>4 DEF ProcInv
<1>3. CASE pc[p] \in {"copy", "manifest", "verify"}
  <2>1. /\ PublishedInv(p)'
        /\ \A n \in Name :
               BuiltBy(n, p)' /\ job'[p].kind = "migrate" /\ n = job'[p].to => BackupKept(p)'
        /\ BackupKept(p) => BackupKept(p)'
    BY <1>3, PublishedKeeps DEF ProcInv
  <2>2. job[p].kind = "migrate" => BackupKept(p)
    BY <1>3 DEF ProcInv, KeptInv
  <2>3. KeptInv(p)'
    BY <1>3, <2>1, <2>2 DEF KeptInv
  <2> QED BY <1>1, <2>1, <2>3 DEF ProcInv
<1> QED BY <1>2, <1>3

LEMMA EndCopyKeeps ==
    ASSUME IInv, NEW p \in Proc, EndCopy(p)
    PROVE  ProcInv(p)'
<1>0. TypeOK /\ ProcInv(p) /\ UNCHANGED << dir, undo, lock, job, left, snapshot >>
      /\ pc[p] \in {"copy", "copyBackup"} /\ left[p] = << >>
  BY DEF IInv, EndCopy, Copying
<1>1. /\ staging'[p] = [staging[p] EXCEPT !.synced = TRUE]
      /\ pc'[p] = AfterCopy(p)
  BY <1>0 DEF EndCopy, Goto, TypeOK
<1>2. staging[p] \in Nodes /\ staging[p].by = p /\ Copied(p)
  BY <1>0 DEF ProcInv, BuildInv
<1>3. /\ staging[p].format = snapshot[p].format
      /\ staging[p].wal = snapshot[p].wal
      /\ staging[p].schema = snapshot[p].schema
  BY <1>0, <1>2 DEF Copied
<1>4. /\ staging'[p] \in Nodes /\ staging'[p].by = p /\ staging'[p].synced
      /\ staging'[p].wal = staging[p].wal /\ staging'[p].schema = staging[p].schema
  BY <1>1, <1>2 DEF Nodes
<1>5. staging'[p].format = staging[p].format
  BY <1>1, <1>2 DEF Nodes
<1>6. Contents(staging'[p]) = Contents(snapshot[p])
  BY <1>3, <1>4, <1>5, Zenon DEF Contents
<1>7. \/ pc[p] = "copyBackup" /\ pc'[p] = "publishBackup"
      \/ pc[p] = "copy" /\ job[p].kind = "migrate" /\ pc'[p] = "manifest"
      \/ pc[p] = "copy" /\ job[p].kind = "copy" /\ pc'[p] = "verify"
  <2>1. CASE pc[p] = "copyBackup"
    BY <1>1, <2>1 DEF AfterCopy
  <2>2. CASE pc[p] = "copy"
    <3>1. job[p].kind \in {"copy", "migrate"}
      BY <1>0, <2>2 DEF ProcInv, JobInv
    <3> QED BY <1>1, <2>2, <3>1 DEF AfterCopy
  <2> QED BY <1>0, <2>1, <2>2
<1>8. BuildInv(p)'
  <2>1. CASE pc'[p] \in {"publishBackup", "manifest"}
    BY <1>0, <1>4, <1>6, <2>1 DEF BuildInv
  <2>2. CASE job[p].kind = "copy" /\ pc'[p] = "verify"
    <3>1. Expected(p)' = [format |-> snapshot[p].format, wal |-> snapshot[p].wal,
                          schema |-> snapshot[p].schema]
      <4>1. (job[p].kind \in {"migrate", "import"} \/ snapshot[p].format) = snapshot[p].format
        <5>1. snapshot[p].format \in BOOLEAN
          BY <1>3, <1>2 DEF Nodes
        <5> QED BY <2>2, <5>1
      <4> QED BY <1>0, <2>2, <4>1 DEF Expected
    <3>2. Holds(staging'[p], Expected(p)')
      BY <1>6, <3>1 DEF Holds, Contents
    <3>3. Whole(p)'
      BY <1>4, <3>2 DEF Whole
    <3> QED BY <1>4, <2>2, <3>3 DEF BuildInv
  <2> QED BY <1>7, <2>1, <2>2
<1> QED BY <1>0, <1>7, <1>8, BuildKeeps

LEMMA WriteManifestKeeps ==
    ASSUME IInv, NEW p \in Proc, WriteManifest(p)
    PROVE  ProcInv(p)'
<1>0. TypeOK /\ ProcInv(p) /\ UNCHANGED << dir, undo, lock, job, left, snapshot >>
      /\ pc[p] = "manifest" /\ pc'[p] = "verify"
      /\ staging'[p] = [staging[p] EXCEPT !.format = TRUE]
  BY DEF IInv, WriteManifest, Goto, TypeOK
<1>1. /\ staging[p] \in Nodes /\ staging[p].by = p /\ staging[p].synced
      /\ Contents(staging[p]) = Contents(snapshot[p]) /\ job[p].kind = "migrate"
  BY <1>0 DEF ProcInv, BuildInv, JobInv
<1>2. /\ staging'[p] \in Nodes /\ staging'[p].by = p /\ staging'[p].synced
      /\ staging'[p].wal = staging[p].wal /\ staging'[p].schema = staging[p].schema
      /\ staging'[p].format = TRUE
  BY <1>0, <1>1 DEF Nodes
<1>3. staging[p].wal = snapshot[p].wal /\ staging[p].schema = snapshot[p].schema
  BY <1>1 DEF Contents
<1>4. Expected(p)' = [format |-> TRUE, wal |-> snapshot[p].wal, schema |-> snapshot[p].schema]
  BY <1>0, <1>1 DEF Expected
<1>5. Whole(p)'
  <2>1. Holds(staging'[p], Expected(p)')
    <3>1. /\ Expected(p)'.format = TRUE /\ Expected(p)'.wal = snapshot[p].wal
          /\ Expected(p)'.schema = snapshot[p].schema
      BY <1>4
    <3>2. /\ staging'[p].wal = snapshot[p].wal /\ staging'[p].schema = snapshot[p].schema
          /\ staging'[p].format = TRUE
      BY <1>2, <1>3
    <3> QED BY <3>1, <3>2, Zenon DEF Holds, Contents
  <2> QED BY <1>2, <2>1 DEF Whole
<1>6. BuildInv(p)'
  BY <1>0, <1>2, <1>5 DEF BuildInv
<1> QED BY <1>0, <1>6, BuildKeeps

LEMMA ExportKeeps ==
    ASSUME IInv, NEW p \in Proc, Export(p)
    PROVE  ProcInv(p)'
<1>0. TypeOK /\ ProcInv(p) /\ UNCHANGED << dir, undo, lock, job, left, snapshot >>
      /\ pc[p] = "write" /\ pc'[p] = "publish"
      /\ staging'[p] =
             [staging[p] EXCEPT !.wal = snapshot[p].wal, !.schema = snapshot[p].schema]
  BY DEF IInv, Export, Goto, TypeOK
<1>1. /\ staging[p] \in Nodes /\ staging[p].by = p /\ staging[p].synced
      /\ staging[p].format = FALSE /\ job[p].kind = "export" /\ snapshot[p] \in Nodes
  <2>1. staging[p] \in Nodes /\ ~ staging[p].format
    BY <1>0 DEF ProcInv, BuildInv
  <2>2. staging[p].format = FALSE
    BY <2>1 DEF Nodes
  <2> QED BY <1>0, <2>2 DEF ProcInv, BuildInv, JobInv, LockedInv, HasSource
<1>2. /\ staging'[p] \in Nodes /\ staging'[p].by = p /\ staging'[p].synced
      /\ staging'[p].wal = snapshot[p].wal /\ staging'[p].schema = snapshot[p].schema
      /\ staging'[p].format = FALSE
  BY <1>0, <1>1 DEF Nodes
<1>3. Expected(p)' = [format |-> FALSE, wal |-> snapshot[p].wal, schema |-> snapshot[p].schema]
  BY <1>0, <1>1 DEF Expected
<1>4. Whole(p)'
  <2>1. Holds(staging'[p], Expected(p)')
    <3>1. /\ Expected(p)'.format = FALSE /\ Expected(p)'.wal = snapshot[p].wal
          /\ Expected(p)'.schema = snapshot[p].schema
      BY <1>3
    <3>2. /\ staging'[p].wal = snapshot[p].wal /\ staging'[p].schema = snapshot[p].schema
          /\ staging'[p].format = FALSE
      BY <1>2, <1>3
    <3> QED BY <3>1, <3>2, Zenon DEF Holds, Contents
  <2> QED BY <1>2, <2>1 DEF Whole
<1>5. BuildInv(p)'
  BY <1>0, <1>2, <1>4 DEF BuildInv
<1> QED BY <1>0, <1>5, BuildKeeps

LEMMA ImportSchemaKeeps ==
    ASSUME IInv, NEW p \in Proc, ImportSchema(p)
    PROVE  ProcInv(p)'
<1> DEFINE file == dir[job[p].from]
<1>0. TypeOK /\ ProcInv(p) /\ UNCHANGED << dir, undo, lock, job, left >>
      /\ pc[p] = "build" /\ job[p] \in Job /\ job[p].from \in Name /\ job[p].kind = "import"
  BY FileOpsNames DEF IInv, ImportSchema, ProcInv, JobInv
<1>1. \/ pc'[p] = "failed"
      \/ /\ file # Absent /\ staging'[p] = Node(p, TRUE, 0, file.schema)
         /\ snapshot'[p] = file /\ pc'[p] = "records"
  BY <1>0 DEF ImportSchema, Goto, TypeOK
<1>2. \A n \in Name : ~ BuiltBy(n, p)
  BY <1>0 DEF ProcInv, PublishedInv
<1>3. PublishedInv(p)' /\ KeptInv(p)'
  BY <1>0, <1>1, <1>2, NothingBuilt
<1>4. JobInv(p)'
  BY <1>0, <1>1 DEF JobInv, BackingUp
<1>5. CASE pc'[p] = "failed"
  BY <1>3, <1>4, <1>5 DEF ProcInv, LockedInv, HasSource, BuildInv, BackingUp
<1>6. CASE /\ file # Absent /\ staging'[p] = Node(p, TRUE, 0, file.schema)
           /\ snapshot'[p] = file /\ pc'[p] = "records"
  <2>1. file \in Nodes
    BY <1>0, <1>6 DEF TypeOK
  <2>2. /\ staging'[p] \in Nodes /\ staging'[p].by = p /\ staging'[p].synced
        /\ staging'[p].format /\ staging'[p].wal \in Nat
        /\ staging'[p].schema = snapshot'[p].schema
    BY <1>6, <2>1, NodeTypes DEF Node
  <2>3. BuildInv(p)'
    BY <1>6, <2>2 DEF BuildInv
  <2>4. LockedInv(p)'
    BY <1>6, <2>1 DEF LockedInv, HasSource, BackingUp
  <2> QED BY <1>3, <1>4, <2>3, <2>4 DEF ProcInv
<1> QED BY <1>1, <1>5, <1>6

LEMMA ImportRecordsKeeps ==
    ASSUME IInv, NEW p \in Proc, ImportRecords(p)
    PROVE  ProcInv(p)'
<1>0. TypeOK /\ ProcInv(p) /\ UNCHANGED << dir, undo, lock, job, left, snapshot >>
      /\ pc[p] = "records" /\ job[p].kind = "import"
  BY DEF IInv, ImportRecords, ProcInv, JobInv
<1>1. /\ staging[p] \in Nodes /\ staging[p].by = p /\ staging[p].synced
      /\ staging[p].format /\ staging[p].wal \in Nat
      /\ staging[p].schema = snapshot[p].schema
  BY <1>0 DEF ProcInv, BuildInv
<1>2. CASE staging[p].wal = snapshot[p].wal /\ pc'[p] = "publish" /\ staging' = staging
  <2>1. Expected(p)' = [format |-> TRUE, wal |-> snapshot[p].wal, schema |-> snapshot[p].schema]
    BY <1>0 DEF Expected
  <2>2. staging[p].format = TRUE
    BY <1>1 DEF Nodes
  <2>3. /\ Expected(p)'.format = TRUE /\ Expected(p)'.wal = snapshot[p].wal
        /\ Expected(p)'.schema = snapshot[p].schema
    BY <2>1
  <2>4. Holds(staging[p], Expected(p)')
    BY <1>1, <1>2, <2>2, <2>3, Zenon DEF Holds, Contents
  <2>5. BuildInv(p)'
    BY <1>1, <1>2, <2>4 DEF BuildInv, Whole
  <2> QED BY <1>0, <1>2, <2>5, BuildKeeps
<1>3. CASE staging' = [staging EXCEPT ![p].wal = @ + 1] /\ pc' = pc
  <2>1. staging'[p] = [staging[p] EXCEPT !.wal = staging[p].wal + 1]
    BY <1>0, <1>3 DEF TypeOK
  <2>2. /\ staging'[p] \in Nodes /\ staging'[p].by = p /\ staging'[p].synced
        /\ staging'[p].format /\ staging'[p].wal \in Nat
        /\ staging'[p].schema = snapshot[p].schema
    BY <1>1, <2>1 DEF Nodes
  <2>3. BuildInv(p)'
    BY <1>0, <1>3, <2>2 DEF BuildInv
  <2>4. JobInv(p)' /\ LockedInv(p)'
    BY <1>0, <1>3 DEF ProcInv, JobInv, LockedInv, HasSource, BackingUp
  <2>5. PublishedInv(p)' /\ KeptInv(p)'
    BY <1>0, <1>3
       DEF ProcInv, PublishedInv, KeptInv, BackupKept, BuiltBy, Holds, Contents, Expected
  <2> QED BY <2>3, <2>4, <2>5 DEF ProcInv
<1>4. \/ staging[p].wal = snapshot[p].wal /\ pc'[p] = "publish" /\ staging' = staging
      \/ staging' = [staging EXCEPT ![p].wal = @ + 1] /\ pc' = pc
  BY <1>0 DEF ImportRecords, Goto, TypeOK
<1> QED BY <1>2, <1>3, <1>4

LEMMA VerifyKeeps ==
    ASSUME IInv, NEW p \in Proc, Verify(p)
    PROVE  ProcInv(p)'
<1>0. TypeOK /\ ProcInv(p) /\ pc[p] = "verify" /\ UNCHANGED << dir, undo, job, snapshot >>
  BY DEF IInv, Verify
<1>1. \/ pc'[p] = "publish" /\ UNCHANGED << lock, staging >>
      \/ pc'[p] = "failed"
  BY <1>0 DEF Verify, Finish, Goto, TypeOK
<1>2. CASE pc'[p] = "publish" /\ UNCHANGED << lock, staging >>
  <2>1. BuildInv(p)'
    BY <1>0, <1>2 DEF ProcInv, BuildInv, Whole, Holds, Contents, Expected
  <2> QED BY <1>0, <1>2, <2>1, BuildKeeps
<1>3. CASE pc'[p] = "failed"
  BY <1>0, <1>3, EndKeeps
<1> QED BY <1>1, <1>2, <1>3

LEMMA ValidateKeeps ==
    ASSUME IInv, NEW p \in Proc, Validate(p)
    PROVE  ProcInv(p)'
<1>0. TypeOK /\ ProcInv(p) /\ pc[p] = "validate" /\ UNCHANGED << dir, undo, job, snapshot >>
  BY DEF IInv, Validate
<1>1. \/ pc'[p] = "stage" /\ UNCHANGED << lock, staging >>
      \/ pc'[p] = "failed"
  BY <1>0 DEF Validate, Finish, Goto, TypeOK
<1>2. CASE pc'[p] = "stage" /\ UNCHANGED << lock, staging >>
  <2>1. JobInv(p)' /\ LockedInv(p)' /\ BuildInv(p)'
    BY <1>0, <1>2 DEF ProcInv, JobInv, LockedInv, HasSource, BackingUp, BuildInv
  <2>2. /\ PublishedInv(p)'
        /\ \A n \in Name :
               BuiltBy(n, p)' /\ job'[p].kind = "migrate" /\ n = job'[p].to => BackupKept(p)'
        /\ BackupKept(p) => BackupKept(p)'
    BY <1>0, <1>2, PublishedKeeps DEF ProcInv
  <2>3. BackupKept(p)
    BY <1>0 DEF ProcInv, JobInv, KeptInv, BackingUp
  <2>4. KeptInv(p)'
    BY <1>2, <2>2, <2>3 DEF KeptInv
  <2> QED BY <2>1, <2>2, <2>4 DEF ProcInv
<1>3. CASE pc'[p] = "failed"
  BY <1>0, <1>3, EndKeeps
<1> QED BY <1>1, <1>2, <1>3

(* What is published is absent before, and whole. *)
LEMMA PublishKeeps ==
    ASSUME IInv, NEW p \in Proc, Publish(p)
    PROVE  ProcInv(p)'
<1> DEFINE t == Target(p)
<1>0. /\ TypeOK /\ ProcInv(p) /\ pc[p] \in {"publish", "publishBackup"}
      /\ UNCHANGED << job, snapshot >> /\ job[p] \in Job /\ t \in Name
      /\ job[p].to \in Name /\ job[p].backup \in Name
      /\ job[p].kind = "migrate" => job[p].to # job[p].backup
      /\ pc[p] = "publishBackup" => job[p].kind = "migrate"
      /\ staging[p] \in Nodes /\ staging[p].by = p /\ staging[p] # Absent
  BY FileOpsNames
     DEF IInv, Publish, ProcInv, JobInv, BackingUp, Target, BuildInv
<1>1. CASE Taken(t)
  <2>1. pc'[p] = "failed" /\ UNCHANGED << dir, undo >>
    BY <1>0, <1>1 DEF Publish, Finish, Goto, TypeOK
  <2> QED BY <1>0, <2>1, EndKeeps
<1>2. CASE ~ Taken(t)
  <2>1. /\ dir[t] = Absent
        /\ dir' = [dir EXCEPT ![t] = staging[p]]
        /\ undo' = undo \cup {t}
        /\ pc'[p] = IF pc[p] = "publish" THEN "sync" ELSE "syncBackup"
        /\ lock' = lock
    BY <1>0, <1>2 DEF Publish, Taken, Goto, TypeOK
  <2>2. /\ dir'[t] = staging[p]
        /\ \A n \in Name : n # t => dir'[n] = dir[n]
    BY <1>0, <2>1 DEF TypeOK
  <2>3. JobInv(p)'
    BY <1>0, <2>1 DEF JobInv, BackingUp
  <2>4. LockedInv(p)'
    <3>1. HasSource(p) /\ HasSource(p)'
      BY <1>0, <2>1 DEF HasSource, BackingUp
    <3>2. CASE job[p].kind # "import"
      <4>1. lock[job[p].from] = p /\ dir[job[p].from] = snapshot[p] /\ snapshot[p] \in Nodes
        BY <1>0, <3>1, <3>2 DEF ProcInv, LockedInv
      <4>2. job[p].from # t
        BY <2>1, <4>1, FileOpsNames
      <4>3. job[p].from \in Name
        BY <1>0, FileOpsNames
      <4> QED BY <1>0, <2>1, <2>2, <3>1, <3>2, <4>1, <4>2, <4>3 DEF LockedInv
    <3>3. CASE job[p].kind = "import"
      <4>1. snapshot[p] \in Nodes
        BY <1>0, <3>1, <3>3 DEF ProcInv, LockedInv
      <4> QED BY <1>0, <2>1, <3>1, <3>3, <4>1 DEF LockedInv
    <3> QED BY <3>2, <3>3
  <2>5. BuildInv(p)'
    BY <1>0, <2>1 DEF BuildInv
  <2>6. ASSUME NEW n \in Name
        PROVE  BuiltBy(n, p)' <=> n = t \/ BuiltBy(n, p)
    BY <1>0, <2>1, <2>2, <2>6 DEF BuiltBy
  <2>7. CASE pc[p] = "publishBackup"
    <3>1. t = job[p].backup /\ pc'[p] = "syncBackup" /\ job[p].kind = "migrate"
      BY <1>0, <2>1, <2>7 DEF Target
    <3>2. \A n \in Name : ~ BuiltBy(n, p)
      BY <1>0, <2>7 DEF ProcInv, PublishedInv
    <3>3. Contents(dir'[t]) = Contents(snapshot[p])
      BY <1>0, <2>2, <2>7 DEF ProcInv, BuildInv
    <3>4. PublishedInv(p)'
      <4> SUFFICES ASSUME NEW n \in Name, BuiltBy(n, p)'
                   PROVE  PublishedInv(p)!(n)!2!2'
        BY DEF PublishedInv
      <4>1. n = t
        BY <2>6, <3>2
      <4> QED BY <1>0, <3>1, <3>3, <4>1
    <3>5. BuiltBy(job[p].backup, p)'
      BY <1>0, <2>2, <3>1 DEF BuiltBy
    <3>6. KeptInv(p)'
      <4>1. ASSUME NEW n \in Name, BuiltBy(n, p)' PROVE n # job[p].to
        BY <1>0, <2>6, <3>1, <3>2, <4>1
      <4> QED BY <1>0, <3>1, <3>5, <4>1 DEF KeptInv
    <3> QED BY <2>3, <2>4, <2>5, <3>4, <3>6 DEF ProcInv
  <2>8. CASE pc[p] = "publish"
    <3>1. t = job[p].to /\ pc'[p] = "sync"
      BY <1>0, <2>1, <2>8 DEF Target
    <3>2. Holds(dir'[t], Expected(p)')
      BY <1>0, <2>2, <2>8 DEF ProcInv, BuildInv, Whole, Holds, Contents, Expected
    <3>3. PublishedInv(p)'
      <4> SUFFICES ASSUME NEW n \in Name, BuiltBy(n, p)'
                   PROVE  PublishedInv(p)!(n)!2'
        BY DEF PublishedInv
      <4>1. CASE n = t
        BY <1>0, <3>1, <3>2, <4>1
      <4>2. CASE n # t
        <5>1. BuiltBy(n, p) /\ dir'[n] = dir[n]
          BY <2>2, <2>6, <4>2
        <5>2. /\ n = job[p].backup /\ job[p].kind = "migrate"
              /\ Contents(dir[n]) = Contents(snapshot[p])
          BY <1>0, <2>8, <5>1 DEF ProcInv, PublishedInv
        <5> QED BY <1>0, <3>1, <5>1, <5>2
      <4> QED BY <4>1, <4>2
    <3>4. BuiltBy(job[p].to, p)'
      BY <1>0, <2>2, <3>1 DEF BuiltBy
    <3>5. job[p].kind = "migrate" => BackupKept(p)'
      <4>1. job[p].kind = "migrate" => BackupKept(p)
        BY <1>0, <2>8 DEF ProcInv, KeptInv
      <4> QED BY <1>0, <2>1, <2>2, <3>1, <4>1 DEF BackupKept, BuiltBy
    <3>6. KeptInv(p)'
      BY <1>0, <3>1, <3>4, <3>5 DEF KeptInv
    <3> QED BY <2>3, <2>4, <2>5, <3>3, <3>6 DEF ProcInv
  <2> QED BY <1>0, <2>7, <2>8
<1> QED BY <1>1, <1>2

LEMMA SyncParentKeeps ==
    ASSUME IInv, NEW p \in Proc, SyncParent(p)
    PROVE  ProcInv(p)'
<1>0. /\ TypeOK /\ ProcInv(p) /\ UNCHANGED << dir, job, snapshot >> /\ undo' = {}
      /\ \/ pc[p] = "sync" /\ pc'[p] = "done"
         \/ pc[p] = "syncBackup" /\ pc'[p] = "validate" /\ UNCHANGED << lock, staging, left >>
  BY DEF IInv, SyncParent, AtRiskOnceSynced, Finish, Goto, TypeOK
<1>1. /\ PublishedInv(p)'
      /\ \A n \in Name :
             BuiltBy(n, p)' /\ job'[p].kind = "migrate" /\ n = job'[p].to => BackupKept(p)'
  BY <1>0, PublishedKeeps DEF ProcInv
<1>2. CASE pc[p] = "sync"
  <2>1. pc'[p] = "done"
    BY <1>0, <1>2
  <2>2. JobInv(p)' /\ LockedInv(p)' /\ BuildInv(p)'
    BY <1>0, <1>2, <2>1 DEF ProcInv, JobInv, LockedInv, HasSource, BackingUp, BuildInv
  <2>3. BuiltBy(job[p].to, p)'
    BY <1>0, <1>2 DEF ProcInv, KeptInv, BuiltBy
  <2>4. KeptInv(p)'
    BY <1>0, <1>1, <2>1, <2>3 DEF KeptInv
  <2> QED BY <1>1, <2>2, <2>4 DEF ProcInv
<1>3. CASE pc[p] = "syncBackup"
  <2>1. pc'[p] = "validate" /\ UNCHANGED << lock, staging, left >>
    BY <1>0, <1>3
  <2>2. JobInv(p)' /\ LockedInv(p)' /\ BuildInv(p)'
    BY <1>0, <1>3, <2>1 DEF ProcInv, JobInv, LockedInv, HasSource, BackingUp, BuildInv
  <2>3. BackupKept(p)'
    BY <1>0, <1>3 DEF ProcInv, KeptInv, BackupKept, BuiltBy
  <2>4. KeptInv(p)'
    BY <1>0, <1>1, <2>1, <2>3 DEF KeptInv
  <2> QED BY <1>1, <2>2, <2>4 DEF ProcInv
<1> QED BY <1>0, <1>2, <1>3

(* A power cut ends every command; what is synced stays. *)
LEMMA PowerCutKeeps ==
    ASSUME IInv, PowerCut
    PROVE  /\ SyncedInv' /\ WriterInv' /\ \A p \in Proc : ProcInv(p)'
           /\ \A n \in Name : dir'[n] = dir[n] \/ (n \in undo /\ dir'[n] = Absent)
<1>0. TypeOK /\ SyncedInv /\ (\A p \in Proc : ProcInv(p)) /\ Writer \notin Proc /\ Writer # Nobody
  BY FileOpsConstants DEF IInv
<1>1. \A n \in Name : dir'[n] = dir[n] \/ (n \in undo /\ dir'[n] = Absent)
  <2>1. PICK lost \in SUBSET undo :
           dir' = [n \in Name |->
                    IF n \in lost THEN Absent
                    ELSE IF dir[n] # Absent /\ ~ dir[n].synced
                         THEN [dir[n] EXCEPT !.wal = Torn] ELSE dir[n]]
    BY DEF PowerCut
  <2>2. ASSUME NEW n \in Name
        PROVE  dir'[n] = IF n \in lost THEN Absent
                         ELSE IF dir[n] # Absent /\ ~ dir[n].synced
                              THEN [dir[n] EXCEPT !.wal = Torn] ELSE dir[n]
    BY <2>1
  <2>3. ASSUME NEW n \in Name PROVE ~ (dir[n] # Absent /\ ~ dir[n].synced)
    BY <1>0 DEF SyncedInv
  <2>4. ASSUME NEW n \in Name PROVE dir'[n] = IF n \in lost THEN Absent ELSE dir[n]
    BY <2>2, <2>3, Zenon
  <2>5. \A n \in lost : n \in undo
    BY <2>1
  <2> QED BY <2>4, <2>5
<1>2. SyncedInv'
  BY <1>0, <1>1 DEF SyncedInv
<1>3. WriterInv'
  BY <1>0 DEF PowerCut, WriterInv
<1>4. ASSUME NEW p \in Proc PROVE ProcInv(p)'
  <2>1. /\ pc'[p] = IF Running(p) THEN "dead" ELSE pc[p]
        /\ job' = job /\ snapshot' = snapshot /\ undo' = {}
    BY <1>0, <1>4 DEF PowerCut
  <2>2. \/ pc'[p] = "dead" /\ pc[p] # "idle"
        \/ pc'[p] = pc[p] /\ pc[p] \in {"idle", "done", "failed", "dead"}
    BY <2>1 DEF Running
  <2>3. JobInv(p)' /\ LockedInv(p)' /\ BuildInv(p)'
    BY <1>0, <1>4, <2>1, <2>2
       DEF ProcInv, JobInv, LockedInv, HasSource, BackingUp, BuildInv
  <2>4. ASSUME NEW n \in Name, BuiltBy(n, p)' PROVE BuiltBy(n, p) /\ dir'[n] = dir[n]
    BY <1>1, <2>4 DEF BuiltBy
  <2>5. ASSUME NEW n \in Name, BuiltBy(n, p), n \notin undo PROVE BuiltBy(n, p)'
    BY <1>1, <2>5 DEF BuiltBy
  <2>6. PublishedInv(p)'
    <3> SUFFICES ASSUME NEW n \in Name, BuiltBy(n, p)'
                 PROVE  PublishedInv(p)!(n)!2'
      BY DEF PublishedInv
    <3>1. BuiltBy(n, p) /\ dir'[n] = dir[n]
      BY <2>4
    <3>2. PublishedInv(p) /\ Expected(p)' = Expected(p)
      BY <1>0, <2>1 DEF ProcInv, Expected
    <3>3. pc[p] \in {"sync", "done", "failed", "dead"}
              => pc'[p] \in {"sync", "done", "failed", "dead"}
      BY <2>2
    <3>4. pc[p] \in {"syncBackup", "validate", "stage", "copy", "manifest", "verify",
                     "publish", "sync", "done", "failed", "dead"}
              => pc'[p] \in {"syncBackup", "validate", "stage", "copy", "manifest", "verify",
                             "publish", "sync", "done", "failed", "dead"}
      BY <2>2
    <3> QED
      BY <2>1, <3>1, <3>2, <3>3, <3>4, Zenon DEF PublishedInv, Holds, Contents
  <2>7. KeptInv(p)'
    <3>1. ASSUME job[p].backup \in Name, BackupKept(p) PROVE BackupKept(p)'
      BY <2>1, <2>5, <3>1 DEF BackupKept, BuiltBy
    <3>2. ASSUME pc'[p] = "done" PROVE BuiltBy(job[p].to, p)'
      <4>1. pc[p] = "done" /\ job[p].to \in Name
        BY <1>0, <2>2, <3>2, FileOpsNames DEF ProcInv, JobInv
      <4>2. BuiltBy(job[p].to, p) /\ job[p].to \notin undo
        BY <1>0, <4>1 DEF ProcInv, KeptInv
      <4> QED BY <2>1, <2>5, <4>1, <4>2 DEF BuiltBy
    <3>3. ASSUME NEW n \in Name, BuiltBy(n, p)', job[p].kind = "migrate", n = job[p].to
          PROVE  BackupKept(p)'
      <4>1. BuiltBy(n, p)
        BY <2>4, <3>3
      <4>2. BackupKept(p) /\ job[p].backup \in Name
        BY <1>0, <3>3, <4>1, FileOpsNames DEF ProcInv, KeptInv, PublishedInv, JobInv
      <4> QED BY <3>1, <4>2
    <3> QED BY <2>1, <2>2, <3>2, <3>3 DEF KeptInv
  <2> QED BY <2>3, <2>6, <2>7 DEF ProcInv
<1> QED BY <1>1, <1>2, <1>3, <1>4

-----------------------------------------------------------------------------
LEMMA Step ==
    ASSUME IInv, [Next]_vars
    PROVE  IInv'
<1>1. CASE UNCHANGED vars
  <2>1. TypeOK' /\ SyncedInv' /\ WriterInv'
    BY <1>1 DEF vars, IInv, TypeOK, SyncedInv, WriterInv
  <2>2. ASSUME NEW q \in Proc PROVE ProcInv(q)'
    <3>1. DirectoryStays /\ Rests(q)
      BY <1>1 DEF vars, DirectoryStays, NameStays, Rests
    <3> QED BY <1>1, <3>1, RestingKeeps DEF vars
  <2> QED BY <2>1, <2>2 DEF IInv
<1>2. CASE \E p \in Proc : CommandStep(p)
  <2>1. PICK p \in Proc : CommandStep(p)
    BY <1>2
  <2>2. TypeOK' /\ SyncedInv' /\ WriterInv'
    BY <1>2, TypeStep, DirectoryAndWriter DEF Next
  <2>3. ProcInv(p)'
    <3>1. CASE Fail(p) \/ Kill(p)
      <4>1. TypeOK /\ ProcInv(p) /\ pc[p] # "idle" /\ pc'[p] \in {"failed", "dead"}
            /\ UNCHANGED << dir, undo, job, snapshot >>
        BY <3>1 DEF IInv, Fail, Kill, Running, FinishOnly, Finish, Goto, TypeOK
      <4> QED BY <4>1, EndKeeps
    <3> QED
      BY <2>1, <3>1, StartKeeps, OpenSourceKeeps, StageKeeps, CopyFileKeeps, EndCopyKeeps,
         WriteManifestKeeps, VerifyKeeps, ExportKeeps, ImportSchemaKeeps, ImportRecordsKeeps,
         PublishKeeps, SyncParentKeeps, ValidateKeeps
         DEF CommandStep
  <2>4. ASSUME NEW q \in Proc, q # p PROVE ProcInv(q)'
    <3>1. /\ \A n \in Name : lock[n] = q => lock'[n] = q
          /\ \A n \in Name : dir[n] = Absent /\ dir'[n] # Absent => dir'[n].by # q
          /\ Rests(q)
      BY <2>1, <2>4, CommandTouches, FileOpsConstants DEF Rests
    <3> QED BY <1>2, <3>1, DirectoryStep, RestingKeeps
  <2> QED BY <2>2, <2>3, <2>4 DEF IInv
<1>3. CASE OtherStep
  <2>1. TypeOK' /\ SyncedInv' /\ WriterInv'
    BY <1>3, TypeStep, DirectoryAndWriter DEF Next
  <2>2. ASSUME NEW q \in Proc PROVE ProcInv(q)'
    <3>1. /\ \A n \in Name : lock[n] = q => lock'[n] = q
          /\ \A n \in Name : dir[n] = Absent /\ dir'[n] # Absent => dir'[n].by # q
          /\ Rests(q)
      BY <1>3, <2>2, OthersTouch, FileOpsConstants DEF Rests
    <3> QED BY <1>3, <3>1, DirectoryStep, RestingKeeps
  <2> QED BY <2>1, <2>2 DEF IInv
<1>4. CASE PowerCut
  BY <1>4, TypeStep, PowerCutKeeps DEF Next, IInv
<1> QED BY <1>1, <1>2, <1>3, <1>4 DEF Next

(* Every conjunct of the invariant: what is built and published is the locked
   source, and what was reported done stays. *)
THEOREM Invariance == Spec => []IInv
BY InitInv, Step, PTL DEF Spec

(* copy_database, migrate, export and import: a destination that a command
   made holds one moment of its source, whole, and a backup does. *)
THEOREM DestinationsAreWhole == Spec => []DestinationIsWhole
<1>1. IInv => DestinationIsWhole
  <2> SUFFICES ASSUME IInv, NEW n \in Name, dir[n] # Absent, dir[n].by # Nobody
               PROVE  DestinationIsWhole!(n)!2
    BY DEF DestinationIsWhole
  <2>1. dir[n].by \in Proc
    BY DEF IInv, TypeOK, Nodes
  <2>2. BuiltBy(n, dir[n].by) /\ PublishedInv(dir[n].by)
    BY <2>1 DEF BuiltBy, IInv, ProcInv
  <2> QED BY <2>2 DEF PublishedInv
<1> QED BY <1>1, Invariance, PTL

(* What a command reported done outlasts a power cut, and a migrated database
   is never there without its backup. *)
THEOREM WhatIsDoneIsKept == Spec => []DoneIsKept
<1>1. IInv => DoneIsKept
  <2>1. ASSUME IInv, NEW p \in Proc, pc[p] = "done" PROVE BuiltBy(job[p].to, p)
    BY <2>1 DEF IInv, ProcInv, KeptInv
  <2>2. ASSUME IInv, NEW n \in Name, dir[n] # Absent, dir[n].by # Nobody,
               job[dir[n].by].kind = "migrate", n = job[dir[n].by].to
        PROVE  BuiltBy(job[dir[n].by].backup, dir[n].by)
    <3>1. dir[n].by \in Proc
      BY <2>2 DEF IInv, TypeOK, Nodes
    <3>2. BuiltBy(n, dir[n].by) /\ KeptInv(dir[n].by)
      BY <2>2, <3>1 DEF BuiltBy, IInv, ProcInv
    <3> QED BY <2>2, <3>2 DEF KeptInv, BackupKept
  <2> QED BY <2>1, <2>2 DEF DoneIsKept, BackupFirst, BuiltBy
<1> QED BY <1>1, Invariance, PTL

(* Whoever runs beside a command, a name that exists keeps what it is, until
   the holder of its lock writes to it or a power cut takes a rename back. *)
THEOREM NothingIsReplaced == Spec => NothingReplaced
<1> DEFINE Keeps ==
        \A n \in Name :
            /\ ~ Replaced(n)
            /\ dir[n] # Absent /\ dir'[n] # dir[n] => lock[n] = Writer \/ n \in undo
<1>1. ASSUME IInv, [Next]_vars PROVE Keeps
  <2>1. CASE UNCHANGED vars
    BY <2>1 DEF vars, Replaced
  <2>2. CASE PowerCut
    BY <1>1, <2>2, PowerCutKeeps DEF Replaced
  <2>3. CASE (\E p \in Proc : CommandStep(p)) \/ OtherStep
    <3>1. DirectoryStays
      BY <1>1, <2>3, DirectoryStep
    <3> QED BY <3>1 DEF DirectoryStays, NameStays, Replaced
  <2> QED BY <1>1, <2>1, <2>2, <2>3 DEF Next
<1> QED BY <1>1, Invariance, PTL DEF Spec, NothingReplaced

-----------------------------------------------------------------------------
(* Lines.  What export writes from some key on exists, by the last key from
   which it would not. *)
LEMMA LeastNatural ==
    ASSUME NEW S, S \subseteq Nat, S # {}
    PROVE  \E m \in S : \A x \in S : m <= x
<1>1. PICK m \in S : \A x \in Nat : << x, m >> \in OpToRel(<, Nat) => x \notin S
  BY NatLessThanWellFounded, WFMin
<1>2. \A x \in S : ~ (x < m)
  BY <1>1 DEF OpToRel
<1> QED BY <1>2

Keys == Len(KeyOrder)
Line(data, i) == Jsonl!RecordLine(KeyOrder[i], data[KeyOrder[i]])
Has(data, i) == data[KeyOrder[i]] # Absent

(* f has what is written from each key from the i-th on. *)
Writes(f, data, i) ==
    /\ f = [j \in i .. Keys + 1 |-> f[j]] /\ f[Keys + 1] = << >>
    /\ \A j \in i .. Keys :
          f[j] = IF Has(data, j) THEN << Line(data, j) >> \o f[j + 1] ELSE f[j + 1]

LEMMA KeysAreOrdered ==
    /\ Keys \in Nat /\ DOMAIN KeyOrder = 1 .. Keys
    /\ Jsonl!Key = Range(KeyOrder)
    /\ \A i \in 1 .. Keys : KeyOrder[i] \in Jsonl!Key
<1>1. KeyOrder \in Seq(Range(KeyOrder))
  BY JsonlConstants
<1>2. Keys \in Nat /\ DOMAIN KeyOrder = 1 .. Keys
  BY <1>1, LenProperties DEF Keys
<1>3. Jsonl!Key = Range(KeyOrder)
  BY DEF Jsonl!Key, Range
<1> QED BY <1>2, <1>3 DEF Range

LEMMA WritesExist ==
    ASSUME NEW data, NEW i \in 1 .. Keys + 1
    PROVE  \E f : Writes(f, data, i)
<1>1. PICK n \in Nat : n = Keys
  BY KeysAreOrdered
<1>2. PICK D : D = {x \in 0 .. n : ~ \E f : Writes(f, data, n + 1 - x)}
  OBVIOUS
<1>3. SUFFICES ASSUME D # {} PROVE FALSE
  <2>1. PICK x \in 0 .. n : i = n + 1 - x
    <3>1. n + 1 - i \in 0 .. n /\ i = n + 1 - (n + 1 - i)
      BY <1>1
    <3> QED BY <3>1
  <2> QED BY <1>2, <2>1
<1>4. PICK x \in D : \A y \in D : x <= y
  <2>1. D \subseteq Nat
    BY <1>2
  <2> QED BY <1>3, <2>1, LeastNatural
<1>5. x \in 0 .. n /\ ~ \E f : Writes(f, data, n + 1 - x)
  BY <1>2, <1>4
<1>6. x # 0
  <2>1. PICK f : f = [j \in n + 1 .. n + 1 |-> << >>]
    OBVIOUS
  <2>2. f[n + 1] = << >> /\ f = [j \in n + 1 .. n + 1 |-> f[j]]
    BY <2>1
  <2>3. \A j \in n + 1 .. n : FALSE
    BY <1>1
  <2>4. Writes(f, data, n + 1)
    BY <1>1, <2>2, <2>3 DEF Writes
  <2>5. x = 0 => n + 1 - x = n + 1
    BY <1>1
  <2> QED BY <1>5, <2>4, <2>5
<1>7. x - 1 \in 0 .. n /\ ~ (x <= x - 1)
  BY <1>5, <1>6
<1>8. PICK k \in 1 .. n : k = n + 1 - x /\ k + 1 = n + 1 - (x - 1)
  BY <1>1, <1>5, <1>6
<1>9. PICK g : Writes(g, data, k + 1)
  BY <1>2, <1>4, <1>7, <1>8
<1>10. PICK f : f = [j \in k .. n + 1 |->
                        IF j # k THEN g[j]
                        ELSE IF Has(data, k) THEN << Line(data, k) >> \o g[k + 1] ELSE g[k + 1]]
  OBVIOUS
<1>11. \A j \in k .. n + 1 : j = k \/ j \in k + 1 .. n + 1
  BY <1>8
<1>12. k \in k .. n + 1 /\ n + 1 \in k .. n + 1 /\ n + 1 # k /\ k + 1 \in k .. n + 1 /\ k + 1 # k
  BY <1>8
<1>13. f[n + 1] = << >> /\ f[k + 1] = g[k + 1]
  BY <1>1, <1>9, <1>10, <1>12 DEF Writes
<1>14. f[k] = IF Has(data, k) THEN << Line(data, k) >> \o f[k + 1] ELSE f[k + 1]
  BY <1>10, <1>12, <1>13
<1>15. ASSUME NEW j \in k + 1 .. n
       PROVE  f[j] = IF Has(data, j) THEN << Line(data, j) >> \o f[j + 1] ELSE f[j + 1]
  <2>1. j \in k .. n + 1 /\ j # k /\ j + 1 \in k .. n + 1 /\ j + 1 # k
    BY <1>8
  <2>2. f[j] = g[j] /\ f[j + 1] = g[j + 1]
    BY <1>10, <2>1
  <2> QED BY <1>1, <1>9, <2>2 DEF Writes
<1>16. \A j \in k .. n : j = k \/ j \in k + 1 .. n
  BY <1>8
<1>17. \A j \in k .. n :
           f[j] = IF Has(data, j) THEN << Line(data, j) >> \o f[j + 1] ELSE f[j + 1]
  BY <1>14, <1>15, <1>16
<1>18. f = [j \in k .. n + 1 |-> f[j]]
  BY <1>10
<1>19. Writes(f, data, k)
  BY <1>1, <1>13, <1>17, <1>18 DEF Writes
<1> QED BY <1>5, <1>8, <1>19

LEMMA LinesFromIs ==
    ASSUME NEW data
    PROVE  Writes(Jsonl!LinesFrom(data), data, 1)
<1>1. PICK n \in Nat : n = Keys
  BY KeysAreOrdered
<1> DEFINE Fits(t) ==
               t = [i \in 1 .. Len(KeyOrder) + 1 |->
                       IF i > Len(KeyOrder) THEN << >>
                       ELSE IF data[KeyOrder[i]] = Absent THEN t[i + 1]
                       ELSE << Jsonl!RecordLine(KeyOrder[i], data[KeyOrder[i]]) >> \o t[i + 1]]
<1>2. Jsonl!LinesFrom(data) = CHOOSE t : Fits(t)
  BY DEF Jsonl!LinesFrom
<1>3. \E t : Fits(t)
  <2>1. 1 \in 1 .. Keys + 1
    BY <1>1
  <2>2. PICK f : Writes(f, data, 1)
    BY <2>1, WritesExist
  <2>3. Len(KeyOrder) = n
    BY <1>1 DEF Keys
  <2>4. ASSUME NEW i \in 1 .. n + 1
        PROVE  f[i] = IF i > n THEN << >>
                      ELSE IF data[KeyOrder[i]] = Absent THEN f[i + 1]
                      ELSE << Jsonl!RecordLine(KeyOrder[i], data[KeyOrder[i]]) >> \o f[i + 1]
    <3>1. CASE i = n + 1
      BY <1>1, <2>2, <3>1 DEF Writes
    <3>2. CASE i # n + 1
      <4>1. i \in 1 .. n /\ ~ (i > n)
        BY <3>2
      <4>2. f[i] = IF Has(data, i) THEN << Line(data, i) >> \o f[i + 1] ELSE f[i + 1]
        BY <1>1, <2>2, <4>1 DEF Writes
      <4> QED BY <4>1, <4>2 DEF Has, Line
    <3> QED BY <3>1, <3>2
  <2>5. f = [i \in 1 .. n + 1 |-> f[i]]
    BY <1>1, <2>2 DEF Writes
  <2>6. f = [i \in 1 .. n + 1 |->
                IF i > n THEN << >>
                ELSE IF data[KeyOrder[i]] = Absent THEN f[i + 1]
                ELSE << Jsonl!RecordLine(KeyOrder[i], data[KeyOrder[i]]) >> \o f[i + 1]]
    BY <2>4, <2>5, Zenon
  <2>7. Fits(f)
    BY <2>3, <2>6, Zenon
  <2> QED BY <2>7
<1>4. PICK t : t = Jsonl!LinesFrom(data)
  OBVIOUS
<1>5. Fits(t)
  BY <1>2, <1>3, <1>4
<1>6. t = [i \in 1 .. n + 1 |->
              IF i > n THEN << >>
              ELSE IF data[KeyOrder[i]] = Absent THEN t[i + 1]
              ELSE << Jsonl!RecordLine(KeyOrder[i], data[KeyOrder[i]]) >> \o t[i + 1]]
  BY <1>1, <1>5 DEF Keys
<1> HIDE DEF Fits
<1>7. t = [i \in 1 .. n + 1 |-> t[i]]
  BY <1>6
<1>8. t[n + 1] = << >>
  <2>1. n + 1 \in 1 .. n + 1 /\ n + 1 > n
    BY <1>1
  <2> QED BY <1>6, <2>1
<1>9. ASSUME NEW i \in 1 .. n
      PROVE  t[i] = IF Has(data, i) THEN << Line(data, i) >> \o t[i + 1] ELSE t[i + 1]
  <2>1. i \in 1 .. n + 1 /\ ~ (i > n)
    OBVIOUS
  <2>2. t[i] = IF data[KeyOrder[i]] = Absent THEN t[i + 1]
               ELSE << Jsonl!RecordLine(KeyOrder[i], data[KeyOrder[i]]) >> \o t[i + 1]
    BY <1>6, <2>1
  <2> QED BY <2>2 DEF Has, Line
<1> QED BY <1>1, <1>4, <1>7, <1>8, <1>9 DEF Writes

(* The next line is that of the first key that is present. *)
LEMMA NextLine ==
    ASSUME NEW data, NEW i \in 1 .. Keys + 1
    PROVE  \E j \in i .. Keys + 1 :
              /\ \A m \in i .. j - 1 : ~ Has(data, m)
              /\ IF j = Keys + 1 THEN Jsonl!LinesFrom(data)[i] = << >>
                 ELSE /\ Has(data, j)
                      /\ Jsonl!LinesFrom(data)[i] =
                            << Line(data, j) >> \o Jsonl!LinesFrom(data)[j + 1]
<1>1. PICK n \in Nat : n = Keys
  BY KeysAreOrdered
<1>2. PICK f : f = Jsonl!LinesFrom(data)
  OBVIOUS
<1>3. /\ f[n + 1] = << >>
      /\ \A j \in 1 .. n :
            f[j] = IF Has(data, j) THEN << Line(data, j) >> \o f[j + 1] ELSE f[j + 1]
  BY <1>1, <1>2, LinesFromIs DEF Writes
<1>4. PICK D : D = {j \in i .. n + 1 : j = n + 1 \/ Has(data, j)}
  OBVIOUS
<1>5. PICK j \in D : \A x \in D : j <= x
  <2>1. n + 1 \in D
    BY <1>1, <1>4
  <2>2. D \subseteq Nat
    BY <1>1, <1>4
  <2> QED BY <2>1, <2>2, LeastNatural
<1>6. j \in i .. n + 1 /\ (j = n + 1 \/ Has(data, j))
  BY <1>4, <1>5
<1>7. \A m \in i .. j - 1 : ~ Has(data, m)
  <2>1. SUFFICES ASSUME NEW m \in i .. j - 1, Has(data, m) PROVE FALSE
    OBVIOUS
  <2>2. m \in i .. n + 1 /\ ~ (j <= m)
    BY <1>1, <1>6
  <2> QED BY <1>4, <1>5, <2>1, <2>2
<1>8. f[j] = f[i]
  <2>1. PICK E : E = {m \in i .. j : f[m] # f[i]}
    OBVIOUS
  <2>2. SUFFICES ASSUME E # {} PROVE FALSE
    <3>1. j \in i .. j
      BY <1>1, <1>6
    <3> QED BY <2>1, <3>1
  <2>3. PICK m \in E : \A x \in E : m <= x
    <3>1. E \subseteq Nat
      BY <1>1, <1>6, <2>1
    <3> QED BY <2>2, <3>1, LeastNatural
  <2>4. m \in i .. j /\ f[m] # f[i]
    BY <2>1, <2>3
  <2>5. m # i
    BY <2>4
  <2>6. /\ m - 1 \in i .. j /\ m - 1 \in i .. j - 1 /\ m - 1 \in 1 .. n
        /\ ~ (m <= m - 1) /\ (m - 1) + 1 = m
    BY <1>1, <1>6, <2>4, <2>5
  <2>7. f[m - 1] = f[i]
    BY <2>1, <2>3, <2>6
  <2>8. ~ Has(data, m - 1)
    BY <1>7, <2>6
  <2>9. f[m - 1] = f[m]
    BY <1>3, <2>6, <2>8
  <2> QED BY <2>4, <2>7, <2>9
<1>9. CASE j = n + 1
  BY <1>1, <1>2, <1>3, <1>6, <1>7, <1>8, <1>9
<1>10. CASE j # n + 1
  <2>1. j \in 1 .. n /\ Has(data, j)
    BY <1>1, <1>6, <1>10
  <2>2. f[i] = << Line(data, j) >> \o f[j + 1]
    BY <1>3, <1>8, <2>1
  <2> QED BY <1>1, <1>2, <1>6, <1>7, <1>10, <2>1, <2>2
<1> QED BY <1>9, <1>10

AnyLine == [kind: {"record"}, key: Jsonl!Key, doc: Doc]
AnyData == [Jsonl!Key -> Doc \cup {Absent}]

LEMMA LinesAreRecords ==
    ASSUME NEW data \in AnyData, NEW i \in 1 .. Keys + 1
    PROVE  Jsonl!LinesFrom(data)[i] \in Seq(AnyLine)
<1>1. PICK n \in Nat : n = Keys
  BY KeysAreOrdered
<1>2. PICK f : f = Jsonl!LinesFrom(data)
  OBVIOUS
<1>3. /\ f[n + 1] = << >>
      /\ \A j \in 1 .. n :
            f[j] = IF Has(data, j) THEN << Line(data, j) >> \o f[j + 1] ELSE f[j + 1]
  BY <1>1, <1>2, LinesFromIs DEF Writes
<1>4. PICK D : D = {x \in 0 .. n : f[n + 1 - x] \notin Seq(AnyLine)}
  OBVIOUS
<1>5. SUFFICES ASSUME D # {} PROVE FALSE
  <2>1. PICK x \in 0 .. n : i = n + 1 - x
    <3>1. n + 1 - i \in 0 .. n /\ i = n + 1 - (n + 1 - i)
      BY <1>1
    <3> QED BY <3>1
  <2> QED BY <1>2, <1>4, <2>1
<1>6. PICK x \in D : \A y \in D : x <= y
  <2>1. D \subseteq Nat
    BY <1>4
  <2> QED BY <1>5, <2>1, LeastNatural
<1>7. x \in 0 .. n /\ f[n + 1 - x] \notin Seq(AnyLine)
  BY <1>4, <1>6
<1>8. x # 0
  <2>1. << >> \in Seq(AnyLine)
    BY EmptySeq
  <2>2. x = 0 => n + 1 - x = n + 1
    BY <1>1
  <2> QED BY <1>3, <1>7, <2>1, <2>2
<1>9. x - 1 \in 0 .. n /\ ~ (x <= x - 1)
  BY <1>7, <1>8
<1>10. PICK k \in 1 .. n : k = n + 1 - x /\ k + 1 = n + 1 - (x - 1)
  BY <1>1, <1>7, <1>8
<1>11. f[k + 1] \in Seq(AnyLine)
  BY <1>4, <1>6, <1>9, <1>10
<1>12. CASE ~ Has(data, k)
  BY <1>3, <1>7, <1>10, <1>11, <1>12
<1>13. CASE Has(data, k)
  <2>1. KeyOrder[k] \in Jsonl!Key
    BY <1>1, KeysAreOrdered
  <2>2. data[KeyOrder[k]] \in Doc
    BY <1>13, <2>1 DEF Has, AnyData
  <2>3. Line(data, k) \in AnyLine
    BY <2>1, <2>2 DEF Line, AnyLine, Jsonl!RecordLine
  <2>4. << Line(data, k) >> \in Seq(AnyLine)
    BY <2>3
  <2>5. << Line(data, k) >> \o f[k + 1] \in Seq(AnyLine)
    BY <1>11, <2>4, ConcatProperties
  <2> QED BY <1>3, <1>7, <1>10, <1>13, <2>5
<1> QED BY <1>12, <1>13

LEMMA FirstOfJoined ==
    ASSUME NEW x, NEW S, NEW s \in Seq(S)
    PROVE  /\ << x >> \o s # << >>
           /\ Head(<< x >> \o s) = x /\ Tail(<< x >> \o s) = s
<1>1. PICK T : T = S \cup {x}
  OBVIOUS
<1>2. s \in Seq(T) /\ << x >> \in Seq(T)
  BY <1>1, SeqMonotonic
<1>3. PICK n \in Nat : n = Len(s)
  BY LenProperties
<1>4. PICK t : t = << x >> \o s
  OBVIOUS
<1>5. /\ t \in Seq(T) /\ Len(t) = 1 + n
      /\ \A i \in 1 .. 1 + n : t[i] = IF i <= 1 THEN x ELSE s[i - 1]
  <2>1. Len(<< x >>) = 1 /\ << x >>[1] = x
    OBVIOUS
  <2>2. \A i \in 1 .. 1 + n : i <= 1 => i = 1
    OBVIOUS
  <2>3. /\ << x >> \o s \in Seq(T) /\ Len(<< x >> \o s) = Len(<< x >>) + Len(s)
        /\ \A i \in 1 .. Len(<< x >>) + Len(s) :
              (<< x >> \o s)[i] = IF i <= Len(<< x >>) THEN << x >>[i] ELSE s[i - Len(<< x >>)]
    BY <1>2, ConcatProperties
  <2> QED BY <1>3, <1>4, <2>1, <2>2, <2>3
<1>6. t # << >>
  BY <1>3, <1>5
<1>7. Head(t) = x
  BY <1>3, <1>5
<1>8. Tail(t) \in Seq(T) /\ Len(Tail(t)) = n /\ \A i \in 1 .. n : Tail(t)[i] = s[i]
  <2>1. /\ Tail(t) \in Seq(T) /\ Len(Tail(t)) = Len(t) - 1
        /\ \A i \in 1 .. Len(Tail(t)) : Tail(t)[i] = t[i + 1]
    BY <1>5, <1>6, HeadTailProperties
  <2>2. \A i \in 1 .. n : i + 1 \in 1 .. 1 + n /\ ~ (i + 1 <= 1) /\ (i + 1) - 1 = i
    BY <1>3
  <2> QED BY <1>3, <1>5, <2>1, <2>2
<1>9. Tail(t) = s
  BY <1>2, <1>3, <1>8, SeqEqual
<1> QED BY <1>4, <1>6, <1>7, <1>9

-----------------------------------------------------------------------------
(* What a batch makes of the data. *)
AnyOperation == [key: Jsonl!Key, doc: Doc \cup {Absent}]

(* The greatest of some indices. *)
LEMMA GreatestIndex ==
    ASSUME NEW n \in Nat, NEW D, D \subseteq 1 .. n, NEW m \in D, \A x \in D : m >= x
    PROVE  Jsonl!Max(D) = m
<1>1. Jsonl!Max(D) \in D /\ \A x \in D : Jsonl!Max(D) >= x
  BY DEF Jsonl!Max
<1>2. PICK g : g = Jsonl!Max(D)
  OBVIOUS
<1>3. g \in 1 .. n /\ m \in 1 .. n /\ g >= m /\ m >= g
  BY <1>1, <1>2
<1> QED BY <1>2, <1>3

LEMMA NothingApplied ==
    ASSUME NEW data \in AnyData
    PROVE  Jsonl!ApplyAll(data, << >>) = data
<1>1. \A k : {i \in DOMAIN << >> : << >>[i].key = k} = {}
  OBVIOUS
<1>2. Jsonl!ApplyAll(data, << >>) = [k \in Jsonl!Key |-> data[k]]
  BY <1>1, Zenon DEF Jsonl!ApplyAll
<1>3. data = [k \in Jsonl!Key |-> data[k]]
  BY DEF AnyData
<1> QED BY <1>2, <1>3

(* The operations on a key, and the last of them. *)
On(ops, k) == {i \in DOMAIN ops : ops[i].key = k}
After(data, ops, k) == IF On(ops, k) = {} THEN data[k] ELSE ops[Jsonl!Max(On(ops, k))].doc

LEMMA ApplyAllIs ==
    ASSUME NEW data, NEW ops
    PROVE  Jsonl!ApplyAll(data, ops) = [k \in Jsonl!Key |-> After(data, ops, k)]
BY Zenon DEF Jsonl!ApplyAll, After, On

LEMMA LastOnKey ==
    ASSUME NEW ops \in Seq(AnyOperation), NEW k, On(ops, k) # {}
    PROVE  /\ Jsonl!Max(On(ops, k)) \in On(ops, k)
           /\ \A i \in On(ops, k) : Jsonl!Max(On(ops, k)) >= i
<1>1. PICK n \in Nat : n = Len(ops) /\ DOMAIN ops = 1 .. n
  BY LenProperties
<1>2. PICK D : D = On(ops, k)
  OBVIOUS
<1>3. D \subseteq 1 .. n
  BY <1>1, <1>2 DEF On
<1>4. PICK E : E = {n - i : i \in D}
  OBVIOUS
<1>5. E \subseteq Nat
  BY <1>3, <1>4
<1>6. E # {}
  BY <1>2, <1>4
<1>7. PICK e \in E : \A x \in E : e <= x
  BY <1>5, <1>6, LeastNatural
<1>8. PICK m \in D : e = n - m
  BY <1>4, <1>7
<1>9. ASSUME NEW i \in D PROVE m >= i
  <2>1. n - i \in E
    BY <1>4
  <2>2. n - m <= n - i
    BY <1>7, <1>8, <2>1
  <2> QED BY <1>3, <2>2
<1>10. Jsonl!Max(D) = m
  BY <1>3, <1>9, GreatestIndex
<1> QED BY <1>2, <1>9, <1>10

LEMMA DataAfter ==
    ASSUME NEW data \in AnyData, NEW ops \in Seq(AnyOperation)
    PROVE  Jsonl!ApplyAll(data, ops) \in AnyData
<1>1. ASSUME NEW k \in Jsonl!Key PROVE After(data, ops, k) \in Doc \cup {Absent}
  <2>1. CASE On(ops, k) = {}
    BY <2>1 DEF After, AnyData
  <2>2. CASE On(ops, k) # {}
    <3>1. PICK i : i = Jsonl!Max(On(ops, k))
      OBVIOUS
    <3>2. i \in DOMAIN ops
      BY <2>2, <3>1, LastOnKey DEF On
    <3>3. ops[i] \in AnyOperation
      BY <3>2, ElementOfSeq, LenProperties
    <3> QED BY <2>2, <3>1, <3>3 DEF After, AnyOperation
  <2> QED BY <2>1, <2>2
<1> QED BY <1>1, ApplyAllIs DEF AnyData

(* One operation more. *)
LEMMA AppliedLast ==
    ASSUME NEW data \in AnyData, NEW ops \in Seq(AnyOperation), NEW op \in AnyOperation
    PROVE  Jsonl!ApplyAll(data, Append(ops, op)) =
               [Jsonl!ApplyAll(data, ops) EXCEPT ![op.key] = op.doc]
<1>1. PICK n \in Nat : n = Len(ops) /\ DOMAIN ops = 1 .. n
  BY LenProperties
<1>2. PICK more : more = Append(ops, op)
  OBVIOUS
<1>3. /\ more \in Seq(AnyOperation) /\ DOMAIN more = 1 .. n + 1 /\ more[n + 1] = op
      /\ \A i \in 1 .. n : more[i] = ops[i]
  BY <1>1, <1>2, AppendProperties, LenProperties
<1>4. ASSUME NEW k, k # op.key PROVE After(data, more, k) = After(data, ops, k)
  <2>1. On(more, k) = On(ops, k)
    <3>1. \A i : i \in On(more, k) <=> i \in 1 .. n + 1 /\ more[i].key = k
      BY <1>3 DEF On
    <3>2. \A i : i \in On(ops, k) <=> i \in 1 .. n /\ ops[i].key = k
      BY <1>1 DEF On
    <3>3. \A i \in 1 .. n + 1 : i = n + 1 \/ i \in 1 .. n
      BY <1>1
    <3>4. \A i \in 1 .. n : i \in 1 .. n + 1
      BY <1>1
    <3>5. \A i : i \in On(more, k) => i \in On(ops, k)
      BY <1>3, <1>4, <3>1, <3>2, <3>3
    <3>6. \A i : i \in On(ops, k) => i \in On(more, k)
      BY <1>3, <3>1, <3>2, <3>4
    <3> QED BY <3>5, <3>6
  <2>2. CASE On(ops, k) = {}
    BY <2>1, <2>2 DEF After
  <2>3. CASE On(ops, k) # {}
    <3>1. PICK i : i = Jsonl!Max(On(ops, k))
      OBVIOUS
    <3>2. i \in 1 .. n
      BY <1>1, <2>3, <3>1, LastOnKey DEF On
    <3>3. more[i] = ops[i]
      BY <1>3, <3>2
    <3> QED BY <2>1, <2>3, <3>1, <3>3 DEF After
  <2> QED BY <2>2, <2>3
<1>5. After(data, more, op.key) = op.doc
  <2>1. n + 1 \in On(more, op.key)
    BY <1>3 DEF On
  <2>2. On(more, op.key) \subseteq 1 .. n + 1
    BY <1>3 DEF On
  <2>3. \A i \in On(more, op.key) : n + 1 >= i
    BY <2>2
  <2>4. n + 1 \in Nat
    OBVIOUS
  <2>5. Jsonl!Max(On(more, op.key)) = n + 1
    BY <2>1, <2>2, <2>3, <2>4, GreatestIndex
  <2> QED BY <1>3, <2>1, <2>5 DEF After
<1>6. PICK f : f = Jsonl!ApplyAll(data, ops)
  OBVIOUS
<1>7. PICK g : g = Jsonl!ApplyAll(data, more)
  OBVIOUS
<1>8. f = [k \in Jsonl!Key |-> After(data, ops, k)] /\ g = [k \in Jsonl!Key |-> After(data, more, k)]
  BY <1>6, <1>7, ApplyAllIs
<1>9. \A k \in Jsonl!Key : g[k] = IF k = op.key THEN op.doc ELSE f[k]
  BY <1>4, <1>5, <1>8
<1>10. g = [f EXCEPT ![op.key] = op.doc]
  BY <1>8, <1>9
<1> QED BY <1>2, <1>6, <1>7, <1>10

(* The documents under the keys before the i-th. *)
Before(i) == {KeyOrder[j] : j \in 1 .. i - 1}
Below(data, i) == [k \in Jsonl!Key |-> IF k \in Before(i) THEN data[k] ELSE Absent]

LEMMA NothingBelow == \A data : Below(data, 1) = Jsonl!EmptyMap
<1>1. Before(1) = {}
  BY DEF Before
<1> QED BY <1>1 DEF Below, Jsonl!EmptyMap

(* A key that is absent, or written, counts as one below. *)
LEMMA BelowNext ==
    ASSUME NEW data \in AnyData, NEW i \in 1 .. Keys + 1, NEW j \in i .. Keys,
           \A m \in i .. j - 1 : ~ Has(data, m)
    PROVE  Below(data, j + 1) = [Below(data, i) EXCEPT ![KeyOrder[j]] = data[KeyOrder[j]]]
<1>1. PICK n \in Nat : n = Keys
  BY KeysAreOrdered
<1>2. i \in 1 .. n + 1 /\ j \in i .. n
  BY <1>1
<1>3. \A m \in 1 .. (j + 1) - 1 : m \in 1 .. i - 1 \/ m \in i .. j - 1 \/ m = j
  BY <1>2
<1>4. \A m \in 1 .. i - 1 : m \in 1 .. (j + 1) - 1
  BY <1>2
<1>5. j \in 1 .. (j + 1) - 1 /\ j \in 1 .. n
  BY <1>2
<1>6. KeyOrder[j] \in Jsonl!Key
  BY <1>1, <1>5, KeysAreOrdered
<1>7. KeyOrder[j] \in Before(j + 1)
  BY <1>5 DEF Before
<1>8. ASSUME NEW k \in Jsonl!Key, k # KeyOrder[j]
      PROVE  (IF k \in Before(j + 1) THEN data[k] ELSE Absent)
                = (IF k \in Before(i) THEN data[k] ELSE Absent)
  <2>1. CASE k \in Before(i)
    <3>1. k \in Before(j + 1)
      BY <1>4, <2>1 DEF Before
    <3> QED BY <2>1, <3>1
  <2>2. CASE k \notin Before(i)
    <3>1. SUFFICES ASSUME k \in Before(j + 1) PROVE data[k] = Absent
      BY <2>2
    <3>2. PICK m \in 1 .. (j + 1) - 1 : k = KeyOrder[m]
      BY <3>1 DEF Before
    <3>3. m \in i .. j - 1
      BY <1>3, <1>8, <2>2, <3>2 DEF Before
    <3> QED BY <3>2, <3>3 DEF Has
  <2> QED BY <2>1, <2>2
<1>9. PICK f : f = Below(data, i)
  OBVIOUS
<1>10. PICK g : g = Below(data, j + 1)
  OBVIOUS
<1>11. \A k \in Jsonl!Key : g[k] = IF k = KeyOrder[j] THEN data[KeyOrder[j]] ELSE f[k]
  BY <1>7, <1>8, <1>9, <1>10 DEF Below
<1>12. f = [k \in Jsonl!Key |-> f[k]] /\ g = [k \in Jsonl!Key |-> g[k]]
  BY <1>9, <1>10 DEF Below
<1>13. g = [f EXCEPT ![KeyOrder[j]] = data[KeyOrder[j]]]
  BY <1>11, <1>12
<1> QED BY <1>9, <1>10, <1>13

LEMMA BelowAll ==
    ASSUME NEW data \in AnyData, NEW i \in 1 .. Keys + 1,
           \A m \in i .. Keys : ~ Has(data, m)
    PROVE  Below(data, i) = data
<1>1. PICK n \in Nat : n = Keys
  BY KeysAreOrdered
<1>2. ASSUME NEW k \in Jsonl!Key, k \notin Before(i) PROVE data[k] = Absent
  <2>1. PICK m \in 1 .. n : k = KeyOrder[m]
    BY <1>1, KeysAreOrdered DEF Range
  <2>2. m \in 1 .. i - 1 \/ m \in i .. n
    BY <1>1
  <2>3. m \notin 1 .. i - 1
    BY <1>2, <2>1 DEF Before
  <2> QED BY <1>1, <2>1, <2>2, <2>3 DEF Has
<1>3. PICK g : g = Below(data, i)
  OBVIOUS
<1>4. g = [k \in Jsonl!Key |-> g[k]] /\ \A k \in Jsonl!Key : g[k] = data[k]
  BY <1>2, <1>3 DEF Below
<1>5. data = [k \in Jsonl!Key |-> data[k]]
  BY DEF AnyData
<1>6. g = data
  BY <1>4, <1>5
<1> QED BY <1>3, <1>6

-----------------------------------------------------------------------------
(* The import.  The lines that are left are those from some key on, and what is
   committed, with the batch on top, is the data below that key. *)
AnySchema == Schemas \cup {NoSchema}
Database == [schema: AnySchema, data: AnyData]

AtSchemaLine ==
    /\ source.schema # NoSchema
    /\ lines = << Jsonl!SchemaLine(source.schema) >> \o Jsonl!LinesFrom(source.data)[1]
    /\ target = NoDatabase /\ operations = << >>

AtKey(i) ==
    /\ target \in Database \cup {NoDatabase}
    /\ operations \in Seq(AnyOperation)
    /\ Jsonl!Opened.schema = source.schema
    /\ lines = Jsonl!LinesFrom(source.data)[i]
    /\ Jsonl!ApplyAll(Jsonl!Opened.data, operations) = Below(source.data, i)

ImportSoFar == AtSchemaLine \/ \E i \in 1 .. Keys + 1 : AtKey(i)

ImportInv ==
    /\ source \in Database \cup {NoDatabase}
    /\ step # "new" => source \in Database
    /\ step \in {"new", "open"} => target = NoDatabase /\ operations = << >>
    /\ step = "import" => ImportSoFar
    /\ step = "imported" => target = source

LEMMA NoDatabaseIsNone == NoDatabase \notin Database
<1>1. AnyData = [Range(KeyOrder) -> Doc \cup {Absent}]
  BY KeysAreOrdered DEF AnyData
<1> QED BY <1>1, JsonlConstants DEF Database, AnySchema

LEMMA CreatedIsDatabase ==
    ASSUME NEW schema \in AnySchema
    PROVE  /\ Jsonl!Created(schema) \in Database
           /\ Jsonl!Created(schema).schema = schema
           /\ Jsonl!Created(schema).data = Jsonl!EmptyMap
           /\ Jsonl!EmptyMap \in AnyData
<1>1. Jsonl!EmptyMap \in AnyData
  BY DEF Jsonl!EmptyMap, AnyData
<1> QED BY <1>1 DEF Jsonl!Created, Database

LEMMA CommittedIsDatabase ==
    ASSUME NEW db \in Database, NEW ops \in Seq(AnyOperation)
    PROVE  /\ Jsonl!Committed(db, ops) \in Database
           /\ Jsonl!Committed(db, ops).schema = db.schema
           /\ Jsonl!Committed(db, ops).data = Jsonl!ApplyAll(db.data, ops)
<1>1. db.data \in AnyData
  BY DEF Database
<1>2. Jsonl!ApplyAll(db.data, ops) \in AnyData
  BY <1>1, DataAfter
<1> QED BY <1>2 DEF Jsonl!Committed, Database

LEMMA OpenedIsDatabase ==
    ASSUME target \in Database \cup {NoDatabase}
    PROVE  Jsonl!Opened \in Database
BY CreatedIsDatabase DEF Jsonl!Opened, AnySchema

LEMMA TransactionsAreBatches == Jsonl!Transactions \subseteq Seq(AnyOperation)
<1>1. Jsonl!Operation = AnyOperation
  BY DEF Jsonl!Operation, AnyOperation
<1>2. \A op \in AnyOperation : << op >> \in Seq(AnyOperation)
  OBVIOUS
<1>3. \A op1, op2 \in AnyOperation : << op1, op2 >> \in Seq(AnyOperation)
  OBVIOUS
<1>4. ASSUME NEW ops \in Jsonl!Transactions PROVE ops \in Seq(AnyOperation)
  <2>1. CASE \E op \in AnyOperation : ops = << op >>
    BY <1>2, <2>1
  <2>2. CASE ops \in AnyOperation \X AnyOperation
    <3>1. ops = << ops[1], ops[2] >> /\ ops[1] \in AnyOperation /\ ops[2] \in AnyOperation
      BY <2>2
    <3> QED BY <1>3, <3>1, Zenon
  <2>3. \/ ops \in {<< op >> : op \in AnyOperation}
        \/ ops \in AnyOperation \X AnyOperation
    BY <1>1, <1>4, Zenon DEF Jsonl!Transactions
  <2> QED BY <2>1, <2>2, <2>3
<1> QED BY <1>4

LEMMA ImportStarts ==
    ASSUME Jsonl!Init PROVE ImportInv
BY DEF Jsonl!Init, ImportInv

LEMMA CreateKeeps ==
    ASSUME ImportInv, NEW schema \in AnySchema, Jsonl!Create(schema)
    PROVE  ImportInv'
<1>1. source' \in Database
  BY CreatedIsDatabase DEF Jsonl!Create
<1>2. source' \in (Database \cup {NoDatabase})'
  BY <1>1
<1> QED BY <1>1 DEF ImportInv, Jsonl!Create

LEMMA TransactionKeeps ==
    ASSUME ImportInv, NEW ops \in Jsonl!Transactions, Jsonl!Transaction(ops)
    PROVE  ImportInv'
<1>1. source \in Database /\ ops \in Seq(AnyOperation)
  BY TransactionsAreBatches DEF ImportInv, Jsonl!Transaction
<1>2. source' \in Database
  BY <1>1, CommittedIsDatabase DEF Jsonl!Transaction
<1> QED BY <1>2 DEF ImportInv, Jsonl!Transaction

LEMMA ReopenKeeps ==
    ASSUME ImportInv, Jsonl!Reopen PROVE ImportInv'
BY DEF ImportInv, Jsonl!Reopen

LEMMA ExportLinesKeeps ==
    ASSUME ImportInv, Jsonl!Export PROVE ImportInv'
<1>1. /\ source \in Database /\ target = NoDatabase /\ operations = << >>
      /\ source' = source /\ target' = target /\ operations' = operations
      /\ step' = "import" /\ lines' = Jsonl!Exported(source)
  BY DEF ImportInv, Jsonl!Export
<1>2. source.data \in AnyData
  BY <1>1 DEF Database
<1>3. PICK n \in Nat : n = Keys
  BY KeysAreOrdered
<1>4. 1 \in 1 .. Keys + 1
  BY <1>3
<1>5. Jsonl!LinesFrom(source.data)[1] \in Seq(AnyLine)
  BY <1>2, <1>4, LinesAreRecords
<1>6. CASE source.schema # NoSchema
  <2>1. lines' = << Jsonl!SchemaLine(source.schema) >> \o Jsonl!LinesFrom(source.data)[1]
    BY <1>1, <1>6 DEF Jsonl!Exported
  <2>2. (lines = << Jsonl!SchemaLine(source.schema) >> \o Jsonl!LinesFrom(source.data)[1])'
    BY <1>1, <2>1, Zenon DEF Jsonl!SchemaLine, Jsonl!LinesFrom, Jsonl!RecordLine
  <2>3. AtSchemaLine'
    BY <1>1, <1>6, <2>2 DEF AtSchemaLine
  <2> QED BY <1>1, <2>3 DEF ImportInv, ImportSoFar
<1>7. CASE source.schema = NoSchema
  <2>1. Jsonl!Exported(source) = << >> \o Jsonl!LinesFrom(source.data)[1]
    BY <1>7 DEF Jsonl!Exported
  <2>2. lines' = Jsonl!LinesFrom(source.data)[1]
    BY <1>1, <1>5, <2>1, ConcatEmptySeq
  <2>3. /\ Jsonl!Opened = Jsonl!Created(NoSchema) /\ NoSchema \in AnySchema
        /\ Jsonl!Opened' = Jsonl!Created(NoSchema)
    BY <1>1 DEF Jsonl!Opened, AnySchema, Jsonl!Created, Jsonl!EmptyMap, Jsonl!Key
  <2>4. Jsonl!ApplyAll(Jsonl!EmptyMap, << >>) = Below(source.data, 1)
    BY NothingApplied, NothingBelow, CreatedIsDatabase, <2>3
  <2>5. AtKey(1)'
    <3>1. (Jsonl!Opened.schema = source.schema)'
      BY <1>1, <1>7, <2>3, CreatedIsDatabase
    <3>2. Jsonl!ApplyAll(Jsonl!Opened.data, operations)' = Jsonl!ApplyAll(Jsonl!EmptyMap, << >>)
      <4>1. Jsonl!Opened'.data = Jsonl!EmptyMap
        BY <2>3, CreatedIsDatabase
      <4>2. Jsonl!ApplyAll(Jsonl!Opened.data, operations)'
                = Jsonl!ApplyAll(Jsonl!Opened'.data, operations')
        BY Zenon DEF Jsonl!ApplyAll, Jsonl!Key, Jsonl!Max
      <4> QED BY <1>1, <4>1, <4>2
    <3>3. Below(source.data, 1)' = Below(source.data, 1)
      BY <1>1, Zenon DEF Below, Before, Jsonl!Key
    <3>4. << >> \in Seq(AnyOperation)
      BY EmptySeq
    <3>5. (operations \in Seq(AnyOperation))'
      BY <1>1, <3>4, Zenon DEF AnyOperation, Jsonl!Key
    <3>6. (lines = Jsonl!LinesFrom(source.data)[1])'
      BY <1>1, <2>2, Zenon DEF Jsonl!LinesFrom, Jsonl!RecordLine
    <3>7. (target \in Database \cup {NoDatabase})'
      BY <1>1
    <3> QED BY <2>4, <3>1, <3>2, <3>3, <3>5, <3>6, <3>7 DEF AtKey
  <2>6. ImportSoFar'
    BY <1>4, <2>5 DEF ImportSoFar
  <2> QED BY <1>1, <2>6 DEF ImportInv
<1> QED BY <1>6, <1>7

(* Nothing of the state of the import but its three variables changes the claim. *)
LEMMA AtKeyPrimed ==
    ASSUME NEW i, source' = source,
           target' \in Database \cup {NoDatabase}, operations' \in Seq(AnyOperation),
           Jsonl!Opened'.schema = source.schema,
           lines' = Jsonl!LinesFrom(source.data)[i],
           Jsonl!ApplyAll(Jsonl!Opened'.data, operations') = Below(source.data, i)
    PROVE  AtKey(i)'
<1>1. Jsonl!ApplyAll(Jsonl!Opened.data, operations)'
          = Jsonl!ApplyAll(Jsonl!Opened'.data, operations')
  BY Zenon DEF Jsonl!ApplyAll, Jsonl!Key, Jsonl!Max
<1>2. Below(source.data, i)' = Below(source'.data, i)
  BY Zenon DEF Below, Before, Jsonl!Key
<1>3. Jsonl!LinesFrom(source.data)' = Jsonl!LinesFrom(source'.data)
  BY Zenon DEF Jsonl!LinesFrom, Jsonl!RecordLine
<1>4. (operations \in Seq(AnyOperation))'
  BY Zenon DEF AnyOperation, Jsonl!Key
<1>5. (target \in Database \cup {NoDatabase})'
  BY Zenon DEF Database, AnyData, AnySchema, Jsonl!Key
<1> QED BY <1>1, <1>2, <1>3, <1>4, <1>5 DEF AtKey

(* The two ways for an import to go on. *)
LEMMA ImportGoesOn ==
    ASSUME ImportInv, source' = source, step = "import", step' = "import",
           NEW i \in 1 .. Keys + 1, AtKey(i)'
    PROVE  ImportInv'
<1>1. ImportSoFar'
  BY DEF ImportSoFar
<1> QED BY <1>1 DEF ImportInv

LEMMA RefusedKeeps ==
    ASSUME ImportInv, source' = source, step' = "refused", step = "import"
    PROVE  ImportInv'
BY DEF ImportInv

LEMMA SchemaLineKeeps ==
    ASSUME ImportInv, Jsonl!ImportSchema PROVE ImportInv'
<1>1. /\ step = "import" /\ ImportSoFar /\ source \in Database
      /\ lines # << >> /\ Head(lines).kind = "schema"
  BY DEF ImportInv, Jsonl!ImportSchema
<1>2. source.data \in AnyData /\ source.schema \in AnySchema
  BY <1>1 DEF Database
<1>3. PICK n \in Nat : n = Keys
  BY KeysAreOrdered
<1>4. 1 \in 1 .. Keys + 1
  BY <1>3
<1>5. AtSchemaLine
  <2>1. SUFFICES ASSUME NEW i \in 1 .. Keys + 1, AtKey(i) PROVE FALSE
    BY <1>1 DEF ImportSoFar
  <2>2. PICK j \in i .. Keys + 1 :
            IF j = Keys + 1 THEN lines = << >>
            ELSE lines = << Line(source.data, j) >> \o Jsonl!LinesFrom(source.data)[j + 1]
    BY <2>1, NextLine DEF AtKey
  <2>3. j # Keys + 1 /\ j + 1 \in 1 .. Keys + 1
    BY <1>1, <1>3, <2>2
  <2>4. Head(lines) = Line(source.data, j)
    BY <1>2, <2>2, <2>3, LinesAreRecords, FirstOfJoined
  <2> QED BY <1>1, <2>4 DEF Line, Jsonl!RecordLine
<1>6. /\ source.schema # NoSchema /\ target = NoDatabase /\ operations = << >>
      /\ Head(lines) = Jsonl!SchemaLine(source.schema)
      /\ Tail(lines) = Jsonl!LinesFrom(source.data)[1]
  BY <1>2, <1>4, <1>5, LinesAreRecords, FirstOfJoined DEF AtSchemaLine
<1>7. Head(lines).schema = source.schema
  BY <1>6 DEF Jsonl!SchemaLine
<1>8. \/ Jsonl!Refuse
      \/ /\ target' = Jsonl!Created(source.schema) /\ lines' = Tail(lines)
         /\ UNCHANGED << source, commits, operations, step >>
  BY <1>7, Zenon DEF Jsonl!ImportSchema
<1>9. CASE Jsonl!Refuse
  BY <1>1, <1>9, RefusedKeeps DEF Jsonl!Refuse
<1>10. CASE /\ target' = Jsonl!Created(source.schema) /\ lines' = Tail(lines)
            /\ UNCHANGED << source, commits, operations, step >>
  <2>1. target' \in Database /\ target' # NoDatabase
    BY <1>2, <1>10, CreatedIsDatabase, NoDatabaseIsNone
  <2>2. Jsonl!Opened' = Jsonl!Created(source.schema)
    BY <1>10, <2>1 DEF Jsonl!Opened
  <2>3. /\ Jsonl!Opened'.schema = source.schema
        /\ Jsonl!ApplyAll(Jsonl!Opened'.data, operations') = Below(source.data, 1)
    BY <1>2, <1>6, <1>10, <2>2, CreatedIsDatabase, NothingApplied, NothingBelow
  <2>4. << >> \in Seq(AnyOperation)
    BY EmptySeq
  <2>5. AtKey(1)'
    BY <1>6, <1>10, <2>1, <2>3, <2>4, AtKeyPrimed
  <2> QED BY <1>1, <1>4, <1>10, <2>5, ImportGoesOn
<1> QED BY <1>8, <1>9, <1>10

LEMMA RecordLineKeeps ==
    ASSUME ImportInv, Jsonl!ImportRecord PROVE ImportInv'
<1>1. /\ step = "import" /\ ImportSoFar /\ source \in Database /\ source' = source
      /\ lines # << >> /\ Head(lines).kind = "record"
  BY DEF ImportInv, Jsonl!ImportRecord
<1>2. source.data \in AnyData
  BY <1>1 DEF Database
<1>3. PICK n \in Nat : n = Keys
  BY KeysAreOrdered
<1>4. PICK i \in 1 .. Keys + 1 : AtKey(i)
  <2>1. SUFFICES ASSUME AtSchemaLine PROVE FALSE
    BY <1>1 DEF ImportSoFar
  <2>2. 1 \in 1 .. Keys + 1
    BY <1>3
  <2>3. Head(lines) = Jsonl!SchemaLine(source.schema)
    BY <1>2, <2>1, <2>2, LinesAreRecords, FirstOfJoined DEF AtSchemaLine
  <2> QED BY <1>1, <2>3 DEF Jsonl!SchemaLine
<1>5. /\ target \in Database \cup {NoDatabase} /\ operations \in Seq(AnyOperation)
      /\ Jsonl!Opened.schema = source.schema
      /\ lines = Jsonl!LinesFrom(source.data)[i]
      /\ Jsonl!ApplyAll(Jsonl!Opened.data, operations) = Below(source.data, i)
  BY <1>4 DEF AtKey
<1>6. PICK j \in i .. Keys :
          /\ \A m \in i .. j - 1 : ~ Has(source.data, m)
          /\ Has(source.data, j)
          /\ lines = << Line(source.data, j) >> \o Jsonl!LinesFrom(source.data)[j + 1]
  <2>1. PICK j \in i .. Keys + 1 :
            /\ \A m \in i .. j - 1 : ~ Has(source.data, m)
            /\ IF j = Keys + 1 THEN lines = << >>
               ELSE /\ Has(source.data, j)
                    /\ lines = << Line(source.data, j) >> \o Jsonl!LinesFrom(source.data)[j + 1]
    <3>1. \E j \in i .. Keys + 1 :
              /\ \A m \in i .. j - 1 : ~ Has(source.data, m)
              /\ IF j = Keys + 1 THEN Jsonl!LinesFrom(source.data)[i] = << >>
                 ELSE /\ Has(source.data, j)
                      /\ Jsonl!LinesFrom(source.data)[i] =
                            << Line(source.data, j) >> \o Jsonl!LinesFrom(source.data)[j + 1]
      BY NextLine
    <3> QED BY <1>5, <3>1, Zenon
  <2>2. j # Keys + 1
    BY <1>1, <2>1
  <2>3. j \in i .. Keys
    BY <1>3, <2>2
  <2> QED BY <2>1, <2>2, <2>3
<1>7. j \in 1 .. Keys /\ j + 1 \in 1 .. Keys + 1
  BY <1>3
<1>8. Head(lines) = Line(source.data, j) /\ Tail(lines) = Jsonl!LinesFrom(source.data)[j + 1]
  BY <1>2, <1>6, <1>7, LinesAreRecords, FirstOfJoined
<1>9. PICK op : op = [key |-> KeyOrder[j], doc |-> source.data[KeyOrder[j]]]
  OBVIOUS
<1>10. op \in AnyOperation
  <2>1. KeyOrder[j] \in Jsonl!Key
    BY <1>7, KeysAreOrdered
  <2> QED BY <1>2, <1>9, <2>1 DEF AnyOperation, AnyData
<1>11. [key |-> Head(lines).key, doc |-> Head(lines).doc] = op
  <2>1. Head(lines).key = KeyOrder[j] /\ Head(lines).doc = source.data[KeyOrder[j]]
    BY <1>8 DEF Line, Jsonl!RecordLine
  <2> QED BY <1>9, <2>1
<1>12. PICK batch : batch = Append(operations, op)
  OBVIOUS
<1>13. batch \in Seq(AnyOperation)
  BY <1>5, <1>10, <1>12, AppendProperties
<1>14. Jsonl!Opened \in Database
  BY <1>5, OpenedIsDatabase
<1>15. Jsonl!ApplyAll(Jsonl!Opened.data, batch) = Below(source.data, j + 1)
  <2>1. Jsonl!Opened.data \in AnyData
    BY <1>14 DEF Database
  <2>2. Jsonl!ApplyAll(Jsonl!Opened.data, batch) =
            [Below(source.data, i) EXCEPT ![op.key] = op.doc]
    BY <1>5, <1>10, <1>12, <2>1, AppliedLast
  <2>3. op.key = KeyOrder[j] /\ op.doc = source.data[KeyOrder[j]]
    BY <1>9
  <2>4. Below(source.data, j + 1) =
            [Below(source.data, i) EXCEPT ![KeyOrder[j]] = source.data[KeyOrder[j]]]
    BY <1>2, <1>6, BelowNext
  <2> QED BY <2>2, <2>3, <2>4
<1>16. \/ /\ operations' = batch /\ lines' = Tail(lines)
          /\ target' = target /\ step' = step
       \/ /\ target' = Jsonl!Committed(Jsonl!Opened, batch) /\ operations' = << >>
          /\ lines' = Tail(lines) /\ step' = step
       \/ step' = "refused"
  BY <1>11, <1>12, Zenon DEF Jsonl!ImportRecord
<1>17. CASE /\ operations' = batch /\ lines' = Tail(lines)
            /\ target' = target /\ step' = step
  <2>1. Jsonl!Opened' = Jsonl!Opened
    BY <1>17, Zenon DEF Jsonl!Opened, Jsonl!Created, Jsonl!EmptyMap, Jsonl!Key
  <2>2. AtKey(j + 1)'
    BY <1>1, <1>5, <1>8, <1>13, <1>15, <1>17, <2>1, AtKeyPrimed
  <2> QED BY <1>1, <1>7, <1>17, <2>2, ImportGoesOn
<1>18. CASE /\ target' = Jsonl!Committed(Jsonl!Opened, batch) /\ operations' = << >>
            /\ lines' = Tail(lines) /\ step' = step
  <2>1. /\ target' \in Database /\ target'.schema = source.schema
        /\ target'.data = Below(source.data, j + 1)
    BY <1>5, <1>13, <1>14, <1>15, <1>18, CommittedIsDatabase
  <2>2. target' # NoDatabase
    BY <2>1, NoDatabaseIsNone
  <2>3. Jsonl!Opened' = target'
    BY <2>2, Zenon DEF Jsonl!Opened
  <2>4. target'.data \in AnyData
    BY <2>1 DEF Database
  <2>5. Jsonl!ApplyAll(Jsonl!Opened'.data, operations') = Below(source.data, j + 1)
    BY <1>18, <2>1, <2>3, <2>4, NothingApplied
  <2>6. << >> \in Seq(AnyOperation)
    BY EmptySeq
  <2>7. AtKey(j + 1)'
    BY <1>1, <1>8, <1>18, <2>1, <2>3, <2>5, <2>6, AtKeyPrimed
  <2> QED BY <1>1, <1>7, <1>18, <2>7, ImportGoesOn
<1>19. CASE step' = "refused"
  BY <1>1, <1>19, RefusedKeeps
<1> QED BY <1>16, <1>17, <1>18, <1>19

LEMMA LastLineKeeps ==
    ASSUME ImportInv, Jsonl!ImportEnd PROVE ImportInv'
<1>1. /\ step = "import" /\ ImportSoFar /\ source \in Database /\ source' = source
      /\ lines = << >>
  BY DEF ImportInv, Jsonl!ImportEnd, Jsonl!Refuse
<1>2. source.data \in AnyData
  BY <1>1 DEF Database
<1>3. PICK n \in Nat : n = Keys
  BY KeysAreOrdered
<1>4. PICK i \in 1 .. Keys + 1 : AtKey(i)
  <2>1. SUFFICES ASSUME AtSchemaLine PROVE FALSE
    BY <1>1 DEF ImportSoFar
  <2>2. 1 \in 1 .. Keys + 1
    BY <1>3
  <2>3. lines # << >>
    BY <1>2, <2>1, <2>2, LinesAreRecords, FirstOfJoined DEF AtSchemaLine
  <2> QED BY <1>1, <2>3
<1>5. /\ target \in Database \cup {NoDatabase} /\ operations \in Seq(AnyOperation)
      /\ Jsonl!Opened.schema = source.schema
      /\ lines = Jsonl!LinesFrom(source.data)[i]
      /\ Jsonl!ApplyAll(Jsonl!Opened.data, operations) = Below(source.data, i)
  BY <1>4 DEF AtKey
<1>6. \A m \in i .. Keys : ~ Has(source.data, m)
  <2>1. PICK j \in i .. Keys + 1 :
            /\ \A m \in i .. j - 1 : ~ Has(source.data, m)
            /\ j # Keys + 1 =>
                  lines = << Line(source.data, j) >> \o Jsonl!LinesFrom(source.data)[j + 1]
    <3>1. \E j \in i .. Keys + 1 :
              /\ \A m \in i .. j - 1 : ~ Has(source.data, m)
              /\ IF j = Keys + 1 THEN Jsonl!LinesFrom(source.data)[i] = << >>
                 ELSE /\ Has(source.data, j)
                      /\ Jsonl!LinesFrom(source.data)[i] =
                            << Line(source.data, j) >> \o Jsonl!LinesFrom(source.data)[j + 1]
      BY NextLine
    <3> QED BY <1>5, <3>1, Zenon
  <2>2. j = Keys + 1
    <3>1. SUFFICES ASSUME j # Keys + 1 PROVE FALSE
      OBVIOUS
    <3>2. j + 1 \in 1 .. Keys + 1
      BY <1>3, <3>1
    <3>3. lines # << >>
      BY <1>2, <2>1, <3>1, <3>2, LinesAreRecords, FirstOfJoined
    <3> QED BY <1>1, <3>3
  <2>3. Keys = j - 1
    BY <1>3, <2>2
  <2> QED BY <2>1, <2>3
<1>7. Below(source.data, i) = source.data
  BY <1>2, <1>6, BelowAll
<1>8. Jsonl!Opened \in Database
  BY <1>5, OpenedIsDatabase
<1>9. Jsonl!LastBatch = source
  <2>1. /\ Jsonl!LastBatch \in Database /\ Jsonl!LastBatch.schema = source.schema
        /\ Jsonl!LastBatch.data = source.data
    <3>1. CASE operations = << >>
      <4>1. Jsonl!Opened.data \in AnyData
        BY <1>8 DEF Database
      <4>2. Jsonl!Opened.data = source.data
        BY <1>5, <1>7, <3>1, <4>1, NothingApplied
      <4> QED BY <1>5, <1>8, <3>1, <4>2 DEF Jsonl!LastBatch
    <3>2. CASE operations # << >>
      BY <1>5, <1>7, <1>8, <3>2, CommittedIsDatabase DEF Jsonl!LastBatch
    <3> QED BY <3>1, <3>2
  <2> QED BY <1>1, <2>1 DEF Database
<1>10. step' = "refused" \/ (target' = Jsonl!LastBatch /\ step' = "imported")
  BY Zenon DEF Jsonl!ImportEnd, Jsonl!Refuse
<1>11. CASE step' = "refused"
  BY <1>1, <1>11, RefusedKeeps
<1>12. CASE target' = Jsonl!LastBatch /\ step' = "imported"
  BY <1>1, <1>9, <1>12 DEF ImportInv
<1> QED BY <1>10, <1>11, <1>12

LEMMA ImportStep ==
    ASSUME ImportInv, [MCNext]_allVars PROVE ImportInv'
<1>1. CASE UNCHANGED jsonlVars
  <2>1. AtSchemaLine' <=> AtSchemaLine
    <3>1. Jsonl!LinesFrom(source.data)' = Jsonl!LinesFrom(source'.data)
      BY Zenon DEF Jsonl!LinesFrom, Jsonl!RecordLine
    <3>2. Jsonl!SchemaLine(source.schema)' = Jsonl!SchemaLine(source'.schema)
      BY Zenon DEF Jsonl!SchemaLine
    <3> QED BY <1>1, <3>1, <3>2 DEF AtSchemaLine, jsonlVars
  <2>2. ASSUME NEW i, AtKey(i) PROVE AtKey(i)'
    <3>1. Jsonl!Opened' = Jsonl!Opened
      BY <1>1, Zenon DEF jsonlVars, Jsonl!Opened, Jsonl!Created, Jsonl!EmptyMap, Jsonl!Key
    <3> QED BY <1>1, <2>2, <3>1, AtKeyPrimed DEF AtKey, jsonlVars
  <2> QED BY <1>1, <2>1, <2>2 DEF ImportInv, ImportSoFar, jsonlVars
<1>2. CASE Jsonl!Next
  <2>1. ASSUME NEW schema \in AnySchema, Jsonl!Create(schema) PROVE ImportInv'
    BY <2>1, CreateKeeps
  <2>2. ASSUME NEW ops \in Jsonl!Transactions, Jsonl!Transaction(ops) PROVE ImportInv'
    BY <2>2, TransactionKeeps
  <2> QED BY <1>2, <2>1, <2>2, ReopenKeeps, ExportLinesKeeps, SchemaLineKeeps,
             RecordLineKeeps, LastLineKeeps DEF Jsonl!Next, AnySchema
<1> QED BY <1>1, <1>2 DEF MCNext, allVars

(* An import that succeeds rebuilds the database that was exported, schema and
   all, whatever the size of a batch and wherever it ends. *)
THEOREM ImportRebuilds == MCSpec => []RoundTrip
<1>1. MCInit => ImportInv
  BY ImportStarts DEF MCInit
<1>2. ImportInv /\ [MCNext]_allVars => ImportInv'
  BY ImportStep
<1>3. ImportInv => RoundTrip
  BY DEF ImportInv, RoundTrip, Jsonl!RoundTrip
<1> QED BY <1>1, <1>2, <1>3, PTL DEF MCSpec

-----------------------------------------------------------------------------
(* The rules of a schema.  A field that a collection declares twice makes each
   of its documents repeat its own value, so that is left out here. *)
FieldsDeclaredOnce ==
    \A schema \in Schemas : \A name \in DOMAIN schema.collections :
        Jsonl!IsInjective(schema.collections[name].unique)

(* Two documents with values of their own in each unique field. *)
Apart(data, schema, k1, k2) ==
    \A f \in Jsonl!Range(schema.collections[k1.collection].unique) :
        f \in DOMAIN data[k1] /\ f \in DOMAIN data[k2] => data[k1][f] # data[k2][f]

AllApart(data, schema) ==
    \A k1, k2 \in Jsonl!Present(data) :
        k1 # k2 /\ k1.collection = k2.collection => Apart(data, schema, k1, k2)

(* The document under k has its collection's i-th unique field. *)
HasField(data, schema, k, i) ==
    /\ k \in Jsonl!Present(data) /\ i \in DOMAIN Jsonl!Fields(k, schema)
    /\ Jsonl!Fields(k, schema)[i] \in DOMAIN data[k]

EntryOf(data, schema, k, i) ==
    << k.collection, Jsonl!Fields(k, schema)[i], data[k][Jsonl!Fields(k, schema)[i]] >>

LEMMA EntriesAre ==
    ASSUME NEW data, NEW schema, NEW e
    PROVE  e \in Jsonl!Entered(data, schema) <=>
               \E k, i : e = << k, i >> /\ HasField(data, schema, k, i)
<1> DEFINE Of(k) == {<< k, i >> : i \in {j \in DOMAIN Jsonl!Fields(k, schema) :
                                              Jsonl!Fields(k, schema)[j] \in DOMAIN data[k]}}
<1>1. Jsonl!Entered(data, schema) = UNION {Of(k) : k \in Jsonl!Present(data)}
  BY Zenon DEF Jsonl!Entered
<1>2. ASSUME NEW k
      PROVE  e \in Of(k) <=> \E i \in DOMAIN Jsonl!Fields(k, schema) :
                                 e = << k, i >> /\ Jsonl!Fields(k, schema)[i] \in DOMAIN data[k]
  OBVIOUS
<1> HIDE DEF Of
<1>3. e \in Jsonl!Entered(data, schema) <=> \E k \in Jsonl!Present(data) : e \in Of(k)
  BY <1>1
<1> QED BY <1>2, <1>3, Zenon DEF HasField

LEMMA TableIs ==
    ASSUME NEW data, NEW schema, NEW k, NEW i, HasField(data, schema, k, i)
    PROVE  /\ << k, i >> \in DOMAIN Jsonl!UniqueTable(data, schema)
           /\ Jsonl!UniqueTable(data, schema)[<< k, i >>] = EntryOf(data, schema, k, i)
<1>1. << k, i >> \in Jsonl!Entered(data, schema)
  BY EntriesAre
<1>2. << k, i >>[1] = k /\ << k, i >>[2] = i
  OBVIOUS
<1> QED BY <1>1, <1>2 DEF Jsonl!UniqueTable, Jsonl!UniqueEntry, EntryOf

LEMMA TableTellsApart ==
    ASSUME NEW data, NEW schema, Jsonl!IsInjective(Jsonl!UniqueTable(data, schema))
    PROVE  AllApart(data, schema)
<1>1. PICK table : table = Jsonl!UniqueTable(data, schema)
  OBVIOUS
<1>2. \A a, b \in DOMAIN table : table[a] = table[b] => a = b
  BY <1>1 DEF Jsonl!IsInjective
<1>3. SUFFICES ASSUME NEW k1 \in Jsonl!Present(data), NEW k2 \in Jsonl!Present(data),
                      k1 # k2, k1.collection = k2.collection,
                      NEW f \in Jsonl!Range(schema.collections[k1.collection].unique),
                      f \in DOMAIN data[k1], f \in DOMAIN data[k2], data[k1][f] = data[k2][f]
               PROVE  FALSE
  BY DEF AllApart, Apart
<1>4. Jsonl!Fields(k1, schema) = Jsonl!Fields(k2, schema) /\ f \in Jsonl!Range(Jsonl!Fields(k1, schema))
  BY <1>3 DEF Jsonl!Fields
<1>5. PICK i \in DOMAIN Jsonl!Fields(k1, schema) : f = Jsonl!Fields(k1, schema)[i]
  BY <1>4 DEF Jsonl!Range
<1>6. HasField(data, schema, k1, i) /\ HasField(data, schema, k2, i)
  BY <1>3, <1>4, <1>5 DEF HasField
<1>7. EntryOf(data, schema, k1, i) = EntryOf(data, schema, k2, i)
  BY <1>3, <1>4, <1>5 DEF EntryOf
<1>8. << k1, i >> \in DOMAIN table /\ << k2, i >> \in DOMAIN table
      /\ table[<< k1, i >>] = table[<< k2, i >>]
  BY <1>1, <1>6, <1>7, TableIs, Zenon
<1>9. << k1, i >> = << k2, i >>
  BY <1>2, <1>8
<1> QED BY <1>3, <1>9

LEMMA ApartFillsTable ==
    ASSUME NEW data, NEW schema, AllApart(data, schema),
           \A k \in Jsonl!Present(data) : Jsonl!IsInjective(Jsonl!Fields(k, schema))
    PROVE  Jsonl!IsInjective(Jsonl!UniqueTable(data, schema))
<1>1. PICK table : table = Jsonl!UniqueTable(data, schema)
  OBVIOUS
<1>2. SUFFICES ASSUME NEW a \in DOMAIN table, NEW b \in DOMAIN table, table[a] = table[b]
               PROVE  a = b
  BY <1>1 DEF Jsonl!IsInjective
<1>3. DOMAIN table = Jsonl!Entered(data, schema)
  BY <1>1 DEF Jsonl!UniqueTable
<1>4. PICK k1, i : a = << k1, i >> /\ HasField(data, schema, k1, i)
  BY <1>2, <1>3, EntriesAre, Zenon
<1>5. PICK k2, j : b = << k2, j >> /\ HasField(data, schema, k2, j)
  BY <1>2, <1>3, EntriesAre, Zenon
<1>6. table[a] = EntryOf(data, schema, k1, i) /\ table[b] = EntryOf(data, schema, k2, j)
  BY <1>1, <1>4, <1>5, TableIs, Zenon
<1>7. PICK f : f = Jsonl!Fields(k1, schema)[i]
  OBVIOUS
<1>8. /\ k1.collection = k2.collection /\ f = Jsonl!Fields(k2, schema)[j]
      /\ data[k1][f] = data[k2][f]
  <2>1. EntryOf(data, schema, k1, i) = EntryOf(data, schema, k2, j)
    BY <1>2, <1>6
  <2>2. /\ k1.collection = k2.collection
        /\ Jsonl!Fields(k1, schema)[i] = Jsonl!Fields(k2, schema)[j]
        /\ data[k1][Jsonl!Fields(k1, schema)[i]] = data[k2][Jsonl!Fields(k2, schema)[j]]
    <3>1. \A x1, x2, x3, y1, y2, y3 :
              << x1, x2, x3 >> = << y1, y2, y3 >> => x1 = y1 /\ x2 = y2 /\ x3 = y3
      OBVIOUS
    <3> QED BY <2>1, <3>1, Zenon DEF EntryOf
  <2> QED BY <1>7, <2>2
<1>9. Jsonl!Fields(k1, schema) = Jsonl!Fields(k2, schema)
  BY <1>8 DEF Jsonl!Fields
<1>10. i = j
  BY <1>4, <1>5, <1>7, <1>8, <1>9 DEF Jsonl!IsInjective, HasField
<1>11. k1 = k2
  <2>1. f \in Jsonl!Range(schema.collections[k1.collection].unique)
    BY <1>4, <1>7 DEF Jsonl!Range, Jsonl!Fields, HasField
  <2>2. /\ k1 \in Jsonl!Present(data) /\ k2 \in Jsonl!Present(data)
        /\ f \in DOMAIN data[k1] /\ f \in DOMAIN data[k2] /\ data[k1][f] = data[k2][f]
    BY <1>4, <1>5, <1>7, <1>8 DEF HasField
  <2> QED BY <1>8, <2>1, <2>2 DEF AllApart, Apart
<1> QED BY <1>4, <1>5, <1>10, <1>11

LEMMA TableIsExact ==
    ASSUME FieldsDeclaredOnce, NEW data \in AnyData, NEW schema \in Schemas
    PROVE  Jsonl!ValidateAll(data, schema) <=>
               /\ \A k \in Jsonl!Present(data) : Jsonl!DocumentSuits(k, data[k], schema)
               /\ AllApart(data, schema)
<1>1. ASSUME Jsonl!ValidateAll(data, schema) PROVE AllApart(data, schema)
  BY <1>1, TableTellsApart DEF Jsonl!ValidateAll
<1>2. ASSUME \A k \in Jsonl!Present(data) : Jsonl!DocumentSuits(k, data[k], schema),
             AllApart(data, schema)
      PROVE  Jsonl!IsInjective(Jsonl!UniqueTable(data, schema))
  <2>1. ASSUME NEW k \in Jsonl!Present(data) PROVE Jsonl!IsInjective(Jsonl!Fields(k, schema))
    <3>1. k.collection \in DOMAIN schema.collections
      BY <1>2 DEF Jsonl!DocumentSuits
    <3> QED BY <3>1 DEF FieldsDeclaredOnce, Jsonl!Fields
  <2> QED BY <1>2, <2>1, ApartFillsTable
<1> QED BY <1>1, <1>2 DEF Jsonl!ValidateAll

LEMMA ConsistentIs ==
    ASSUME NEW db
    PROVE  Jsonl!Consistent(db) <=>
               (db.schema # NoSchema =>
                   /\ \A k \in Jsonl!Present(db.data) : Jsonl!DocumentSuits(k, db.data[k], db.schema)
                   /\ AllApart(db.data, db.schema))
<1>1. Jsonl!Present(db.data) \subseteq Jsonl!Key
      /\ \A k \in Jsonl!Key : k \in Jsonl!Present(db.data) <=> db.data[k] # Absent
  BY DEF Jsonl!Present
<1>2. (\A k \in Jsonl!Key : db.data[k] # Absent => Jsonl!DocumentSuits(k, db.data[k], db.schema))
      <=> \A k \in Jsonl!Present(db.data) : Jsonl!DocumentSuits(k, db.data[k], db.schema)
  BY <1>1, Zenon
<1>3. (\A k1, k2 \in Jsonl!Key :
          k1 # k2 /\ k1.collection = k2.collection /\ db.data[k1] # Absent /\ db.data[k2] # Absent
              => Apart(db.data, db.schema, k1, k2))
      <=> AllApart(db.data, db.schema)
  BY <1>1, Zenon DEF AllApart
<1>4. Jsonl!Consistent(db) <=>
          (db.schema # NoSchema =>
             /\ \A k \in Jsonl!Key : db.data[k] # Absent => Jsonl!DocumentSuits(k, db.data[k], db.schema)
             /\ \A k1, k2 \in Jsonl!Key :
                   k1 # k2 /\ k1.collection = k2.collection /\ db.data[k1] # Absent /\ db.data[k2] # Absent
                       => Apart(db.data, db.schema, k1, k2))
  BY Zenon DEF Jsonl!Consistent, Apart
<1> QED BY <1>2, <1>3, <1>4

(* A write within the limits is accepted exactly when its result keeps the rules
   of the schema: the table of validate_all finds every pair of documents that
   share a unique value, and no other, for any schema that declares a field of a
   collection once. *)
THEOREM ValidatesExactly == ASSUME FieldsDeclaredOnce PROVE MCSpec => []ValidationIsExact
<1>1. MCInit => ImportInv
  BY ImportStarts DEF MCInit
<1>2. ImportInv /\ [MCNext]_allVars => ImportInv'
  BY ImportStep
<1>3. ASSUME ImportInv PROVE ValidationIsExact
  <2>1. SUFFICES ASSUME step = "open", NEW ops \in Jsonl!Transactions, Jsonl!WithinLimits(ops)
                 PROVE  Jsonl!Conforms(source, Jsonl!ApplyAll(source.data, ops))
                            <=> Jsonl!Consistent(Jsonl!Committed(source, ops))
    BY Zenon DEF ValidationIsExact, Jsonl!ValidationIsExact, Jsonl!MayCommit
  <2>2. source \in Database /\ ops \in Seq(AnyOperation)
    BY <1>3, <2>1, TransactionsAreBatches DEF ImportInv
  <2>3. PICK db : db = Jsonl!Committed(source, ops)
    OBVIOUS
  <2>4. /\ db.data \in AnyData /\ db.schema \in AnySchema /\ db.schema = source.schema
        /\ db.data = Jsonl!ApplyAll(source.data, ops)
    BY <2>2, <2>3, CommittedIsDatabase DEF Database
  <2>5. Jsonl!Conforms(source, db.data) <=>
            (db.schema # NoSchema => Jsonl!ValidateAll(db.data, db.schema))
    BY <2>4 DEF Jsonl!Conforms
  <2>6. db.schema # NoSchema => db.schema \in Schemas
    BY <2>4 DEF AnySchema
  <2>7. Jsonl!Conforms(source, db.data) <=> Jsonl!Consistent(db)
    BY <2>4, <2>5, <2>6, ConsistentIs, TableIsExact
  <2> QED BY <2>3, <2>4, <2>7
<1> QED BY <1>1, <1>2, <1>3, PTL DEF MCSpec
=============================================================================
