------------------------------ MODULE FileOps ------------------------------
(***************************************************************************)
(* The commands of crates/ferrite-cli/src/main.rs that build a new file or *)
(* directory: backup and restore (copy_database), migrate, export, import. *)
(* Each builds in a staging path of its own, hidden beside the             *)
(* destination, and publishes it with a rename that replaces nothing.      *)
(*                                                                         *)
(* Only the entries of one parent directory are kept.  A database          *)
(* directory is its three files; what is inside them is a version.         *)
(***************************************************************************)
EXTENDS Integers, Sequences

CONSTANTS
    Proc, Writer,           \* processes of these commands; one that writes
    Name,                   \* paths in the parent directory
    Job,                    \* [kind, from, to, backup]
    Initial,                \* what the directory holds at first
    Written,                \* the names the writer opens
    MaxVersion,             \* bound on the commits of the writer
    Nobody, Absent, NoFile, Torn, NoJob, None,
    Faults                  \* subset of {"kill", "io", "power", "stranger"}

ASSUME FileOpsConstants ==
    /\ Writer \notin Proc /\ Nobody \notin Proc \cup {Writer}
    /\ Written \subseteq Name /\ MaxVersion \in Nat
    /\ Faults \subseteq {"kill", "io", "power", "stranger"}

(* A database directory, or a JSONL file: there "format" tells nothing.  "by"
   is the process that built it; "synced", whether it survives a power cut. *)
Nodes ==
    [by : Proc \cup {Nobody}, format : BOOLEAN, wal : Nat \cup {NoFile, Torn},
     schema : {NoFile, "schema"}, synced : BOOLEAN]

Node(by, format, wal, schema) ==
    [by |-> by, format |-> format, wal |-> wal, schema |-> schema, synced |-> TRUE]

(* The writer works on databases of its own, not on what a command builds. *)
ASSUME FileOpsNames ==
    /\ Job \subseteq [kind : {"copy", "migrate", "export", "import"},
                       from : Name, to : Name, backup : Name]
    /\ \A j \in Job : j.to \notin Written /\ j.backup \notin Written
    /\ NoJob \notin Job /\ None \notin Nodes /\ Absent \notin Nodes
    /\ NoFile \notin Nat /\ Torn \notin Nat
    /\ Initial \in [Name -> Nodes \cup {Absent}]
    /\ \A n \in Name : Initial[n] # Absent => Initial[n].by = Nobody /\ Initial[n].synced

Contents(node) == << node.format, node.wal, node.schema >>

VARIABLES
    dir,            \* what each name is
    undo,           \* names whose entry a power cut may take back
    lock,           \* who holds .ferrite.lock of each database
    pc, job,
    staging,        \* what each process builds
    left,           \* files copy_database_into has not copied
    next,           \* the version the writer appends
    snapshot        \* history: what the source held when it was locked

vars == << dir, undo, lock, pc, job, staging, left, next, snapshot >>

Init ==
    /\ dir = Initial
    /\ undo = {}
    /\ lock = [n \in Name |-> Nobody]
    /\ pc = [p \in Proc \cup {Writer} |-> "idle"]
    /\ job = [p \in Proc |-> NoJob]
    /\ staging = [p \in Proc |-> None]
    /\ left = [p \in Proc |-> << >>]
    /\ next = 0 /\ snapshot = [p \in Proc |-> None]

Goto(p, label) == pc' = [pc EXCEPT ![p] = label]

Unlocked(p) == [n \in Name |-> IF lock[n] = p THEN Nobody ELSE lock[n]]

(* The lock goes with the process; what it built stays hidden, and unused. *)
Finish(p, outcome) ==
    /\ Goto(p, outcome)
    /\ lock' = Unlocked(p)
    /\ staging' = [staging EXCEPT ![p] = None]
    /\ left' = [left EXCEPT ![p] = << >>]

FinishOnly(p, outcome) ==
    Finish(p, outcome) /\ UNCHANGED << dir, undo, job, next, snapshot >>

IsDatabase(n) == dir[n] # Absent /\ dir[n].wal # NoFile

-----------------------------------------------------------------------------
(* A command begins; import and migrate look at the paths before any lock. *)
Refused(j) ==
    \/ j.kind = "import" /\ dir[j.to] # Absent
    \/ j.kind = "migrate" /\ \/ ~ IsDatabase(j.from)
                             \/ dir[j.from].format
                             \/ j.to = j.backup

Start(p, j) ==
    /\ pc[p] = "idle"
    /\ job' = [job EXCEPT ![p] = j]
    /\ Goto(p, IF Refused(j) THEN "failed" ELSE IF j.kind = "import" THEN "stage" ELSE "open")
    /\ UNCHANGED << dir, undo, lock, staging, left, next, snapshot >>

(* Database::open_existing takes the lock and reads the log; migrate, whose
   source open_existing refuses, takes the lock alone. *)
MayOpen(n) == IsDatabase(n) /\ lock[n] = Nobody /\ dir[n].format /\ dir[n].wal # Torn

(* A slip: the source is read after its lock is given back. *)
OpenSourceBriefly(p) ==
    /\ pc[p] = "open"
    /\ LET n == job[p].from
       IN  IF lock[n] = Nobody /\ (job[p].kind = "migrate" \/ MayOpen(n))
           THEN /\ snapshot' = [snapshot EXCEPT ![p] = dir[n]]
                /\ Goto(p, IF job[p].kind = "migrate" THEN "stageBackup" ELSE "stage")
           ELSE Goto(p, "failed") /\ UNCHANGED snapshot
    /\ UNCHANGED << dir, undo, job, staging, left, next, lock >>

OpenSource(p) ==
    /\ pc[p] = "open"
    /\ LET n == job[p].from
       IN  IF lock[n] = Nobody /\ (job[p].kind = "migrate" \/ MayOpen(n))
           THEN /\ lock' = [lock EXCEPT ![n] = p]
                /\ snapshot' = [snapshot EXCEPT ![p] = dir[n]]
                /\ Goto(p, IF job[p].kind = "migrate" THEN "stageBackup" ELSE "stage")
           ELSE Goto(p, "failed") /\ UNCHANGED << lock, snapshot >>
    /\ UNCHANGED << dir, undo, job, staging, left, next >>

-----------------------------------------------------------------------------
(* create_staging_dir and create_staging_file: a name nobody else uses. *)
Building(kind) ==
    CASE kind \in {"copy", "migrate"} -> "copy" [] kind = "export" -> "write"
      [] kind = "import" -> "build"

Stage(p) ==
    /\ pc[p] \in {"stage", "stageBackup"}
    /\ staging' = [staging EXCEPT ![p] = Node(p, FALSE, NoFile, NoFile)]
    /\ left' = [left EXCEPT ![p] =
                    IF job[p].kind \in {"copy", "migrate"}
                    THEN << "format", "wal", "schema" >> ELSE << >>]
    /\ Goto(p, IF pc[p] = "stageBackup" THEN "copyBackup" ELSE Building(job[p].kind))
    /\ UNCHANGED << dir, undo, lock, job, next, snapshot >>

Copying(p) == pc[p] \in {"copy", "copyBackup"}

(* copy_database_into: one file after another, each synced, *)
CopyFile(p) ==
    /\ Copying(p) /\ left[p] # << >>
    /\ LET name == Head(left[p])
       IN  staging' = [staging EXCEPT ![p][name] = dir[job[p].from][name],
                                      ![p].synced = FALSE]
    /\ left' = [left EXCEPT ![p] = Tail(@)]
    /\ UNCHANGED << dir, undo, lock, pc, job, next, snapshot >>

(* then the directory. *)
AfterCopy(p) ==
    CASE pc[p] = "copyBackup" -> "publishBackup"
      [] pc[p] = "copy" /\ job[p].kind = "migrate" -> "manifest"
      [] OTHER -> "verify"

EndCopy(p) ==
    /\ Copying(p) /\ left[p] = << >>
    /\ staging' = [staging EXCEPT ![p].synced = TRUE]
    /\ Goto(p, AfterCopy(p))
    /\ UNCHANGED << dir, undo, lock, job, left, next, snapshot >>

(* migrate adds format.json to the copy, syncing both. *)
WriteManifest(p) ==
    /\ pc[p] = "manifest"
    /\ staging' = [staging EXCEPT ![p].format = TRUE]
    /\ Goto(p, "verify")
    /\ UNCHANGED << dir, undo, lock, job, left, next, snapshot >>

(* Database::verify opens the copy; a failure leaves it where it is. *)
Verify(p) ==
    /\ pc[p] = "verify"
    /\ IF staging[p].format /\ staging[p].wal \notin {NoFile, Torn}
       THEN Goto(p, "publish") /\ UNCHANGED << lock, staging, left >>
       ELSE Finish(p, "failed")
    /\ UNCHANGED << dir, undo, job, next, snapshot >>

(* export_into writes what the open database has in memory. *)
Export(p) ==
    /\ pc[p] = "write"
    /\ staging' = [staging EXCEPT ![p].wal = snapshot[p].wal,
                                  ![p].schema = snapshot[p].schema]
    /\ Goto(p, "publish")
    /\ UNCHANGED << dir, undo, lock, job, left, next, snapshot >>

(* import_new: the schema is created with the database, then the records come
   in synced transactions; JsonlTransfer has the lines. *)
ImportSchema(p) ==
    /\ pc[p] = "build"
    /\ LET file == dir[job[p].from]
       IN  IF file = Absent
           THEN Goto(p, "failed") /\ UNCHANGED << staging, snapshot >>
           ELSE /\ staging' = [staging EXCEPT ![p] = Node(p, TRUE, 0, file.schema)]
                /\ snapshot' = [snapshot EXCEPT ![p] = file]
                /\ Goto(p, "records")
    /\ UNCHANGED << dir, undo, lock, job, left, next >>

ImportRecords(p) ==
    /\ pc[p] = "records"
    /\ IF staging[p].wal = snapshot[p].wal THEN Goto(p, "publish") /\ UNCHANGED staging
       ELSE staging' = [staging EXCEPT ![p].wal = @ + 1] /\ UNCHANGED pc
    /\ UNCHANGED << dir, undo, lock, job, left, next, snapshot >>

-----------------------------------------------------------------------------
(* publish: renameat2 with RENAME_NOREPLACE, then the parent is synced. *)
Target(p) == IF pc[p] = "publishBackup" THEN job[p].backup ELSE job[p].to

(* A slip: a plain rename replaces what is there. *)
TakenNever(n) == FALSE

Taken(n) == dir[n] # Absent

Publish(p) ==
    /\ pc[p] \in {"publish", "publishBackup"}
    /\ IF Taken(Target(p))
       THEN Finish(p, "failed") /\ UNCHANGED << dir, undo >>
       ELSE /\ dir' = [dir EXCEPT ![Target(p)] = staging[p]]
            /\ undo' = undo \cup {Target(p)}
            /\ staging' = [staging EXCEPT ![p] = None]
            /\ Goto(p, IF pc[p] = "publish" THEN "sync" ELSE "syncBackup")
            /\ UNCHANGED << lock, left >>
    /\ UNCHANGED << job, next, snapshot >>

(* A slip: the parent directory is not synced. *)
AtRiskNotSynced == undo

AtRiskOnceSynced == {}

SyncParent(p) ==
    /\ pc[p] \in {"sync", "syncBackup"}
    /\ undo' = AtRiskOnceSynced
    /\ IF pc[p] = "sync" THEN Finish(p, "done")
       ELSE Goto(p, "validate") /\ UNCHANGED << lock, staging, left >>
    /\ UNCHANGED << dir, job, next, snapshot >>

(* migrate reads the legacy log once its backup is safe. *)
Validate(p) ==
    /\ pc[p] = "validate"
    /\ IF dir[job[p].from].wal = Torn THEN Finish(p, "failed")
       ELSE Goto(p, "stage") /\ UNCHANGED << lock, staging, left >>
    /\ UNCHANGED << dir, undo, job, next, snapshot >>

-----------------------------------------------------------------------------
(* Everybody else: a writer that opens a database, sets its schema and appends
   to its log, never outside the lock; and whoever creates the destination. *)
WriterOpens(n) ==
    /\ pc[Writer] = "idle" /\ n \in Written
    /\ IsDatabase(n) /\ lock[n] = Nobody /\ dir[n].wal # Torn
    /\ lock' = [lock EXCEPT ![n] = Writer]
    /\ Goto(Writer, "open")
    /\ UNCHANGED << dir, undo, job, staging, left, next, snapshot >>

WriterSetsSchema(n) ==
    /\ pc[Writer] = "open" /\ lock[n] = Writer /\ dir[n].schema = NoFile
    /\ dir' = [dir EXCEPT ![n].schema = "schema"]
    /\ UNCHANGED << undo, lock, pc, job, staging, left, next, snapshot >>

WriterAppends(n) ==
    /\ pc[Writer] = "open" /\ lock[n] = Writer /\ dir[n].wal < MaxVersion
    /\ dir' = [dir EXCEPT ![n].wal = Torn]
    /\ next' = dir[n].wal + 1
    /\ Goto(Writer, "append")
    /\ UNCHANGED << undo, lock, job, staging, left, snapshot >>

WriterCommits(n) ==
    /\ pc[Writer] = "append" /\ lock[n] = Writer
    /\ dir' = [dir EXCEPT ![n].wal = next]
    /\ next' = 0
    /\ Goto(Writer, "open")
    /\ UNCHANGED << undo, lock, job, staging, left, snapshot >>

WriterCloses ==
    /\ \/ pc[Writer] = "open"
       \/ pc[Writer] = "append" /\ "kill" \in Faults
    /\ Goto(Writer, "idle")
    /\ lock' = Unlocked(Writer) /\ next' = 0
    /\ UNCHANGED << dir, undo, job, staging, left, snapshot >>

Stranger(n) ==
    /\ "stranger" \in Faults /\ dir[n] = Absent
    /\ dir' = [dir EXCEPT ![n] = Node(Nobody, FALSE, NoFile, NoFile)]
    /\ UNCHANGED << undo, lock, pc, job, staging, left, next, snapshot >>

Running(p) == pc[p] \notin {"idle", "done", "failed", "dead"}

(* Any system call may fail; a kill gives the lock back as well. *)
Fail(p) == "io" \in Faults /\ Running(p) /\ FinishOnly(p, "failed")

Kill(p) == "kill" \in Faults /\ Running(p) /\ FinishOnly(p, "dead")

(* Renames not synced may be lost, and what was not synced is torn. *)
PowerCut ==
    /\ "power" \in Faults
    /\ \E lost \in SUBSET undo :
           dir' = [n \in Name |->
                    IF n \in lost THEN Absent
                    ELSE IF dir[n] # Absent /\ ~ dir[n].synced
                         THEN [dir[n] EXCEPT !.wal = Torn] ELSE dir[n]]
    /\ undo' = {} /\ next' = 0
    /\ lock' = [n \in Name |-> Nobody]
    /\ staging' = [p \in Proc |-> None] /\ left' = [p \in Proc |-> << >>]
    /\ pc' = [p \in Proc \cup {Writer} |->
                IF p = Writer THEN "idle" ELSE IF Running(p) THEN "dead" ELSE pc[p]]
    /\ UNCHANGED << job, snapshot >>

CommandStep(p) ==
    \/ \E j \in Job : Start(p, j)
    \/ OpenSource(p) \/ Stage(p) \/ CopyFile(p) \/ EndCopy(p) \/ WriteManifest(p)
    \/ Verify(p) \/ Export(p) \/ ImportSchema(p) \/ ImportRecords(p)
    \/ Publish(p) \/ SyncParent(p) \/ Validate(p) \/ Fail(p) \/ Kill(p)

OtherStep ==
    \/ \E n \in Name : \/ WriterOpens(n) \/ WriterSetsSchema(n) \/ WriterAppends(n)
                       \/ WriterCommits(n) \/ Stranger(n)
    \/ WriterCloses

Next == (\E p \in Proc : CommandStep(p)) \/ OtherStep \/ PowerCut

Spec == Init /\ [][Next]_vars

-----------------------------------------------------------------------------
(* What the command has to build from its source. *)
Expected(p) ==
    [format |-> IF job[p].kind = "export" THEN FALSE
                ELSE job[p].kind \in {"migrate", "import"} \/ snapshot[p].format,
     wal |-> snapshot[p].wal, schema |-> snapshot[p].schema]

Holds(node, want) == Contents(node) = << want.format, want.wal, want.schema >>

(* Whatever is killed, and whoever writes to the source, a destination is
   absent or holds one moment of its source, whole; as does a backup. *)
DestinationIsWhole ==
    \A n \in Name :
        dir[n] # Absent /\ dir[n].by # Nobody =>
            LET p == dir[n].by IN
            \/ n = job[p].to /\ Holds(dir[n], Expected(p))
            \/ /\ job[p].kind = "migrate" /\ n = job[p].backup
               /\ Contents(dir[n]) = Contents(snapshot[p])

BackupFirst ==
    \A n \in Name :
        dir[n] # Absent /\ dir[n].by # Nobody =>
            LET j == job[dir[n].by] IN
            j.kind = "migrate" /\ n = j.to =>
                dir[j.backup] # Absent /\ dir[j.backup].by = dir[n].by

(* What was reported done is there, also after a power cut, and a migrated
   database is never without its backup. *)
DoneIsKept ==
    /\ \A p \in Proc : pc[p] = "done" => dir[job[p].to] # Absent /\ dir[job[p].to].by = p
    /\ BackupFirst

(* Nothing that exists is replaced: only the holder of its lock changes a
   database, and only a power cut takes a name away. *)
Replaced(n) == dir[n] # Absent /\ dir'[n] # Absent /\ dir'[n].by # dir[n].by

NothingReplaced ==
    [][\A n \in Name :
           /\ ~ Replaced(n)
           /\ dir[n] # Absent /\ dir'[n] # dir[n] => lock[n] = Writer \/ n \in undo]_vars
=============================================================================
