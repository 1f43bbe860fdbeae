----------------------------- MODULE MCCommands -----------------------------
(***************************************************************************)
(* The commands over one directory, or an export and the import of its     *)
(* lines: which of the two runs is chosen once.                            *)
(***************************************************************************)
EXTENDS FileOps, FiniteSets, Functions, TLC

CONSTANTS
    KeyOrder, Doc, DocBytes, Schemas, NotObject, NoSchema, NoDatabase, NoId,
    MAX_TRANSACTION_OPERATIONS, MAX_TRANSACTION_BYTES, MAX_VALUE_BYTES,
    MAX_UNIQUE, MaxTransactions

ASSUME JsonlConstants ==
    /\ KeyOrder \in Seq(Range(KeyOrder)) /\ MAX_TRANSACTION_OPERATIONS \in Nat \ {0}
    /\ Absent \notin Doc /\ NoSchema \notin Schemas
    /\ NoDatabase \notin [schema: Schemas \cup {NoSchema},
                          data: [Range(KeyOrder) -> Doc \cup {Absent}]]

VARIABLES part, source, commits, lines, target, operations, step

(* A database, a legacy one and a JSONL file; commands that want the same
   source, or the same destination. *)
Wants(kind, from, to, backup) == [kind |-> kind, from |-> from, to |-> to, backup |-> backup]

MCJob ==
    {Wants("copy", "db", "new", "new"), Wants("export", "db", "new", "new"),
     Wants("import", "lines", "new", "new"), Wants("migrate", "old", "new", "bak"),
     Wants("copy", "db", "bak", "bak"), Wants("copy", "bak", "new", "new")}

MCInitial ==
    [n \in {"db", "old", "lines", "new", "bak"} |->
        CASE n = "db" -> Node(Nobody, TRUE, 1, NoFile)
          [] n = "old" -> Node(Nobody, FALSE, 1, NoFile)
          [] n = "lines" -> Node(Nobody, FALSE, 2, "schema")
          [] OTHER -> Absent]

(* Keys of two collections, and one that is not collection/id; documents with a
   primary key, two unique fields, a large one; a schema with too many unique
   fields, and one too long to be read again. *)
User(id) == [collection |-> "users", id |-> id]
MCKeyOrder ==
    << [collection |-> "tags", id |-> "a"], User("a"), User("b"),
       [collection |-> "users", id |-> NoId] >>

MCDoc ==
    {NotObject, [id |-> "a"], [id |-> "a", email |-> 1], [id |-> "b", email |-> 1],
     [id |-> "b", email |-> 2, nick |-> 1]}
MCDocBytes == [doc \in MCDoc |-> IF doc = [id |-> "b", email |-> 1] THEN 2 ELSE 1]

Collections(name, unique) == name :> [primary_key |-> "id", unique |-> unique]
MCSchemas ==
    {[collections |-> Collections("users", << "email", "nick" >>), pretty |-> n] : n \in {2, 4}}
    \cup {[collections |-> Collections("users", << "email", "nick" >>)
                             @@ Collections("tags", << "email" >>), pretty |-> 3],
          [collections |-> Collections("users", << "email", "nick", "id" >>), pretty |-> 3]}

Jsonl == INSTANCE JsonlTransfer WITH pc <- step

jsonlVars == << source, commits, lines, target, operations, step >>
allVars == << part, vars, jsonlVars >>

MCInit == Init /\ Jsonl!Init /\ part \in {"files", "lines"}

MCNext ==
    /\ UNCHANGED part
    /\ \/ part = "files" /\ Next /\ UNCHANGED jsonlVars
       \/ part = "lines" /\ Jsonl!Next /\ UNCHANGED vars

MCSpec == MCInit /\ [][MCNext]_allVars

ProcSymmetry == Permutations(Proc)

-----------------------------------------------------------------------------
(* A write within the limits is accepted exactly when its result keeps the
   rules of the schema. *)
ValidationIsExact == Jsonl!ValidationIsExact

(* An import that succeeds rebuilds the database that was exported, schema and
   all. *)
RoundTrip == Jsonl!RoundTrip
=============================================================================
