----------------------------- MODULE BTreeReaders -----------------------------
(***************************************************************************)
(* BTree::get in threads of their own, beside the writer.  A reader holds  *)
(* one page at a time and lets go of it before it asks for the next one.   *)
(***************************************************************************)
EXTENDS BTree

CONSTANTS
    Reader, Failed,
    AloneWrites,    \* bounds: the << key, value >> pairs that the writer inserts
    SharedWrites    \* when it is alone, and beside readers

VARIABLES
    reader,         \* the local variables of each reader
    shared          \* readers use the tree, and the writer only inserts

NoCallYet == [pc |-> "idle", key |-> 0, page |-> 0, atLeaf |-> FALSE,
              answer |-> NoValue, seen |-> {}]

ReaderInit == Init /\ reader = [r \in Reader |-> NoCallYet] /\ shared \in BOOLEAN

(* What a get of k may answer now.  While a split is under way the tree does
   not promise to find a key. *)
Restructuring ==
    \E w \in Writer : run[w].pc \notin {"idle", "find", "insert", "delete", "return"}

Possible(k) ==
    LET all == Contents
    IN  {IF Holds(all, k) THEN all[Before(all, k) + 1].value ELSE NoValue}
            \cup (IF Restructuring THEN {NoValue} ELSE {})

PossibleNow == [k \in Key |-> Possible(k)]

Observe ==
    reader' = [r \in Reader |->
                 IF reader[r].pc \in {"idle", "done"} THEN reader[r]
                 ELSE [reader[r] EXCEPT !.seen = @ \cup PossibleNow'[reader[r].key]]]

Held == {reader[r].page : r \in {s \in Reader : reader[s].pc = "hold"}}

Become(r, locals) ==
    /\ reader' = [reader EXCEPT ![r] = locals]
    /\ UNCHANGED << node, root, run, shared >>
    /\ held' = Held'

GetCall(r, k) ==
    /\ reader[r].pc = "idle"
    /\ shared
    /\ Become(r, [NoCallYet EXCEPT !.pc = "fetch", !.key = k, !.page = root,
                                   !.seen = Possible(k)])

(* fetch_page *)
Fetch(r) ==
    /\ reader[r].pc = "fetch"
    /\ Become(r, [reader[r] EXCEPT !.pc = "hold"])

(* find_leaf_page_id lets go of the leaf; get fetches it again. *)
Descend(r) ==
    /\ reader[r].pc = "hold" /\ ~ reader[r].atLeaf
    /\ \/ IsInternal(reader[r].page)
          /\ Become(r, [reader[r] EXCEPT !.pc = "fetch",
                           !.page = FindChild(reader[r].page, reader[r].key)])
       \/ IsLeaf(reader[r].page)
          /\ Become(r, [reader[r] EXCEPT !.pc = "fetch", !.atLeaf = TRUE])

Answer(r, answer) == Become(r, [reader[r] EXCEPT !.pc = "done", !.answer = answer])

(* A page that is neither type, or no leaf any more, is an error. *)
ReadLeaf(r) ==
    LET p == reader[r].page  key == reader[r].key
    IN  /\ reader[r].pc = "hold"
        /\ reader[r].atLeaf \/ ~ (IsLeaf(p) \/ IsInternal(p))
        /\ Answer(r, IF ~ IsLeaf(p) THEN Failed
                     ELSE IF ~ Holds(node[p].entries, key) THEN NoValue
                     ELSE node[p].entries[Before(node[p].entries, key) + 1].value)

Forget(r) ==
    /\ reader[r].pc = "done"
    /\ Become(r, NoCallYet)

ReaderStep(r) ==
    \/ \E k \in Key : GetCall(r, k)
    \/ Fetch(r) \/ Descend(r) \/ ReadLeaf(r) \/ Forget(r)

(* The two uses that the models look at: a writer alone, whose calls may fail,
   and one that inserts beside readers. *)
Bounded(w) ==
    /\ shared => run[w].op # "delete" /\ ~ At(w, "failed")
    /\ run[w].op = "insert" =>
          << run[w].key, run[w].value >> \in (IF shared THEN SharedWrites ELSE AloneWrites)

ReaderNext ==
    \/ /\ UNCHANGED shared
       /\ Next /\ Observe
       /\ \A w \in Writer : Bounded(w)'
    \/ \E r \in Reader : ReaderStep(r)

ReaderSpec == ReaderInit /\ [][ReaderNext]_<< vars, reader, shared >>

(* A get beside an inserting writer answers with a value the key had during
   the call, and misses a key that is there only if a split was under way. *)
GetAnswers ==
    \A r \in Reader : reader[r].pc = "done" => reader[r].answer \in reader[r].seen

(* Reads answer from the map, between calls and beside an insert. *)
ReadsAnswer == ReadsAgree /\ GetAnswers
=============================================================================
