------------------------------ MODULE MCStorage ------------------------------
(***************************************************************************)
(* Parts of the page store of ferrite-core: the B+Tree, the replacers, and *)
(* the mutex of the buffer pool.  They share nothing here; which of them   *)
(* runs is chosen once, and the others stay at rest.                       *)
(***************************************************************************)
EXTENDS MCBTree, MCReplacers

CONSTANTS Thread, Frame, PoolPage, Nothing, Blank, Unowned, Abandoned

VARIABLES
    part,
    mutex, page, pins, dirty, lsn, bytes, table, free, evictable, flushed, disk,
    pc, intent, target, frame, mark, todo, lost     \* of the buffer pool

(* Its clients read and write pages, and flush only while nobody writes. *)
Pool == INSTANCE BufferPool WITH
    Nobody <- Nothing, NoFrame <- Nothing, Page <- PoolPage, NoPage <- Nothing,
    Value <- {Blank}, MaxLsn <- 1, HasHook <- FALSE, WritersFirst <- TRUE, Quiet <- TRUE,
    Faults <- {}

treeVars == << vars, reader, shared >>
poolVars ==
    << mutex, page, pins, dirty, lsn, bytes, table, free, evictable, flushed, disk,
       pc, intent, target, frame, mark, todo, lost >>
storageVars == << part, treeVars, replacerVars, poolVars >>

-----------------------------------------------------------------------------
StorageInit ==
    /\ part \in {"tree", "replacers", "pool"}
    /\ ReaderInit /\ ReplacersInit /\ Pool!Init
    /\ part # "tree" => ~ shared
    /\ part # "replacers" => policy = "lru-k"

(* A tree whose writer has stopped, or that has no page left, stays as it is. *)
AtRest == part = "tree" /\ UNCHANGED << treeVars, replacerVars, poolVars >>

StorageNext ==
    /\ UNCHANGED part
    /\ \/ part = "tree" /\ ReaderNext /\ UNCHANGED << replacerVars, poolVars >>
       \/ part = "replacers" /\ ReplacersNext /\ UNCHANGED << treeVars, poolVars >>
       \/ part = "pool" /\ Pool!Next /\ UNCHANGED << treeVars, replacerVars >>
       \/ AtRest

(* Each part under its own fairness, which asks nothing of a part at rest. *)
StorageSpec ==
    /\ StorageInit /\ [][StorageNext]_storageVars
    /\ ReplacersFairness /\ Pool!Fairness

-----------------------------------------------------------------------------
(* Nobody keeps the manager's mutex for ever. *)
MutexIsReleased == Pool!MutexIsReleased
=============================================================================
