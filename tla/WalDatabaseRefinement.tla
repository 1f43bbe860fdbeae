----------------------- MODULE WalDatabaseRefinement -----------------------
(***************************************************************************)
(* The database of WalDatabase implements the durable map of DurableMap:   *)
(* a handle's view is its in-memory map, a transaction is submitted from   *)
(* its first record on, and it is acknowledged when transaction returns.   *)
(***************************************************************************)
EXTENDS WalDatabaseInv

CONSTANTS Closed, None, Uncertain

ASSUME RefinementConstants ==
    /\ Closed \notin Map
    /\ None \notin Map
    /\ Uncertain \notin Map
    /\ None # Uncertain

viewOf == [p \in Proc |-> IF HasHandle(p) THEN data[p] ELSE Closed]

submittedBy ==
    [p \in Proc |->
        IF pc[p] \in Writing THEN Apply(data[p], ops[p])
        ELSE IF pc[p] = "ready" /\ poisoned[p] THEN Uncertain
        ELSE None]

Durable == INSTANCE DurableMap WITH
    Client <- Proc,
    Maps <- Map,
    Initial <- EmptyMap,
    Settles <- "power" \notin Faults,
    view <- viewOf,
    submitted <- submittedBy

(* The database behaves like the durable map: opens see a promised map,
   acknowledged transactions are the only promised map until the next
   submission, a failed one leaves the handle unable to submit again. *)
ImplementsDurableMap == Durable!Spec
=============================================================================
