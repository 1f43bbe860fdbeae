----------------------------- MODULE DurableMap -----------------------------
(***************************************************************************)
(* What a FerriteDB directory promises its users, without files: one       *)
(* client at a time sees a map, replaces it as a whole, and an             *)
(* acknowledged replacement is the only map the next open may find.  While *)
(* an outcome is unknown (a submission without acknowledgement, followed   *)
(* by a crash) the next open finds the old map or the new one, nothing     *)
(* between.                                                                *)
(***************************************************************************)
CONSTANTS
    Client,
    Maps,         \* the contents a database can have
    Initial,      \* the contents of a new database
    Closed,       \* the view of a client that has no open handle
    None,         \* nothing submitted
    Uncertain,    \* a submission failed without telling its outcome
    Settles       \* BOOLEAN: an open fixes an unknown outcome for good

VARIABLES
    view,         \* what each client reads
    submitted,    \* what each client is trying to commit
    promised      \* the maps the next open may find

vars == << view, submitted, promised >>

Init ==
    /\ view = [c \in Client |-> Closed]
    /\ submitted = [c \in Client |-> None]
    /\ promised = {Initial}

(* Opening needs the directory for oneself. *)
Open(c) ==
    /\ \A d \in Client : view[d] = Closed
    /\ \E m \in promised :
          /\ view' = [view EXCEPT ![c] = m]
          /\ promised' = IF Settles THEN {m} ELSE promised
    /\ UNCHANGED submitted

Submit(c, m) ==
    /\ view[c] # Closed
    /\ submitted[c] = None
    /\ submitted' = [submitted EXCEPT ![c] = m]
    /\ promised' = promised \cup {m}
    /\ UNCHANGED view

Acknowledge(c) ==
    /\ submitted[c] \in Maps
    /\ view' = [view EXCEPT ![c] = submitted[c]]
    /\ submitted' = [submitted EXCEPT ![c] = None]
    /\ promised' = {submitted[c]}

(* The handle refuses further writes: it no longer knows the outcome. *)
Poison(c) ==
    /\ view[c] # Closed
    /\ submitted' = [submitted EXCEPT ![c] = Uncertain]
    /\ UNCHANGED << view, promised >>

(* A checkpoint makes what its client reads the only possible contents. *)
Settle(c) ==
    /\ view[c] # Closed
    /\ submitted[c] = None
    /\ promised' = {view[c]}
    /\ UNCHANGED << view, submitted >>

(* Clients go away, on their own or because of a crash. *)
Leave(C) ==
    /\ view' = [c \in Client |-> IF c \in C THEN Closed ELSE view[c]]
    /\ submitted' = [c \in Client |-> IF c \in C THEN None ELSE submitted[c]]
    /\ UNCHANGED promised

Next ==
    \/ \E c \in Client :
          \/ Open(c)
          \/ \E m \in Maps : Submit(c, m)
          \/ Acknowledge(c)
          \/ Poison(c)
          \/ Settle(c)
    \/ \E C \in SUBSET Client : Leave(C)

Spec == Init /\ [][Next]_vars
=============================================================================
