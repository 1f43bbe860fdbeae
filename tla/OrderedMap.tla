------------------------------ MODULE OrderedMap ------------------------------
(***************************************************************************)
(* What an index promises its one writer: a call changes the map once, at  *)
(* some moment between its start and its return, and a call that fails has *)
(* changed it entirely or not at all.                                      *)
(***************************************************************************)
EXTENDS Functions

CONSTANTS Key, Value, NoCall

VARIABLES
    map,        \* the keys that are there, with their values
    pending,    \* the running call: [op, key, value]
    done        \* it has taken effect

vars == << map, pending, done >>

Init ==
    /\ map = [k \in {} |-> NoCall]
    /\ pending = NoCall /\ done = FALSE

Call(op, k, v) ==
    /\ pending = NoCall
    /\ pending' = [op |-> op, key |-> k, value |-> v]
    /\ done' = FALSE
    /\ UNCHANGED map

Effect ==
    /\ pending # NoCall /\ ~ done
    /\ map' = IF pending.op = "insert"
              THEN [k \in DOMAIN map \cup {pending.key} |->
                      IF k = pending.key THEN pending.value ELSE map[k]]
              ELSE Restrict(map, DOMAIN map \ {pending.key})
    /\ done' = TRUE
    /\ UNCHANGED pending

Return ==
    /\ pending # NoCall /\ done
    /\ pending' = NoCall /\ done' = FALSE
    /\ UNCHANGED map

Abort ==
    /\ pending # NoCall
    /\ pending' = NoCall /\ done' = FALSE
    /\ UNCHANGED map

Next ==
    \/ \E op \in {"insert", "delete"}, k \in Key, v \in Value : Call(op, k, v)
    \/ Effect \/ Return \/ Abort

Spec == Init /\ [][Next]_vars
=============================================================================
