------------------------------ MODULE Replacer ------------------------------
(***************************************************************************)
(* The trait Replacer of crates/ferrite-core/src/buffer_pool.rs as the     *)
(* buffer pool relies on it: it knows which frames may be taken, and gives *)
(* up one of them whenever there is one.                                   *)
(***************************************************************************)
CONSTANTS
    Frame,
    None            \* no victim

VARIABLES
    evictable,
    outcome         \* what the last victim() returned

vars == << evictable, outcome >>

Init == evictable = {} /\ outcome = None

Pin(f) == evictable' = evictable \ {f} /\ UNCHANGED outcome
Unpin(f) == evictable' = evictable \cup {f} /\ UNCHANGED outcome

Victim ==
    \E f \in evictable : evictable' = evictable \ {f} /\ outcome' = f

VictimNone == evictable = {} /\ outcome' = None /\ UNCHANGED evictable

Next == Victim \/ VictimNone \/ \E f \in Frame : Pin(f) \/ Unpin(f)

Spec == Init /\ [][Next]_vars
=============================================================================
