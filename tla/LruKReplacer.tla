---------------------------- MODULE LruKReplacer -----------------------------
(***************************************************************************)
(* LruKReplacer of crates/ferrite-core/src/buffer_pool.rs: of every frame  *)
(* it keeps the times of the last k accesses.  The clock is a u64 that the *)
(* code lets wrap; MaxTime bounds it far below.                            *)
(***************************************************************************)
EXTENDS Integers, Sequences

CONSTANTS capacity, k, MaxTime

VARIABLES
    current_timestamp,
    history,
    pinned,
    outcome,    \* what the last victim() returned
    accesses    \* all access times of a frame since it was last removed

vars == << current_timestamp, history, pinned, outcome, accesses >>

FrameId == 0 .. capacity - 1
None == capacity

Init ==
    /\ current_timestamp = 0
    /\ history = [f \in FrameId |-> << >>]
    /\ pinned = [f \in FrameId |-> TRUE]
    /\ outcome = None
    /\ accesses = [f \in FrameId |-> << >>]

-----------------------------------------------------------------------------
Front(f) == IF history[f] = << >> THEN 0 ELSE history[f][1]
Distance(f) == current_timestamp - Front(f)

(* The two candidates victim() keeps: the first accessed of the frames with
   fewer than k accesses, and the most distant of the others.  Ties go to the
   smaller id. *)
Young == {f \in FrameId : ~ pinned[f] /\ Len(history[f]) < k}
Old == {f \in FrameId : ~ pinned[f] /\ Len(history[f]) >= k}

FirstOf(f, set) ==
    /\ f \in set
    /\ \A g \in set \ {f} : Front(f) < Front(g) \/ (Front(f) = Front(g) /\ f < g)
MostDistantOf(f, set) ==
    /\ f \in set
    /\ \A g \in set \ {f} :
          Distance(f) > Distance(g) \/ (Distance(f) = Distance(g) /\ f < g)

Selected(f) == IF Young # {} THEN FirstOf(f, Young) ELSE MostDistantOf(f, Old)

Victim ==
    \E f \in FrameId :
        /\ Selected(f)
        /\ outcome' = f
        /\ pinned' = [pinned EXCEPT ![f] = TRUE]
        /\ UNCHANGED << current_timestamp, history, accesses >>

VictimNone ==
    /\ \A f \in FrameId : ~ Selected(f)
    /\ outcome' = None
    /\ UNCHANGED << current_timestamp, history, pinned, accesses >>

(* The last k times, the new one included. *)
Recorded(times, now) ==
    IF Len(times) = k THEN Append(Tail(times), now) ELSE Append(times, now)

(* The pool records an access and pins in the same critical section. *)
Access(f) ==
    /\ current_timestamp < MaxTime
    /\ current_timestamp' = current_timestamp + 1
    /\ history' = [history EXCEPT ![f] = Recorded(@, current_timestamp')]
    /\ accesses' = [accesses EXCEPT ![f] = Append(@, current_timestamp')]
    /\ pinned' = [pinned EXCEPT ![f] = TRUE]
    /\ UNCHANGED outcome

Unpin(f) ==
    /\ pinned' = [pinned EXCEPT ![f] = FALSE]
    /\ UNCHANGED << current_timestamp, history, outcome, accesses >>

(* A slip: the next page of the frame inherits the accesses of the last. *)
RemoveKeepingHistory(f) ==
    /\ pinned' = [pinned EXCEPT ![f] = TRUE]
    /\ accesses' = [accesses EXCEPT ![f] = << >>]
    /\ UNCHANGED << current_timestamp, history, outcome >>

Remove(f) ==
    /\ pinned' = [pinned EXCEPT ![f] = TRUE]
    /\ history' = [history EXCEPT ![f] = << >>]
    /\ accesses' = [accesses EXCEPT ![f] = << >>]
    /\ UNCHANGED << current_timestamp, outcome >>

Next ==
    \/ Victim \/ VictimNone
    \/ \E f \in FrameId : Access(f) \/ Unpin(f) \/ Remove(f)

Spec == Init /\ [][Next]_vars

-----------------------------------------------------------------------------
(* LRU-K by the whole record of accesses: the time of the k-th access back,
   0 when there were fewer. *)
KthBack(f) ==
    IF Len(accesses[f]) < k THEN 0 ELSE accesses[f][Len(accesses[f]) - k + 1]
FirstAccess(f) == IF accesses[f] = << >> THEN 0 ELSE accesses[f][1]

Prefers(f, g) ==
    \/ KthBack(f) < KthBack(g)
    \/ KthBack(f) = 0 /\ KthBack(g) = 0 /\ FirstAccess(f) <= FirstAccess(g)

(* No unpinned frame was a better victim. *)
PrefersTo(f) == \A g \in FrameId \ {f} : ~ pinned[g] => Prefers(f, g)
=============================================================================
