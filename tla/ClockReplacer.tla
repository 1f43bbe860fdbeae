---------------------------- MODULE ClockReplacer ----------------------------
(***************************************************************************)
(* ClockReplacer of crates/ferrite-core/src/buffer_pool.rs: a hand sweeps  *)
(* the frames and passes over those accessed since its last visit.         *)
(***************************************************************************)
EXTENDS Integers

CONSTANT capacity

VARIABLES
    hand,
    referenced,
    pinned,
    outcome     \* what the last victim() returned

vars == << hand, referenced, pinned, outcome >>

FrameId == 0 .. capacity - 1
None == capacity

Init ==
    /\ hand = 0
    /\ referenced = [f \in FrameId |-> FALSE]
    /\ pinned = [f \in FrameId |-> TRUE]
    /\ outcome = None

-----------------------------------------------------------------------------
(* The loop of victim() looks at up to two rounds of candidates.  In its
   second round it finds the flags it cleared in the first. *)
Candidate(i) == (hand + i) % capacity

(* A slip: the candidates of the second round still count as referenced. *)
TakesUnreferenced(i) == ~ pinned[Candidate(i)] /\ ~ referenced[Candidate(i)]

Takes(i) == ~ pinned[Candidate(i)] /\ (referenced[Candidate(i)] => i >= capacity)

Stops(i) == Takes(i) /\ \A j \in 0 .. i - 1 : ~ Takes(j)
Spared(i) ==
    {f \in FrameId : ~ pinned[f] /\ \E j \in 0 .. i - 1 : Candidate(j) = f}

(* A slip: the hand rests on the frame it took. *)
HandStaysAfter(i) == Candidate(i)

HandAfter(i) == (hand + i + 1) % capacity

Victim ==
    \E i \in 0 .. 2 * capacity - 1 :
        /\ Stops(i)
        /\ outcome' = Candidate(i)
        /\ hand' = HandAfter(i)
        /\ pinned' = [pinned EXCEPT ![Candidate(i)] = TRUE]
        /\ referenced' = [f \in FrameId |-> referenced[f] /\ f \notin Spared(i)]

(* Both rounds found nothing, and left the hand where it was. *)
VictimNone ==
    /\ \A i \in 0 .. 2 * capacity - 1 : ~ Takes(i)
    /\ outcome' = None
    /\ referenced' = [f \in FrameId |-> referenced[f] /\ f \notin Spared(2 * capacity)]
    /\ UNCHANGED << hand, pinned >>

(* The pool records an access and pins in the same critical section. *)
Access(f) ==
    /\ referenced' = [referenced EXCEPT ![f] = TRUE]
    /\ pinned' = [pinned EXCEPT ![f] = TRUE]
    /\ UNCHANGED << hand, outcome >>

Unpin(f) ==
    /\ pinned' = [pinned EXCEPT ![f] = FALSE]
    /\ UNCHANGED << hand, referenced, outcome >>

Remove(f) ==
    /\ pinned' = [pinned EXCEPT ![f] = TRUE]
    /\ referenced' = [referenced EXCEPT ![f] = FALSE]
    /\ UNCHANGED << hand, outcome >>

Next ==
    \/ Victim \/ VictimNone
    \/ \E f \in FrameId : Access(f) \/ Unpin(f) \/ Remove(f)

Spec == Init /\ [][Next]_vars

-----------------------------------------------------------------------------
(* A frame that may be taken is taken, or used again. *)
UnpinnedIsTaken == \A f \in FrameId : ~ pinned[f] ~> pinned[f]
=============================================================================
