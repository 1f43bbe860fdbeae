----------------------------- MODULE MCReplacers -----------------------------
(***************************************************************************)
(* The two policies of ReplacementPolicy over the same frames: which one   *)
(* the pool was built with is chosen once.                                 *)
(***************************************************************************)
EXTENDS Integers, Sequences

CONSTANTS capacity, k, MaxTime

ASSUME ReplacerConstants ==
    capacity \in Nat \ {0} /\ k \in Nat \ {0} /\ MaxTime \in Nat

VARIABLES
    policy,
    pinned, outcome,                            \* of both policies
    hand, referenced,                           \* of CLOCK
    current_timestamp, history, accesses        \* of LRU-K

Clock == INSTANCE ClockReplacer
LruK == INSTANCE LruKReplacer

lruVars == << current_timestamp, history, accesses >>
replacerVars == << policy, pinned, outcome, hand, referenced, lruVars >>

ReplacersInit == Clock!Init /\ LruK!Init /\ policy \in {"clock", "lru-k"}

ClockVictim == policy = "clock" /\ Clock!Victim /\ UNCHANGED << policy, lruVars >>

ReplacersNext ==
    /\ UNCHANGED policy
    /\ \/ policy = "clock" /\ Clock!Next /\ UNCHANGED lruVars
       \/ policy = "lru-k" /\ LruK!Next /\ UNCHANGED << hand, referenced >>

(* The pool asks for victims again and again. *)
ReplacersFairness == SF_replacerVars(ClockVictim)

ReplacersSpec == ReplacersInit /\ [][ReplacersNext]_replacerVars /\ ReplacersFairness

-----------------------------------------------------------------------------
(* An unpinned frame is found whenever there is one, however many of the
   clock's flags are set: two rounds are enough.  No pinned frame is given up. *)
Abstract == INSTANCE Replacer WITH
    Frame <- Clock!FrameId, None <- Clock!None,
    evictable <- {f \in Clock!FrameId : ~ pinned[f]}

ImplementsReplacer == Abstract!Spec

(* The hand reaches every frame: one that nobody uses again is given up, and
   the frames accessed in between do not hide it. *)
UnusedFrameIsTaken == policy = "clock" => Clock!UnpinnedIsTaken

(* The k times kept are enough: the victim has the greatest backward
   k-distance of the unpinned frames, and of those with an infinite one it
   was accessed first. *)
VictimIsLruK ==
    [][policy = "lru-k" /\ LruK!Victim => LruK!PrefersTo(outcome')]_replacerVars
=============================================================================
