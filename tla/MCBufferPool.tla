---------------------------- MODULE MCBufferPool ----------------------------
(* Small instances of BufferPool for TLC. *)
EXTENDS BufferPool, TLC

CONSTANTS t1, t2, f1, f2, p1, p2, p3, blank, v1

Interchangeable ==
    Permutations(Thread) \cup Permutations(Frame) \cup Permutations(Page)
=============================================================================
