--------------------------- MODULE MCWalDatabase ---------------------------
(* Small instances of WalDatabase for TLC. *)
EXTENDS WalDatabaseRefinement, TLC

CONSTANTS k1, k2, v1, v2, s1, s2

(* One byte per key; the second value is longer than the first. *)
MCKeyBytes == [k \in Key |-> 1]
MCValueBytes == [v \in Value |-> IF v = v1 THEN 1 ELSE 3]

(* s1 has a unique field: two documents may not hold the same value.
   s2 knows no collection for k2. *)
MCConforming ==
    [s \in Schemas |->
        IF s = s1 THEN {m \in Map : m[k1] = Absent \/ m[k1] # m[k2]}
                  ELSE {m \in Map : m[k2] = Absent}]

Put(k, v) == [key |-> k, value |-> v]
Delete(k) == [key |-> k, value |-> Absent]

(* A single put, a put of two keys, an overwrite within a transaction, a
   delete after a put, and one operation more than the limit. *)
MCTransactions ==
    { << Put(k1, v1) >>,
      << Put(k2, v1), Put(k1, v2) >>,
      << Put(k2, v2), Delete(k2) >>,
      << Delete(k1) >>,
      << Put(k1, v1), Put(k1, v2), Put(k2, v1) >> }

(* Processes are interchangeable. *)
MCSymmetry == Permutations(Proc)
=============================================================================
