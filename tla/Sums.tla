--------------------------------- MODULE Sums ---------------------------------
(***************************************************************************)
(* What a loop that adds sizes up has after each of them.                  *)
(***************************************************************************)
EXTENDS Integers, Sequences

RunningTotal(sizes) ==
    LET total[i \in 0 .. Len(sizes)] ==
            IF i = 0 THEN 0 ELSE total[i - 1] + sizes[i]
    IN  total

SumOf(sizes) == RunningTotal(sizes)[Len(sizes)]
===============================================================================
