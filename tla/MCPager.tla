------------------------------- MODULE MCPager -------------------------------
(* A small file for TLC. *)
EXTENDS Pager

(* The client's data may look like a link, or like an index out of range. *)
MCWritten == {[word |-> 1, rest |-> "data"], [word |-> MaxPage + 1, rest |-> "data"]}

MCFaultClasses == {{}, {"kill", "io"}, {"power"}}

(* Nothing fails. *)
MCNoFaults == {{}}
=============================================================================
