-------------------------------- MODULE Wire --------------------------------
(***************************************************************************)
(* What one connection to the sidecar promises its client: requests are    *)
(* answered one by one, in the order they were sent, until the connection  *)
(* is closed; then there are no more answers.                              *)
(***************************************************************************)
EXTENDS Integers, Sequences

CONSTANTS Request       \* records [id, ...]; id = 0 for what is no JSON

VARIABLES
    waiting,    \* requests not answered yet
    replies,    \* ids of the answers not read yet
    open

wireVars == << waiting, replies, open >>

WireInit == waiting = << >> /\ replies = << >> /\ open = TRUE

Send(request) ==
    /\ open
    /\ waiting' = Append(waiting, request)
    /\ UNCHANGED << replies, open >>

Answer ==
    /\ open /\ waiting # << >>
    /\ replies' = Append(replies, Head(waiting).id)
    /\ waiting' = Tail(waiting)
    /\ UNCHANGED open

Receive ==
    /\ replies # << >>
    /\ replies' = Tail(replies)
    /\ UNCHANGED << waiting, open >>

(* Nothing that waits is answered any more, also not what is in work. *)
Close ==
    /\ open
    /\ open' = FALSE
    /\ \/ waiting' = waiting
       \/ waiting # << >> /\ waiting' = Tail(waiting)
    /\ UNCHANGED replies

WireNext == (\E request \in Request : Send(request)) \/ Answer \/ Receive \/ Close
=============================================================================
