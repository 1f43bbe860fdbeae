---------------------------- MODULE PythonClient ----------------------------
(***************************************************************************)
(* _request of FerriteDB and AsyncFerriteDB in sdk/python: a caller writes *)
(* a request, then takes the next line of the connection for its answer;   *)
(* ids are sent and never compared.  The connection is that of Wire, which *)
(* Sidecar implements.                                                     *)
(***************************************************************************)
EXTENDS Wire, FiniteSets

CONSTANTS
    Caller,             \* threads or tasks that share one client
    Async,              \* AsyncFerriteDB
    MaxRequests,        \* bound on the requests of the client
    LargeAnswers,       \* ids whose answer is over the limit of a StreamReader
    Faults,             \* subset of {"timeout", "cancel", "close"}
    Nobody, Unanswered, Failed

VARIABLES
    nextId,             \* _next_id
    current,            \* request of each caller, 0 for none
    pc,                 \* of each caller: "idle", "sent", "reading"
    waiter,             \* StreamReader's one waiter
    timedOut,           \* SocketIO's _timeout_occurred
    got                 \* of each request: the id whose answer its caller got

vars == << wireVars, nextId, current, pc, waiter, timedOut, got >>

Ids == 1 .. MaxRequests

Init ==
    /\ WireInit
    /\ nextId = 1
    /\ current = [c \in Caller |-> 0] /\ pc = [c \in Caller |-> "idle"]
    /\ waiter = Nobody /\ timedOut = FALSE
    /\ got = [id \in Ids |-> Unanswered]

(* The server: Wire's, seen from here. *)
Serve ==
    /\ Answer \/ ("close" \in Faults /\ Close)
    /\ UNCHANGED << nextId, current, pc, waiter, timedOut, got >>

(* The call returns or raises: got is what it was given. *)
Return(c, result) ==
    /\ got' = [got EXCEPT ![current[c]] = result]
    /\ pc' = [pc EXCEPT ![c] = "idle"]
    /\ current' = [current EXCEPT ![c] = 0]
    /\ waiter' = IF waiter = c THEN Nobody ELSE waiter
    /\ UNCHANGED nextId

(* sendall, or write and drain; a broken pipe is an OSError. *)
Call(c) ==
    /\ pc[c] = "idle" /\ nextId <= MaxRequests
    /\ nextId' = nextId + 1
    /\ IF open
       THEN /\ Send([id |-> nextId])
            /\ pc' = [pc EXCEPT ![c] = "sent"]
            /\ current' = [current EXCEPT ![c] = nextId]
            /\ UNCHANGED got
       ELSE /\ got' = [got EXCEPT ![nextId] = Failed]
            /\ UNCHANGED << wireVars, pc, current >>
    /\ UNCHANGED << waiter, timedOut >>

(* readline begins.  A socket file that once timed out only raises; a
   StreamReader takes a line it has, or waits, or raises RuntimeError because
   another task waits. *)
ReadLine(c) ==
    /\ pc[c] = "sent"
    /\ IF timedOut THEN Return(c, Failed)
       ELSE IF ~ Async \/ waiter = Nobody
       THEN /\ pc' = [pc EXCEPT ![c] = "reading"]
            /\ waiter' = IF Async THEN c ELSE waiter
            /\ UNCHANGED << nextId, current, got >>
       ELSE Return(c, Failed)
    /\ UNCHANGED << wireVars, timedOut >>

(* While another task waits, a line that has just come may still be taken. *)
CanRead(c) ==
    /\ replies # << >>
    /\ \/ pc[c] = "reading"
       \/ Async /\ pc[c] = "sent" /\ waiter \notin {Nobody, c}

Fits(line) == ~ Async \/ line \notin LargeAnswers

(* The next line is the answer, whatever its id. *)
TakeLine(c) ==
    /\ CanRead(c) /\ Head(replies) > 0 /\ Fits(Head(replies))
    /\ Return(c, Head(replies))
    /\ Receive
    /\ UNCHANGED timedOut

(* A line over the limit raises ValueError.  Its end may not have arrived: it
   is the next line then, a negative id here, and no JSON. *)
TakeOversized(c) ==
    /\ CanRead(c)
    /\ ~ Fits(Head(replies)) \/ Head(replies) < 0
    /\ Return(c, Failed)
    /\ \/ Receive
       \/ /\ replies' = << -1 >> \o Tail(replies)
          /\ UNCHANGED << waiting, open >>
    /\ UNCHANGED timedOut

(* A slip: the end of the stream is not seen. *)
EndOfStreamMissed(c) == FALSE

EndOfStream(c) ==
    /\ pc[c] = "reading" /\ replies = << >> /\ ~ open
    /\ Return(c, Failed)
    /\ UNCHANGED << wireVars, timedOut >>

(* A slip: a socket file that timed out is read again. *)
TimeoutForgiven(c) ==
    /\ ~ Async /\ "timeout" \in Faults /\ pc[c] = "reading" /\ replies = << >>
    /\ Return(c, Failed)
    /\ UNCHANGED << wireVars, timedOut >>

Timeout(c) ==
    /\ ~ Async /\ "timeout" \in Faults /\ pc[c] = "reading" /\ replies = << >>
    /\ Return(c, Failed)
    /\ timedOut' = TRUE
    /\ UNCHANGED wireVars

(* asyncio.wait_for around a call. *)
Cancel(c) ==
    /\ Async /\ "cancel" \in Faults /\ pc[c] \in {"sent", "reading"}
    /\ Return(c, Failed)
    /\ UNCHANGED << wireVars, timedOut >>

Read(c) == ReadLine(c) \/ TakeLine(c) \/ TakeOversized(c) \/ EndOfStream(c)

Next == Serve \/ \E c \in Caller : Call(c) \/ Read(c) \/ Timeout(c) \/ Cancel(c)

Spec == Init /\ [][Next]_vars

-----------------------------------------------------------------------------
(* A call that returns has the answer to its own request. *)
EachGetsItsOwn == \A id \in Ids : got[id] \in {Unanswered, Failed, id}

(* However tasks interleave and calls are cancelled, no answer is given to two
   of them. *)
NoAnswerTwice ==
    \A id1, id2 \in Ids :
        id1 # id2 /\ got[id1] \notin {Unanswered, Failed} => got[id1] # got[id2]

(* No call waits for a line that somebody else took: every call returns. *)
CallsReturn == \A c \in Caller : pc[c] # "idle" ~> pc[c] = "idle"
=============================================================================
