-------------------------- MODULE TypeScriptClient --------------------------
(***************************************************************************)
(* FerriteDB of sdk/typescript/src/index.ts: request, receive, rejectAll   *)
(* and the handlers of its constructor, over the connection of Wire.  Each *)
(* request is a promise in the map "pending" until something settles it.   *)
(***************************************************************************)
EXTENDS Wire

CONSTANTS
    MaxRequests,        \* bound on the requests of the client
    Method              \* "call", and "garbled": what serde_json refuses

VARIABLES
    nextId,
    pending,            \* the map's keys
    settled,            \* how often each promise was resolved or rejected
    resolvedBy,         \* ids of the answers that resolved it
    garbled,            \* requests the server cannot parse
    unsent,             \* requests whose write fails
    exited              \* the sidecar's exit was reported

clientVars == << nextId, pending, settled, resolvedBy, garbled, unsent, exited >>
vars == << wireVars, clientVars >>

Ids == 1 .. MaxRequests

Init ==
    /\ WireInit
    /\ nextId = 1 /\ pending = {}
    /\ settled = [id \in Ids |-> 0] /\ resolvedBy = [id \in Ids |-> {}]
    /\ garbled = {} /\ unsent = {} /\ exited = FALSE

Serve == (Answer \/ Close) /\ UNCHANGED clientVars

(* request: the promise is pending before the write; what serde_json refuses
   is answered with the id null, 0 here. *)
Call(method) ==
    /\ nextId <= MaxRequests
    /\ nextId' = nextId + 1
    /\ pending' = pending \cup {nextId}
    /\ garbled' = IF method = "garbled" THEN garbled \cup {nextId} ELSE garbled
    /\ IF open
       THEN Send([id |-> IF method = "garbled" THEN 0 ELSE nextId]) /\ UNCHANGED unsent
       ELSE unsent' = unsent \cup {nextId} /\ UNCHANGED wireVars
    /\ UNCHANGED << settled, resolvedBy, exited >>

(* A slip: the write's callback rejects without taking the promise out. *)
WriteFailsKeeping(id) ==
    /\ id \in unsent
    /\ unsent' = unsent \ {id}
    /\ settled' = [settled EXCEPT ![id] = @ + 1]
    /\ UNCHANGED << wireVars, nextId, pending, resolvedBy, garbled, exited >>

(* The write's callback.  (It rejects also what rejectAll has rejected.) *)
WriteFails(id) ==
    /\ id \in unsent
    /\ unsent' = unsent \ {id}
    /\ pending' = pending \ {id}
    /\ settled' = IF id \in pending THEN [settled EXCEPT ![id] = @ + 1] ELSE settled
    /\ UNCHANGED << wireVars, nextId, resolvedBy, garbled, exited >>

Resolve(id, answer) ==
    /\ pending' = pending \ {id}
    /\ settled' = [settled EXCEPT ![id] = @ + 1]
    /\ resolvedBy' = [resolvedBy EXCEPT ![id] = @ \cup {answer}]

Addressed(answer) == pending \cap {answer}

(* receive: an answer to nothing that is pending is skipped. *)
ReceiveLine ==
    /\ Receive
    /\ LET answer == Head(replies)
       IN  IF Addressed(answer) = {} THEN UNCHANGED << pending, settled, resolvedBy >>
           ELSE \E id \in Addressed(answer) : Resolve(id, answer)
    /\ UNCHANGED << nextId, garbled, unsent, exited >>

RejectAll ==
    /\ pending' = {}
    /\ settled' = [id \in Ids |-> IF id \in pending THEN settled[id] + 1 ELSE settled[id]]
    /\ UNCHANGED << nextId, resolvedBy, garbled, unsent >>

(* The error event: the peer closed with requests unread, or a write failed. *)
SocketError ==
    /\ ~ open /\ replies = << >> /\ waiting # << >> /\ pending # {}
    /\ RejectAll
    /\ UNCHANGED << wireVars, exited >>

(* The exit event of the sidecar, which close() brings about. *)
Exit ==
    /\ ~ exited /\ exited' = TRUE
    /\ open' = FALSE /\ UNCHANGED << waiting, replies >>
    /\ RejectAll

Event == Serve \/ ReceiveLine \/ SocketError \/ \E id \in Ids : WriteFails(id)

Next == Event \/ Exit \/ \E method \in Method : Call(method)

Spec == Init /\ [][Next]_vars

-----------------------------------------------------------------------------
(* A promise is settled once, whatever comes together: an answer, a failed
   write, an error of the socket, the sidecar's exit. *)
SettledOnce == \A id \in Ids : settled[id] <= 1 /\ (id \in pending => settled[id] = 0)

(* A promise is resolved by the answer to its own request. *)
RightAnswer == \A id \in Ids : resolvedBy[id] \subseteq {id}

(* Each promise is settled once, and by its own answer. *)
EachPromiseItsAnswer == SettledOnce /\ RightAnswer

(* The stream ended and nothing the server left unread made it an error. *)
EndedSilently == ~ open /\ waiting = << >>

(* In the end every promise is settled, save in the two cases that nothing
   handles: a request answered with the id null, and a stream that ends without
   an error. *)
PromisesSettle == []<>(pending \subseteq garbled \/ EndedSilently)
=============================================================================
