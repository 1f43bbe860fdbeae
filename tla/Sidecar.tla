------------------------------- MODULE Sidecar -------------------------------
(***************************************************************************)
(* serve and handle of crates/ferrite-cli/src/main.rs: an accept loop, one *)
(* worker thread per connection, a handshake, and one lock around the      *)
(* database.  The database is a map here; WalDatabase models it.           *)
(***************************************************************************)
EXTENDS Integers, Sequences, FiniteSets

CONSTANTS
    Client,                     \* each connects once
    MAX_CONNECTION_WORKERS,
    Request,                    \* what clients send; see below
    Sends,                      \* bound: the requests each client sends
    CAPABILITIES,
    Key, Value,
    MaxRequests,                \* bound on the requests of a client
    SocketBuffer,               \* answers a client may leave unread
    NoClient, NotNegotiated, Absent,
    Faults                      \* subset of {"spawn", "panic"}

(* A request is a record with a method and an id: hello with an offer
   [min, max, compression, required, optional], put with key and value, get
   with a key; what serde_json refuses has the method "garbled" and the id 0,
   which stands for null; "oversized" is longer than MAX_REQUEST_BYTES. *)
ASSUME SidecarConstants ==
    /\ IsFiniteSet(Client) /\ NoClient \notin Client
    /\ \A request \in Request : request.method # "none"
    /\ MAX_CONNECTION_WORKERS \in Nat \ {0}
    /\ Sends \in [Client -> SUBSET Request]
    /\ MaxRequests \in Nat /\ SocketBuffer \in Nat \ {0}
    /\ Faults \subseteq {"spawn", "panic"}

PROTOCOL_VERSION == 1
SUPPORTED_COMPRESSION == "none"

VARIABLES
    link,           \* of each client: "none", "queued", "served", "closed"
    inbox,          \* requests the worker has not read
    outbox,         \* ids of the answers the client has not read
    hungUp,         \* clients that closed their end
    sent,           \* how many requests each client has sent
    worker,         \* pc and request of the thread of each connection
    negotiated,     \* capabilities of each connection
    active,         \* active_workers
    lock, poisoned, \* Mutex<Database>
    store

clientVars == << hungUp, sent >>
lockVars == << lock, poisoned, store >>
vars == << link, inbox, outbox, clientVars, worker, negotiated, active, lockVars >>

NoRequest == [method |-> "none", id |-> 0]
Gone == [pc |-> "none", request |-> NoRequest]
Reading == [pc |-> "read", request |-> NoRequest]
Ended == [pc |-> "ended", request |-> NoRequest]

Init ==
    /\ link = [c \in Client |-> "none"]
    /\ inbox = [c \in Client |-> << >>]
    /\ outbox = [c \in Client |-> << >>]
    /\ hungUp = {}
    /\ sent = [c \in Client |-> 0]
    /\ worker = [c \in Client |-> Gone]
    /\ negotiated = [c \in Client |-> NotNegotiated]
    /\ active = 0
    /\ lock = NoClient /\ poisoned = FALSE
    /\ store = [k \in Key |-> Absent]

-----------------------------------------------------------------------------
(* The client's end: it connects, sends without waiting, reads, hangs up. *)
Connect(c) ==
    /\ link[c] = "none"
    /\ link' = [link EXCEPT ![c] = "queued"]
    /\ UNCHANGED << inbox, outbox, clientVars, worker, negotiated, active, lockVars >>

Send(c, request) ==
    /\ link[c] \in {"queued", "served"} /\ c \notin hungUp
    /\ sent[c] < MaxRequests /\ request.id \in {0, sent[c] + 1}
    /\ sent' = [sent EXCEPT ![c] = @ + 1]
    /\ inbox' = [inbox EXCEPT ![c] = Append(@, request)]
    /\ UNCHANGED << link, outbox, hungUp, worker, negotiated, active, lockVars >>

Receive(c) ==
    /\ outbox[c] # << >>
    /\ outbox' = [outbox EXCEPT ![c] = Tail(@)]
    /\ UNCHANGED << link, inbox, clientVars, worker, negotiated, active, lockVars >>

HangUp(c) ==
    /\ link[c] \in {"queued", "served"} /\ c \notin hungUp
    /\ hungUp' = hungUp \cup {c}
    /\ UNCHANGED << link, inbox, outbox, sent, worker, negotiated, active, lockVars >>

-----------------------------------------------------------------------------
(* serve: a connection beyond the limit is dropped. *)
Accept(c) ==
    /\ link[c] = "queued"
    /\ \A d \in Client : worker[d].pc # "spawn"         \* one accept at a time
    /\ IF active < MAX_CONNECTION_WORKERS
       THEN /\ active' = active + 1
            /\ link' = [link EXCEPT ![c] = "served"]
            /\ worker' = [worker EXCEPT ![c].pc = "spawn"]
       ELSE /\ link' = [link EXCEPT ![c] = "closed"]
            /\ UNCHANGED << active, worker >>
    /\ UNCHANGED << inbox, outbox, clientVars, negotiated, lockVars >>

Spawn(c) ==
    /\ worker[c].pc = "spawn"
    /\ worker' = [worker EXCEPT ![c] = Reading]
    /\ UNCHANGED << link, inbox, outbox, clientVars, negotiated, active, lockVars >>

(* A slip: the count is only taken back when handle returns. *)
EndWorkerOnReturn(c) ==
    /\ worker' = [worker EXCEPT ![c] = IF worker[c].pc = "read" THEN Ended ELSE Gone]
    /\ link' = [link EXCEPT ![c] = "closed"]
    /\ UNCHANGED << inbox, outbox, clientVars, negotiated, active >>

(* The thread ends, or never began: its stream is closed first. *)
EndWorker(c) ==
    /\ worker' = [worker EXCEPT ![c] = Ended]
    /\ link' = [link EXCEPT ![c] = "closed"]
    /\ UNCHANGED << inbox, outbox, clientVars, negotiated, active >>

(* Then ConnectionWorker is dropped, whatever ended the thread. *)
DropWorker(c) ==
    /\ worker[c] = Ended
    /\ worker' = [worker EXCEPT ![c] = Gone]
    /\ active' = active - 1
    /\ UNCHANGED << link, inbox, outbox, clientVars, negotiated, lockVars >>

SpawnFails(c) ==
    /\ "spawn" \in Faults
    /\ worker[c].pc = "spawn"
    /\ EndWorker(c)
    /\ UNCHANGED lockVars

-----------------------------------------------------------------------------
(* negotiate: the capabilities that are selected. *)
Compatible(offer) ==
    /\ offer.min <= PROTOCOL_VERSION /\ PROTOCOL_VERSION <= offer.max
    /\ SUPPORTED_COMPRESSION \in offer.compression
    /\ offer.required \subseteq CAPABILITIES

Negotiate(offer) == CAPABILITIES \cap (offer.required \cup offer.optional)

(* require_method_capability *)
Requires(method) ==
    CASE method \in {"put", "get", "delete"} -> {"kv"}
      [] method = "transaction" -> {"transactions"}
      [] method = "list" -> {"prefix-list"}
      [] OTHER -> {}

Allowed(c, request) ==
    /\ negotiated[c] # NotNegotiated
    /\ Requires(request.method) \subseteq negotiated[c]

Begin(c, pc) ==
    /\ worker' = [worker EXCEPT ![c] = [pc |-> pc, request |-> Head(inbox[c])]]
    /\ inbox' = [inbox EXCEPT ![c] = Tail(@)]
    /\ UNCHANGED << link, outbox, clientVars, active, lockVars >>

NextIs(c, method) ==
    /\ worker[c].pc = "read" /\ inbox[c] # << >>
    /\ Head(inbox[c]).method = method

(* A first offer that suits is accepted; any other answer changes nothing. *)
Hello(c) ==
    /\ NextIs(c, "hello")
    /\ LET offer == Head(inbox[c]).offer
       IN  negotiated' = IF negotiated[c] = NotNegotiated /\ Compatible(offer)
                         THEN [negotiated EXCEPT ![c] = Negotiate(offer)] ELSE negotiated
    /\ Begin(c, "reply")

(* What does not parse, is no method of the handshake's capabilities, or comes
   before the handshake is answered with an error. *)
Refuse(c) ==
    /\ worker[c].pc = "read" /\ inbox[c] # << >>
    /\ LET request == Head(inbox[c])
       IN  \/ request.method = "garbled"
           \/ request.method \notin {"hello", "garbled", "oversized"} /\ ~ Allowed(c, request)
    /\ Begin(c, "reply")
    /\ UNCHANGED negotiated

Oversized(c) ==
    /\ NextIs(c, "oversized")
    /\ EndWorker(c)
    /\ UNCHANGED lockVars

Take(c) ==
    /\ worker[c].pc = "read" /\ inbox[c] # << >>
    /\ Head(inbox[c]).method \notin {"hello", "garbled", "oversized"}
    /\ Allowed(c, Head(inbox[c]))
    /\ Begin(c, "lock")
    /\ UNCHANGED negotiated

EndOfStream(c) ==
    /\ worker[c].pc = "read" /\ inbox[c] = << >> /\ c \in hungUp
    /\ EndWorker(c)
    /\ UNCHANGED lockVars

(* 30 seconds without a request. *)
ReadTimeout(c) ==
    /\ worker[c].pc = "read" /\ inbox[c] = << >> /\ c \notin hungUp
    /\ EndWorker(c)
    /\ UNCHANGED lockVars

-----------------------------------------------------------------------------
(* dispatch *)
Goto(c, pc) ==
    /\ worker' = [worker EXCEPT ![c].pc = pc]
    /\ UNCHANGED << link, inbox, outbox, clientVars, negotiated, active >>

Lock(c) ==
    /\ worker[c].pc = "lock" /\ lock = NoClient
    /\ IF poisoned THEN Goto(c, "reply") /\ UNCHANGED lock
       ELSE Goto(c, "dispatch") /\ lock' = c
    /\ UNCHANGED << poisoned, store >>

Dispatch(c) ==
    /\ worker[c].pc = "dispatch"
    /\ store' = IF worker[c].request.method = "put"
                THEN [store EXCEPT ![worker[c].request.key] = worker[c].request.value]
                ELSE store
    /\ lock' = NoClient
    /\ Goto(c, "reply")
    /\ UNCHANGED poisoned

(* A slip: the lock stays with the thread that died. *)
PanicHolding(c) ==
    /\ "panic" \in Faults
    /\ worker[c].pc = "dispatch"
    /\ poisoned' = TRUE
    /\ EndWorker(c)
    /\ UNCHANGED << lock, store >>

(* A panic under the lock poisons it and unwinds the thread. *)
Panic(c) ==
    /\ "panic" \in Faults
    /\ worker[c].pc = "dispatch"
    /\ lock' = NoClient /\ poisoned' = TRUE
    /\ EndWorker(c)
    /\ UNCHANGED store

(* A slip: the answer carries the id of the request that came last. *)
ReplyIdLast(c) ==
    IF inbox[c] = << >> THEN worker[c].request.id ELSE inbox[c][Len(inbox[c])].id

ReplyId(c) == worker[c].request.id

(* write_response waits while the socket is full, and fails when the client
   has gone. *)
Reply(c) ==
    /\ worker[c].pc = "reply" /\ c \notin hungUp
    /\ Len(outbox[c]) < SocketBuffer
    /\ outbox' = [outbox EXCEPT ![c] = Append(@, ReplyId(c))]
    /\ worker' = [worker EXCEPT ![c] = Reading]
    /\ UNCHANGED << link, inbox, clientVars, negotiated, active, lockVars >>

ReplyFails(c) ==
    /\ worker[c].pc = "reply" /\ c \in hungUp
    /\ EndWorker(c)
    /\ UNCHANGED lockVars

WorkerStep(c) ==
    \/ Hello(c) \/ Refuse(c) \/ Oversized(c) \/ Take(c) \/ EndOfStream(c)
    \/ ReadTimeout(c) \/ Lock(c) \/ Dispatch(c) \/ Panic(c) \/ Reply(c) \/ ReplyFails(c)

ServerStep(c) ==
    Accept(c) \/ Spawn(c) \/ SpawnFails(c) \/ WorkerStep(c) \/ DropWorker(c)

Next ==
    \E c \in Client :
        \/ Connect(c) \/ Receive(c) \/ HangUp(c)
        \/ \E request \in Sends[c] : Send(c, request)
        \/ ServerStep(c)

Spec == Init /\ [][Next]_vars

(* Every thread is scheduled, and a client reads what it is sent. *)
Fairness == \A c \in Client : WF_vars(ServerStep(c)) /\ WF_vars(Receive(c))

-----------------------------------------------------------------------------
Alive(c) == worker[c].pc # "none"

(* Slots are neither lost nor given twice, however a connection ends: the
   count is that of the workers, and at most MAX_CONNECTION_WORKERS. *)
SlotsAccounted ==
    /\ active = Cardinality({c \in Client : Alive(c)})
    /\ active <= MAX_CONNECTION_WORKERS

(* A connection holds its slot only while its client speaks: in the end every
   slot is free again, every request that was taken answered or its connection
   closed, also when another worker died under the lock. *)
SlotsComeBack == []<>(\A c \in Client : ~ Alive(c))

(* What a client has waiting: the request in work, and those unread. *)
Waiting(c) ==
    (IF worker[c].request = NoRequest THEN << >> ELSE << worker[c].request >>) \o inbox[c]

Connection(c) == INSTANCE Wire WITH
    waiting <- Waiting(c), replies <- outbox[c], open <- link[c] # "closed"

(* Each connection keeps the promise of Wire, whatever the others do: answers
   in the order of the requests, one each, and none after the close. *)
ImplementsWire ==
    /\ \A c \in Client : Connection(c)!WireInit
    /\ [][\A c \in Client : Connection(c)!WireNext \/ UNCHANGED Connection(c)!wireVars]_vars
=============================================================================
