---------------------------- MODULE SidecarProofs ----------------------------
(***************************************************************************)
(* Proofs about the sidecar and its clients.  The sidecar: the count of     *)
(* workers, and the refinement of Wire by every connection.  Both rest on  *)
(* what a thread's program counter says of its connection and of the       *)
(* request it holds (ClientInv).  The clients: a promise of TypeScript is  *)
(* settled once and by its own answer; no answer is given to two tasks of  *)
(* AsyncFerriteDB; the one thread of FerriteDB gets the answer to its own  *)
(* request.                                                                *)
(***************************************************************************)
EXTENDS Sidecar, MCClients, FiniteSetTheorems, SequenceTheorems, TLAPS

Idle == {"none", "ended", "read", "spawn"}
Busy == {"lock", "dispatch", "reply"}
Link == {"none", "queued", "served", "closed"}
Id == {request.id : request \in Request}
Worker == [pc : Idle \cup Busy, request : Request \cup {NoRequest}]

TypeInv ==
    /\ link \in [Client -> Link]
    /\ inbox \in [Client -> Seq(Request)]
    /\ outbox \in [Client -> Seq(Id)]
    /\ worker \in [Client -> Worker]
    /\ sent \in [Client -> Nat]
    /\ active \in Nat

(* A thread holds a request while it works on it, its connection is served as
   long as it runs, and a closed connection gets no thread. *)
ClientInv(c) ==
    /\ worker[c].pc \in Idle => worker[c].request = NoRequest
    /\ worker[c].pc \in Busy => worker[c].request \in Request
    /\ worker[c].pc \notin {"none", "ended"} => link[c] = "served"
    /\ worker[c].pc = "ended" => link[c] = "closed"

Inv == TypeInv /\ \A c \in Client : ClientInv(c)

(* What any step does is done by, or for, one client. *)
Step(c) ==
    \/ Connect(c) \/ Receive(c) \/ HangUp(c)
    \/ \E request \in Request : Send(c, request)
    \/ ServerStep(c)

LEMMA NextIsStep == ASSUME Next PROVE \E c \in Client : Step(c)
BY SidecarConstants DEF Next, Step

LEMMA RequestIsSome == NoRequest \notin Request
BY SidecarConstants DEF NoRequest

-----------------------------------------------------------------------------
(* Types *)
LEMMA InitInv == Init => Inv
<1> SUFFICES ASSUME Init PROVE Inv
  OBVIOUS
<1>1. Gone \in Worker
  BY DEF Gone, Worker, Idle
<1>2. TypeInv
  BY <1>1 DEF Init, TypeInv, Link
<1>3. \A c \in Client : ClientInv(c)
  BY DEF Init, ClientInv, Gone, Idle, Busy
<1> QED
  BY <1>2, <1>3 DEF Inv

(* The three constant states of a worker. *)
LEMMA WorkerStates ==
    /\ Gone \in Worker /\ Gone.pc = "none" /\ Gone.request = NoRequest
    /\ Reading \in Worker /\ Reading.pc = "read" /\ Reading.request = NoRequest
    /\ Ended \in Worker /\ Ended.pc = "ended" /\ Ended.request = NoRequest
BY DEF Gone, Reading, Ended, Worker, Idle

(* A step that gives one client's thread another state keeps the invariant if
   that client's part does. *)
LEMMA WorkerMoves ==
    ASSUME Inv, NEW c \in Client, NEW w \in Worker, NEW l \in Link,
           worker' = [worker EXCEPT ![c] = w], link' = [link EXCEPT ![c] = l],
           inbox' \in [Client -> Seq(Request)],
           outbox' \in [Client -> Seq(Id)],
           sent' \in [Client -> Nat], active' \in Nat,
           w.pc \in Idle => w.request = NoRequest,
           w.pc \in Busy => w.request \in Request,
           w.pc \notin {"none", "ended"} => l = "served",
           w.pc = "ended" => l = "closed"
    PROVE  Inv'
<1>1. TypeInv'
  BY DEF Inv, TypeInv
<1>2. ASSUME NEW d \in Client PROVE ClientInv(d)'
  <2>1. CASE d = c
    BY <2>1 DEF Inv, TypeInv, ClientInv
  <2>2. CASE d # c
    BY <2>2 DEF Inv, TypeInv, ClientInv
  <2> QED
    BY <2>1, <2>2
<1> QED
  BY <1>1, <1>2 DEF Inv

LEMMA EndWorkerInv ==
    ASSUME Inv, NEW c \in Client, EndWorker(c) PROVE Inv'
<1>1. "closed" \in Link /\ Ended \in Worker /\ Ended.pc = "ended" /\ Ended.request = NoRequest
  BY WorkerStates DEF Link
<1> QED
  BY <1>1, WorkerMoves DEF Inv, TypeInv, EndWorker, clientVars, Idle, Busy

(* A request that is taken leaves the inbox. *)
LEMMA BeginInv ==
    ASSUME Inv, NEW c \in Client, NEW at \in Busy,
           worker[c].pc = "read", inbox[c] # << >>, Begin(c, at)
    PROVE  Inv'
<1> DEFINE w == [pc |-> at, request |-> Head(inbox[c])]
<1>1. Head(inbox[c]) \in Request /\ Tail(inbox[c]) \in Seq(Request)
  BY DEF Inv, TypeInv
<1>2. /\ w \in Worker /\ w.pc \in Busy /\ w.request \in Request
      /\ w.pc \notin Idle
  BY <1>1 DEF Worker, Busy, Idle
<1>3. worker' = [worker EXCEPT ![c] = w] /\ link' = [link EXCEPT ![c] = "served"]
  BY DEF Begin, Inv, TypeInv, ClientInv, Idle
<1>4. /\ inbox' \in [Client -> Seq(Request)]
      /\ UNCHANGED << outbox, sent, active >>
  BY <1>1 DEF Begin, Inv, TypeInv, clientVars
<1> HIDE DEF w
<1> QED
  BY <1>2, <1>3, <1>4, WorkerMoves DEF Inv, TypeInv, Link, Idle, Busy

LEMMA GotoInv ==
    ASSUME Inv, NEW c \in Client, NEW at \in Busy, worker[c].pc \in Busy, Goto(c, at)
    PROVE  Inv'
<1> DEFINE w == [worker[c] EXCEPT !.pc = at]
<1>1. /\ w \in Worker /\ w.pc \in Busy /\ w.request \in Request /\ w.pc \notin Idle
  BY DEF Inv, TypeInv, ClientInv, Worker, Idle, Busy
<1>2. worker' = [worker EXCEPT ![c] = w] /\ link' = [link EXCEPT ![c] = "served"]
  BY DEF Goto, Inv, TypeInv, ClientInv, Idle, Busy
<1> HIDE DEF w
<1> QED
  BY <1>1, <1>2, WorkerMoves DEF Goto, clientVars, Inv, TypeInv, Link, Idle, Busy

LEMMA WorkerStepInv ==
    ASSUME Inv, NEW c \in Client, WorkerStep(c) PROVE Inv'
<1>1. CASE Hello(c) \/ Refuse(c) \/ Take(c)
  BY <1>1, BeginInv DEF Hello, NextIs, Refuse, Take, Busy
<1>2. CASE Oversized(c) \/ EndOfStream(c) \/ ReadTimeout(c) \/ Panic(c) \/ ReplyFails(c)
  BY <1>2, EndWorkerInv DEF Oversized, EndOfStream, ReadTimeout, Panic, ReplyFails
<1>3. CASE Lock(c) \/ Dispatch(c)
  BY <1>3, GotoInv DEF Lock, Dispatch, Busy
<1>4. CASE Reply(c)
  <2>1. worker[c].request \in Request /\ link[c] = "served"
    BY <1>4 DEF Reply, Inv, ClientInv, Busy
  <2>2. outbox' \in [Client -> Seq(Id)]
    <3>1. worker[c].request.id \in Id
      BY <2>1 DEF Id
    <3> QED
      BY <1>4, <3>1 DEF Reply, ReplyId, Inv, TypeInv
  <2>3. link' = [link EXCEPT ![c] = "served"]
    BY <1>4, <2>1 DEF Reply, Inv, TypeInv
  <2>4. worker' = [worker EXCEPT ![c] = Reading] /\ UNCHANGED << inbox, sent, active >>
    BY <1>4 DEF Reply, clientVars
  <2> QED
    BY <2>2, <2>3, <2>4, WorkerMoves, WorkerStates DEF Inv, TypeInv, Link, Busy
<1> QED
  BY <1>1, <1>2, <1>3, <1>4 DEF WorkerStep

LEMMA StepInv == ASSUME Inv, NEW c \in Client, Step(c), active' \in Nat PROVE Inv'
<1> USE DEF Inv
<1>1. CASE Connect(c)
  <2>1. worker[c].pc = "none"
    BY <1>1 DEF Connect, ClientInv, TypeInv, Worker
  <2>2. TypeInv'
    BY <1>1 DEF Connect, TypeInv, Link, clientVars
  <2> QED
    BY <1>1, <2>1, <2>2 DEF Connect, TypeInv, ClientInv, clientVars
<1>2. CASE Receive(c)
  <2>1. outbox[c] \in Seq(Id) /\ Tail(outbox[c]) \in Seq(Id)
    BY <1>2 DEF Receive, TypeInv
  <2>2. TypeInv'
    BY <1>2, <2>1 DEF Receive, TypeInv, clientVars
  <2> QED
    BY <1>2, <2>2 DEF Receive, ClientInv
<1>3. CASE HangUp(c)
  BY <1>3 DEF HangUp, TypeInv, ClientInv
<1>4. ASSUME NEW request \in Request, Send(c, request) PROVE Inv'
  <2>1. inbox[c] \in Seq(Request) /\ Append(inbox[c], request) \in Seq(Request)
    BY DEF TypeInv
  <2>2. TypeInv'
    BY <1>4, <2>1 DEF Send, TypeInv
  <2> QED
    BY <1>4, <2>2 DEF Send, ClientInv
<1>5. CASE Accept(c)
  <2>1. worker[c].pc = "none" /\ worker[c].request = NoRequest
    BY <1>5 DEF Accept, ClientInv, TypeInv, Worker, Idle
  <2>2. CASE UNCHANGED worker
    <3>1. TypeInv'
      BY <1>5, <2>2 DEF Accept, TypeInv, Link, clientVars
    <3> QED
      BY <1>5, <2>1, <2>2, <3>1 DEF Accept, TypeInv, ClientInv
  <2>3. CASE worker' = [worker EXCEPT ![c].pc = "spawn"] /\ link' = [link EXCEPT ![c] = "served"]
    <3> DEFINE w == [worker[c] EXCEPT !.pc = "spawn"]
    <3>1. /\ w \in Worker /\ w.pc = "spawn" /\ w.request = NoRequest
          /\ worker' = [worker EXCEPT ![c] = w]
      BY <2>1, <2>3 DEF TypeInv, Worker, Idle
    <3> HIDE DEF w
    <3> QED
      BY <1>5, <2>3, <3>1, WorkerMoves DEF Accept, clientVars, TypeInv, Link, Busy
  <2> QED
    BY <1>5, <2>2, <2>3 DEF Accept
<1>6. CASE Spawn(c)
  <2>1. link' = [link EXCEPT ![c] = "served"]
    BY <1>6 DEF Spawn, TypeInv, ClientInv, Idle
  <2> QED
    BY <1>6, <2>1, WorkerMoves, WorkerStates DEF Spawn, clientVars, TypeInv, Link, Busy
<1>7. CASE SpawnFails(c)
  BY <1>7, EndWorkerInv DEF SpawnFails
<1>8. CASE WorkerStep(c)
  BY <1>8, WorkerStepInv
<1>9. CASE DropWorker(c)
  <2>1. link' = [link EXCEPT ![c] = "closed"]
    BY <1>9, WorkerStates DEF DropWorker, TypeInv, ClientInv
  <2> QED
    BY <1>9, <2>1, WorkerMoves, WorkerStates DEF DropWorker, clientVars, TypeInv, Link, Busy
<1> QED
  BY <1>1, <1>2, <1>3, <1>4, <1>5, <1>6, <1>7, <1>8, <1>9 DEF Step, ServerStep

-----------------------------------------------------------------------------
(* Slots *)
AliveClients == {c \in Client : Alive(c)}

(* A step in which no thread begins and none is dropped. *)
LEMMA SlotsUntouched ==
    ASSUME SlotsAccounted, active' = active,
           \A d \in Client : worker'[d].pc = "none" <=> worker[d].pc = "none"
    PROVE  SlotsAccounted'
<1>1. AliveClients' = AliveClients
  BY DEF AliveClients, Alive
<1> QED
  BY <1>1 DEF SlotsAccounted, AliveClients

(* The thread of a served client goes on, or ends. *)
LEMMA WorkerGoesOn ==
    ASSUME Inv, SlotsAccounted, NEW c \in Client, NEW w,
           worker[c].pc # "none", w.pc # "none",
           worker' = [worker EXCEPT ![c] = w], active' = active
    PROVE  SlotsAccounted'
<1>1. \A d \in Client : worker'[d].pc = "none" <=> worker[d].pc = "none"
  BY DEF Inv, TypeInv
<1> QED
  BY <1>1, SlotsUntouched

LEMMA SlotTaken ==
    ASSUME Inv, SlotsAccounted, NEW c \in Client, Accept(c)
    PROVE  SlotsAccounted' /\ active' \in Nat
<1>1. worker[c].pc = "none"
  BY DEF Accept, Inv, ClientInv, TypeInv, Worker
<1>2. CASE active < MAX_CONNECTION_WORKERS
  <2>1. AliveClients' = AliveClients \cup {c} /\ c \notin AliveClients
    BY <1>1, <1>2 DEF Accept, AliveClients, Alive, Inv, TypeInv, Worker
  <2>2. IsFiniteSet(AliveClients)
    BY SidecarConstants, FS_Subset DEF AliveClients
  <2>3. Cardinality(AliveClients') = Cardinality(AliveClients) + 1
    BY <2>1, <2>2, FS_AddElement
  <2>4. active' = active + 1
    BY <1>2 DEF Accept
  <2> QED
    BY <1>2, <2>3, <2>4, SidecarConstants DEF SlotsAccounted, AliveClients, Inv, TypeInv
<1>3. CASE ~ active < MAX_CONNECTION_WORKERS
  BY <1>3, SlotsUntouched DEF Accept, Inv, TypeInv
<1> QED
  BY <1>2, <1>3

LEMMA SlotGivenBack ==
    ASSUME Inv, SlotsAccounted, NEW c \in Client, DropWorker(c)
    PROVE  SlotsAccounted' /\ active' \in Nat
<1>1. AliveClients' = AliveClients \ {c} /\ c \in AliveClients
  BY WorkerStates DEF DropWorker, AliveClients, Alive, Inv, TypeInv
<1>2. IsFiniteSet(AliveClients)
  BY SidecarConstants, FS_Subset DEF AliveClients
<1>3. /\ Cardinality(AliveClients') = Cardinality(AliveClients) - 1
      /\ Cardinality(AliveClients') \in Nat
  BY <1>1, <1>2, FS_RemoveElement, FS_CardinalityType
<1>4. active' = active - 1
  BY DEF DropWorker
<1> QED
  BY <1>3, <1>4, SidecarConstants DEF SlotsAccounted, AliveClients, Inv, TypeInv

LEMMA SlotsStep ==
    ASSUME Inv, SlotsAccounted, NEW c \in Client, Step(c)
    PROVE  SlotsAccounted' /\ active' \in Nat
<1> USE DEF Inv, TypeInv
<1>1. CASE Connect(c) \/ Receive(c) \/ HangUp(c) \/ \E request \in Request : Send(c, request)
  BY <1>1, SlotsUntouched DEF Connect, Receive, HangUp, Send
<1>2. CASE Accept(c)
  BY <1>2, SlotTaken
<1>3. CASE DropWorker(c)
  BY <1>3, SlotGivenBack
<1>4. CASE Spawn(c)
  BY <1>4, WorkerGoesOn, WorkerStates DEF Spawn
<1>5. ASSUME EndWorker(c), worker[c].pc # "none" PROVE SlotsAccounted' /\ active' \in Nat
  BY <1>5, WorkerGoesOn, WorkerStates DEF EndWorker
<1>6. ASSUME NEW at \in Busy, Begin(c, at), worker[c].pc = "read"
      PROVE  SlotsAccounted' /\ active' \in Nat
  <2> DEFINE w == [pc |-> at, request |-> Head(inbox[c])]
  <2>1. w.pc # "none" /\ worker' = [worker EXCEPT ![c] = w] /\ active' = active
    BY <1>6 DEF Begin, Busy
  <2> HIDE DEF w
  <2> QED
    BY <1>6, <2>1, WorkerGoesOn
<1>7. ASSUME NEW at \in Busy, Goto(c, at), worker[c].pc \in Busy
      PROVE  SlotsAccounted' /\ active' \in Nat
  <2> DEFINE w == [worker[c] EXCEPT !.pc = at]
  <2>1. w.pc # "none" /\ worker' = [worker EXCEPT ![c] = w] /\ active' = active
    BY <1>7 DEF Goto, Busy, Worker
  <2> HIDE DEF w
  <2> QED
    BY <1>7, <2>1, WorkerGoesOn DEF Busy
<1>8. CASE Reply(c)
  BY <1>8, WorkerGoesOn, WorkerStates DEF Reply
<1> QED
  BY <1>1, <1>2, <1>3, <1>4, <1>5, <1>6, <1>7, <1>8
  DEF Step, ServerStep, SpawnFails, WorkerStep, Hello, NextIs, Refuse, Take, Oversized,
      EndOfStream, ReadTimeout, Lock, Dispatch, Panic, ReplyFails, Busy

LEMMA InitSlots == Init => SlotsAccounted
<1> SUFFICES ASSUME Init PROVE SlotsAccounted
  OBVIOUS
<1>1. AliveClients = {}
  BY WorkerStates DEF Init, AliveClients, Alive
<1>2. Cardinality(AliveClients) = 0
  BY <1>1, FS_EmptySet
<1>3. active = 0 /\ 0 <= MAX_CONNECTION_WORKERS
  BY SidecarConstants DEF Init
<1> QED
  BY <1>2, <1>3 DEF SlotsAccounted, AliveClients

LEMMA NextInv == Inv /\ SlotsAccounted /\ [Next]_vars => (Inv /\ SlotsAccounted)'
<1> SUFFICES ASSUME Inv, SlotsAccounted, [Next]_vars PROVE (Inv /\ SlotsAccounted)'
  OBVIOUS
<1>1. ASSUME NEW c \in Client, Step(c) PROVE (Inv /\ SlotsAccounted)'
  BY <1>1, SlotsStep, StepInv
<1>2. CASE UNCHANGED vars
  <2>1. Inv'
    BY <1>2 DEF vars, clientVars, Inv, TypeInv, ClientInv
  <2> QED
    BY <1>2, <2>1 DEF vars, SlotsAccounted, Alive
<1> QED
  BY <1>1, <1>2, NextIsStep

(* The count of workers is that of the live threads and never above the limit,
   for any number of clients, requests and workers, whatever ends a thread. *)
THEOREM SlotsAreAccounted == Spec => []SlotsAccounted
BY InitInv, InitSlots, NextInv, PTL DEF Spec

-----------------------------------------------------------------------------
(* The wire *)
LEMMA SeqFacts ==
    ASSUME NEW S, NEW r \in S, NEW s \in Seq(S)
    PROVE  /\ << r >> \o s # << >>
           /\ Head(<< r >> \o s) = r
           /\ Tail(<< r >> \o s) = s
           /\ << >> \o s = s
           /\ \A e \in S : Append(<< r >> \o s, e) = << r >> \o Append(s, e)
           /\ \A e \in S : Append(<< >> \o s, e) = << >> \o Append(s, e)
           /\ s # << >> => << Head(s) >> \o Tail(s) = s
OBVIOUS

(* The abstract connection takes a step of its own, or none. *)
Steps(c) == Connection(c)!WireNext \/ UNCHANGED Connection(c)!wireVars

Closes(c) ==
    /\ link[c] # "closed" /\ link'[c] = "closed" /\ outbox'[c] = outbox[c]
    /\ \/ Waiting(c)' = Waiting(c)
       \/ Waiting(c) # << >> /\ Waiting(c)' = Tail(Waiting(c))

LEMMA StepOfWire ==
    ASSUME NEW c \in Client,
           \/ /\ (link'[c] = "closed") <=> (link[c] = "closed")
              /\ \/ outbox'[c] = outbox[c] /\ Waiting(c)' = Waiting(c)
                 \/ /\ link[c] # "closed" /\ outbox'[c] = outbox[c]
                    /\ \E request \in Request : Waiting(c)' = Append(Waiting(c), request)
                 \/ /\ link[c] # "closed" /\ Waiting(c) # << >>
                    /\ outbox'[c] = Append(outbox[c], Head(Waiting(c)).id)
                    /\ Waiting(c)' = Tail(Waiting(c))
                 \/ /\ outbox[c] # << >> /\ outbox'[c] = Tail(outbox[c])
                    /\ Waiting(c)' = Waiting(c)
           \/ Closes(c)
    PROVE  Steps(c)
BY DEF Steps, Closes, Connection!WireNext, Connection!wireVars, Connection!Send,
       Connection!Answer, Connection!Receive, Connection!Close

(* What waits at a connection, by the state of its thread. *)
LEMMA WaitingOf ==
    ASSUME Inv, NEW c \in Client
    PROVE  /\ worker[c].pc \in Idle => Waiting(c) = inbox[c]
           /\ worker[c].pc \in Busy =>
                 /\ Waiting(c) = << worker[c].request >> \o inbox[c]
                 /\ Waiting(c) # << >>
                 /\ Head(Waiting(c)) = worker[c].request
                 /\ Tail(Waiting(c)) = inbox[c]
<1>1. inbox[c] \in Seq(Request) /\ << >> \o inbox[c] = inbox[c]
  BY DEF Inv, TypeInv
<1>2. CASE worker[c].pc \in Idle
  BY <1>1, <1>2 DEF Inv, ClientInv, Waiting, Idle, Busy
<1>3. CASE worker[c].pc \in Busy
  <2>1. worker[c].request \in Request /\ worker[c].request # NoRequest
    BY <1>3, RequestIsSome DEF Inv, ClientInv
  <2>2. Waiting(c) = << worker[c].request >> \o inbox[c]
    BY <2>1 DEF Waiting
  <2>3. worker[c].pc \notin Idle
    BY <1>3 DEF Idle, Busy
  <2> QED
    BY <1>1, <2>1, <2>2, <2>3, SeqFacts
<1> QED
  BY <1>2, <1>3

(* Other connections see nothing of a step. *)
LEMMA OthersStutter ==
    ASSUME Inv, NEW c \in Client, NEW d \in Client, c # d, Step(d)
    PROVE  Steps(c)
<1>1. /\ link'[c] = link[c] /\ outbox'[c] = outbox[c]
      /\ inbox'[c] = inbox[c] /\ worker'[c] = worker[c]
  BY DEF Inv, TypeInv, Step, ServerStep, WorkerStep, Connect, Receive, HangUp, Send, Accept,
         Spawn, SpawnFails, EndWorker, DropWorker, Hello, Refuse, Take, Begin, Oversized,
         EndOfStream, ReadTimeout, Lock, Dispatch, Goto, Panic, Reply, ReplyFails, clientVars
<1>2. Waiting(c)' = Waiting(c)
  BY <1>1 DEF Waiting
<1> QED
  BY <1>1, <1>2, StepOfWire

(* A thread that ends closes its connection, with what it had in work. *)
LEMMA EndCloses ==
    ASSUME Inv, NEW c \in Client, EndWorker(c), worker[c].pc \notin {"none", "ended"}
    PROVE  Steps(c)
<1>1. link[c] = "served" /\ link'[c] = "closed" /\ outbox'[c] = outbox[c]
  BY DEF EndWorker, Inv, TypeInv, ClientInv
<1>2. worker'[c] = Ended /\ inbox'[c] = inbox[c]
  BY DEF EndWorker, Inv, TypeInv
<1>3. Waiting(c)' = inbox[c]
  <2>1. Waiting(c)' = << >> \o inbox[c]
    BY <1>2, WorkerStates DEF Waiting
  <2> QED
    BY <2>1 DEF Inv, TypeInv
<1>4. worker[c].pc \in Idle \cup Busy
  BY DEF Inv, TypeInv, Worker
<1>5. \/ Waiting(c)' = Waiting(c)
      \/ Waiting(c) # << >> /\ Waiting(c)' = Tail(Waiting(c))
  BY <1>3, <1>4, WaitingOf
<1>6. Closes(c)
  BY <1>1, <1>5 DEF Closes
<1> QED
  BY <1>6, StepOfWire

(* What leaves the connection and what waits at it unchanged is a stutter. *)
LEMMA Stutters ==
    ASSUME NEW c \in Client, (link'[c] = "closed") <=> (link[c] = "closed"),
           outbox'[c] = outbox[c], Waiting(c)' = Waiting(c)
    PROVE  Steps(c)
BY StepOfWire

LEMMA BeginStutters ==
    ASSUME Inv, NEW c \in Client, NEW at \in Busy,
           worker[c].pc = "read", inbox[c] # << >>, Begin(c, at)
    PROVE  Steps(c)
<1>1. /\ worker'[c].request = Head(inbox[c]) /\ inbox'[c] = Tail(inbox[c])
      /\ link'[c] = link[c] /\ outbox'[c] = outbox[c]
  BY DEF Begin, Inv, TypeInv
<1>2. Head(inbox[c]) \in Request /\ << Head(inbox[c]) >> \o Tail(inbox[c]) = inbox[c]
  BY SeqFacts DEF Inv, TypeInv
<1>3. Waiting(c)' = inbox[c]
  BY <1>1, <1>2, RequestIsSome DEF Waiting
<1> QED
  BY <1>1, <1>3, WaitingOf, Stutters DEF Idle

LEMMA GotoStutters ==
    ASSUME Inv, NEW c \in Client, NEW at \in Busy, Goto(c, at)
    PROVE  Steps(c)
<1>1. /\ worker'[c].request = worker[c].request /\ inbox'[c] = inbox[c]
      /\ link'[c] = link[c] /\ outbox'[c] = outbox[c]
  BY DEF Goto, Inv, TypeInv, Worker
<1> QED
  BY <1>1, Stutters DEF Waiting

LEMMA WorkerStepOnWire ==
    ASSUME Inv, NEW c \in Client, WorkerStep(c) PROVE Steps(c)
<1>1. CASE Hello(c) \/ Refuse(c) \/ Take(c)
  BY <1>1, BeginStutters DEF Hello, NextIs, Refuse, Take, Busy
<1>2. CASE Oversized(c) \/ EndOfStream(c) \/ ReadTimeout(c) \/ Panic(c) \/ ReplyFails(c)
  BY <1>2, EndCloses DEF Oversized, NextIs, EndOfStream, ReadTimeout, Panic, ReplyFails
<1>3. CASE Lock(c) \/ Dispatch(c)
  BY <1>3, GotoStutters DEF Lock, Dispatch, Busy
<1>4. CASE Reply(c)
  <2>1. link[c] = "served" /\ link'[c] = "served"
    BY <1>4 DEF Reply, Inv, ClientInv
  <2>2. outbox'[c] = Append(outbox[c], worker[c].request.id)
    BY <1>4 DEF Reply, ReplyId, Inv, TypeInv
  <2>3. Waiting(c)' = inbox[c]
    <3>1. worker'[c] = Reading /\ inbox'[c] = inbox[c]
      BY <1>4 DEF Reply, Inv, TypeInv
    <3>2. Waiting(c)' = << >> \o inbox[c]
      BY <3>1, WorkerStates DEF Waiting
    <3> QED
      BY <3>2 DEF Inv, TypeInv
  <2>4. Waiting(c) # << >> /\ Head(Waiting(c)) = worker[c].request /\ Tail(Waiting(c)) = inbox[c]
    BY <1>4, WaitingOf DEF Reply, Busy
  <2> QED
    BY <2>1, <2>2, <2>3, <2>4, StepOfWire
<1> QED
  BY <1>1, <1>2, <1>3, <1>4 DEF WorkerStep

LEMMA OwnStepOnWire ==
    ASSUME Inv, NEW c \in Client, Step(c) PROVE Steps(c)
<1>1. CASE Connect(c) \/ HangUp(c)
  <2>1. /\ (link'[c] = "closed") <=> (link[c] = "closed")
        /\ outbox'[c] = outbox[c] /\ inbox'[c] = inbox[c] /\ worker'[c] = worker[c]
    BY <1>1 DEF Connect, HangUp, Inv, TypeInv
  <2> QED
    BY <2>1, Stutters DEF Waiting
<1>2. CASE Receive(c)
  <2>1. /\ link'[c] = link[c] /\ outbox[c] # << >> /\ outbox'[c] = Tail(outbox[c])
        /\ inbox'[c] = inbox[c] /\ worker'[c] = worker[c]
    BY <1>2 DEF Receive, Inv, TypeInv
  <2>2. Waiting(c)' = Waiting(c)
    BY <2>1 DEF Waiting
  <2> QED
    BY <2>1, <2>2, StepOfWire
<1>3. ASSUME NEW request \in Request, Send(c, request) PROVE Steps(c)
  <2>1. /\ link'[c] = link[c] /\ link[c] # "closed" /\ outbox'[c] = outbox[c]
        /\ inbox'[c] = Append(inbox[c], request) /\ worker'[c] = worker[c]
    BY <1>3 DEF Send, Inv, TypeInv
  <2>2. Waiting(c)' = Append(Waiting(c), request)
    <3>1. inbox[c] \in Seq(Request) /\ worker[c].request \in Request \cup {NoRequest}
      BY DEF Inv, TypeInv, Worker
    <3>2. CASE worker[c].request = NoRequest
      <4>1. << >> \o Append(inbox[c], request) = Append(<< >> \o inbox[c], request)
        BY <3>1
      <4> QED
        BY <2>1, <3>2, <4>1 DEF Waiting
    <3>3. CASE worker[c].request # NoRequest
      <4>1. << worker[c].request >> \o Append(inbox[c], request)
              = Append(<< worker[c].request >> \o inbox[c], request)
        BY <3>1, <3>3, SeqFacts
      <4> QED
        BY <2>1, <3>3, <4>1 DEF Waiting
    <3> QED
      BY <3>2, <3>3
  <2> QED
    BY <2>1, <2>2, StepOfWire
<1>4. CASE Accept(c)
  <2>1. /\ link[c] = "queued" /\ link'[c] \in {"served", "closed"}
        /\ outbox'[c] = outbox[c] /\ inbox'[c] = inbox[c]
        /\ worker'[c].request = worker[c].request
    BY <1>4 DEF Accept, Inv, TypeInv, Worker
  <2>2. Waiting(c)' = Waiting(c)
    BY <2>1 DEF Waiting
  <2>3. CASE link'[c] = "served"
    BY <2>1, <2>2, <2>3, Stutters
  <2>4. CASE link'[c] = "closed"
    <3>1. Closes(c)
      BY <2>1, <2>2, <2>4 DEF Closes
    <3> QED
      BY <3>1, StepOfWire
  <2> QED
    BY <2>1, <2>3, <2>4
<1>5. CASE Spawn(c) \/ DropWorker(c)
  <2>1. /\ link'[c] = link[c] /\ outbox'[c] = outbox[c] /\ inbox'[c] = inbox[c]
        /\ worker'[c].request = NoRequest /\ worker[c].request = NoRequest
    BY <1>5, WorkerStates DEF Spawn, DropWorker, Inv, TypeInv, ClientInv, Idle
  <2> QED
    BY <2>1, Stutters DEF Waiting
<1>6. CASE SpawnFails(c)
  BY <1>6, EndCloses DEF SpawnFails
<1>7. CASE WorkerStep(c)
  BY <1>7, WorkerStepOnWire
<1> QED
  BY <1>1, <1>2, <1>3, <1>4, <1>5, <1>6, <1>7 DEF Step, ServerStep

LEMMA InitOnWire == Init => \A c \in Client : Connection(c)!WireInit
<1> SUFFICES ASSUME Init, NEW c \in Client PROVE Connection(c)!WireInit
  OBVIOUS
<1>1. Waiting(c) = << >> \o << >>
  BY WorkerStates DEF Init, Waiting
<1>2. << >> \o << >> = << >>
  OBVIOUS
<1> QED
  BY <1>1, <1>2 DEF Init, Connection!WireInit

LEMMA StepOnWire == Inv /\ [Next]_vars => [\A c \in Client : Steps(c)]_vars
<1> SUFFICES ASSUME Inv, Next, NEW c \in Client PROVE Steps(c)
  OBVIOUS
<1>1. PICK d \in Client : Step(d)
  BY NextIsStep
<1> QED
  BY <1>1, OthersStutter, OwnStepOnWire

(* Every connection implements Wire, whatever the other connections do and
   whatever ends its thread: the answers come in the order of the requests, one
   each, and none after the close. *)
THEOREM EachConnectionIsAWire == Spec => ImplementsWire
<1>1. Init => \A c \in Client : Connection(c)!WireInit
  BY InitOnWire
<1>2. Inv /\ SlotsAccounted /\ [Next]_vars =>
        [\A c \in Client : Connection(c)!WireNext \/ UNCHANGED Connection(c)!wireVars]_vars
  BY StepOnWire DEF Steps
<1> QED
  BY <1>1, <1>2, InitInv, InitSlots, NextInv, PTL DEF Spec, ImplementsWire

-----------------------------------------------------------------------------
(* TypeScript.  request, receive and the rejections take a promise out of the
   map "pending" in the step that settles it, and no id is used twice. *)
PromiseTypes ==
    /\ nextId \in 1 .. MaxCalls + 1
    /\ pending \subseteq TypeScript!Ids
    /\ settled \in [TypeScript!Ids -> Nat]
    /\ resolvedBy \in [TypeScript!Ids -> SUBSET TypeScript!Ids]

(* An id not given yet has no promise. *)
FreshIsUnknown ==
    \A id \in TypeScript!Ids : id >= nextId => id \notin pending /\ settled[id] = 0

PromiseInv == PromiseTypes /\ FreshIsUnknown /\ TypeScript!SettledOnce /\ TypeScript!RightAnswer

LEMMA InitPromises == TypeScript!Init => PromiseInv
BY ClientConstants
DEF TypeScript!Init, PromiseInv, PromiseTypes, FreshIsUnknown, TypeScript!SettledOnce,
    TypeScript!RightAnswer, TypeScript!Ids

LEMMA CallInv == ASSUME PromiseInv, NEW method, TypeScript!Call(method) PROVE PromiseInv'
<1> USE ClientConstants DEF PromiseInv, TypeScript!Ids
<1>1. /\ nextId <= MaxCalls /\ nextId \in TypeScript!Ids
      /\ nextId' = nextId + 1 /\ pending' = pending \cup {nextId}
      /\ UNCHANGED << settled, resolvedBy >>
  BY DEF TypeScript!Call, PromiseTypes
<1>2. PromiseTypes'
  BY <1>1 DEF PromiseTypes
<1>3. FreshIsUnknown'
  BY <1>1 DEF PromiseTypes, FreshIsUnknown
<1>4. TypeScript!SettledOnce'
  BY <1>1 DEF PromiseTypes, FreshIsUnknown, TypeScript!SettledOnce
<1>5. TypeScript!RightAnswer'
  BY <1>1 DEF TypeScript!RightAnswer
<1> QED
  BY <1>2, <1>3, <1>4, <1>5

LEMMA WriteFailsInv ==
    ASSUME PromiseInv, NEW id \in TypeScript!Ids, TypeScript!WriteFails(id)
    PROVE  PromiseInv'
<1> USE ClientConstants DEF PromiseInv, TypeScript!Ids
<1>1. /\ pending' = pending \ {id} /\ UNCHANGED << nextId, resolvedBy >>
      /\ settled' = IF id \in pending THEN [settled EXCEPT ![id] = @ + 1] ELSE settled
  BY DEF TypeScript!WriteFails
<1>2. PromiseTypes'
  BY <1>1 DEF PromiseTypes
<1>3. FreshIsUnknown'
  BY <1>1 DEF PromiseTypes, FreshIsUnknown
<1>4. TypeScript!SettledOnce'
  BY <1>1 DEF PromiseTypes, TypeScript!SettledOnce
<1>5. TypeScript!RightAnswer'
  BY <1>1 DEF TypeScript!RightAnswer
<1> QED
  BY <1>2, <1>3, <1>4, <1>5

LEMMA ReceiveLineInv == ASSUME PromiseInv, TypeScript!ReceiveLine PROVE PromiseInv'
<1> USE ClientConstants DEF PromiseInv, TypeScript!Ids
<1>1. CASE UNCHANGED << nextId, pending, settled, resolvedBy >>
  BY <1>1 DEF PromiseTypes, FreshIsUnknown, TypeScript!SettledOnce, TypeScript!RightAnswer
<1>2. ASSUME NEW id \in pending, TypeScript!Resolve(id, id), nextId' = nextId PROVE PromiseInv'
  <2> USE <1>2
  <2>1. /\ id \in TypeScript!Ids /\ pending' = pending \ {id}
        /\ settled' = [settled EXCEPT ![id] = @ + 1]
        /\ resolvedBy' = [resolvedBy EXCEPT ![id] = @ \cup {id}]
    BY DEF PromiseTypes, TypeScript!Resolve
  <2>2. PromiseTypes'
    BY <2>1 DEF PromiseTypes
  <2>3. FreshIsUnknown'
    BY <2>1 DEF PromiseTypes, FreshIsUnknown
  <2>4. TypeScript!SettledOnce'
    BY <2>1 DEF PromiseTypes, TypeScript!SettledOnce
  <2>5. TypeScript!RightAnswer'
    BY <2>1 DEF PromiseTypes, TypeScript!RightAnswer
  <2> QED
    BY <2>2, <2>3, <2>4, <2>5
<1> QED
  BY <1>1, <1>2 DEF TypeScript!ReceiveLine, TypeScript!Addressed

LEMMA RejectAllInv == ASSUME PromiseInv, TypeScript!RejectAll PROVE PromiseInv'
<1> USE ClientConstants DEF PromiseInv, TypeScript!Ids
<1>1. /\ pending' = {} /\ UNCHANGED << nextId, resolvedBy >>
      /\ settled' = [id \in TypeScript!Ids |->
                        IF id \in pending THEN settled[id] + 1 ELSE settled[id]]
  BY DEF TypeScript!RejectAll
<1>2. PromiseTypes'
  BY <1>1 DEF PromiseTypes
<1>3. FreshIsUnknown'
  BY <1>1 DEF PromiseTypes, FreshIsUnknown
<1>4. TypeScript!SettledOnce'
  BY <1>1 DEF PromiseTypes, TypeScript!SettledOnce
<1>5. TypeScript!RightAnswer'
  BY <1>1 DEF TypeScript!RightAnswer
<1> QED
  BY <1>2, <1>3, <1>4, <1>5

LEMMA PromisesStep == PromiseInv /\ [TypeScript!Next]_(TypeScript!vars) => PromiseInv'
<1> SUFFICES ASSUME PromiseInv, [TypeScript!Next]_(TypeScript!vars) PROVE PromiseInv'
  OBVIOUS
<1>1. CASE UNCHANGED << nextId, pending, settled, resolvedBy >>
  BY <1>1 DEF PromiseInv, PromiseTypes, FreshIsUnknown, TypeScript!SettledOnce,
      TypeScript!RightAnswer
<1>2. CASE TypeScript!Serve
  BY <1>1, <1>2 DEF TypeScript!Serve, TypeScript!clientVars
<1>3. CASE TypeScript!ReceiveLine
  BY <1>3, ReceiveLineInv
<1>4. CASE TypeScript!SocketError
  BY <1>4, RejectAllInv DEF TypeScript!SocketError
<1>5. ASSUME NEW id \in TypeScript!Ids, TypeScript!WriteFails(id)
    PROVE  PromiseInv'
  BY <1>5, WriteFailsInv
<1>6. CASE TypeScript!Exit
  BY <1>6, RejectAllInv DEF TypeScript!Exit
<1>7. ASSUME NEW method \in Method, TypeScript!Call(method) PROVE PromiseInv'
  BY <1>7, CallInv
<1>8. CASE UNCHANGED TypeScript!vars
  BY <1>1, <1>8 DEF TypeScript!vars, TypeScript!clientVars
<1> QED
  BY <1>2, <1>3, <1>4, <1>5, <1>6, <1>7, <1>8 DEF TypeScript!Next, TypeScript!Event

-----------------------------------------------------------------------------
(* AsyncFerriteDB.  Every id is in one place: waiting at the server, in an
   answer that nobody has read, or given to one call. *)
Answered(g, id) == g[id] \notin {Unanswered, Failed}

(* The requests w and answers r on the wire, the next id n and the results g. *)
WireTypes(w, r, n, g) ==
    /\ w \in Seq([id : TypeScript!Ids]) /\ r \in Seq(Int)
    /\ n \in 1 .. MaxCalls + 1
    /\ g \in [TypeScript!Ids -> TypeScript!Ids \cup {Unanswered, Failed}]

WaitingOnce(w, n) ==
    /\ \A i \in 1 .. Len(w) : w[i].id < n
    /\ \A i, j \in 1 .. Len(w) : i # j => w[i].id # w[j].id

AnsweredOnce(r, n) ==
    /\ \A i \in 1 .. Len(r) : r[i] < n
    /\ \A i, j \in 1 .. Len(r) : i # j /\ r[i] > 0 => r[i] # r[j]

NotBoth(w, r) == \A i \in 1 .. Len(r), j \in 1 .. Len(w) : r[i] # w[j].id

GivenOnce(w, r, n, g) ==
    /\ \A id \in TypeScript!Ids : Answered(g, id) =>
          /\ g[id] < n
          /\ \A i \in 1 .. Len(r) : r[i] # g[id]
          /\ \A i \in 1 .. Len(w) : w[i].id # g[id]
    /\ \A id1, id2 \in TypeScript!Ids : id1 # id2 /\ Answered(g, id1) => g[id1] # g[id2]

Apart(w, r, n, g) ==
    /\ WireTypes(w, r, n, g) /\ WaitingOnce(w, n) /\ AnsweredOnce(r, n)
    /\ NotBoth(w, r) /\ GivenOnce(w, r, n, g)

LEMMA RequestIds ==
    ASSUME NEW w \in Seq([id : TypeScript!Ids])
    PROVE  \A i \in 1 .. Len(w) : w[i] \in [id : TypeScript!Ids] /\ w[i].id \in TypeScript!Ids
<1>1. w \in [1 .. Len(w) -> [id : TypeScript!Ids]]
  BY LenProperties
<1>2. \A i \in 1 .. Len(w) : w[i] \in [id : TypeScript!Ids]
  BY <1>1
<1> QED BY <1>2

LEMMA ApartSend ==
    ASSUME NEW w, NEW r, NEW n, NEW g, Apart(w, r, n, g), n <= MaxCalls
    PROVE  Apart(Append(w, [id |-> n]), r, n + 1, g)
<1> USE ClientConstants DEF TypeScript!Ids
<1>1. /\ WireTypes(w, r, n, g) /\ w \in Seq([id : TypeScript!Ids]) /\ n \in TypeScript!Ids
      /\ [id |-> n] \in [id : TypeScript!Ids]
  BY DEF Apart, WireTypes
<1>2. PICK x : x = Append(w, [id |-> n])
  OBVIOUS
<1>3. /\ x \in Seq([id : TypeScript!Ids]) /\ Len(x) = Len(w) + 1 /\ Len(w) \in Nat
      /\ \A i \in 1 .. Len(w) : x[i] = w[i]
      /\ x[Len(w) + 1] = [id |-> n]
  BY <1>1, <1>2, AppendProperties, LenProperties
<1>4. \A i \in 1 .. Len(x) : i \in 1 .. Len(w) \/ (i = Len(w) + 1 /\ x[i].id = n)
  BY <1>3
<1>5. \A i \in 1 .. Len(w) : x[i].id = w[i].id /\ w[i].id \in Int
  <2>1. \A i \in 1 .. Len(w) : w[i].id \in TypeScript!Ids
    BY <1>1, RequestIds
  <2>2. \A i \in 1 .. Len(w) : x[i].id = w[i].id
    BY <1>3
  <2> QED BY <2>1, <2>2
<1>6. \A i \in 1 .. Len(r) : r[i] \in Int
  BY <1>1, ElementOfSeq DEF WireTypes
<1>7. WireTypes(x, r, n + 1, g)
  BY <1>1, <1>3 DEF WireTypes
<1>8. WaitingOnce(x, n + 1)
  <2>1. \A i \in 1 .. Len(w) : x[i].id < n
    BY <1>5 DEF Apart, WaitingOnce
  <2>2. \A i, j \in 1 .. Len(w) : i # j => x[i].id # x[j].id
    BY <1>5 DEF Apart, WaitingOnce
  <2>0. n \in Int /\ \A i \in 1 .. Len(w) : x[i].id \in Int
    BY <1>1, <1>5
  <2>3. \A i \in 1 .. Len(x) : x[i].id < n + 1
    BY <1>4, <2>0, <2>1
  <2>4. \A i, j \in 1 .. Len(x) : i # j => x[i].id # x[j].id
    BY <1>4, <2>0, <2>1, <2>2
  <2> QED BY <2>3, <2>4 DEF WaitingOnce
<1>9. AnsweredOnce(r, n + 1)
  BY <1>1, <1>6 DEF Apart, AnsweredOnce
<1>10. NotBoth(x, r)
  BY <1>1, <1>4, <1>5, <1>6 DEF Apart, NotBoth, AnsweredOnce
<1>11. \A id \in TypeScript!Ids : Answered(g, id) => g[id] \in TypeScript!Ids
  BY <1>1 DEF WireTypes, Answered
<1>12. GivenOnce(x, r, n + 1, g)
  <2>1. ASSUME NEW id \in TypeScript!Ids, Answered(g, id)
        PROVE  /\ g[id] < n + 1
               /\ \A i \in 1 .. Len(x) : x[i].id # g[id]
    <3>1. g[id] \in TypeScript!Ids /\ g[id] < n /\ n \in Int
      BY <1>1, <1>11, <2>1 DEF Apart, GivenOnce
    <3>2. \A i \in 1 .. Len(w) : x[i].id # g[id]
      BY <1>5, <2>1 DEF Apart, GivenOnce
    <3> QED BY <1>4, <3>1, <3>2
  <2> QED BY <2>1 DEF Apart, GivenOnce
<1> QED
  BY <1>2, <1>7, <1>8, <1>9, <1>10, <1>12 DEF Apart

(* An id is used up without a request. *)
LEMMA ApartSkipId ==
    ASSUME NEW w, NEW r, NEW n, NEW g, Apart(w, r, n, g), n <= MaxCalls
    PROVE  Apart(w, r, n + 1, g)
<1> USE ClientConstants DEF TypeScript!Ids
<1>1. WireTypes(w, r, n, g) /\ n \in 1 .. MaxCalls
  BY DEF Apart, WireTypes
<1>2. \A i \in 1 .. Len(w) : w[i].id \in Int
  <2>1. w \in Seq([id : TypeScript!Ids])
    BY <1>1 DEF WireTypes
  <2>2. \A i \in 1 .. Len(w) : w[i].id \in TypeScript!Ids
    BY <2>1, RequestIds
  <2> QED BY <2>2
<1>3. \A i \in 1 .. Len(r) : r[i] \in Int
  BY <1>1, ElementOfSeq DEF WireTypes
<1>4. \A id \in TypeScript!Ids : Answered(g, id) => g[id] \in TypeScript!Ids
  BY <1>1 DEF WireTypes, Answered
<1>5. WireTypes(w, r, n + 1, g)
  BY <1>1 DEF WireTypes
<1>6. WaitingOnce(w, n + 1)
  BY <1>1, <1>2 DEF Apart, WaitingOnce
<1>7. AnsweredOnce(r, n + 1)
  BY <1>1, <1>3 DEF Apart, AnsweredOnce
<1>8. GivenOnce(w, r, n + 1, g)
  BY <1>1, <1>4 DEF Apart, GivenOnce
<1> QED
  BY <1>5, <1>6, <1>7, <1>8 DEF Apart

(* The first request is lost with the connection, ... *)
LEMMA ApartLose ==
    ASSUME NEW w, NEW r, NEW n, NEW g, Apart(w, r, n, g), w # << >>
    PROVE  Apart(Tail(w), r, n, g)
<1>1. w \in Seq([id : TypeScript!Ids])
  BY DEF Apart, WireTypes
<1>2. PICK x : x = Tail(w)
  OBVIOUS
<1>3. /\ x \in Seq([id : TypeScript!Ids]) /\ Len(x) = Len(w) - 1 /\ Len(w) \in Nat
      /\ \A i \in 1 .. Len(x) : x[i] = w[i + 1]
  BY <1>1, <1>2, HeadTailProperties, LenProperties
<1>4. \A i \in 1 .. Len(x) : i + 1 \in 1 .. Len(w) /\ x[i].id = w[i + 1].id
  BY <1>3
<1>5. WaitingOnce(x, n)
  <2>1. \A i, j \in 1 .. Len(x) : i # j => i + 1 # j + 1
    BY <1>3
  <2> QED BY <1>4, <2>1 DEF Apart, WaitingOnce
<1> QED
  BY <1>2, <1>3, <1>4, <1>5 DEF Apart, WireTypes, NotBoth, GivenOnce

(* ... or answered. *)
LEMMA ApartAnswer ==
    ASSUME NEW w, NEW r, NEW n, NEW g, Apart(w, r, n, g), w # << >>
    PROVE  Apart(Tail(w), Append(r, Head(w).id), n, g)
<1> USE ClientConstants DEF TypeScript!Ids
<1>1. w \in Seq([id : TypeScript!Ids]) /\ r \in Seq(Int)
  BY DEF Apart, WireTypes
<1>2. PICK x, y : x = Tail(w) /\ y = Append(r, Head(w).id)
  OBVIOUS
<1>3. /\ Len(x) = Len(w) - 1 /\ Len(w) \in Nat \ {0}
      /\ \A i \in 1 .. Len(x) : x[i] = w[i + 1]
      /\ Head(w) = w[1] /\ 1 \in 1 .. Len(w)
  BY <1>1, <1>2, HeadTailProperties, EmptySeq
<1>4. \A i \in 1 .. Len(x) :
          i + 1 \in 1 .. Len(w) /\ i + 1 # 1 /\ x[i].id = w[i + 1].id
  BY <1>3
<1>5. w[1] \in [id : TypeScript!Ids] /\ Head(w).id = w[1].id /\ w[1].id \in TypeScript!Ids
  BY <1>1, <1>3, RequestIds
<1>6. /\ y \in Seq(Int) /\ Len(y) = Len(r) + 1 /\ Len(r) \in Nat
      /\ \A i \in 1 .. Len(r) : y[i] = r[i]
      /\ y[Len(r) + 1] = w[1].id
  BY <1>1, <1>2, <1>5, AppendProperties, LenProperties
<1>7. \A i \in 1 .. Len(y) :
          (i \in 1 .. Len(r) /\ y[i] = r[i]) \/ (i = Len(r) + 1 /\ y[i] = w[1].id)
  BY <1>6
<1>8. Apart(x, r, n, g)
  BY <1>2, ApartLose
<1>9. \A i \in 1 .. Len(x) : x[i].id # w[1].id
  BY <1>3, <1>4 DEF Apart, WaitingOnce
<1>10. \A i \in 1 .. Len(r) : r[i] # w[1].id
  BY <1>3 DEF Apart, NotBoth
<1>11. AnsweredOnce(y, n)
  <2>1. w[1].id < n
    BY <1>3 DEF Apart, WaitingOnce
  <2>2. \A i \in 1 .. Len(y) : y[i] < n
    BY <1>7, <2>1 DEF Apart, AnsweredOnce
  <2>3. \A i, j \in 1 .. Len(y) : i # j /\ y[i] > 0 => y[i] # y[j]
    BY <1>7, <1>10 DEF Apart, AnsweredOnce
  <2> QED BY <2>2, <2>3 DEF AnsweredOnce
<1>12. NotBoth(x, y)
  BY <1>7, <1>8, <1>9 DEF Apart, NotBoth
<1>13. GivenOnce(x, y, n, g)
  BY <1>3, <1>7, <1>8 DEF Apart, GivenOnce
<1> QED
  BY <1>2, <1>6, <1>8, <1>11, <1>12, <1>13 DEF Apart, WireTypes

(* The first answer is dropped, ... *)
LEMMA ApartDrop ==
    ASSUME NEW w, NEW r, NEW n, NEW g, Apart(w, r, n, g), r # << >>
    PROVE  Apart(w, Tail(r), n, g)
<1>1. r \in Seq(Int)
  BY DEF Apart, WireTypes
<1>2. PICK x : x = Tail(r)
  OBVIOUS
<1>3. /\ x \in Seq(Int) /\ Len(x) = Len(r) - 1 /\ Len(r) \in Nat
      /\ \A i \in 1 .. Len(x) : x[i] = r[i + 1]
  BY <1>1, <1>2, HeadTailProperties, LenProperties
<1>4. \A i \in 1 .. Len(x) : i + 1 \in 1 .. Len(r) /\ x[i] = r[i + 1]
  BY <1>3
<1>5. AnsweredOnce(x, n)
  <2>1. \A i, j \in 1 .. Len(x) : i # j => i + 1 # j + 1
    BY <1>3
  <2> QED BY <1>4, <2>1 DEF Apart, AnsweredOnce
<1> QED
  BY <1>2, <1>3, <1>4, <1>5 DEF Apart, WireTypes, NotBoth, GivenOnce

(* ... or the rest of a long line takes its place. *)
LEMMA ApartRest ==
    ASSUME NEW w, NEW r, NEW n, NEW g, Apart(w, r, n, g), r # << >>
    PROVE  Apart(w, << -1 >> \o Tail(r), n, g)
<1> USE ClientConstants DEF TypeScript!Ids
<1>1. w \in Seq([id : TypeScript!Ids]) /\ r \in Seq(Int)
  BY DEF Apart, WireTypes
<1>2. PICK x, y : x = Tail(r) /\ y = << -1 >> \o Tail(r)
  OBVIOUS
<1>3. Apart(w, x, n, g) /\ x \in Seq(Int) /\ Len(x) \in Nat
  BY <1>1, <1>2, ApartDrop, LenProperties DEF Apart, WireTypes
<1>4. << -1 >> \in Seq(Int) /\ Len(<< -1 >>) = 1 /\ << -1 >>[1] = -1
  OBVIOUS
<1>5. /\ y \in Seq(Int) /\ Len(y) = 1 + Len(x)
      /\ \A i \in 1 .. 1 + Len(x) : y[i] = IF i <= 1 THEN << -1 >>[i] ELSE x[i - 1]
  BY <1>2, <1>3, <1>4, ConcatProperties
<1>6. \A i \in 1 .. Len(y) :
          (i = 1 /\ y[i] = -1) \/ (i - 1 \in 1 .. Len(x) /\ y[i] = x[i - 1])
  BY <1>3, <1>4, <1>5
<1>7. \A i \in 1 .. Len(w) : w[i].id \in TypeScript!Ids
  BY <1>1, RequestIds
<1>8. \A id \in TypeScript!Ids : Answered(g, id) => g[id] \in TypeScript!Ids
  BY DEF Apart, WireTypes, Answered
<1>9. \A i \in 1 .. Len(x) : x[i] \in Int
  BY <1>3, ElementOfSeq
<1>10. -1 < n
  BY DEF Apart, WireTypes
<1>11. AnsweredOnce(y, n)
  <2>1. \A i \in 1 .. Len(y) : y[i] < n
    BY <1>3, <1>6, <1>10 DEF Apart, AnsweredOnce
  <2>2. ASSUME NEW i \in 1 .. Len(y), NEW j \in 1 .. Len(y), i # j, y[i] > 0
        PROVE  y[i] # y[j]
    <3>1. i - 1 \in 1 .. Len(x) /\ y[i] = x[i - 1]
      BY <1>6, <2>2
    <3>2. CASE j = 1
      BY <1>5, <1>4, <1>3, <2>2, <3>2
    <3>3. CASE j # 1
      <4>1. j - 1 \in 1 .. Len(x) /\ y[j] = x[j - 1] /\ i - 1 # j - 1
        BY <1>6, <1>5, <1>3, <2>2, <3>3
      <4> QED BY <1>3, <2>2, <3>1, <4>1 DEF Apart, AnsweredOnce
    <3> QED BY <3>2, <3>3
  <2> QED BY <2>1, <2>2 DEF AnsweredOnce
<1>12. NotBoth(w, y)
  <2> SUFFICES ASSUME NEW i \in 1 .. Len(y), NEW j \in 1 .. Len(w)
               PROVE  y[i] # w[j].id
    BY DEF NotBoth
  <2>1. CASE i = 1 /\ y[i] = -1
    BY <1>7, <2>1
  <2>2. CASE i - 1 \in 1 .. Len(x) /\ y[i] = x[i - 1]
    BY <1>3, <2>2 DEF Apart, NotBoth
  <2> QED BY <1>6, <2>1, <2>2
<1>13. GivenOnce(w, y, n, g)
  BY <1>3, <1>6, <1>8 DEF Apart, GivenOnce
<1> QED
  BY <1>2, <1>3, <1>5, <1>11, <1>12, <1>13 DEF Apart, WireTypes

(* The first answer goes to some call. *)
LEMMA ApartTake ==
    ASSUME NEW w, NEW r, NEW n, NEW g, Apart(w, r, n, g), r # << >>, Head(r) > 0,
           NEW call
    PROVE  Apart(w, Tail(r), n, [g EXCEPT ![call] = Head(r)])
<1> USE ClientConstants DEF TypeScript!Ids
<1>1. r \in Seq(Int) /\ n \in 1 .. MaxCalls + 1
  BY DEF Apart, WireTypes
<1>2. PICK x, h : x = Tail(r) /\ h = [g EXCEPT ![call] = Head(r)]
  OBVIOUS
<1>3. /\ Len(x) = Len(r) - 1 /\ Len(r) \in Nat \ {0}
      /\ \A i \in 1 .. Len(x) : x[i] = r[i + 1]
      /\ Head(r) = r[1] /\ 1 \in 1 .. Len(r) /\ r[1] \in Int
  BY <1>1, <1>2, HeadTailProperties, EmptySeq
<1>4. Apart(w, x, n, g)
  BY <1>2, ApartDrop
<1>5. r[1] < n /\ r[1] \in TypeScript!Ids
  BY <1>1, <1>3 DEF Apart, AnsweredOnce
<1>6. /\ h \in [TypeScript!Ids -> TypeScript!Ids \cup {Unanswered, Failed}]
      /\ \A id \in TypeScript!Ids : h[id] = IF id = call THEN r[1] ELSE g[id]
  BY <1>2, <1>3, <1>5 DEF Apart, WireTypes
<1>7. \A i \in 1 .. Len(x) : x[i] # r[1]
  <2>1. \A i \in 1 .. Len(x) : i + 1 \in 1 .. Len(r) /\ i + 1 # 1
    BY <1>3
  <2> QED BY <1>3, <2>1 DEF Apart, AnsweredOnce
<1>8. \A i \in 1 .. Len(w) : w[i].id # r[1]
  BY <1>3 DEF Apart, NotBoth
<1>9. \A id \in TypeScript!Ids : Answered(g, id) => r[1] # g[id]
  BY <1>3 DEF Apart, GivenOnce
<1>10. \A id \in TypeScript!Ids : Answered(h, id) =>
          \/ id = call /\ h[id] = r[1]
          \/ id # call /\ Answered(g, id) /\ h[id] = g[id]
  BY <1>6 DEF Answered
<1>11. ASSUME NEW id1 \in TypeScript!Ids, NEW id2 \in TypeScript!Ids, id1 # id2, Answered(h, id1)
       PROVE  h[id1] # h[id2]
  <2>1. h[id1] = h[id2] => Answered(h, id2)
    BY <1>11 DEF Answered
  <2> QED BY <1>4, <1>9, <1>10, <1>11, <2>1 DEF Apart, GivenOnce
<1>12. \A id \in TypeScript!Ids : Answered(h, id) =>
          /\ h[id] < n
          /\ \A i \in 1 .. Len(x) : x[i] # h[id]
          /\ \A i \in 1 .. Len(w) : w[i].id # h[id]
  BY <1>4, <1>5, <1>7, <1>8, <1>10 DEF Apart, GivenOnce
<1>13. GivenOnce(w, x, n, h)
  BY <1>11, <1>12 DEF GivenOnce
<1> QED
  BY <1>2, <1>4, <1>6, <1>13 DEF Apart, WireTypes

(* A call raises. *)
LEMMA ApartFail ==
    ASSUME NEW w, NEW r, NEW n, NEW g, Apart(w, r, n, g), NEW call
    PROVE  Apart(w, r, n, [g EXCEPT ![call] = Failed])
<1>1. PICK h : h = [g EXCEPT ![call] = Failed]
  OBVIOUS
<1>2. /\ h \in [TypeScript!Ids -> TypeScript!Ids \cup {Unanswered, Failed}]
      /\ \A id \in TypeScript!Ids : h[id] = IF id = call THEN Failed ELSE g[id]
  BY <1>1 DEF Apart, WireTypes
<1>3. \A id \in TypeScript!Ids : Answered(h, id) => Answered(g, id) /\ h[id] = g[id]
  BY <1>2 DEF Answered
<1>4. ASSUME NEW id1 \in TypeScript!Ids, NEW id2 \in TypeScript!Ids, id1 # id2, Answered(h, id1)
      PROVE  h[id1] # h[id2]
  <2>1. h[id1] = h[id2] => Answered(h, id2)
    BY <1>4 DEF Answered
  <2> QED BY <1>3, <1>4, <2>1 DEF Apart, GivenOnce
<1>5. GivenOnce(w, r, n, h)
  BY <1>3, <1>4 DEF Apart, GivenOnce
<1> QED
  BY <1>1, <1>2, <1>5 DEF Apart, WireTypes

TasksApart == Apart(waiting, replies, nextId, got)

LEMMA InitApart == SdkInit => TasksApart
<1> SUFFICES ASSUME SdkInit PROVE TasksApart
  OBVIOUS
<1> USE ClientConstants DEF TypeScript!Ids
<1>1. /\ waiting = << >> /\ replies = << >> /\ nextId = 1
      /\ got = [id \in TypeScript!Ids |-> Unanswered]
  BY DEF SdkInit, TypeScript!Init, TypeScript!WireInit, Async!Init, Async!WireInit, Async!Ids
<1>2. WireTypes(waiting, replies, nextId, got)
  BY <1>1 DEF WireTypes
<1>3. Len(waiting) = 0 /\ Len(replies) = 0
  BY <1>1
<1>4. \A id \in TypeScript!Ids : ~ Answered(got, id)
  BY <1>1 DEF Answered
<1> QED
  BY <1>2, <1>3, <1>4
  DEF TasksApart, Apart, WaitingOnce, AnsweredOnce, NotBoth, GivenOnce

LEMMA TasksStep == ASSUME TasksApart, Async!Next PROVE TasksApart'
<1> USE DEF TasksApart
<1>1. CASE Async!Serve
  BY <1>1, ApartAnswer, ApartLose DEF Async!Serve, Async!Answer, Async!Close
<1>2. ASSUME NEW c \in Task, Async!Call(c) PROVE TasksApart'
  <2>1. CASE open
    <3>1. /\ UNCHANGED << replies, got >> /\ nextId <= MaxCalls
          /\ nextId' = nextId + 1 /\ waiting' = Append(waiting, [id |-> nextId])
      BY <1>2, <2>1 DEF Async!Call, Async!Send
    <3>2. Apart(Append(waiting, [id |-> nextId]), replies, nextId + 1, got)
      BY <3>1, ApartSend
    <3> QED BY <3>1, <3>2
  <2>2. CASE ~ open
    <3>1. /\ UNCHANGED << waiting, replies >> /\ nextId <= MaxCalls
          /\ nextId' = nextId + 1 /\ got' = [got EXCEPT ![nextId] = Failed]
      BY <1>2, <2>2 DEF Async!Call, Async!wireVars
    <3>2. Apart(waiting, replies, nextId, got')
      BY <3>1, ApartFail
    <3>3. Apart(waiting, replies, nextId + 1, got')
      BY <3>1, <3>2, ApartSkipId
    <3> QED BY <3>1, <3>3
  <2> QED BY <2>1, <2>2
<1>3. ASSUME NEW c \in Task, Async!Return(c, Failed), UNCHANGED << waiting, replies >>
      PROVE  TasksApart'
  BY <1>3, ApartFail DEF Async!Return
<1>4. ASSUME NEW c \in Task, Async!ReadLine(c) PROVE TasksApart'
  <2>1. CASE Async!Return(c, Failed)
    BY <1>3, <1>4, <2>1 DEF Async!ReadLine, Async!wireVars
  <2>2. CASE UNCHANGED << nextId, current, got >>
    BY <1>4, <2>2 DEF Async!ReadLine, Async!wireVars
  <2> QED BY <1>4, <2>1, <2>2 DEF Async!ReadLine
<1>5. ASSUME NEW c \in Task, Async!TakeLine(c) PROVE TasksApart'
  BY <1>5, ApartTake DEF Async!TakeLine, Async!Return, Async!Receive
<1>6. ASSUME NEW c \in Task, Async!TakeOversized(c) PROVE TasksApart'
  <2>1. /\ replies # << >> /\ UNCHANGED << waiting, nextId >>
        /\ got' = [got EXCEPT ![current[c]] = Failed]
        /\ replies' \in {Tail(replies), << -1 >> \o Tail(replies)}
    BY <1>6 DEF Async!TakeOversized, Async!CanRead, Async!Return, Async!Receive
  <2>2. Apart(waiting, replies', nextId, got)
    BY <2>1, ApartDrop, ApartRest
  <2> QED BY <2>1, <2>2, ApartFail
<1>7. ASSUME NEW c \in Task,
             Async!EndOfStream(c) \/ Async!Timeout(c) \/ Async!Cancel(c)
      PROVE  TasksApart'
  BY <1>3, <1>7 DEF Async!EndOfStream, Async!Timeout, Async!Cancel, Async!wireVars
<1> QED
  BY <1>1, <1>2, <1>4, <1>5, <1>6, <1>7 DEF Async!Next, Async!Read

-----------------------------------------------------------------------------
(* FerriteDB of Python.  Until a read times out, nothing is on the wire but
   the request of the call that runs, or its answer; after that, nothing is
   read any more. *)
OnlyItsOwn ==
    /\ replies # << >> => pc[Thread] # "idle" /\ replies = << current[Thread] >>
    /\ open /\ waiting # << >> =>
          /\ pc[Thread] # "idle" /\ replies = << >>
          /\ waiting = << [id |-> current[Thread]] >>

ThreadTypes ==
    /\ nextId \in 1 .. MaxCalls + 1
    /\ DOMAIN current = Task /\ DOMAIN pc = Task
    /\ pc[Thread] # "idle" => current[Thread] \in TypeScript!Ids
    /\ got \in [TypeScript!Ids -> TypeScript!Ids \cup {Unanswered, Failed}]

ThreadInv ==
    /\ ThreadTypes
    /\ timedOut => pc[Thread] # "reading"
    /\ ~ timedOut => OnlyItsOwn
    /\ Sync!EachGetsItsOwn

LEMMA InitThread == SdkInit => ThreadInv
BY ClientConstants
DEF SdkInit, TypeScript!Init, TypeScript!WireInit, Async!Init, Async!WireInit, Async!Ids,
    Sync!Ids, TypeScript!Ids,
    ThreadInv, ThreadTypes, OnlyItsOwn, Sync!EachGetsItsOwn

(* A call returns with nothing on the wire for it any more, or for good. *)
LEMMA ThreadReturn ==
    ASSUME ThreadInv, pc[Thread] # "idle", NEW result, Sync!Return(Thread, result),
           result = Failed \/ result = current[Thread],
           timedOut' \/ (replies' = << >> /\ (open' => waiting' = << >>))
    PROVE  ThreadInv'
<1> USE ClientConstants DEF TypeScript!Ids, Sync!Ids
<1>1. /\ got' = [got EXCEPT ![current[Thread]] = result]
      /\ pc' = [pc EXCEPT ![Thread] = "idle"]
      /\ current' = [current EXCEPT ![Thread] = 0]
      /\ nextId' = nextId /\ current[Thread] \in TypeScript!Ids /\ pc'[Thread] = "idle"
  BY DEF Sync!Return, ThreadInv, ThreadTypes
<1>2. result \in TypeScript!Ids \cup {Unanswered, Failed}
  BY <1>1
<1>3. ThreadTypes'
  BY <1>1, <1>2 DEF ThreadInv, ThreadTypes
<1>4. \A id \in TypeScript!Ids : got'[id] = IF id = current[Thread] THEN result ELSE got[id]
  BY <1>1 DEF ThreadInv, ThreadTypes
<1>5. Sync!EachGetsItsOwn'
  BY <1>4 DEF ThreadInv, Sync!EachGetsItsOwn
<1>6. ~ timedOut' => OnlyItsOwn'
  BY DEF OnlyItsOwn
<1> QED
  BY <1>1, <1>3, <1>5, <1>6 DEF ThreadInv

LEMMA ThreadStep == ASSUME ThreadInv, Sync!Next PROVE ThreadInv'
<1> USE ClientConstants DEF TypeScript!Ids, Sync!Ids
<1>1. CASE Sync!Serve
  <2>1. UNCHANGED << nextId, current, pc, timedOut, got >>
    BY <1>1 DEF Sync!Serve
  <2>2. ASSUME ~ timedOut PROVE OnlyItsOwn'
    <3>1. CASE Sync!Answer
      <4>1. /\ open /\ waiting # << >> /\ waiting' = Tail(waiting)
            /\ replies' = Append(replies, Head(waiting).id)
        BY <3>1 DEF Sync!Answer
      <4>2. /\ pc[Thread] # "idle" /\ replies = << >>
            /\ waiting = << [id |-> current[Thread]] >>
        BY <2>2, <4>1 DEF ThreadInv, OnlyItsOwn
      <4>3. Tail(waiting) = << >> /\ Head(waiting) = [id |-> current[Thread]]
        BY <4>2
      <4>4. replies' = << current[Thread] >> /\ waiting' = << >>
        BY <4>1, <4>2, <4>3
      <4> QED BY <2>1, <4>2, <4>4 DEF OnlyItsOwn
    <3>2. CASE Sync!Close
      BY <2>1, <2>2, <3>2 DEF Sync!Close, ThreadInv, OnlyItsOwn
    <3> QED BY <1>1, <3>1, <3>2 DEF Sync!Serve
  <2> QED
    BY <2>1, <2>2 DEF ThreadInv, ThreadTypes, Sync!EachGetsItsOwn
<1>2. CASE Sync!Call(Thread)
  <2>1. /\ pc[Thread] = "idle" /\ nextId \in TypeScript!Ids /\ nextId' = nextId + 1
        /\ timedOut' = timedOut
    BY <1>2 DEF Sync!Call, ThreadInv, ThreadTypes
  <2>2. CASE open
    <3>1. /\ waiting' = Append(waiting, [id |-> nextId])
          /\ UNCHANGED << replies, open, got >>
          /\ pc' = [pc EXCEPT ![Thread] = "sent"]
          /\ current' = [current EXCEPT ![Thread] = nextId]
      BY <1>2, <2>2 DEF Sync!Call, Sync!Send
    <3>2. /\ pc'[Thread] = "sent" /\ current'[Thread] = nextId
          /\ DOMAIN pc' = Task /\ DOMAIN current' = Task
      BY <3>1 DEF ThreadInv, ThreadTypes
    <3>3. ThreadTypes'
      BY <2>1, <3>1, <3>2 DEF ThreadInv, ThreadTypes
    <3>4. ASSUME ~ timedOut PROVE OnlyItsOwn'
      <4>1. replies = << >> /\ waiting = << >>
        BY <2>1, <2>2, <3>4 DEF ThreadInv, OnlyItsOwn
      <4>2. replies' = << >> /\ waiting' = << [id |-> nextId] >>
        BY <3>1, <4>1
      <4> QED BY <3>2, <4>2 DEF OnlyItsOwn
    <3> QED
      BY <2>1, <3>1, <3>2, <3>3, <3>4 DEF ThreadInv, Sync!EachGetsItsOwn
  <2>3. CASE ~ open
    <3>1. /\ got' = [got EXCEPT ![nextId] = Failed]
          /\ UNCHANGED << waiting, replies, open, pc, current >>
      BY <1>2, <2>3 DEF Sync!Call, Sync!wireVars
    <3>2. ThreadTypes'
      BY <2>1, <3>1 DEF ThreadInv, ThreadTypes
    <3>3. Sync!EachGetsItsOwn'
      BY <3>1 DEF ThreadInv, ThreadTypes, Sync!EachGetsItsOwn
    <3> QED
      BY <2>1, <3>1, <3>2, <3>3 DEF ThreadInv, OnlyItsOwn
  <2> QED BY <2>2, <2>3
<1>3. CASE Sync!ReadLine(Thread)
  <2>1. pc[Thread] = "sent" /\ UNCHANGED << waiting, replies, open, timedOut >>
    BY <1>3 DEF Sync!ReadLine, Sync!wireVars
  <2>2. CASE timedOut
    BY <1>3, <2>1, <2>2, ThreadReturn DEF Sync!ReadLine
  <2>3. CASE ~ timedOut
    <3>1. /\ pc' = [pc EXCEPT ![Thread] = "reading"]
          /\ UNCHANGED << nextId, current, got >>
      BY <1>3, <2>3 DEF Sync!ReadLine
    <3>2. pc'[Thread] = "reading" /\ DOMAIN pc' = Task
      BY <3>1 DEF ThreadInv, ThreadTypes
    <3> QED
      BY <2>1, <2>3, <3>1, <3>2
      DEF ThreadInv, ThreadTypes, OnlyItsOwn, Sync!EachGetsItsOwn
  <2> QED BY <2>2, <2>3
<1>4. ASSUME Sync!CanRead(Thread)
      PROVE  /\ ~ timedOut /\ pc[Thread] # "idle" /\ replies = << current[Thread] >>
             /\ current[Thread] \in TypeScript!Ids
             /\ Head(replies) = current[Thread] /\ Tail(replies) = << >>
             /\ open => waiting = << >>
  <2>1. pc[Thread] = "reading" /\ replies # << >>
    BY <1>4 DEF Sync!CanRead
  <2>2. ~ timedOut /\ OnlyItsOwn /\ current[Thread] \in TypeScript!Ids
    BY <2>1 DEF ThreadInv, ThreadTypes
  <2>3. replies = << current[Thread] >>
    BY <2>1, <2>2 DEF OnlyItsOwn
  <2> QED BY <2>1, <2>2, <2>3 DEF OnlyItsOwn
<1>5. CASE Sync!TakeLine(Thread)
  <2>1. /\ Sync!CanRead(Thread) /\ Sync!Return(Thread, Head(replies))
        /\ replies' = Tail(replies) /\ UNCHANGED << waiting, open >>
    BY <1>5 DEF Sync!TakeLine, Sync!Receive
  <2> QED BY <1>4, <2>1, ThreadReturn
<1>6. CASE Sync!TakeOversized(Thread)
  <2>1. Sync!CanRead(Thread) /\ Head(replies) < 0
    BY <1>6 DEF Sync!TakeOversized, Sync!Fits
  <2> QED BY <1>4, <2>1
<1>7. CASE Sync!EndOfStream(Thread)
  BY <1>7, ThreadReturn DEF Sync!EndOfStream, Sync!wireVars
<1>8. CASE Sync!Timeout(Thread)
  BY <1>8, ThreadReturn DEF Sync!Timeout
<1>9. ~ Sync!Cancel(Thread)
  BY DEF Sync!Cancel
<1> QED
  BY <1>1, <1>2, <1>3, <1>5, <1>6, <1>7, <1>8, <1>9 DEF Sync!Next, Sync!Read

-----------------------------------------------------------------------------
(* Which client runs is chosen once. *)
RunningInv ==
    /\ kind = "typescript" => PromiseInv
    /\ kind # "typescript" => EachPromiseItsAnswer
    /\ kind = "sync" => ThreadInv
    /\ kind = "async" => TasksApart

LEMMA InitClients == SdkInit => RunningInv
<1>1. SdkInit => TypeScript!Init
  BY DEF SdkInit
<1> QED
  BY <1>1, InitPromises, InitThread, InitApart DEF RunningInv, PromiseInv, EachPromiseItsAnswer,
      TypeScript!EachPromiseItsAnswer

LEMMA ClientsStep == RunningInv /\ [SdkNext]_sdkVars => RunningInv'
<1> SUFFICES ASSUME RunningInv, [SdkNext]_sdkVars PROVE RunningInv'
  OBVIOUS
<1>1. CASE kind = "typescript" /\ TypeScript!Next /\ UNCHANGED kind
  BY <1>1, PromisesStep DEF RunningInv
<1>2. CASE kind = "sync" /\ Sync!Next /\ UNCHANGED << tsVars, kind >>
  BY <1>2, ThreadStep DEF RunningInv, tsVars, EachPromiseItsAnswer,
      TypeScript!EachPromiseItsAnswer, TypeScript!SettledOnce, TypeScript!RightAnswer
<1>3. CASE kind = "async" /\ Async!Next /\ UNCHANGED << tsVars, kind >>
  BY <1>3, TasksStep DEF RunningInv, tsVars, EachPromiseItsAnswer,
      TypeScript!EachPromiseItsAnswer, TypeScript!SettledOnce, TypeScript!RightAnswer
<1>4. CASE UNCHANGED sdkVars
  <2>1. UNCHANGED TypeScript!vars /\ UNCHANGED << kind, current, pc, timedOut, got, waiting, replies,
                                       open, nextId, pending, settled, resolvedBy >>
    BY <1>4 DEF sdkVars, TypeScript!vars, TypeScript!clientVars, TypeScript!wireVars, pyVars,
        tsVars
  <2>2. PromiseInv => PromiseInv'
    BY <2>1, PromisesStep
  <2>3. ThreadInv => ThreadInv'
    BY <2>1 DEF ThreadInv, ThreadTypes, OnlyItsOwn, Sync!EachGetsItsOwn
  <2>4. TasksApart => TasksApart'
    BY <2>1 DEF TasksApart, Apart, WireTypes, WaitingOnce, AnsweredOnce, NotBoth, GivenOnce,
                Answered
  <2>5. EachPromiseItsAnswer => EachPromiseItsAnswer'
    BY <2>1 DEF EachPromiseItsAnswer, TypeScript!EachPromiseItsAnswer, TypeScript!SettledOnce,
        TypeScript!RightAnswer
  <2> QED BY <2>1, <2>2, <2>3, <2>4, <2>5 DEF RunningInv
<1> QED
  BY <1>1, <1>2, <1>3, <1>4 DEF SdkNext

(* An answer given to two tasks of AsyncFerriteDB would be in two places. *)
LEMMA ApartGivesOnce == TasksApart => Async!NoAnswerTwice
BY DEF TasksApart, Apart, GivenOnce, Answered, Async!NoAnswerTwice, Async!Ids, TypeScript!Ids

(* Whichever client runs: ids are sent and never compared, and still a call of
   FerriteDB that returns has the answer to its own request, whatever timed
   out before; no answer is given to two tasks of AsyncFerriteDB, however they
   interleave and are cancelled. *)
THEOREM ClientsGetTheirOwn == SdkSpec => []EachGetsItsOwn
<1>1. RunningInv => EachGetsItsOwn
  BY ApartGivesOnce DEF RunningInv, ThreadInv, EachGetsItsOwn
<1> QED
  BY <1>1, InitClients, ClientsStep, PTL DEF SdkSpec

(* TypeScript: whatever comes together for a request - an answer, a failed
   write, an error of the socket, the exit of the sidecar - and in whatever
   order the server answers, its promise is settled at most once, and resolved
   only by the answer that bears its id. *)
THEOREM PromisesGetTheirAnswer == SdkSpec => []EachPromiseItsAnswer
<1>1. RunningInv => EachPromiseItsAnswer
  BY DEF RunningInv, PromiseInv, EachPromiseItsAnswer,
      TypeScript!EachPromiseItsAnswer
<1> QED
  BY <1>1, InitClients, ClientsStep, PTL DEF SdkSpec
=============================================================================
