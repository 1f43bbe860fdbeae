------------------------------ MODULE MCClients ------------------------------
(***************************************************************************)
(* The clients of the two SDKs over one connection: which of them runs is  *)
(* chosen once.  FerriteDB of Python has one caller, AsyncFerriteDB many.  *)
(***************************************************************************)
EXTENDS Integers, FiniteSets

CONSTANTS
    MaxCalls,                   \* bound on the calls of the client
    Method,                     \* of TypeScriptClient
    Task,                       \* callers of AsyncFerriteDB
    Thread,                     \* the one caller of FerriteDB
    SyncFaults, AsyncFaults,    \* faults of the two Python clients
    LargeAnswers, Nobody, Unanswered, Failed

ASSUME ClientConstants == MaxCalls \in Nat /\ Thread \in Task

VARIABLES
    waiting, replies, open, nextId,                             \* of every client
    pending, settled, resolvedBy, garbled, unsent, exited,      \* of TypeScriptClient
    current, pc, waiter, timedOut, got,                         \* of PythonClient
    kind                                                        \* the client that runs

SdkRequest == [id : 0 .. MaxCalls]

TypeScript == INSTANCE TypeScriptClient WITH Request <- SdkRequest, MaxRequests <- MaxCalls
Sync == INSTANCE PythonClient WITH
    Request <- SdkRequest, MaxRequests <- MaxCalls, Caller <- {Thread}, Async <- FALSE,
    Faults <- SyncFaults
Async == INSTANCE PythonClient WITH
    Request <- SdkRequest, MaxRequests <- MaxCalls, Caller <- Task, Async <- TRUE,
    Faults <- AsyncFaults

pyVars == << current, pc, waiter, timedOut, got >>
tsVars == << pending, settled, resolvedBy, garbled, unsent, exited >>
sdkVars == << waiting, replies, open, nextId, kind, tsVars, pyVars >>

SdkInit == TypeScript!Init /\ Async!Init /\ kind \in {"typescript", "sync", "async"}

SdkNext ==
    /\ UNCHANGED kind
    /\ \/ kind = "typescript" /\ TypeScript!Next /\ UNCHANGED pyVars
       \/ kind = "sync" /\ Sync!Next /\ UNCHANGED tsVars
       \/ kind = "async" /\ Async!Next /\ UNCHANGED tsVars

(* The server answers what it reads, the event loops turn, and callers run. *)
SdkFairness ==
    /\ WF_sdkVars(kind = "typescript" /\ TypeScript!Event /\ UNCHANGED << kind, pyVars >>)
    /\ WF_sdkVars(kind = "async" /\ Async!Serve /\ UNCHANGED << kind, tsVars >>)
    /\ \A c \in Task :
           WF_sdkVars(kind = "async" /\ Async!Read(c) /\ UNCHANGED << kind, tsVars >>)

SdkSpec == SdkInit /\ [][SdkNext]_sdkVars /\ SdkFairness

-----------------------------------------------------------------------------
(* With one caller a call that returns has the answer to its own request, also
   after timeouts; and however tasks interleave and calls are cancelled, no
   answer is given to two of them. *)
EachGetsItsOwn ==
    /\ kind = "sync" => Sync!EachGetsItsOwn
    /\ kind = "async" => Async!NoAnswerTwice

(* A promise of the TypeScript client is settled once, and by the answer to its
   own request. *)
EachPromiseItsAnswer == TypeScript!EachPromiseItsAnswer

(* No task waits for a line that somebody else took: every call returns, and
   every promise is settled. *)
CallsReturn == (kind = "async" => Async!CallsReturn) /\ TypeScript!PromisesSettle
=============================================================================
