----------------------------- MODULE PageStore ------------------------------
(***************************************************************************)
(* What the page layers of FerriteDB promise the layer above: a page is    *)
(* handed out to one owner at a time, starts out zeroed, changes only      *)
(* while a client has it open for writing, is open to one writer or to     *)
(* readers, and is given back when nobody has it open.  Caching, eviction, *)
(* flushing and the free list do not show.                                 *)
(***************************************************************************)
CONSTANTS
    Client,
    Page,
    Content,        \* what a page may hold
    Zeroed,         \* a new page
    Unowned         \* the page belongs to nobody

VARIABLES
    store,
    readers,        \* pairs of a client and a page it has open
    writers

vars == << store, readers, writers >>

IsOpen(set, p) == \E c \in Client : << c, p >> \in set

Init ==
    /\ store = [p \in Page |-> Unowned]
    /\ readers = {}
    /\ writers = {}

Allocate(p) ==
    /\ store[p] = Unowned
    /\ store' = [store EXCEPT ![p] = Zeroed]
    /\ UNCHANGED << readers, writers >>

OpenToRead(c, p) ==
    /\ store[p] # Unowned
    /\ ~ IsOpen(writers, p)
    /\ readers' = readers \cup {<< c, p >>}
    /\ UNCHANGED << store, writers >>

OpenToWrite(c, p) ==
    /\ store[p] # Unowned
    /\ ~ IsOpen(readers, p) /\ ~ IsOpen(writers, p)
    /\ writers' = writers \cup {<< c, p >>}
    /\ UNCHANGED << store, readers >>

Write(c, p, content) ==
    /\ << c, p >> \in writers
    /\ store' = [store EXCEPT ![p] = content]
    /\ UNCHANGED << readers, writers >>

Close(c, p) ==
    /\ << c, p >> \in readers \cup writers
    /\ readers' = readers \ {<< c, p >>}
    /\ writers' = writers \ {<< c, p >>}
    /\ UNCHANGED store

Release(p) ==
    /\ store[p] # Unowned
    /\ ~ IsOpen(readers, p) /\ ~ IsOpen(writers, p)
    /\ store' = [store EXCEPT ![p] = Unowned]
    /\ UNCHANGED << readers, writers >>

Next ==
    \E p \in Page :
        \/ Allocate(p) \/ Release(p)
        \/ \E c \in Client :
              \/ OpenToRead(c, p) \/ OpenToWrite(c, p) \/ Close(c, p)
              \/ \E content \in Content : Write(c, p, content)

Spec == Init /\ [][Next]_vars
=============================================================================
