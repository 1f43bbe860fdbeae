-------------------------------- MODULE Pager --------------------------------
(***************************************************************************)
(* Pager of crates/ferrite-core/src/pager.rs: a file of pages, a header in *)
(* page 0, and a free list threaded through the first 8 bytes of the pages *)
(* that are free.                                                          *)
(*                                                                         *)
(* One client owns the handle; each call is one step per write or sync of  *)
(* the file, so that the process may die, or a call fail, between any two. *)
(***************************************************************************)
EXTENDS Integers

CONSTANTS
    MaxPage,        \* the file may grow to pages 0 .. MaxPage
    MaxSeq,         \* bound on the WAL sequence number
    Rest,           \* what a page holds after its first 8 bytes
    Blank,          \* zeros
    Torn,           \* part of a write that failed
    Written,        \* what the client writes into a page
    Unowned,        \* (PageStore) the page belongs to nobody
    FaultClasses    \* sets of faults: of "kill", "io" and "power"

Page == 1 .. MaxPage

(* The first 8 bytes of a page, read as a page index. *)
Word == 0 .. MaxPage + 1
Content == [word: Word, rest: Rest]
Zeroed == [word |-> 0, rest |-> Blank]

ASSUME PagerConstants ==
    /\ MaxPage \in Nat \ {0}
    /\ MaxSeq \in Nat
    /\ {Blank, Torn} \subseteq Rest
    /\ Written \subseteq Content /\ Unowned \notin Content
    /\ FaultClasses \subseteq SUBSET {"kill", "io", "power"}

(* A file shorter than a header, or none, counts no pages. *)
Header == [count: 0 .. MaxPage + 1, head: Word, seq: 0 .. MaxSeq]
NoHeader == [count |-> 0, head |-> 0, seq |-> 0]
NewHeader == [count |-> 1, head |-> 0, seq |-> 0]

VARIABLES
    faults,     \* those that may happen to this file, chosen once
    exists,     \* the file was created
    header,     \* page 0
    page,       \* the other pages
    synced,     \* header and pages as of the last sync_all
    cached,     \* Pager.page_count, free_head and wal_seq
    pc,
    call,       \* the running call
    target,     \* the page it works on
    buffer,     \* what write_page or PageMut::flush writes
    owned,      \* pages handed out and not given back
    marks       \* WAL sequence numbers that a reopened file may show

fileVars == << exists, header, page, synced >>
callVars == << call, target, buffer >>
vars == << faults, fileVars, cached, pc, callVars, owned, marks >>

(* What survives a power cut is only kept where there are power cuts. *)
Snapshot == [header |-> header, page |-> page]
KeepSynced == synced' = IF "power" \in faults THEN synced ELSE Snapshot'
SyncAll == synced' = Snapshot /\ UNCHANGED << exists, header, page >>

Init ==
    /\ faults \in FaultClasses
    /\ exists = FALSE
    /\ header = NoHeader
    /\ page = [p \in Page |-> Zeroed]
    /\ synced = Snapshot
    /\ cached = NoHeader
    /\ pc = "closed"
    /\ call = "none" /\ target = 0 /\ buffer = Zeroed
    /\ owned = {}
    /\ marks = {0}

Start(name, p, label) ==
    /\ pc = "idle"
    /\ call' = name /\ target' = p
    /\ pc' = label

Return ==
    /\ pc' = "idle"
    /\ call' = "none" /\ target' = 0 /\ buffer' = Zeroed

-----------------------------------------------------------------------------
(* create: create_new, then the header and a sync. *)
Create ==
    /\ pc = "closed" /\ ~ exists
    /\ exists' = TRUE
    /\ cached' = NewHeader
    /\ call' = "create"
    /\ pc' = "header"
    /\ UNCHANGED << header, page, synced, target, buffer, owned, marks >>

(* open reads the header; a file without one is refused. *)
Open ==
    /\ pc = "closed" /\ header.count > 0
    /\ cached' = header
    /\ pc' = "idle"
    /\ UNCHANGED << fileVars, callVars, owned, marks >>

(* alloc takes the head of the free list, whose page names the next one (a
   head outside the file is a read error) ... *)
AllocFromFreeList ==
    /\ cached.head \in Page
    /\ Start("alloc", cached.head, "zero")
    /\ cached' = [cached EXCEPT !.head = page[cached.head].word]

(* ... or grows the file. *)
AllocAtEnd ==
    /\ cached.head = 0
    /\ cached.count <= MaxPage
    /\ Start("alloc", cached.count, "zero")
    /\ cached' = [cached EXCEPT !.count = @ + 1]

Alloc ==
    /\ AllocFromFreeList \/ AllocAtEnd
    /\ UNCHANGED << fileVars, buffer, owned, marks >>

(* A slip: a recycled page keeps its bytes. *)
ZeroPageNot ==
    /\ pc = "zero"
    /\ pc' = "header"
    /\ UNCHANGED << fileVars, cached, callVars, owned, marks >>

ZeroPage ==
    /\ pc = "zero"
    /\ page' = [page EXCEPT ![target] = Zeroed]
    /\ pc' = "header"
    /\ UNCHANGED << exists, header, cached, callVars, owned, marks >>
    /\ KeepSynced

(* free: the client gives a page back, whatever the call answers. *)
Free(p) ==
    /\ p \in owned
    /\ Start("free", p, "link")
    /\ owned' = owned \ {p}
    /\ UNCHANGED << fileVars, cached, buffer, marks >>

(* A slip: the next pointer is left out. *)
LinkPageNowhere ==
    /\ pc = "link"
    /\ cached' = [cached EXCEPT !.head = target]
    /\ pc' = "header"
    /\ UNCHANGED << fileVars, callVars, owned, marks >>

LinkPage ==
    /\ pc = "link"
    /\ page' = [page EXCEPT ![target].word = cached.head]
    /\ cached' = [cached EXCEPT !.head = target]
    /\ pc' = "header"
    /\ UNCHANGED << exists, header, callVars, owned, marks >>
    /\ KeepSynced

(* A slip: the marker is only kept in memory. *)
RecordWalCommitInMemory(n) ==
    /\ pc = "idle"
    /\ cached' = [cached EXCEPT !.seq = n]
    /\ marks' = {n}
    /\ UNCHANGED << fileVars, pc, callVars, owned >>

RecordWalCommit(n) ==
    /\ Start("mark", 0, "header")
    /\ cached' = [cached EXCEPT !.seq = n]
    /\ marks' = marks \cup {n}
    /\ UNCHANGED << fileVars, buffer, owned >>

SyncHeader ==
    /\ Start("header", 0, "header")
    /\ UNCHANGED << fileVars, cached, buffer, owned, marks >>

WriteHeader ==
    /\ pc = "header"
    /\ header' = cached
    /\ pc' = "sync"
    /\ UNCHANGED << exists, page, cached, callVars, owned, marks >>
    /\ KeepSynced

(* The last sync_all of every call that writes. *)
Sync ==
    /\ pc = "sync"
    /\ SyncAll
    /\ owned' = IF call = "alloc" THEN owned \cup {target} ELSE owned
    /\ marks' = IF call = "mark" THEN {cached.seq} ELSE marks
    /\ Return
    /\ UNCHANGED cached

-----------------------------------------------------------------------------
(* write_page(p, c): one write, one sync. *)
StartWrite(p, c) ==
    /\ p \in owned
    /\ Start("write", p, "write")
    /\ buffer' = c
    /\ UNCHANGED << fileVars, cached, owned, marks >>

(* write(p): a PageMut buffer, which is flushed or dropped; dropping it writes
   nothing. *)
OpenBuffer(p) ==
    /\ p \in owned
    /\ Start("write", p, "buffer")
    /\ buffer' = page[p]
    /\ UNCHANGED << fileVars, cached, owned, marks >>

EditBuffer(c) ==
    /\ pc = "buffer"
    /\ buffer' = c
    /\ UNCHANGED << fileVars, cached, pc, call, target, owned, marks >>

FlushBuffer ==
    /\ pc = "buffer"
    /\ pc' = "write"
    /\ UNCHANGED << fileVars, cached, callVars, owned, marks >>

DropBuffer ==
    /\ pc = "buffer"
    /\ Return
    /\ UNCHANGED << fileVars, cached, owned, marks >>

WritePage ==
    /\ pc = "write"
    /\ page' = [page EXCEPT ![target] = buffer]
    /\ pc' = "sync"
    /\ UNCHANGED << exists, header, cached, callVars, owned, marks >>
    /\ KeepSynced

-----------------------------------------------------------------------------
(* The page that the next write would leave. *)
Replacement ==
    CASE pc = "zero" -> Zeroed
      [] pc = "link" -> [page[target] EXCEPT !.word = cached.head]
      [] pc = "write" -> buffer

(* A write fails: a prefix of it may have reached the file.  The 8 bytes of a
   link and the 36 of a header are within one sector. *)
FailWrite ==
    /\ "io" \in faults
    /\ \/ /\ pc \in {"zero", "link", "write"}
          /\ \E c \in {page[target], Replacement, [Replacement EXCEPT !.rest = Torn]} :
                /\ pc = "link" => c.rest = page[target].rest
                /\ page' = [page EXCEPT ![target] = c]
          /\ UNCHANGED header
       \/ /\ pc = "header"
          /\ header' \in {header, cached}
          /\ UNCHANGED page
    /\ pc' = "failed"
    /\ UNCHANGED << exists, cached, callVars, owned, marks >>
    /\ KeepSynced

FailSync ==
    /\ "io" \in faults
    /\ pc = "sync"
    /\ pc' = "failed"
    /\ UNCHANGED << fileVars, cached, callVars, owned, marks >>

Leave ==
    /\ pc' = "closed"
    /\ call' = "none" /\ target' = 0 /\ buffer' = Zeroed
    /\ cached' = NoHeader
    /\ UNCHANGED << exists, owned, marks >>

(* The error reaches the client: what was changed in memory stays so, except
   that a failed create leaves no handle. *)
ReturnError ==
    /\ pc = "failed"
    /\ IF call = "create" THEN Leave
       ELSE Return /\ UNCHANGED << exists, cached, owned, marks >>
    /\ UNCHANGED << header, page, synced >>

Close ==
    /\ pc = "idle"
    /\ Leave
    /\ UNCHANGED << header, page, synced >>

Kill ==
    /\ "kill" \in faults
    /\ pc \notin {"idle", "closed"}
    /\ Leave
    /\ UNCHANGED << header, page, synced >>

(* Every page is what it is now or what it was at the last sync.  The name of
   the file is taken to be durable once create has returned. *)
PowerCut ==
    /\ "power" \in faults
    /\ pc # "closed" /\ synced.header.count > 0
    /\ header' \in {header, synced.header}
    /\ page' \in {f \in [Page -> {page[p] : p \in Page} \cup {synced.page[p] : p \in Page}] :
                    \A p \in Page : f[p] \in {page[p], synced.page[p]}}
    /\ Leave
    /\ synced' = Snapshot'

-----------------------------------------------------------------------------
Next ==
    /\ UNCHANGED faults
    /\ \/ Create \/ Open \/ Alloc \/ ZeroPage \/ LinkPage \/ SyncHeader
       \/ WriteHeader \/ Sync \/ FlushBuffer \/ DropBuffer \/ WritePage
       \/ \E p \in Page : Free(p) \/ OpenBuffer(p)
       \/ \E p \in Page, c \in Written : StartWrite(p, c)
       \/ \E c \in Written : EditBuffer(c)
       \/ \E n \in 1 .. MaxSeq : RecordWalCommit(n)
       \/ FailWrite \/ FailSync \/ ReturnError \/ Close \/ Kill \/ PowerCut

Spec == Init /\ [][Next]_vars

-----------------------------------------------------------------------------
Calls == {"none", "create", "alloc", "free", "mark", "header", "write"}
Labels == {"closed", "idle", "zero", "link", "header", "sync", "buffer", "write",
           "failed"}

(* Every variable keeps its type; the file never outgrows its page count. *)
TypeOK ==
    /\ faults \in FaultClasses
    /\ exists \in BOOLEAN
    /\ header \in Header /\ cached \in Header
    /\ page \in [Page -> Content]
    /\ synced \in [header: Header, page: [Page -> Content]]
    /\ pc \in Labels /\ call \in Calls
    /\ target \in 0 .. MaxPage
    /\ buffer \in Content
    /\ owned \subseteq Page
    /\ marks \subseteq 0 .. MaxSeq

(* The pages s, in this order, are the free list that starts at head in a file
   of count pages. *)
IsFreeList(s, n, head, count) ==
    /\ head = IF n = 0 THEN 0 ELSE s[1]
    /\ \A i \in 1 .. n :
          /\ s[i] < count
          /\ s[i] \notin owned
          /\ page[s[i]].word = IF i = n THEN 0 ELSE s[i + 1]
          /\ \A j \in 1 .. n : s[i] = s[j] => i = j

HasFreeList(h) ==
    \E n \in 0 .. MaxPage : \E s \in [1 .. n -> Page] : IsFreeList(s, n, h.head, h.count)

(* Between calls every page of the file is owned or on the free list, and the
   header says the same as memory. *)
EveryPageAccounted ==
    pc = "idle" =>
        /\ header = cached
        /\ \E n \in 0 .. MaxPage : \E s \in [1 .. n -> Page] :
              /\ IsFreeList(s, n, header.head, header.count)
              /\ \A p \in Page :
                    p < header.count => p \in owned \/ \E i \in 1 .. n : s[i] = p

(* alloc never hands out a page that somebody has, nor the same page twice:
   the list from the head, in memory and in the file a crash leaves, ends,
   meets no page twice and none that is owned.  A page whose free failed
   counts as given back: the client may not use it, nor free it again.  A power
   cut may keep one write and lose the one before it: the list is then lost.
   And nothing leaks as long as nothing fails. *)
FreeListSound ==
    /\ TypeOK
    /\ "power" \notin faults =>
          /\ header.count > 0 => HasFreeList(header)
          /\ pc # "closed" => HasFreeList(cached)
    /\ faults = {} => EveryPageAccounted

(* pager.rs:212: the marker of record_wal_commit survives a crash.  Once the
   call has returned, a reopened file shows it, or a later one that was
   attempted. *)
MarkSurvives ==
    /\ header.count > 0 => header.seq \in marks
    /\ synced.header.count > 0 => synced.header.seq \in marks

(* The pages as their owner sees them; a call that writes has its page open. *)
Store == INSTANCE PageStore WITH
    Client <- {"client"},
    store <- [p \in Page |-> IF p \in owned THEN page[p] ELSE Unowned],
    readers <- {},
    writers <- IF call = "write" THEN {<< "client", target >>} ELSE {}

(* A page belongs to its owner from alloc to free, starts zeroed, and changes
   only while its owner writes it, whatever dies or fails, save that a power
   cut may take back what was not synced.  A buffer that is dropped changes
   nothing here: what the code's comment says of it is DropFlushes. *)
ImplementsPageStore ==
    Store!Init /\ [][Store!Next \/ "power" \in faults]_(Store!vars)

(* pager.rs:192, of the buffer of write: "the buffer is automatically flushed
   on drop".  When it is given up and the call is over, the page is as the
   client left the buffer.  PageMut has no Drop, and the code does not keep
   this. *)
DropFlushes == [][pc = "buffer" /\ pc' = "idle" => page'[target] = buffer]_vars
=============================================================================
