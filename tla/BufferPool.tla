---------------------------- MODULE BufferPool ------------------------------
(***************************************************************************)
(* BufferPoolManager of crates/ferrite-core/src/buffer_pool.rs: threads    *)
(* that fetch, allocate, flush and delete pages through a fixed set of     *)
(* frames.                                                                 *)
(*                                                                         *)
(* One mutex guards the manager and one RwLock the bytes of each frame.  A *)
(* critical section of the mutex is one step, except where the code waits  *)
(* for a frame's RwLock inside it: there the thread keeps the mutex across *)
(* the steps "evict", "fill" and "flush".                                  *)
(***************************************************************************)
EXTENDS Integers, Sequences, FiniteSets

CONSTANTS
    Thread,
    Nobody,         \* the mutex is free
    Frame,
    NoFrame,
    Page,           \* the pages the file may grow to
    NoPage,
    Value,          \* what clients write into a page
    Blank,          \* the value of a zeroed page
    Unowned,        \* the page belongs to nobody
    Abandoned,      \* the pager failed to free it: nobody's, and not reusable
    MaxLsn,
    HasHook,        \* a WAL sync hook is registered
    WritersFirst,   \* RwLock: readers queue behind a waiting writer
    Quiet,          \* clients flush only while nobody writes
    Faults          \* {} or {"io"}

ASSUME PoolConstants ==
    /\ IsFiniteSet(Thread) /\ Nobody \notin Thread
    /\ IsFiniteSet(Frame) /\ NoFrame \notin Frame
    /\ NoPage \notin Page
    /\ MaxLsn \in Nat
    /\ {HasHook, WritersFirst, Quiet} \subseteq BOOLEAN
    /\ Faults \subseteq {"io"}

VARIABLES
    mutex,       \* who holds the manager's mutex across steps
    page,        \* Frame.page_idx
    pins,        \* Frame.pin_count
    dirty,       \* Frame.is_dirty
    lsn,         \* Frame.page_lsn
    bytes,       \* Frame.data
    table,       \* page_table
    free,        \* free_list
    evictable,   \* the replacer's frames that are not pinned
    flushed,     \* flushed_wal_seq
    disk,        \* the pager: contents of the pages in use
    pc,
    intent,      \* the call of a thread: "read", "write" or "new"
    target,      \* the page it works on
    frame,       \* the frame it works on
    mark,        \* PageMutGuard.is_dirty and page_lsn
    todo,        \* frames a flush still has to visit
    lost         \* history: frames that a failed pager.read left in no list

frameVars == << page, pins, dirty, lsn, bytes >>
managerVars == << mutex, table, free, evictable, flushed >>
threadVars == << pc, intent, target, frame, mark, todo >>
vars == << frameVars, managerVars, disk, threadVars, lost >>

-----------------------------------------------------------------------------
(* A page's bytes: a value, and the highest LSN its writers stamped. *)
Lsn == 0 .. MaxLsn
Content == [value: Value \cup {Blank}, lsn: Lsn]
Zeroed == [value |-> Blank, lsn |-> 0]

ASSUME PageStates ==
    Unowned \notin Content /\ Abandoned \notin Content /\ Unowned # Abandoned

Max2(a, b) == IF a > b THEN a ELSE b
InUse(p) == disk[p] \in Content

Init ==
    /\ mutex = Nobody
    /\ page = [f \in Frame |-> NoPage]
    /\ pins = [f \in Frame |-> 0]
    /\ dirty = [f \in Frame |-> FALSE]
    /\ lsn = [f \in Frame |-> 0]
    /\ bytes = [f \in Frame |-> Zeroed]
    /\ table = [p \in Page |-> NoFrame]
    /\ free \in {s \in [1 .. Cardinality(Frame) -> Frame] :
                    \A i, j \in DOMAIN s : s[i] = s[j] => i = j}
    /\ evictable = {}
    /\ flushed = 0
    /\ disk = [p \in Page |-> Unowned]
    /\ pc = [t \in Thread |-> "idle"]
    /\ intent = [t \in Thread |-> "read"]
    /\ target = [t \in Thread |-> NoPage]
    /\ frame = [t \in Thread |-> NoFrame]
    /\ mark = [t \in Thread |-> [dirty |-> FALSE, lsn |-> 0]]
    /\ todo = [t \in Thread |-> {}]
    /\ lost = {}

Goto(t, label) == pc' = [pc EXCEPT ![t] = label]

(* Returning from a call: the thread lets go of everything. *)
Return(t) ==
    /\ Goto(t, "idle")
    /\ intent' = [intent EXCEPT ![t] = "read"]
    /\ target' = [target EXCEPT ![t] = NoPage]
    /\ frame' = [frame EXCEPT ![t] = NoFrame]
    /\ mark' = [mark EXCEPT ![t] = [dirty |-> FALSE, lsn |-> 0]]
    /\ todo' = [todo EXCEPT ![t] = {}]

-----------------------------------------------------------------------------
(* The RwLock of a frame. *)
Holds(t, f, how) ==
    pc[t] \in {"guard", "release"} /\ frame[t] = f /\ intent[t] = how
Writes(f) == \E t \in Thread : Holds(t, f, "write")
Reads(f) == \E t \in Thread : Holds(t, f, "read")
WriterWaits(f) ==
    \E t \in Thread : pc[t] = "lock" /\ frame[t] = f /\ intent[t] = "write"

MayRead(f) == ~ Writes(f) /\ (WritersFirst => ~ WriterWaits(f))
MayWrite(f) == ~ Writes(f) /\ ~ Reads(f)

-----------------------------------------------------------------------------
(* Finding a frame. *)

(* The replacer offers some unpinned frame, if there is one. *)
Victims == IF free = << >> THEN evictable ELSE {}

Unmap(f) ==
    /\ table' = [p \in Page |-> IF p = page[f] THEN NoFrame ELSE table[p]]
    /\ page' = [page EXCEPT ![f] = NoPage]

(* Pop the free list, or take a victim; a dirty one has to be written first. *)
PickFrame(t, f) ==
    \/ /\ free # << >>
       /\ f = free[Len(free)]
       /\ free' = SubSeq(free, 1, Len(free) - 1)
       /\ Goto(t, "fill")
       /\ UNCHANGED << evictable, table, page >>
    \/ /\ f \in Victims
       /\ evictable' = evictable \ {f}
       /\ IF dirty[f]
          THEN Goto(t, "evict") /\ UNCHANGED << table, page >>
          ELSE Goto(t, "fill") /\ Unmap(f)
       /\ UNCHANGED free

(* find_available_frame; the caller keeps the mutex. *)
FindFrame(t, f) ==
    /\ PickFrame(t, f)
    /\ frame' = [frame EXCEPT ![t] = f]
    /\ mutex' = t

(* enforce_wal_invariant lets the page through, syncing the log if it must. *)
WalAllows(f) == lsn[f] <= flushed \/ HasHook
SyncWal(f) == flushed' = Max2(flushed, lsn[f])

(* The frame's bytes go to disk, once their read lock is free. *)
WriteBack(f) ==
    /\ WalAllows(f)
    /\ SyncWal(f)
    /\ MayRead(f)
    /\ disk' = [disk EXCEPT ![page[f]] = bytes[f]]

(* They do not: the log is not synced and there is no hook to do it, the hook
   fails, or the write fails, with or without effect. *)
FailWriteBack(f) ==
    \/ ~ WalAllows(f) /\ UNCHANGED << flushed, disk >>
    \/ "io" \in Faults /\ WalAllows(f) /\ UNCHANGED << flushed, disk >>
    \/ "io" \in Faults /\ WriteBack(f)

Evict(t) ==
    /\ pc[t] = "evict"
    /\ LET f == frame[t] IN
          /\ WriteBack(f)
          /\ dirty' = [dirty EXCEPT ![f] = FALSE]
          /\ Unmap(f)
    /\ Goto(t, "fill")
    /\ UNCHANGED << pins, lsn, bytes, mutex, free, evictable, intent, target,
                    frame, mark, todo, lost >>

(* The victim goes back to the replacer. *)
FailEvict(t) ==
    /\ pc[t] = "evict"
    /\ FailWriteBack(frame[t])
    /\ evictable' = evictable \cup {frame[t]}
    /\ mutex' = Nobody
    /\ Return(t)
    /\ UNCHANGED << frameVars, table, free, lost >>

(* With the mutex still held, the frame found is filled with the page.  The
   write lock waits for a guard that has unpinned the frame's last page and
   not let go of its bytes yet. *)
Install(t, f, p, content, isDirty) ==
    /\ MayWrite(f)
    /\ bytes' = [bytes EXCEPT ![f] = content]
    /\ page' = [page EXCEPT ![f] = p]
    /\ pins' = [pins EXCEPT ![f] = 1]
    /\ dirty' = [dirty EXCEPT ![f] = isDirty]
    /\ lsn' = [lsn EXCEPT ![f] = 0]
    /\ table' = [table EXCEPT ![p] = f]
    /\ mutex' = Nobody

(* The page is pinned: a writer reads its LSN next, a reader only waits. *)
AfterPin(how) == IF how = "write" THEN "pinned" ELSE "lock"

FillFetch(t) ==
    /\ pc[t] = "fill" /\ intent[t] # "new"
    /\ Install(t, frame[t], target[t], disk[target[t]], FALSE)
    /\ Goto(t, AfterPin(intent[t]))
    /\ UNCHANGED << free, evictable, flushed, disk, intent, target, frame, mark,
                    todo, lost >>

FillNew(t) ==
    /\ pc[t] = "fill" /\ intent[t] = "new"
    /\ \E p \in Page :
          /\ disk[p] = Unowned
          /\ disk' = [disk EXCEPT ![p] = Zeroed]
          /\ Install(t, frame[t], p, Zeroed, TRUE)
          /\ target' = [target EXCEPT ![t] = p]
    /\ Goto(t, "lock")
    /\ intent' = [intent EXCEPT ![t] = "write"]
    /\ mark' = [mark EXCEPT ![t] = [dirty |-> TRUE, lsn |-> 0]]
    /\ UNCHANGED << free, evictable, flushed, frame, todo, lost >>

(* pager.read fails, and the frame is in no list any more. *)
FailRead(t) ==
    /\ "io" \in Faults
    /\ intent[t] # "new"
    /\ lost' = lost \cup {frame[t]}
    /\ UNCHANGED free

(* A slip: new_page does not put the frame back. *)
FailAllocDropping(t) ==
    /\ intent[t] = "new"
    /\ "io" \in Faults \/ \A p \in Page : disk[p] # Unowned
    /\ UNCHANGED << free, lost >>

(* pager.alloc fails, and new_page puts the frame back. *)
FailAlloc(t) ==
    /\ intent[t] = "new"
    /\ "io" \in Faults \/ \A p \in Page : disk[p] # Unowned
    /\ free' = Append(free, frame[t])
    /\ UNCHANGED lost

FailFill(t) ==
    /\ pc[t] = "fill"
    /\ FailRead(t) \/ FailAlloc(t)
    /\ mutex' = Nobody
    /\ Return(t)
    /\ UNCHANGED << frameVars, table, evictable, flushed, disk >>

-----------------------------------------------------------------------------
(* A slip: a hit does not tell the replacer. *)
HitWithoutPin(t, p, how) ==
    /\ table[p] # NoFrame
    /\ pins' = [pins EXCEPT ![table[p]] = @ + 1]
    /\ frame' = [frame EXCEPT ![t] = table[p]]
    /\ Goto(t, AfterPin(how))
    /\ UNCHANGED << page, dirty, lsn, bytes, mutex, table, free, evictable >>

(* fetch_page and fetch_page_mut up to the wait for the page's bytes. *)
Hit(t, p, how) ==
    LET f == table[p] IN
    /\ f # NoFrame
    /\ pins' = [pins EXCEPT ![f] = @ + 1]
    /\ evictable' = evictable \ {f}
    /\ frame' = [frame EXCEPT ![t] = f]
    /\ Goto(t, AfterPin(how))
    /\ UNCHANGED << page, dirty, lsn, bytes, mutex, table, free >>

Miss(t, p) ==
    /\ table[p] = NoFrame
    /\ \E f \in Frame : FindFrame(t, f)
    /\ UNCHANGED << pins, dirty, lsn, bytes >>

Fetch(t, p, how) ==
    /\ pc[t] = "idle" /\ mutex = Nobody
    /\ InUse(p)
    /\ Hit(t, p, how) \/ Miss(t, p)
    /\ intent' = [intent EXCEPT ![t] = how]
    /\ target' = [target EXCEPT ![t] = p]
    /\ UNCHANGED << flushed, disk, mark, todo, lost >>

NewPage(t) ==
    /\ pc[t] = "idle" /\ mutex = Nobody
    /\ \E f \in Frame : FindFrame(t, f)
    /\ intent' = [intent EXCEPT ![t] = "new"]
    /\ UNCHANGED << pins, dirty, lsn, bytes, flushed, disk, target, mark, todo, lost >>

(* fetch_page_mut reads page_lsn after the mutex is released and before it
   waits for the bytes. *)
ReadLsn(t) ==
    /\ pc[t] = "pinned"
    /\ mark' = [mark EXCEPT ![t].lsn = lsn[frame[t]]]
    /\ Goto(t, "lock")
    /\ UNCHANGED << frameVars, managerVars, disk, intent, target, frame, todo, lost >>

TakeLock(t) ==
    /\ pc[t] = "lock"
    /\ IF intent[t] = "write" THEN MayWrite(frame[t]) ELSE MayRead(frame[t])
    /\ Goto(t, "guard")
    /\ UNCHANGED << frameVars, managerVars, disk, intent, target, frame, mark, todo, lost >>

-----------------------------------------------------------------------------
(* The guards.  A client that changes the bytes marks the guard with the LSN
   of the record that describes the change; 0 stands for deref_mut alone. *)
Modify(t, v, l) ==
    /\ pc[t] = "guard" /\ intent[t] = "write"
    /\ bytes' = [bytes EXCEPT ![frame[t]] = [value |-> v, lsn |-> Max2(@.lsn, l)]]
    /\ mark' = [mark EXCEPT ![t] = [dirty |-> TRUE, lsn |-> Max2(@.lsn, l)]]
    /\ UNCHANGED << page, pins, dirty, lsn, managerVars, disk, pc, intent,
                    target, frame, todo, lost >>

(* A slip: the LSN is stored, not maximised. *)
StampLatest(t, f) ==
    IF mark[t].dirty
    THEN /\ dirty' = [dirty EXCEPT ![f] = TRUE]
         /\ lsn' = [lsn EXCEPT ![f] = mark[t].lsn]
    ELSE UNCHANGED << dirty, lsn >>

(* A slip: a guard counts as written only when its LSN is newer. *)
StampNewer(t, f) ==
    IF mark[t].lsn > lsn[f]
    THEN /\ dirty' = [dirty EXCEPT ![f] = TRUE]
         /\ lsn' = [lsn EXCEPT ![f] = mark[t].lsn]
    ELSE UNCHANGED << dirty, lsn >>

(* What unpin_page takes over from a guard that was written through. *)
Stamp(t, f) ==
    IF mark[t].dirty
    THEN /\ dirty' = [dirty EXCEPT ![f] = TRUE]
         /\ lsn' = [lsn EXCEPT ![f] = Max2(@, mark[t].lsn)]
    ELSE UNCHANGED << dirty, lsn >>

(* unpin_page, which drop calls before the lock itself is let go. *)
Unpin(t) ==
    /\ pc[t] = "guard" /\ mutex = Nobody
    /\ LET f == table[target[t]] IN
       IF f = NoFrame
       THEN UNCHANGED << dirty, lsn, pins, evictable >>
       ELSE /\ Stamp(t, f)
            /\ pins' = [pins EXCEPT ![f] = IF @ <= 1 THEN 0 ELSE @ - 1]
            /\ evictable' = IF pins[f] <= 1 THEN evictable \cup {f} ELSE evictable
    /\ Goto(t, "release")
    /\ UNCHANGED << page, bytes, mutex, table, free, flushed, disk, intent,
                    target, frame, mark, todo, lost >>

Release(t) ==
    /\ pc[t] = "release"
    /\ Return(t)
    /\ UNCHANGED << frameVars, managerVars, disk, lost >>

-----------------------------------------------------------------------------
(* flush_page and flush_all: the mutex is held while the frames' read locks
   are taken one after the other. *)
NoWriters ==
    \A t \in Thread : pc[t] \in {"pinned", "lock", "guard", "release"} =>
                         intent[t] = "read"

StartFlush(t, frames) ==
    /\ pc[t] = "idle" /\ mutex = Nobody
    /\ Quiet => NoWriters
    /\ mutex' = t
    /\ todo' = [todo EXCEPT ![t] = frames]
    /\ Goto(t, "flush")
    /\ UNCHANGED << frameVars, table, free, evictable, flushed, disk, intent,
                    target, frame, mark, lost >>

FlushPage(t, p) == table[p] # NoFrame /\ StartFlush(t, {table[p]})
FlushAll(t) == StartFlush(t, {table[p] : p \in Page} \ {NoFrame})

(* flush_frame_internal for the next frame. *)
FlushFrame(t) ==
    /\ pc[t] = "flush"
    /\ \E f \in todo[t] :
          /\ IF dirty[f]
             THEN /\ WriteBack(f)
                  /\ dirty' = [dirty EXCEPT ![f] = FALSE]
             ELSE UNCHANGED << flushed, disk, dirty >>
          /\ todo' = [todo EXCEPT ![t] = @ \ {f}]
    /\ UNCHANGED << page, pins, lsn, bytes, mutex, table, free, evictable, pc,
                    intent, target, frame, mark, lost >>

(* A slip: the flush waits for the log instead of failing. *)
FailFlushWaiting(t) ==
    /\ pc[t] = "flush"
    /\ \E f \in todo[t] : dirty[f] /\ ~ WalAllows(f)
    /\ UNCHANGED vars

FailFlush(t) ==
    /\ pc[t] = "flush"
    /\ \E f \in todo[t] : dirty[f] /\ FailWriteBack(f)
    /\ mutex' = Nobody
    /\ Return(t)
    /\ UNCHANGED << frameVars, table, free, evictable, lost >>

EndFlush(t) ==
    /\ pc[t] = "flush" /\ todo[t] = {}
    /\ mutex' = Nobody
    /\ Return(t)
    /\ UNCHANGED << frameVars, table, free, evictable, flushed, disk, lost >>

-----------------------------------------------------------------------------
(* delete_page, in one critical section.  A pinned page is refused; when the
   pager fails to free the page, it is gone from the pool all the same. *)
Forget(f) ==
    /\ Unmap(f)
    /\ dirty' = [dirty EXCEPT ![f] = FALSE]
    /\ lsn' = [lsn EXCEPT ![f] = 0]
    /\ evictable' = evictable \ {f}
    /\ free' = Append(free, f)

DeletePage(t, p) ==
    /\ pc[t] = "idle" /\ mutex = Nobody
    /\ InUse(p)
    /\ IF table[p] = NoFrame
       THEN UNCHANGED << table, page, dirty, lsn, evictable, free >>
       ELSE pins[table[p]] = 0 /\ Forget(table[p])
    /\ \/ disk' = [disk EXCEPT ![p] = Unowned]
       \/ "io" \in Faults /\ disk' = [disk EXCEPT ![p] = Abandoned]
    /\ UNCHANGED << pins, bytes, mutex, flushed, threadVars, lost >>

(* record_wal_sync: the log is on disk up to l. *)
RecordWalSync(l) ==
    /\ mutex = Nobody
    /\ l > flushed
    /\ flushed' = l
    /\ UNCHANGED << frameVars, mutex, table, free, evictable, disk, threadVars, lost >>

-----------------------------------------------------------------------------
Call(t) ==
    \/ \E p \in Page :
          Fetch(t, p, "read") \/ Fetch(t, p, "write") \/ FlushPage(t, p) \/ DeletePage(t, p)
    \/ NewPage(t) \/ FlushAll(t)
    \/ \E v \in Value, l \in Lsn : Modify(t, v, l)

Progress(t) ==
    \/ Evict(t) \/ FailEvict(t) \/ FillFetch(t) \/ FillNew(t) \/ FailFill(t)
    \/ ReadLsn(t) \/ TakeLock(t) \/ Unpin(t) \/ Release(t)
    \/ FlushFrame(t) \/ FailFlush(t) \/ EndFlush(t)

Next ==
    \/ \E t \in Thread : Call(t) \/ Progress(t)
    \/ \E l \in Lsn : RecordWalSync(l)

(* Every call goes on, and a guard is dropped some time. *)
Fairness == \A t \in Thread : WF_vars(Progress(t))

Spec == Init /\ [][Next]_vars

-----------------------------------------------------------------------------
Labels == {"idle", "evict", "fill", "pinned", "lock", "guard", "release", "flush"}

(* A cached page has page contents, never those of a page nobody owns; pins,
   LSNs and lists stay in their types. *)
TypeOK ==
    /\ mutex \in Thread \cup {Nobody}
    /\ page \in [Frame -> Page \cup {NoPage}]
    /\ pins \in [Frame -> Nat]
    /\ dirty \in [Frame -> BOOLEAN]
    /\ lsn \in [Frame -> Lsn]
    /\ bytes \in [Frame -> Content]
    /\ table \in [Page -> Frame \cup {NoFrame}]
    /\ free \in Seq(Frame)
    /\ evictable \subseteq Frame
    /\ flushed \in Lsn
    /\ disk \in [Page -> Content \cup {Unowned, Abandoned}]
    /\ pc \in [Thread -> Labels]
    /\ intent \in [Thread -> {"read", "write", "new"}]
    /\ target \in [Thread -> Page \cup {NoPage}]
    /\ frame \in [Thread -> Frame \cup {NoFrame}]
    /\ mark \in [Thread -> [dirty: BOOLEAN, lsn: Lsn]]
    /\ todo \in [Thread -> SUBSET Frame]
    /\ lost \subseteq Frame

(* Threads that pin a frame. *)
Pinners(f) ==
    {t \in Thread : frame[t] = f /\ pc[t] \in {"pinned", "lock", "guard"}}

(* Between calls every frame is in exactly one place: on the free list,
   offered by the replacer, or pinned, as often as its count says.  A frame
   in two places would be handed to two pages.  One in none is lost for good,
   and only a read that fails while a page is fetched loses one: no eviction,
   deletion, failed write or failed allocation does. *)
FramesAccounted ==
    /\ TypeOK
    /\ mutex = Nobody =>
        \A f \in Frame :
            /\ pins[f] = Cardinality(Pinners(f))
            /\ Cardinality({i \in DOMAIN free : free[i] = f})
                 + (IF f \in evictable THEN 1 ELSE 0)
                 + (IF Pinners(f) # {} THEN 1 ELSE 0) = IF f \in lost THEN 0 ELSE 1

(* A frame keeps its page as long as somebody pins it, whatever is evicted,
   deleted or allocated meanwhile, and a page is in no second frame. *)
GuardsKeepTheirPage ==
    \A f \in Frame : \A t \in Pinners(f) :
        \A p \in Page : (p = target[t]) <=> (page[f] = p /\ table[p] = f)

(* buffer_pool.rs:28: no page reaches the disk before the log does. *)
WalRule == \A p \in Page : InUse(p) => disk[p].lsn <= flushed

(* Nobody keeps the manager's mutex for ever. *)
MutexIsReleased == mutex # Nobody ~> mutex = Nobody

(* The contents of a page as its clients see them, and who has it open. *)
Seen(p) ==
    IF ~ InUse(p) THEN Unowned
    ELSE IF table[p] # NoFrame THEN bytes[table[p]] ELSE disk[p]

Using(how) ==
    {open \in Thread \X Page :
        LET t == open[1] IN pc[t] = "guard" /\ intent[t] = how /\ target[t] = open[2]}

Store == INSTANCE PageStore WITH
    Client <- Thread,
    store <- [p \in Page |-> Seen(p)],
    readers <- Using("read"),
    writers <- Using("write")

(* Hits and misses, evictions, write-backs, reloads, failed writes and the
   reuse of frames do not change a page: only the guard of its one writer
   does, and no page is deleted or handed out again under a guard. *)
ImplementsPageStore == Store!Spec
=============================================================================
