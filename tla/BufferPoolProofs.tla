-------------------------- MODULE BufferPoolProofs --------------------------
(***************************************************************************)
(* Proofs about the buffer pool, for any number of threads, frames and     *)
(* pages: types, the place of every frame, the WAL rule, and the           *)
(* refinement of PageStore; and about the two replacement policies it is   *)
(* built with: both implement Replacer, and the k times LRU-K keeps of a   *)
(* frame are enough to choose by.                                          *)
(***************************************************************************)
EXTENDS BufferPool, MCReplacers, FiniteSetTheorems, NaturalsInduction,
        WellFoundedInduction, SequenceTheorems, TLAPS

Inside == {"evict", "fill", "flush"}        \* holding the mutex
Pinning == {"pinned", "lock", "guard"}
Clean == [dirty |-> FALSE, lsn |-> 0]

(* What a thread has in hand at each point, and that only one is inside the
   mutex. *)
ThreadInv(t) ==
    /\ pc[t] \in Inside <=> mutex = t
    /\ pc[t] \in {"idle", "flush"} => frame[t] = NoFrame /\ intent[t] = "read"
    /\ pc[t] \notin {"idle", "flush"} => frame[t] \in Frame
    /\ pc[t] \notin {"idle", "flush"} /\ intent[t] # "new" => target[t] \in Page
    /\ intent[t] = "new" => pc[t] \in {"evict", "fill"}
    /\ pc[t] # "flush" => todo[t] = {}
    /\ pc[t] \notin {"lock", "guard", "release"} => mark[t] = Clean

(* The page table and the frames name each other. *)
TableInv == \A p \in Page, f \in Frame : table[p] = f <=> page[f] = p

(* The frame that find_available_frame took, with its old page ("evict") or
   with none ("fill"). *)
Held(f) == mutex \in Thread /\ pc[mutex] \in {"evict", "fill"} /\ frame[mutex] = f

Free == {free[i] : i \in DOMAIN free}

(* Where a frame can be.  One without a page is free or being filled, unless a
   read failed; one with a page is pinned, with the replacer or being evicted.
   Which frames a failed read lost, LostInv says. *)
PlaceInv(f) ==
    /\ page[f] = NoPage =>
          /\ pins[f] = 0 /\ f \notin evictable
          /\ f \in Free \/ Held(f) \/ "io" \in Faults
    /\ page[f] # NoPage =>
          /\ InUse(page[f])
          /\ f \notin Free
          /\ f \in evictable \/ Held(f) \/ pins[f] # 0
    /\ f \in evictable => pins[f] = 0
    /\ Held(f) =>
          /\ f \notin Free /\ f \notin evictable /\ pins[f] = 0
          /\ pc[mutex] = "fill" <=> page[f] = NoPage

FreeInv == \A i, j \in DOMAIN free : free[i] = free[j] => i = j

(* The page to be fetched is cached nowhere, and a flush visits frames with a
   page. *)
MutexInv ==
    mutex \in Thread =>
        /\ pc[mutex] \in {"evict", "fill"} /\ intent[mutex] # "new" =>
              table[target[mutex]] = NoFrame /\ InUse(target[mutex])
        /\ \A f \in todo[mutex] : page[f] # NoPage

(* Pins are counted, and a pinned frame keeps the page it was pinned for. *)
PinInv(f) ==
    /\ pins[f] = Cardinality(Pinners(f))
    /\ \A t \in Pinners(f) : page[f] = target[t]

(* One writer, or readers, hold the bytes of a frame. *)
LockInv ==
    \A f \in Frame : \A t, u \in Thread :
        Holds(t, f, "write") /\ (Holds(u, f, "read") \/ Holds(u, f, "write")) => t = u

(* A change is on record: in the frame's LSN, in the mark of the guard that
   made it, or in a log that is already synced. *)
MarkedBy(t, f) ==
    /\ pc[t] = "guard" /\ intent[t] = "write" /\ frame[t] = f
    /\ mark[t].dirty /\ bytes[f].lsn <= mark[t].lsn

Recorded(f) ==
    \/ bytes[f].lsn <= lsn[f]
    \/ bytes[f].lsn <= flushed
    \/ \E t \in Thread : MarkedBy(t, f)

RecordInv == \A f \in Frame : page[f] # NoPage => Recorded(f)

(* A guard that changed nothing has nothing to add to the frame's LSN. *)
MarkInv ==
    \A f \in Frame : \A t \in Pinners(f) : ~ mark[t].dirty => mark[t].lsn <= lsn[f]

Inv ==
    /\ TypeOK
    /\ \A t \in Thread : ThreadInv(t)
    /\ TableInv /\ FreeInv /\ MutexInv
    /\ \A f \in Frame : PlaceInv(f)
    /\ \A f \in Frame : PinInv(f)
    /\ LockInv
    /\ WalRule /\ RecordInv /\ MarkInv

-----------------------------------------------------------------------------
(* Types *)
LEMMA ContentType ==
    /\ Zeroed \in Content
    /\ 0 \in Lsn /\ Lsn \subseteq Nat
    /\ \A c \in Content : c.lsn \in Lsn /\ c.lsn \in Nat
    /\ \A v \in Value, l \in Lsn : [value |-> v, lsn |-> l] \in Content
    /\ Clean \in [dirty: BOOLEAN, lsn: Lsn]
BY PoolConstants DEF Zeroed, Content, Lsn, Clean

LEMMA Max2Type ==
    ASSUME NEW a \in Lsn, NEW b \in Lsn
    PROVE  /\ Max2(a, b) \in Lsn
           /\ a <= Max2(a, b) /\ b <= Max2(a, b)
           /\ Max2(a, b) \in {a, b}
BY PoolConstants DEF Max2, Lsn

LEMMA WriteBackType ==
    ASSUME TypeOK, NEW f \in Frame, page[f] \in Page, WriteBack(f)
    PROVE  flushed' \in Lsn /\ disk' \in [Page -> Content \cup {Unowned, Abandoned}]
BY Max2Type DEF TypeOK, WriteBack, SyncWal

LEMMA FailWriteBackType ==
    ASSUME TypeOK, NEW f \in Frame, page[f] \in Page, FailWriteBack(f)
    PROVE  flushed' \in Lsn /\ disk' \in [Page -> Content \cup {Unowned, Abandoned}]
BY WriteBackType DEF TypeOK, FailWriteBack

(* The free list as a stack: what pop and push do to its set of frames. *)
LEMMA FreePop ==
    ASSUME free \in Seq(Frame), free # << >>, FreeInv,
           free' = SubSeq(free, 1, Len(free) - 1)
    PROVE  /\ free[Len(free)] \in Frame /\ free[Len(free)] \in Free
           /\ free' \in Seq(Frame) /\ FreeInv'
           /\ Free' = Free \ {free[Len(free)]}
<1>1. /\ Len(free) \in Nat \ {0} /\ DOMAIN free = 1 .. Len(free)
      /\ free[Len(free)] \in Frame
  OBVIOUS
<1>2. /\ free' \in Seq(Frame) /\ DOMAIN free' = 1 .. Len(free) - 1
      /\ \A i \in 1 .. Len(free) - 1 : free'[i] = free[i]
  BY <1>1
<1>3. \A i \in 1 .. Len(free) - 1 : i \in 1 .. Len(free) /\ free[i] # free[Len(free)]
  BY <1>1 DEF FreeInv
<1>4. \A n \in Nat : \A i \in 1 .. n : i \in 1 .. n - 1 \/ i = n
  OBVIOUS
<1>5. FreeInv'
  <2> SUFFICES ASSUME NEW i \in DOMAIN free', NEW j \in DOMAIN free', free'[i] = free'[j]
               PROVE  i = j
    BY DEF FreeInv
  <2>1. /\ i \in DOMAIN free /\ free'[i] = free[i]
        /\ j \in DOMAIN free /\ free'[j] = free[j]
    BY <1>1, <1>2, <1>3
  <2> QED
    BY <2>1 DEF FreeInv
<1>6. Free' \subseteq Free \ {free[Len(free)]}
  <2> SUFFICES ASSUME NEW i \in DOMAIN free'
               PROVE  free'[i] \in Free \ {free[Len(free)]}
    BY DEF Free
  <2>1. i \in DOMAIN free /\ free'[i] = free[i] /\ free[i] # free[Len(free)]
    BY <1>1, <1>2, <1>3
  <2> QED
    BY <2>1 DEF Free
<1>7. Free \ {free[Len(free)]} \subseteq Free'
  <2> SUFFICES ASSUME NEW i \in DOMAIN free, free[i] # free[Len(free)]
               PROVE  free[i] \in Free'
    BY DEF Free
  <2>1. i \in DOMAIN free' /\ free'[i] = free[i]
    BY <1>1, <1>2, <1>4
  <2> QED
    BY <2>1 DEF Free
<1>8. Len(free) \in DOMAIN free
  BY <1>1
<1> QED
  BY <1>1, <1>2, <1>5, <1>6, <1>7, <1>8 DEF Free

LEMMA FreePush ==
    ASSUME free \in Seq(Frame), FreeInv, NEW f \in Frame, f \notin Free,
           free' = Append(free, f)
    PROVE  free' \in Seq(Frame) /\ FreeInv' /\ Free' = Free \cup {f}
<1>1. /\ DOMAIN free = 1 .. Len(free) /\ Len(free) \in Nat
      /\ DOMAIN free' = 1 .. Len(free) + 1
      /\ \A i \in 1 .. Len(free) : free'[i] = free[i]
      /\ free'[Len(free) + 1] = f
      /\ free' \in Seq(Frame)
  OBVIOUS
<1>2. \A i \in 1 .. Len(free) : free[i] # f
  BY <1>1 DEF Free
<1>3. \A i \in 1 .. Len(free) + 1 : i \in 1 .. Len(free) \/ i = Len(free) + 1
  BY <1>1
<1>4. FreeInv'
  BY <1>1, <1>2, <1>3 DEF FreeInv
<1>5. Free \cup {f} \subseteq Free'
  BY <1>1 DEF Free
<1>6. Free' \subseteq Free \cup {f}
  BY <1>1, <1>3 DEF Free
<1> QED
  BY <1>1, <1>4, <1>5, <1>6

(* A frame is popped off the free list or taken from the replacer, and it has
   no page any more unless that has to be written first. *)
LEMMA PickFrameEffect ==
    ASSUME TypeOK, FreeInv, \A g \in Frame : PlaceInv(g),
           NEW t \in Thread, NEW f \in Frame, PickFrame(t, f)
    PROVE  /\ free' \in Seq(Frame) /\ FreeInv'
           /\ Free' = Free \ {f}
           /\ evictable' = evictable \ {f}
           /\ f \in Free \/ f \in evictable
           /\ \/ /\ pc' = [pc EXCEPT ![t] = "evict"]
                 /\ page[f] # NoPage /\ UNCHANGED << table, page >>
              \/ /\ pc' = [pc EXCEPT ![t] = "fill"]
                 /\ page[f] # NoPage /\ Unmap(f)
              \/ /\ pc' = [pc EXCEPT ![t] = "fill"]
                 /\ page[f] = NoPage /\ UNCHANGED << table, page >>
<1>1. CASE free # << >>
  <2>1. /\ f = free[Len(free)] /\ free' = SubSeq(free, 1, Len(free) - 1)
        /\ pc' = [pc EXCEPT ![t] = "fill"] /\ UNCHANGED << evictable, table, page >>
    BY <1>1 DEF PickFrame, Goto, Victims
  <2>2. /\ free' \in Seq(Frame) /\ FreeInv' /\ Free' = Free \ {f} /\ f \in Free
    BY <1>1, <2>1, FreePop DEF TypeOK
  <2>3. page[f] = NoPage /\ f \notin evictable
    BY <2>2 DEF PlaceInv
  <2> QED
    BY <2>1, <2>2, <2>3
<1>2. CASE free = << >>
  <2>1. /\ f \in evictable /\ evictable' = evictable \ {f} /\ UNCHANGED free
        /\ \/ pc' = [pc EXCEPT ![t] = "evict"] /\ UNCHANGED << table, page >>
           \/ pc' = [pc EXCEPT ![t] = "fill"] /\ Unmap(f)
    BY <1>2 DEF PickFrame, Goto, Victims
  <2>2. page[f] # NoPage /\ f \notin Free
    BY <2>1 DEF PlaceInv
  <2>3. free' \in Seq(Frame) /\ FreeInv' /\ Free' = Free
    BY <2>1 DEF TypeOK, FreeInv, Free
  <2> QED
    BY <2>1, <2>2, <2>3
<1> QED
  BY <1>1, <1>2

-----------------------------------------------------------------------------
(* Types and threads.  ThreadsInv is all that is said of single threads. *)
ThreadsInv == \A t \in Thread : ThreadInv(t)

LEMMA ReturnTypes ==
    ASSUME TypeOK, NEW t \in Thread, Return(t)
    PROVE  /\ pc' = [pc EXCEPT ![t] = "idle"]
           /\ frame' = [frame EXCEPT ![t] = NoFrame]
           /\ intent' = [intent EXCEPT ![t] = "read"]
           /\ mark' = [mark EXCEPT ![t] = Clean]
           /\ target' = [target EXCEPT ![t] = NoPage]
           /\ todo' = [todo EXCEPT ![t] = {}]
           /\ pc' \in [Thread -> Labels]
           /\ intent' \in [Thread -> {"read", "write", "new"}]
           /\ target' \in [Thread -> Page \cup {NoPage}]
           /\ frame' \in [Thread -> Frame \cup {NoFrame}]
           /\ mark' \in [Thread -> [dirty: BOOLEAN, lsn: Lsn]]
           /\ todo' \in [Thread -> SUBSET Frame]
BY ContentType DEF TypeOK, Return, Goto, Clean, Labels

LEMMA UnmapTypes ==
    ASSUME TypeOK, NEW f \in Frame, Unmap(f)
    PROVE  /\ table' \in [Page -> Frame \cup {NoFrame}]
           /\ page' \in [Frame -> Page \cup {NoPage}]
BY DEF TypeOK, Unmap

(* Whose page a thread works on. *)
LEMMA InsideHas ==
    ASSUME Inv, NEW t \in Thread, pc[t] \in Inside
    PROVE  /\ mutex = t /\ mutex # Nobody
           /\ pc[t] \in {"evict", "fill"} =>
                 frame[t] \in Frame /\ Held(frame[t])
           /\ pc[t] = "evict" => page[frame[t]] \in Page
           /\ \A f \in todo[t] : f \in Frame /\ page[f] \in Page
<1>1. mutex = t /\ mutex # Nobody
  BY PoolConstants DEF Inv, ThreadInv
<1>2. pc[t] \in {"evict", "fill"} => frame[t] \in Frame /\ Held(frame[t])
  BY <1>1 DEF Inv, ThreadInv, Held
<1>3. pc[t] = "evict" => page[frame[t]] \in Page
  BY <1>1, <1>2 DEF Inv, PlaceInv, TypeOK
<1>4. \A f \in todo[t] : f \in Frame /\ page[f] \in Page
  BY <1>1 DEF Inv, MutexInv, TypeOK
<1> QED
  BY <1>1, <1>2, <1>3, <1>4

LEMMA MissTypes ==
    ASSUME Inv, NEW t \in Thread, \E f \in Frame : FindFrame(t, f)
    PROVE  /\ table' \in [Page -> Frame \cup {NoFrame}]
           /\ page' \in [Frame -> Page \cup {NoPage}]
           /\ free' \in Seq(Frame) /\ evictable' \subseteq Frame
           /\ mutex' = t
           /\ \E f \in Frame : frame' = [frame EXCEPT ![t] = f]
           /\ pc' \in {[pc EXCEPT ![t] = "evict"], [pc EXCEPT ![t] = "fill"]}
<1>1. PICK f \in Frame : FindFrame(t, f)
  OBVIOUS
<1>2. PickFrame(t, f) /\ frame' = [frame EXCEPT ![t] = f] /\ mutex' = t
  BY <1>1 DEF FindFrame
<1>3. TypeOK /\ FreeInv /\ \A g \in Frame : PlaceInv(g)
  BY DEF Inv
<1>4. /\ table' \in [Page -> Frame \cup {NoFrame}]
      /\ page' \in [Frame -> Page \cup {NoPage}]
  BY <1>2, <1>3, PickFrameEffect, UnmapTypes DEF TypeOK
<1> QED
  BY <1>2, <1>3, <1>4, PickFrameEffect DEF TypeOK

LEMMA CallTypes ==
    ASSUME Inv, NEW t \in Thread, Call(t)
    PROVE  TypeOK' /\ ThreadsInv'
<1> USE DEF ThreadsInv
<1>0. TypeOK /\ \A u \in Thread : ThreadInv(u)
  BY DEF Inv
<1>1. ASSUME NEW p \in Page, NEW how \in {"read", "write"}, Fetch(t, p, how), Hit(t, p, how)
      PROVE  TypeOK' /\ ThreadsInv'
  <2>1. /\ table[p] \in Frame
        /\ pins' = [pins EXCEPT ![table[p]] = @ + 1]
        /\ evictable' = evictable \ {table[p]}
        /\ frame' = [frame EXCEPT ![t] = table[p]]
        /\ pc' = [pc EXCEPT ![t] = AfterPin(how)]
        /\ intent' = [intent EXCEPT ![t] = how]
        /\ target' = [target EXCEPT ![t] = p]
        /\ UNCHANGED << page, dirty, lsn, bytes, mutex, table, free, flushed, disk, mark, todo, lost >>
        /\ mutex = Nobody /\ pc[t] = "idle"
        /\ AfterPin(how) \in {"pinned", "lock"}
    BY <1>0, <1>1 DEF Fetch, Hit, TypeOK, Goto, AfterPin
  <2>2. TypeOK'
    BY <1>0, <2>1 DEF TypeOK, Labels
  <2>3. ThreadsInv'
    <3>1. ThreadInv(t)'
      BY <1>0, <2>1, PoolConstants DEF ThreadInv, TypeOK, Inside
    <3>2. ASSUME NEW u \in Thread, u # t PROVE ThreadInv(u)'
      BY <1>0, <2>1, <3>2 DEF ThreadInv, TypeOK
    <3> QED
      BY <3>1, <3>2
  <2> QED
    BY <2>2, <2>3
<1>2. ASSUME NEW p \in Page, NEW how \in {"read", "write"}, Fetch(t, p, how), Miss(t, p)
      PROVE  TypeOK' /\ ThreadsInv'
  <2>1. /\ UNCHANGED << pins, dirty, lsn, bytes, flushed, disk, mark, todo, lost >>
        /\ intent' = [intent EXCEPT ![t] = how]
        /\ target' = [target EXCEPT ![t] = p]
        /\ pc[t] = "idle" /\ mutex = Nobody
        /\ \E f \in Frame : FindFrame(t, f)
    BY <1>2 DEF Fetch, Miss
  <2>2. TypeOK'
    <3>1. /\ table' \in [Page -> Frame \cup {NoFrame}]
          /\ page' \in [Frame -> Page \cup {NoPage}]
          /\ free' \in Seq(Frame) /\ evictable' \subseteq Frame
          /\ mutex' \in Thread
      BY <2>1, MissTypes
    <3>2. /\ frame' \in [Thread -> Frame \cup {NoFrame}]
          /\ pc' \in [Thread -> Labels]
      <4>1. PICK f \in Frame : frame' = [frame EXCEPT ![t] = f]
        BY <2>1, MissTypes
      <4>2. pc' \in {[pc EXCEPT ![t] = "evict"], [pc EXCEPT ![t] = "fill"]}
        BY <2>1, MissTypes
      <4>3. pc \in [Thread -> Labels] /\ frame \in [Thread -> Frame \cup {NoFrame}]
        BY <1>0 DEF TypeOK
      <4> QED
        BY <4>1, <4>2, <4>3 DEF Labels
    <3>3. /\ intent' \in [Thread -> {"read", "write", "new"}]
          /\ target' \in [Thread -> Page \cup {NoPage}]
      BY <1>0, <2>1 DEF TypeOK
    <3>4. UNCHANGED << pins, dirty, lsn, bytes, flushed, disk, mark, todo, lost >>
      BY <2>1
    <3> QED
      BY <1>0, <3>1, <3>2, <3>3, <3>4 DEF TypeOK
  <2>3. ThreadsInv'
    <3>1. PICK f \in Frame : frame' = [frame EXCEPT ![t] = f]
      BY <2>1, MissTypes
    <3>2. mutex' = t /\ pc' \in {[pc EXCEPT ![t] = "evict"], [pc EXCEPT ![t] = "fill"]}
      BY <2>1, MissTypes
    <3>3. ThreadInv(t)'
      BY <1>0, <2>1, <3>1, <3>2 DEF ThreadInv, TypeOK, Inside
    <3>4. ASSUME NEW u \in Thread, u # t PROVE ThreadInv(u)'
      BY <1>0, <2>1, <3>1, <3>2, <3>4, PoolConstants DEF ThreadInv, TypeOK, Inside
    <3> QED
      BY <3>3, <3>4
  <2> QED
    BY <2>2, <2>3
<1>3. ASSUME NewPage(t) PROVE TypeOK' /\ ThreadsInv'
  <2>1. /\ UNCHANGED << pins, dirty, lsn, bytes, flushed, disk, target, mark, todo, lost >>
        /\ intent' = [intent EXCEPT ![t] = "new"]
        /\ pc[t] = "idle" /\ mutex = Nobody
        /\ \E f \in Frame : FindFrame(t, f)
    BY <1>3 DEF NewPage
  <2>2. TypeOK'
    <3>1. /\ table' \in [Page -> Frame \cup {NoFrame}]
          /\ page' \in [Frame -> Page \cup {NoPage}]
          /\ free' \in Seq(Frame) /\ evictable' \subseteq Frame
          /\ mutex' \in Thread
      BY <2>1, MissTypes
    <3>2. /\ frame' \in [Thread -> Frame \cup {NoFrame}]
          /\ pc' \in [Thread -> Labels]
      <4>1. PICK f \in Frame : frame' = [frame EXCEPT ![t] = f]
        BY <2>1, MissTypes
      <4>2. pc' \in {[pc EXCEPT ![t] = "evict"], [pc EXCEPT ![t] = "fill"]}
        BY <2>1, MissTypes
      <4>3. pc \in [Thread -> Labels] /\ frame \in [Thread -> Frame \cup {NoFrame}]
        BY <1>0 DEF TypeOK
      <4> QED
        BY <4>1, <4>2, <4>3 DEF Labels
    <3>3. /\ intent' \in [Thread -> {"read", "write", "new"}]
          /\ target' \in [Thread -> Page \cup {NoPage}]
      BY <1>0, <2>1 DEF TypeOK
    <3>4. UNCHANGED << pins, dirty, lsn, bytes, flushed, disk, mark, todo, lost >>
      BY <2>1
    <3> QED
      BY <1>0, <3>1, <3>2, <3>3, <3>4 DEF TypeOK
  <2>3. ThreadsInv'
    <3>1. PICK f \in Frame : frame' = [frame EXCEPT ![t] = f]
      BY <2>1, MissTypes
    <3>2. mutex' = t /\ pc' \in {[pc EXCEPT ![t] = "evict"], [pc EXCEPT ![t] = "fill"]}
      BY <2>1, MissTypes
    <3>3. ThreadInv(t)'
      BY <1>0, <2>1, <3>1, <3>2 DEF ThreadInv, TypeOK, Inside
    <3>4. ASSUME NEW u \in Thread, u # t PROVE ThreadInv(u)'
      BY <1>0, <2>1, <3>1, <3>2, <3>4, PoolConstants DEF ThreadInv, TypeOK, Inside
    <3> QED
      BY <3>3, <3>4
  <2> QED
    BY <2>2, <2>3
<1>4. ASSUME NEW frames \in SUBSET Frame, StartFlush(t, frames)
      PROVE  TypeOK' /\ ThreadsInv'
  <2>1. TypeOK'
    BY <1>0, <1>4 DEF TypeOK, StartFlush, frameVars, Goto, Labels
  <2>2. ThreadsInv'
    <3>1. /\ pc[t] = "idle" /\ mutex = Nobody /\ mutex' = t
          /\ pc' = [pc EXCEPT ![t] = "flush"] /\ todo' = [todo EXCEPT ![t] = frames]
          /\ UNCHANGED << intent, target, frame, mark >>
      BY <1>4 DEF StartFlush, Goto
    <3>2. ThreadInv(t)'
      BY <1>0, <3>1 DEF ThreadInv, TypeOK, Inside
    <3>3. ASSUME NEW u \in Thread, u # t PROVE ThreadInv(u)'
      BY <1>0, <3>1, <3>3, PoolConstants DEF ThreadInv, TypeOK, Inside
    <3> QED
      BY <3>2, <3>3
  <2> QED
    BY <2>1, <2>2
<1>5. ASSUME NEW p \in Page, DeletePage(t, p) PROVE TypeOK' /\ ThreadsInv'
  <2>1. /\ UNCHANGED << pins, bytes, mutex, flushed, threadVars, lost >>
        /\ disk' \in [Page -> Content \cup {Unowned, Abandoned}]
        /\ \/ UNCHANGED << table, page, dirty, lsn, evictable, free >>
           \/ table[p] \in Frame /\ Forget(table[p])
    BY <1>0, <1>5 DEF DeletePage, TypeOK
  <2>2. ASSUME NEW f \in Frame, Forget(f)
        PROVE  /\ table' \in [Page -> Frame \cup {NoFrame}]
               /\ page' \in [Frame -> Page \cup {NoPage}]
               /\ dirty' \in [Frame -> BOOLEAN] /\ lsn' \in [Frame -> Lsn]
               /\ evictable' \subseteq Frame /\ free' \in Seq(Frame)
    BY <1>0, <2>2, UnmapTypes, ContentType DEF Forget, TypeOK
  <2>3. TypeOK'
    BY <1>0, <2>1, <2>2 DEF TypeOK, threadVars
  <2>4. ThreadsInv'
    BY <1>0, <2>1 DEF ThreadInv, threadVars
  <2> QED
    BY <2>3, <2>4
<1>6. ASSUME NEW v \in Value, NEW l \in Lsn, Modify(t, v, l) PROVE TypeOK' /\ ThreadsInv'
  <2> DEFINE f == frame[t]
  <2>1. f \in Frame /\ pc[t] = "guard"
    BY <1>0, <1>6 DEF Modify, ThreadInv
  <2>2. bytes[f].lsn \in Lsn /\ mark[t].lsn \in Lsn
    BY <1>0, <2>1, ContentType DEF TypeOK
  <2>3. /\ bytes' = [bytes EXCEPT ![f] = [value |-> v, lsn |-> Max2(bytes[f].lsn, l)]]
        /\ mark' = [mark EXCEPT ![t] = [dirty |-> TRUE, lsn |-> Max2(mark[t].lsn, l)]]
        /\ UNCHANGED << page, pins, dirty, lsn, managerVars, disk, pc, intent,
                        target, frame, todo, lost >>
    BY <1>0, <1>6, <2>1 DEF Modify, TypeOK
  <2>4. /\ [value |-> v, lsn |-> Max2(bytes[f].lsn, l)] \in Content
        /\ [dirty |-> TRUE, lsn |-> Max2(mark[t].lsn, l)] \in [dirty: BOOLEAN, lsn: Lsn]
    BY <2>2, Max2Type DEF Content
  <2>5. TypeOK'
    BY <1>0, <2>1, <2>3, <2>4 DEF TypeOK, managerVars
  <2>6. ThreadsInv'
    BY <1>0, <2>1, <2>3 DEF ThreadInv, managerVars, TypeOK
  <2> QED
    BY <2>5, <2>6
<1>7. ASSUME NEW p \in Page, FlushPage(t, p) PROVE TypeOK' /\ ThreadsInv'
  <2>1. table[p] \in Frame /\ StartFlush(t, {table[p]})
    BY <1>0, <1>7 DEF FlushPage, TypeOK
  <2> QED
    BY <2>1, <1>4
<1>8. ASSUME FlushAll(t) PROVE TypeOK' /\ ThreadsInv'
  <2>1. {table[p] : p \in Page} \ {NoFrame} \in SUBSET Frame
    BY <1>0 DEF TypeOK
  <2> QED
    BY <2>1, <1>4, <1>8 DEF FlushAll
<1>9. ASSUME NEW p \in Page, NEW how \in {"read", "write"}, Fetch(t, p, how)
      PROVE  Hit(t, p, how) \/ Miss(t, p)
  BY <1>9 DEF Fetch
<1> QED
  BY <1>1, <1>2, <1>3, <1>5, <1>6, <1>7, <1>8, <1>9 DEF Call

LEMMA InsideTypes ==
    ASSUME Inv, NEW t \in Thread,
           \/ Evict(t) \/ FailEvict(t) \/ FillFetch(t) \/ FillNew(t) \/ FailFill(t)
           \/ FlushFrame(t) \/ FailFlush(t) \/ EndFlush(t)
    PROVE  TypeOK' /\ ThreadsInv'
<1> USE DEF ThreadsInv
<1>0. TypeOK /\ \A u \in Thread : ThreadInv(u)
  BY DEF Inv
<1>1. /\ pc[t] \in Inside /\ mutex = t /\ mutex # Nobody
      /\ pc[t] \in {"evict", "fill"} => frame[t] \in Frame
      /\ pc[t] = "evict" => page[frame[t]] \in Page
      /\ \A f \in todo[t] : f \in Frame /\ page[f] \in Page
  <2>1. pc[t] \in Inside
    BY DEF Evict, FailEvict, FillFetch, FillNew, FailFill, FlushFrame, FailFlush,
           EndFlush, Inside
  <2> QED
    BY <2>1, InsideHas
<1>2. ASSUME mutex' = Nobody, Return(t) PROVE ThreadsInv'
  <2>1. ThreadInv(t)'
    BY <1>0, <1>1, <1>2, ReturnTypes, PoolConstants DEF ThreadInv, TypeOK, Inside
  <2>2. ASSUME NEW u \in Thread, u # t PROVE ThreadInv(u)'
    BY <1>0, <1>1, <1>2, <2>2, ReturnTypes, PoolConstants DEF ThreadInv, TypeOK
  <2> QED
    BY <2>1, <2>2
<1>3. CASE Evict(t)
  <2>1. /\ WriteBack(frame[t]) /\ Unmap(frame[t])
        /\ dirty' = [dirty EXCEPT ![frame[t]] = FALSE]
        /\ pc' = [pc EXCEPT ![t] = "fill"] /\ pc[t] = "evict"
        /\ UNCHANGED << pins, lsn, bytes, mutex, free, evictable, intent, target,
                        frame, mark, todo, lost >>
    BY <1>3 DEF Evict, Goto
  <2>2. TypeOK'
    BY <1>0, <1>1, <2>1, WriteBackType, UnmapTypes DEF TypeOK, Labels
  <2>3. ThreadsInv'
    BY <1>0, <2>1 DEF ThreadInv, TypeOK, Inside
  <2> QED
    BY <2>2, <2>3
<1>4. CASE FailEvict(t)
  <2>1. TypeOK'
    BY <1>0, <1>1, <1>4, ReturnTypes, FailWriteBackType DEF TypeOK, FailEvict, frameVars
  <2> QED
    BY <2>1, <1>2, <1>4 DEF FailEvict
<1>5. CASE FillFetch(t)
  <2> DEFINE f == frame[t]  p == target[t]
  <2>1. /\ f \in Frame /\ p \in Page /\ intent[t] \in {"read", "write"}
        /\ mutex = t /\ InUse(p) /\ disk[p] \in Content
    BY <1>0, <1>1, <1>5 DEF FillFetch, ThreadInv, Inv, MutexInv, InUse, TypeOK
  <2>2. /\ Install(t, f, p, disk[p], FALSE)
        /\ pc' = [pc EXCEPT ![t] = AfterPin(intent[t])]
        /\ AfterPin(intent[t]) \in {"pinned", "lock"}
        /\ UNCHANGED << free, evictable, flushed, disk, intent, target, frame, mark, todo, lost >>
        /\ pc[t] = "fill" /\ intent[t] # "new"
    BY <1>5 DEF FillFetch, Goto, AfterPin
  <2>3. TypeOK'
    BY <1>0, <2>1, <2>2, ContentType DEF TypeOK, Install, Labels
  <2>4. ThreadInv(t)'
    BY <1>0, <2>1, <2>2, PoolConstants DEF Install, ThreadInv, TypeOK, Inside
  <2>5. ASSUME NEW u \in Thread, u # t PROVE ThreadInv(u)'
    BY <1>0, <2>1, <2>2, <2>5, PoolConstants DEF Install, ThreadInv, TypeOK, Inside
  <2> QED
    BY <2>3, <2>4, <2>5
<1>6. CASE FillNew(t)
  <2> DEFINE f == frame[t]
  <2>1. PICK p \in Page : /\ disk[p] = Unowned
                          /\ disk' = [disk EXCEPT ![p] = Zeroed]
                          /\ Install(t, f, p, Zeroed, TRUE)
                          /\ target' = [target EXCEPT ![t] = p]
    BY <1>6 DEF FillNew
  <2>2. /\ pc' = [pc EXCEPT ![t] = "lock"] /\ pc[t] = "fill"
        /\ intent' = [intent EXCEPT ![t] = "write"]
        /\ mark' = [mark EXCEPT ![t] = [dirty |-> TRUE, lsn |-> 0]]
        /\ UNCHANGED << free, evictable, flushed, frame, todo, lost >>
        /\ f \in Frame /\ mutex = t
    BY <1>1, <1>6 DEF FillNew, Goto
  <2>3. TypeOK'
    BY <1>0, <2>1, <2>2, ContentType DEF TypeOK, Install, Labels
  <2>4. ThreadInv(t)'
    BY <1>0, <2>1, <2>2, PoolConstants DEF Install, ThreadInv, TypeOK, Inside
  <2>5. ASSUME NEW u \in Thread, u # t PROVE ThreadInv(u)'
    BY <1>0, <2>1, <2>2, <2>5, PoolConstants DEF Install, ThreadInv, TypeOK, Inside
  <2> QED
    BY <2>3, <2>4, <2>5
<1>7. CASE FailFill(t)
  <2>1. frame[t] \in Frame /\ free \in Seq(Frame) /\ lost \subseteq Frame
    BY <1>0, <1>1, <1>7 DEF FailFill, TypeOK
  <2>2. free' \in Seq(Frame) /\ lost' \subseteq Frame
    <3>1. /\ free' = free \/ free' = Append(free, frame[t])
          /\ lost' = lost \/ lost' = lost \cup {frame[t]}
      BY <1>7 DEF FailFill, FailRead, FailAlloc
    <3> QED
      BY <2>1, <3>1
  <2>3. mutex' = Nobody /\ Return(t) /\ UNCHANGED << frameVars, table, evictable, flushed, disk >>
    BY <1>7 DEF FailFill, FailRead, FailAlloc
  <2>4. TypeOK'
    BY <1>0, <2>2, <2>3, ReturnTypes DEF TypeOK, frameVars
  <2> QED
    BY <2>4, <1>2, <1>7 DEF FailFill
<1>8. CASE FlushFrame(t)
  <2>1. PICK f \in todo[t] :
           /\ IF dirty[f]
              THEN WriteBack(f) /\ dirty' = [dirty EXCEPT ![f] = FALSE]
              ELSE UNCHANGED << flushed, disk, dirty >>
           /\ todo' = [todo EXCEPT ![t] = @ \ {f}]
    BY <1>8 DEF FlushFrame
  <2>2. /\ UNCHANGED << page, pins, lsn, bytes, mutex, table, free, evictable, pc,
                        intent, target, frame, mark, lost >>
        /\ f \in Frame /\ page[f] \in Page
    BY <1>1, <1>8 DEF FlushFrame
  <2>3. TypeOK'
    BY <1>0, <2>1, <2>2, WriteBackType DEF TypeOK
  <2>4. ThreadsInv'
    BY <1>0, <2>1, <2>2 DEF ThreadInv, TypeOK
  <2> QED
    BY <2>3, <2>4
<1>9. CASE FailFlush(t)
  <2>1. PICK f \in todo[t] : FailWriteBack(f)
    BY <1>9 DEF FailFlush
  <2>2. TypeOK'
    BY <1>0, <1>1, <2>1, <1>9, ReturnTypes, FailWriteBackType DEF TypeOK, FailFlush, frameVars
  <2> QED
    BY <2>2, <1>2, <1>9 DEF FailFlush
<1>10. CASE EndFlush(t)
  <2>1. TypeOK'
    BY <1>0, <1>10, ReturnTypes DEF TypeOK, EndFlush, frameVars
  <2> QED
    BY <2>1, <1>2, <1>10 DEF EndFlush
<1> QED
  BY <1>3, <1>4, <1>5, <1>6, <1>7, <1>8, <1>9, <1>10

LEMMA OutsideTypes ==
    ASSUME Inv, NEW t \in Thread, ReadLsn(t) \/ TakeLock(t) \/ Unpin(t) \/ Release(t)
    PROVE  TypeOK' /\ ThreadsInv'
<1> USE DEF ThreadsInv
<1>0. TypeOK /\ \A u \in Thread : ThreadInv(u)
  BY DEF Inv
<1>1. CASE ReadLsn(t)
  <2>1. frame[t] \in Frame /\ pc[t] = "pinned" /\ lsn[frame[t]] \in Lsn
    BY <1>0, <1>1 DEF ReadLsn, ThreadInv, TypeOK
  <2>2. /\ mark' = [mark EXCEPT ![t].lsn = lsn[frame[t]]]
        /\ pc' = [pc EXCEPT ![t] = "lock"]
        /\ UNCHANGED << frameVars, managerVars, disk, intent, target, frame, todo, lost >>
    BY <1>1 DEF ReadLsn, Goto
  <2>3. TypeOK'
    BY <1>0, <2>1, <2>2 DEF TypeOK, frameVars, managerVars, Labels
  <2>4. ThreadsInv'
    BY <1>0, <2>1, <2>2 DEF ThreadInv, TypeOK, managerVars, Inside
  <2> QED
    BY <2>3, <2>4
<1>2. CASE TakeLock(t)
  <2>1. /\ pc[t] = "lock" /\ pc' = [pc EXCEPT ![t] = "guard"]
        /\ UNCHANGED << frameVars, managerVars, disk, intent, target, frame, mark, todo, lost >>
    BY <1>2 DEF TakeLock, Goto
  <2>2. TypeOK'
    BY <1>0, <2>1 DEF TypeOK, frameVars, managerVars, Labels
  <2>3. ThreadsInv'
    BY <1>0, <2>1 DEF ThreadInv, TypeOK, managerVars, Inside
  <2> QED
    BY <2>2, <2>3
<1>3. CASE Unpin(t)
  <2> DEFINE f == table[target[t]]
  <2>1. /\ pc[t] = "guard" /\ pc' = [pc EXCEPT ![t] = "release"]
        /\ UNCHANGED << page, bytes, mutex, table, free, flushed, disk, intent, target,
                        frame, mark, todo, lost >>
        /\ target[t] \in Page /\ f \in Frame \cup {NoFrame} /\ intent[t] # "new"
    BY <1>0, <1>3 DEF Unpin, Goto, ThreadInv, TypeOK
  <2>2. /\ dirty' \in [Frame -> BOOLEAN] /\ lsn' \in [Frame -> Lsn]
        /\ pins' \in [Frame -> Nat] /\ evictable' \subseteq Frame
    <3>1. CASE f = NoFrame
      BY <1>0, <1>3, <3>1 DEF Unpin, TypeOK
    <3>2. CASE f \in Frame
      <4>1. Max2(lsn[f], mark[t].lsn) \in Lsn
        BY <1>0, <3>2, Max2Type DEF TypeOK
      <4>2. /\ Stamp(t, f)
            /\ pins' = [pins EXCEPT ![f] = IF @ <= 1 THEN 0 ELSE @ - 1]
            /\ evictable' = IF pins[f] <= 1 THEN evictable \cup {f} ELSE evictable
        BY <1>3, <3>2, PoolConstants DEF Unpin
      <4>3. dirty' \in [Frame -> BOOLEAN] /\ lsn' \in [Frame -> Lsn]
        BY <1>0, <3>2, <4>1, <4>2 DEF Stamp, TypeOK
      <4>4. pins' \in [Frame -> Nat]
        BY <1>0, <3>2, <4>2 DEF TypeOK
      <4> QED
        BY <1>0, <3>2, <4>2, <4>3, <4>4 DEF TypeOK
    <3> QED
      BY <2>1, <3>1, <3>2
  <2>3. TypeOK'
    BY <1>0, <2>1, <2>2 DEF TypeOK, Labels
  <2>4. ThreadsInv'
    BY <1>0, <2>1 DEF ThreadInv, TypeOK, Inside
  <2> QED
    BY <2>3, <2>4
<1>4. CASE Release(t)
  <2>1. pc[t] = "release" /\ UNCHANGED << frameVars, managerVars, disk, lost >> /\ Return(t)
    BY <1>4 DEF Release
  <2>2. TypeOK'
    BY <1>0, <2>1, ReturnTypes DEF TypeOK, frameVars, managerVars
  <2>3. ThreadInv(t)'
    <3>1. /\ pc'[t] = "idle" /\ frame'[t] = NoFrame /\ intent'[t] = "read"
          /\ todo'[t] = {} /\ mark'[t] = Clean
      BY <1>0, <2>1, ReturnTypes DEF TypeOK
    <3>2. mutex' = mutex /\ mutex # t
      BY <1>0, <2>1 DEF ThreadInv, managerVars, Inside
    <3> QED
      BY <3>1, <3>2 DEF ThreadInv, Inside
  <2>4. ASSUME NEW u \in Thread, u # t PROVE ThreadInv(u)'
    BY <1>0, <2>1, <2>4, ReturnTypes DEF ThreadInv, TypeOK, managerVars
  <2> QED
    BY <2>2, <2>3, <2>4
<1> QED
  BY <1>1, <1>2, <1>3, <1>4

(* Types and threads, whatever the step. *)
LEMMA TypesNext == Inv /\ Next => TypeOK' /\ ThreadsInv'
<1> SUFFICES ASSUME Inv, Next PROVE TypeOK' /\ ThreadsInv'
  OBVIOUS
<1>1. ASSUME NEW t \in Thread, Call(t) \/ Progress(t) PROVE TypeOK' /\ ThreadsInv'
  BY <1>1, CallTypes, InsideTypes, OutsideTypes DEF Progress
<1>2. ASSUME NEW l \in Lsn, RecordWalSync(l) PROVE TypeOK' /\ ThreadsInv'
  BY <1>2 DEF Inv, RecordWalSync, TypeOK, ThreadsInv, ThreadInv, frameVars, threadVars
<1> QED
  BY <1>1, <1>2 DEF Next

-----------------------------------------------------------------------------
(* The place of every frame. *)
FramesInv == TableInv /\ FreeInv /\ MutexInv /\ \A f \in Frame : PlaceInv(f)

(* What is written back was in use, and stays so. *)
LEMMA WriteBackInUse ==
    ASSUME Inv, NEW f \in Frame, page[f] \in Page, WriteBack(f) \/ FailWriteBack(f)
    PROVE  \A p \in Page : InUse(p)' <=> InUse(p)
<1>1. InUse(page[f]) /\ bytes[f] \in Content
  BY PoolConstants DEF Inv, PlaceInv, TypeOK
<1>2. UNCHANGED disk \/ disk' = [disk EXCEPT ![page[f]] = bytes[f]]
  BY DEF WriteBack, FailWriteBack
<1> QED
  BY <1>1, <1>2 DEF InUse, Inv, TypeOK

(* A step that moves no frame, and leaves the frame in hand where it is. *)
LEMMA NothingMoves ==
    ASSUME Inv, UNCHANGED << page, pins, table, free, evictable >>,
           \A p \in Page : InUse(p) => InUse(p)',
           \A f \in Frame : Held(f)' <=> Held(f),
           \A f \in Frame : Held(f) => mutex' = mutex /\ pc'[mutex] = pc[mutex]
    PROVE  TableInv' /\ FreeInv' /\ \A f \in Frame : PlaceInv(f)'
<1>1. TableInv' /\ FreeInv'
  BY DEF Inv, TableInv, FreeInv
<1>2. ASSUME NEW f \in Frame PROVE PlaceInv(f)'
  <2>1. PlaceInv(f) /\ page[f] \in Page \cup {NoPage}
    BY DEF Inv, TypeOK
  <2>2. Free' = Free
    BY DEF Free
  <2> QED
    BY <2>1, <2>2 DEF PlaceInv
<1> QED
  BY <1>1, <1>2

(* Steps outside the mutex. *)
LEMMA OutsideFrames ==
    ASSUME Inv, NEW t \in Thread, pc[t] \notin Inside, pc'[t] \notin Inside,
           \A u \in Thread : u # t =>
              pc'[u] = pc[u] /\ frame'[u] = frame[u] /\ intent'[u] = intent[u]
              /\ target'[u] = target[u] /\ todo'[u] = todo[u],
           UNCHANGED << page, pins, mutex, table, free, evictable, disk >>
    PROVE  FramesInv'
<1>1. mutex # t
  BY DEF Inv, ThreadInv
<1>2. \A f \in Frame : Held(f)' <=> Held(f)
  BY <1>1 DEF Held
<1>3. \A f \in Frame : Held(f) => mutex' = mutex /\ pc'[mutex] = pc[mutex]
  BY <1>1 DEF Held
<1>4. \A p \in Page : InUse(p)' <=> InUse(p)
  BY DEF InUse
<1>5. MutexInv'
  BY <1>1, <1>4 DEF Inv, MutexInv, InUse
<1> QED
  BY <1>2, <1>3, <1>4, <1>5, NothingMoves DEF FramesInv

(* Flushes move no frame either. *)
LEMMA FlushFrames ==
    ASSUME Inv, NEW t \in Thread,
           \/ \E frames \in SUBSET {table[p] : p \in Page} : StartFlush(t, frames \ {NoFrame})
           \/ FlushFrame(t) \/ FailFlush(t) \/ EndFlush(t)
    PROVE  FramesInv'
<1>0. TypeOK /\ (\A u \in Thread : ThreadInv(u)) /\ Nobody \notin Thread
  BY PoolConstants DEF Inv
<1>1. UNCHANGED << page, pins, table, free, evictable >>
  BY DEF StartFlush, FlushFrame, FailFlush, EndFlush, frameVars
<1>2. \A f \in Frame : ~ Held(f) /\ ~ Held(f)'
  <2>1. CASE \E frames \in SUBSET Frame : StartFlush(t, frames)
    BY <1>0, <2>1 DEF StartFlush, Held, Goto, TypeOK
  <2>2. CASE FlushFrame(t)
    BY <1>0, <2>2 DEF FlushFrame, Held, ThreadInv, Inside
  <2>3. CASE FailFlush(t) \/ EndFlush(t)
    BY <1>0, <2>3 DEF FailFlush, EndFlush, Held, ThreadInv, Inside
  <2>4. ASSUME NEW frames \in SUBSET {table[p] : p \in Page}
        PROVE  frames \ {NoFrame} \in SUBSET Frame
    BY <1>0 DEF TypeOK
  <2> QED
    BY <2>1, <2>2, <2>3, <2>4
<1>3. \A p \in Page : InUse(p)' <=> InUse(p)
  <2>1. CASE UNCHANGED disk
    BY <2>1 DEF InUse
  <2>2. CASE \E f \in todo[t] : WriteBack(f) \/ FailWriteBack(f)
    <3>1. PICK f \in todo[t] : WriteBack(f) \/ FailWriteBack(f)
      BY <2>2
    <3>2. pc[t] \in Inside
      BY <1>0, <3>1 DEF ThreadInv, Inside
    <3>3. f \in Frame /\ page[f] \in Page
      BY <3>2, InsideHas
    <3> QED
      BY <3>1, <3>3, WriteBackInUse
  <2>3. UNCHANGED disk \/ \E f \in todo[t] : WriteBack(f) \/ FailWriteBack(f)
    BY DEF StartFlush, FlushFrame, FailFlush, EndFlush
  <2> QED
    BY <2>1, <2>2, <2>3
<1>4. MutexInv'
  <2>1. CASE \E frames \in SUBSET {table[p] : p \in Page} : StartFlush(t, frames \ {NoFrame})
    <3>1. PICK frames \in SUBSET {table[p] : p \in Page} : StartFlush(t, frames \ {NoFrame})
      BY <2>1
    <3>2. mutex' = t /\ pc'[t] = "flush" /\ todo'[t] = frames \ {NoFrame} /\ page' = page
      BY <1>0, <3>1 DEF StartFlush, Goto, TypeOK, frameVars
    <3>3. \A f \in frames \ {NoFrame} : page[f] # NoPage
      BY <1>0, PoolConstants DEF Inv, TableInv, TypeOK
    <3> QED
      BY <3>2, <3>3 DEF MutexInv
  <2>2. CASE FlushFrame(t)
    <3>1. mutex = t /\ pc[t] = "flush"
      BY <1>0, <2>2 DEF FlushFrame, ThreadInv, Inside
    <3>2. UNCHANGED << mutex, pc, page >> /\ todo'[t] \subseteq todo[t]
      BY <1>0, <2>2 DEF FlushFrame, TypeOK
    <3> QED
      BY <3>1, <3>2 DEF MutexInv, Inv
  <2>3. CASE FailFlush(t) \/ EndFlush(t)
    BY <1>0, <2>3 DEF FailFlush, EndFlush, MutexInv
  <2> QED
    BY <2>1, <2>2, <2>3
<1> QED
  BY <1>1, <1>2, <1>3, <1>4, NothingMoves DEF FramesInv

(* A hit: a frame that has a page gets one pin more. *)
LEMMA HitFrames ==
    ASSUME Inv, NEW t \in Thread, NEW p \in Page, NEW how, Fetch(t, p, how), Hit(t, p, how)
    PROVE  FramesInv'
<1>1. /\ mutex = Nobody /\ mutex' = Nobody /\ Nobody \notin Thread
      /\ UNCHANGED << page, table, free, disk >>
      /\ table[p] \in Frame
      /\ pins' = [pins EXCEPT ![table[p]] = @ + 1]
      /\ evictable' = evictable \ {table[p]}
  BY PoolConstants DEF Fetch, Hit, Inv, TypeOK
<1>2. page[table[p]] = p
  BY <1>1 DEF Inv, TableInv
<1>3. pins[table[p]] + 1 # 0
  BY <1>1 DEF Inv, TypeOK
<1>4. ASSUME NEW f \in Frame PROVE PlaceInv(f)'
  <2>1. PlaceInv(f) /\ ~ Held(f) /\ ~ Held(f)' /\ Free' = Free /\ (InUse(page[f])' <=> InUse(page[f]))
    BY <1>1 DEF Inv, Held, Free, InUse
  <2>2. f # table[p] => pins'[f] = pins[f]
    BY <1>1 DEF Inv, TypeOK
  <2>3. f = table[p] => pins'[f] # 0 /\ page[f] # NoPage /\ f \notin evictable'
    BY <1>1, <1>2, <1>3, PoolConstants DEF Inv, TypeOK
  <2> QED
    BY <1>1, <2>1, <2>2, <2>3 DEF PlaceInv
<1>5. TableInv' /\ FreeInv' /\ MutexInv'
  BY <1>1 DEF Inv, TableInv, FreeInv, MutexInv
<1> QED
  BY <1>4, <1>5 DEF FramesInv

(* A guard unpins its page: the last one gives the frame to the replacer. *)
LEMMA UnpinFrames ==
    ASSUME Inv, NEW t \in Thread, Unpin(t)
    PROVE  FramesInv'
<1> DEFINE g == table[target[t]]
<1>1. /\ mutex = Nobody /\ mutex' = Nobody /\ Nobody \notin Thread
      /\ UNCHANGED << page, table, free, disk >>
      /\ target[t] \in Page /\ g \in Frame \cup {NoFrame} /\ NoFrame \notin Frame
  BY PoolConstants DEF Unpin, Inv, ThreadInv, TypeOK
<1>2. g \in Frame => /\ page[g] = target[t] /\ page[g] # NoPage
                     /\ pins' = [pins EXCEPT ![g] = IF @ <= 1 THEN 0 ELSE @ - 1]
                     /\ evictable' = IF pins[g] <= 1 THEN evictable \cup {g} ELSE evictable
  BY <1>1, PoolConstants DEF Unpin, Inv, TableInv
<1>3. g \notin Frame => UNCHANGED << pins, evictable >>
  BY <1>1 DEF Unpin
<1>4. ASSUME NEW f \in Frame PROVE PlaceInv(f)'
  <2>1. /\ PlaceInv(f) /\ ~ Held(f) /\ ~ Held(f)' /\ Free' = Free
        /\ InUse(page[f])' <=> InUse(page[f])
    BY <1>1 DEF Inv, Held, Free, InUse
  <2>2. f # g => pins'[f] = pins[f] /\ (f \in evictable' <=> f \in evictable)
    BY <1>1, <1>2, <1>3 DEF Inv, TypeOK
  <2>3. f = g => \/ pins[f] <= 1 /\ pins'[f] = 0 /\ f \in evictable'
                 \/ pins[f] > 1 /\ pins'[f] # 0 /\ evictable' = evictable
    BY <1>1, <1>2 DEF Inv, TypeOK
  <2>4. pins[f] \in Nat
    BY DEF Inv, TypeOK
  <2> QED
    BY <1>1, <1>2, <2>1, <2>2, <2>3, <2>4 DEF PlaceInv
<1>5. TableInv' /\ FreeInv' /\ MutexInv'
  BY <1>1 DEF Inv, TableInv, FreeInv, MutexInv
<1> QED
  BY <1>4, <1>5 DEF FramesInv

(* Taking a page off its frame. *)
LEMMA UnmapEffect ==
    ASSUME Inv, NEW f \in Frame, page[f] # NoPage, Unmap(f)
    PROVE  /\ page[f] \in Page
           /\ page' = [page EXCEPT ![f] = NoPage]
           /\ \A p \in Page : p # page[f] => table'[p] = table[p]
           /\ table'[page[f]] = NoFrame
           /\ TableInv'
<1>1. page[f] \in Page /\ table[page[f]] = f
  BY DEF Inv, TypeOK, TableInv
<1>2. /\ page' = [page EXCEPT ![f] = NoPage]
      /\ \A p \in Page : p # page[f] => table'[p] = table[p]
      /\ table'[page[f]] = NoFrame
  BY <1>1 DEF Unmap
<1>3. ASSUME NEW p \in Page, NEW g \in Frame PROVE table'[p] = g <=> page'[g] = p
  BY <1>1, <1>2, PoolConstants DEF Inv, TableInv, TypeOK
<1> QED
  BY <1>1, <1>2, <1>3 DEF TableInv

(* A frame that nobody takes stays where it is. *)
LEMMA FrameStays ==
    ASSUME NEW f \in Frame, PlaceInv(f), page'[f] = page[f], pins'[f] = pins[f],
           f \in Free' <=> f \in Free, f \in evictable' <=> f \in evictable,
           page[f] # NoPage /\ InUse(page[f]) => disk'[page[f]] \in Content,
           ~ Held(f) /\ ~ Held(f)'
    PROVE  PlaceInv(f)'
BY DEF PlaceInv, InUse

(* find_available_frame: the frame in hand is in no other place. *)
LEMMA FindFrames ==
    ASSUME Inv, NEW t \in Thread, pc[t] = "idle", mutex = Nobody,
           \E f \in Frame : FindFrame(t, f),
           UNCHANGED << pins, disk, todo >>,
           intent'[t] # "new" =>
               target'[t] \in Page /\ InUse(target'[t]) /\ table[target'[t]] = NoFrame
    PROVE  FramesInv'
<1>1. PICK f \in Frame : FindFrame(t, f)
  OBVIOUS
<1>2. PickFrame(t, f) /\ frame' = [frame EXCEPT ![t] = f] /\ mutex' = t
  BY <1>1 DEF FindFrame
<1>3. /\ free' \in Seq(Frame) /\ FreeInv' /\ Free' = Free \ {f}
      /\ evictable' = evictable \ {f}
      /\ f \in Free \/ f \in evictable
      /\ \/ /\ pc' = [pc EXCEPT ![t] = "evict"]
            /\ page[f] # NoPage /\ UNCHANGED << table, page >>
         \/ /\ pc' = [pc EXCEPT ![t] = "fill"]
            /\ page[f] # NoPage /\ Unmap(f)
         \/ /\ pc' = [pc EXCEPT ![t] = "fill"]
            /\ page[f] = NoPage /\ UNCHANGED << table, page >>
  BY <1>2, PickFrameEffect DEF Inv
<1>4. mutex' = t /\ frame'[t] = f /\ pc'[t] \in {"evict", "fill"}
  BY <1>2, <1>3 DEF Inv, TypeOK
<1>5. /\ \A g \in Frame : g # f => page'[g] = page[g]
      /\ pc'[t] = "fill" <=> page'[f] = NoPage
      /\ TableInv'
      /\ \A p \in Page : table[p] = NoFrame => table'[p] = NoFrame
  <2>0. pc \in [Thread -> Labels] /\ page \in [Frame -> Page \cup {NoPage}] /\ TableInv
    BY DEF Inv, TypeOK
  <2>1. CASE UNCHANGED << table, page >>
    <3>1. TableInv'
      BY <2>0, <2>1 DEF TableInv
    <3>2. page[f] # NoPage /\ Unmap(f) => page' # page
      BY <2>0 DEF Unmap
    <3>3. pc'[t] = "fill" <=> page'[f] = NoPage
      BY <1>3, <2>0, <2>1, <3>2
    <3> QED
      BY <2>1, <3>1, <3>3
  <2>2. CASE page[f] # NoPage /\ Unmap(f) /\ pc' = [pc EXCEPT ![t] = "fill"]
    <3>1. /\ page' = [page EXCEPT ![f] = NoPage] /\ TableInv'
          /\ \A p \in Page : p # page[f] => table'[p] = table[p]
          /\ table'[page[f]] = NoFrame
      BY <2>2, UnmapEffect
    <3>2. pc'[t] = "fill" /\ page'[f] = NoPage /\ \A g \in Frame : g # f => page'[g] = page[g]
      BY <2>0, <2>2, <3>1
    <3>3. \A p \in Page : table[p] = NoFrame => table'[p] = NoFrame
      BY <3>1
    <3> QED
      BY <3>1, <3>2, <3>3
  <2> QED
    BY <1>3, <2>1, <2>2
<1>6. ASSUME NEW g \in Frame PROVE PlaceInv(g)'
  <2>1. /\ PlaceInv(g) /\ pins' = pins /\ disk' = disk
    BY DEF Inv
  <2>2. CASE g = f
    <3>0. Held(f)'
      BY <1>4 DEF Held
    <3>1. pins'[f] = 0 /\ f \notin Free' /\ f \notin evictable'
      BY <1>3, <2>1, <2>2 DEF PlaceInv
    <3>2. page'[f] # NoPage => page'[f] = page[f] /\ disk'[page'[f]] \in Content
      <4>1. page[f] # NoPage /\ Unmap(f) => page'[f] = NoPage
        BY DEF Inv, TypeOK, Unmap
      <4>2. page'[f] # NoPage => page'[f] = page[f]
        BY <1>3, <4>1
      <4> QED
        BY <2>1, <2>2, <4>2 DEF PlaceInv, InUse
    <3>3. pc'[mutex'] = "fill" <=> page'[f] = NoPage
      BY <1>4, <1>5
    <3> QED
      BY <2>2, <3>0, <3>1, <3>2, <3>3 DEF PlaceInv, InUse
  <2>3. CASE g # f
    <3>1. page'[g] = page[g] /\ ~ Held(g) /\ ~ Held(g)'
      BY <1>4, <1>5, <2>3, PoolConstants DEF Held
    <3>2. (g \in Free' <=> g \in Free) /\ (g \in evictable' <=> g \in evictable)
      BY <1>3, <2>3
    <3> QED
      BY <2>1, <3>1, <3>2, FrameStays DEF InUse
  <2> QED
    BY <2>2, <2>3
<1>7. MutexInv'
  <2>1. todo'[t] = {}
    BY DEF Inv, ThreadInv
  <2>2. /\ mutex' = t
        /\ intent'[t] # "new" => table'[target'[t]] = NoFrame /\ disk'[target'[t]] \in Content
    BY <1>4, <1>5 DEF InUse
  <2> QED
    BY <2>1, <2>2 DEF MutexInv, InUse
<1> QED
  BY <1>3, <1>5, <1>6, <1>7 DEF FramesInv

(* The victim is written back and loses its page. *)
LEMMA EvictFrames ==
    ASSUME Inv, NEW t \in Thread, Evict(t)
    PROVE  FramesInv'
<1> DEFINE f == frame[t]
<1>1. /\ pc[t] = "evict" /\ WriteBack(f) /\ Unmap(f) /\ pc' = [pc EXCEPT ![t] = "fill"]
      /\ UNCHANGED << pins, mutex, free, evictable, intent, target, frame, todo >>
  BY DEF Evict, Goto
<1>2. mutex = t /\ f \in Frame /\ Held(f) /\ page[f] \in Page
  BY <1>1, InsideHas DEF Inside
<1>3. /\ page' = [page EXCEPT ![f] = NoPage] /\ TableInv'
      /\ \A p \in Page : p # page[f] => table'[p] = table[p]
      /\ table'[page[f]] = NoFrame
  BY <1>1, <1>2, UnmapEffect, PoolConstants
<1>4. \A p \in Page : InUse(p) => disk'[p] \in Content
  BY <1>1, <1>2, WriteBackInUse DEF InUse
<1>5. pc'[t] = "fill" /\ page'[f] = NoPage /\ Free' = Free
  BY <1>1, <1>2, <1>3 DEF Inv, TypeOK, Free
<1>6. ASSUME NEW g \in Frame PROVE PlaceInv(g)'
  <2>1. PlaceInv(g) /\ page[g] \in Page \cup {NoPage}
    BY DEF Inv, TypeOK
  <2>2. CASE g = f
    <3>1. pins[f] = 0 /\ f \notin Free /\ f \notin evictable
      BY <1>2, <2>1, <2>2 DEF PlaceInv
    <3>2. Held(f)' /\ pc'[mutex'] = "fill"
      BY <1>1, <1>2, <1>5 DEF Held
    <3> QED
      BY <1>1, <1>5, <2>2, <3>1, <3>2 DEF PlaceInv
  <2>3. CASE g # f
    <3>1. page'[g] = page[g] /\ ~ Held(g) /\ ~ Held(g)'
      BY <1>1, <1>2, <1>3, <2>3 DEF Held, Inv, TypeOK
    <3> QED
      BY <1>1, <1>4, <1>5, <2>1, <3>1, FrameStays
  <2> QED
    BY <2>2, <2>3
<1>7. MutexInv'
  <2>1. todo'[t] = {} /\ (intent[t] # "new" => target[t] \in Page)
    BY <1>1 DEF Inv, ThreadInv
  <2>2. intent[t] # "new" => table[target[t]] = NoFrame /\ InUse(target[t])
    BY <1>1, <1>2 DEF Inv, MutexInv
  <2>3. intent[t] # "new" => table'[target[t]] = NoFrame /\ disk'[target[t]] \in Content
    BY <1>3, <1>4, <2>1, <2>2
  <2> QED
    BY <1>1, <1>2, <2>1, <2>3 DEF MutexInv, InUse
<1>8. FreeInv'
  BY <1>1 DEF Inv, FreeInv
<1> QED
  BY <1>3, <1>6, <1>7, <1>8 DEF FramesInv

(* It cannot be written back, and the replacer has it again. *)
LEMMA FailEvictFrames ==
    ASSUME Inv, NEW t \in Thread, FailEvict(t)
    PROVE  FramesInv'
<1> DEFINE f == frame[t]
<1>1. /\ pc[t] = "evict" /\ FailWriteBack(f) /\ mutex' = Nobody
      /\ evictable' = evictable \cup {f}
      /\ UNCHANGED << page, pins, table, free >>
  BY DEF FailEvict, frameVars
<1>2. mutex = t /\ f \in Frame /\ Held(f) /\ page[f] \in Page /\ Nobody \notin Thread
  BY <1>1, InsideHas, PoolConstants DEF Inside
<1>3. \A p \in Page : InUse(p) => disk'[p] \in Content
  BY <1>1, <1>2, WriteBackInUse DEF InUse
<1>4. ASSUME NEW g \in Frame PROVE PlaceInv(g)'
  <2>1. PlaceInv(g) /\ page[g] \in Page \cup {NoPage} /\ Free' = Free
    BY <1>1 DEF Inv, TypeOK, Free
  <2>2. ~ Held(g)'
    BY <1>1, <1>2 DEF Held
  <2>3. CASE g = f
    BY <1>1, <1>2, <1>3, <2>1, <2>2, <2>3, PoolConstants DEF PlaceInv, InUse
  <2>4. CASE g # f
    <3>1. ~ Held(g) /\ (g \in evictable' <=> g \in evictable)
      BY <1>1, <1>2, <2>4 DEF Held
    <3> QED
      BY <1>1, <1>3, <2>1, <2>2, <3>1, FrameStays
  <2> QED
    BY <2>3, <2>4
<1>5. TableInv' /\ FreeInv' /\ MutexInv'
  BY <1>1, <1>2 DEF Inv, TableInv, FreeInv, MutexInv
<1> QED
  BY <1>4, <1>5 DEF FramesInv

(* The frame in hand gets a page that is cached nowhere. *)
LEMMA InstallFrames ==
    ASSUME Inv, NEW t \in Thread, pc[t] = "fill", NEW p \in Page, NEW content, NEW isDirty,
           Install(t, frame[t], p, content, isDirty), table[p] = NoFrame,
           UNCHANGED << free, evictable >>, disk'[p] \in Content,
           \A q \in Page : InUse(q) => disk'[q] \in Content
    PROVE  FramesInv'
<1> DEFINE f == frame[t]
<1>1. /\ page' = [page EXCEPT ![f] = p] /\ pins' = [pins EXCEPT ![f] = 1]
      /\ table' = [table EXCEPT ![p] = f] /\ mutex' = Nobody
  BY DEF Install
<1>2. /\ mutex = t /\ f \in Frame /\ Held(f) /\ Nobody \notin Thread
      /\ p # NoPage /\ NoFrame \notin Frame
  BY InsideHas, PoolConstants DEF Inside
<1>3. pins[f] = 0 /\ page[f] = NoPage /\ f \notin Free /\ f \notin evictable
  BY <1>2 DEF Inv, PlaceInv
<1>4. TableInv'
  <2>1. ASSUME NEW q \in Page, NEW g \in Frame PROVE table'[q] = g <=> page'[g] = q
    <3>1. table[q] = g <=> page[g] = q
      BY DEF Inv, TableInv
    <3>2. /\ table'[q] = IF q = p THEN f ELSE table[q]
          /\ page'[g] = IF g = f THEN p ELSE page[g]
      BY <1>1, <1>2 DEF Inv, TypeOK
    <3> QED
      BY <1>2, <1>3, <3>1, <3>2, PoolConstants
  <2> QED
    BY <2>1 DEF TableInv
<1>5. ASSUME NEW g \in Frame PROVE PlaceInv(g)'
  <2>1. PlaceInv(g) /\ page[g] \in Page \cup {NoPage} /\ Free' = Free
    BY DEF Inv, TypeOK, Free
  <2>2. ~ Held(g)'
    BY <1>1, <1>2 DEF Held
  <2>3. CASE g = f
    <3>1. page'[f] = p /\ pins'[f] = 1
      BY <1>1, <1>2 DEF Inv, TypeOK
    <3> QED
      BY <1>2, <1>3, <2>1, <2>2, <2>3, <3>1 DEF PlaceInv, InUse
  <2>4. CASE g # f
    <3>1. ~ Held(g) /\ page'[g] = page[g] /\ pins'[g] = pins[g]
      BY <1>1, <1>2, <2>4 DEF Held, Inv, TypeOK
    <3> QED
      BY <2>1, <2>2, <3>1, FrameStays
  <2> QED
    BY <2>3, <2>4
<1>6. FreeInv' /\ MutexInv'
  BY <1>1, <1>2 DEF Inv, FreeInv, MutexInv
<1> QED
  BY <1>4, <1>5, <1>6 DEF FramesInv

LEMMA FillFrames ==
    ASSUME Inv, NEW t \in Thread, FillFetch(t) \/ FillNew(t)
    PROVE  FramesInv'
<1>1. pc[t] = "fill" /\ mutex = t /\ UNCHANGED << free, evictable >>
  <2>1. pc[t] = "fill" /\ UNCHANGED << free, evictable >>
    BY DEF FillFetch, FillNew
  <2> QED
    BY <2>1, InsideHas DEF Inside
<1>2. CASE FillFetch(t)
  <2> DEFINE p == target[t]
  <2>1. Install(t, frame[t], p, disk[p], FALSE) /\ disk' = disk /\ intent[t] # "new"
    BY <1>2 DEF FillFetch
  <2>2. p \in Page /\ table[p] = NoFrame /\ InUse(p)
    BY <1>1, <2>1 DEF Inv, ThreadInv, MutexInv
  <2> QED
    BY <1>1, <2>1, <2>2, InstallFrames DEF InUse
<1>3. CASE FillNew(t)
  <2>1. PICK p \in Page : /\ disk[p] = Unowned
                          /\ disk' = [disk EXCEPT ![p] = Zeroed]
                          /\ Install(t, frame[t], p, Zeroed, TRUE)
    BY <1>3 DEF FillNew
  <2>2. table[p] = NoFrame
    <3>1. ASSUME table[p] \in Frame PROVE FALSE
      <4>1. page[table[p]] = p /\ p # NoPage
        BY <3>1, PoolConstants DEF Inv, TableInv
      <4>2. InUse(p)
        BY <3>1, <4>1 DEF Inv, PlaceInv
      <4> QED
        BY <2>1, <4>2, PageStates DEF InUse
    <3> QED
      BY <3>1 DEF Inv, TypeOK
  <2>3. disk'[p] \in Content /\ \A q \in Page : InUse(q) => disk'[q] \in Content
    BY <2>1, ContentType DEF InUse, Inv, TypeOK
  <2> QED
    BY <1>1, <2>1, <2>2, <2>3, InstallFrames
<1> QED
  BY <1>2, <1>3

(* No page for the frame in hand: it is free again, or lost to a read error. *)
LEMMA FailFillFrames ==
    ASSUME Inv, NEW t \in Thread, FailFill(t)
    PROVE  FramesInv'
<1> DEFINE f == frame[t]
<1>1. /\ pc[t] = "fill" /\ mutex' = Nobody
      /\ UNCHANGED << page, pins, table, evictable, disk >>
      /\ \/ "io" \in Faults /\ UNCHANGED free
         \/ free' = Append(free, f)
  BY DEF FailFill, FailRead, FailAlloc, frameVars
<1>2. mutex = t /\ f \in Frame /\ Held(f) /\ Nobody \notin Thread
  BY <1>1, InsideHas, PoolConstants DEF Inside
<1>3. pins[f] = 0 /\ page[f] = NoPage /\ f \notin Free /\ f \notin evictable
  BY <1>1, <1>2 DEF Inv, PlaceInv
<1>4. FreeInv' /\ ((Free' = Free /\ "io" \in Faults) \/ Free' = Free \cup {f})
  <2>1. free \in Seq(Frame) /\ FreeInv
    BY DEF Inv, TypeOK
  <2>2. CASE free' = Append(free, f)
    BY <1>2, <1>3, <2>1, <2>2, FreePush
  <2>3. CASE "io" \in Faults /\ UNCHANGED free
    BY <2>1, <2>3 DEF Free, FreeInv
  <2> QED
    BY <1>1, <2>2, <2>3
<1>5. ASSUME NEW g \in Frame PROVE PlaceInv(g)'
  <2>1. PlaceInv(g) /\ page[g] \in Page \cup {NoPage}
    BY DEF Inv, TypeOK
  <2>2. ~ Held(g)'
    BY <1>1, <1>2 DEF Held
  <2>3. CASE g = f
    BY <1>1, <1>3, <1>4, <2>2, <2>3 DEF PlaceInv
  <2>4. CASE g # f
    <3>1. ~ Held(g) /\ (g \in Free' <=> g \in Free)
      BY <1>2, <1>4, <2>4 DEF Held
    <3> QED
      BY <1>1, <2>1, <2>2, <3>1, FrameStays DEF InUse
  <2> QED
    BY <2>3, <2>4
<1>6. TableInv' /\ MutexInv'
  BY <1>1, <1>2 DEF Inv, TableInv, MutexInv
<1> QED
  BY <1>4, <1>5, <1>6 DEF FramesInv

(* A page is deleted; its frame, if it has one, is unpinned and becomes free. *)
LEMMA DeleteFrames ==
    ASSUME Inv, NEW t \in Thread, NEW p \in Page, DeletePage(t, p)
    PROVE  FramesInv'
<1>1. /\ mutex = Nobody /\ mutex' = Nobody /\ pins' = pins
      /\ \A q \in Page : q # p => disk'[q] = disk[q]
      /\ Nobody \notin Thread
  BY PoolConstants DEF DeletePage, Inv, TypeOK
<1>2. MutexInv'
  BY <1>1 DEF MutexInv
<1>3. CASE table[p] = NoFrame
  <2>1. UNCHANGED << table, page, evictable, free >>
    BY <1>3 DEF DeletePage
  <2>2. TableInv' /\ FreeInv'
    BY <2>1 DEF Inv, TableInv, FreeInv
  <2>3. ASSUME NEW g \in Frame PROVE PlaceInv(g)'
    <3>1. PlaceInv(g) /\ ~ Held(g) /\ ~ Held(g)' /\ Free' = Free
      BY <1>1, <2>1 DEF Inv, Held, Free
    <3>2. page[g] \in Page \cup {NoPage} /\ page[g] # p
      BY <1>3, PoolConstants DEF Inv, TypeOK, TableInv
    <3> QED
      BY <1>1, <2>1, <3>1, <3>2, FrameStays DEF InUse
  <2> QED
    BY <1>2, <2>2, <2>3 DEF FramesInv
<1>4. CASE table[p] \in Frame
  <2> DEFINE f == table[p]
  <2>1. pins[f] = 0 /\ Forget(f) /\ page[f] = p /\ p # NoPage
    BY <1>4, PoolConstants DEF DeletePage, Inv, TableInv
  <2>2. /\ Unmap(f) /\ evictable' = evictable \ {f} /\ free' = Append(free, f)
    BY <2>1 DEF Forget
  <2>3. page' = [page EXCEPT ![f] = NoPage] /\ TableInv'
    BY <1>4, <2>1, <2>2, UnmapEffect
  <2>4. FreeInv' /\ Free' = Free \cup {f}
    <3>1. free \in Seq(Frame) /\ FreeInv /\ f \notin Free
      BY <1>4, <2>1 DEF Inv, TypeOK, PlaceInv
    <3> QED
      BY <1>4, <2>2, <3>1, FreePush
  <2>5. ASSUME NEW g \in Frame PROVE PlaceInv(g)'
    <3>1. PlaceInv(g) /\ ~ Held(g) /\ ~ Held(g)' /\ page[g] \in Page \cup {NoPage}
      BY <1>1 DEF Inv, Held, TypeOK
    <3>2. CASE g = f
      <4>1. page'[f] = NoPage
        BY <1>4, <2>3 DEF Inv, TypeOK
      <4> QED
        BY <1>1, <2>1, <2>2, <2>4, <3>1, <3>2, <4>1 DEF PlaceInv
    <3>3. CASE g # f
      <4>1. page'[g] = page[g] /\ page[g] # p
        BY <1>4, <2>3, <3>3 DEF Inv, TypeOK, TableInv
      <4>2. (g \in Free' <=> g \in Free) /\ (g \in evictable' <=> g \in evictable)
        BY <2>2, <2>4, <3>3
      <4> QED
        BY <1>1, <3>1, <4>1, <4>2, FrameStays DEF InUse
    <3> QED
      BY <3>2, <3>3
  <2> QED
    BY <1>2, <2>3, <2>4, <2>5 DEF FramesInv
<1> QED
  BY <1>3, <1>4 DEF Inv, TypeOK

(* The place of every frame, whatever the step. *)
LEMMA FramesNext == Inv /\ Next => FramesInv'
<1> SUFFICES ASSUME Inv, Next PROVE FramesInv'
  OBVIOUS
<1>1. ASSUME NEW t \in Thread, NEW p \in Page, NEW how \in {"read", "write"}, Fetch(t, p, how)
      PROVE  FramesInv'
  <2>1. CASE Hit(t, p, how)
    BY <1>1, <2>1, HitFrames
  <2>2. CASE Miss(t, p)
    <3>1. /\ pc[t] = "idle" /\ mutex = Nobody /\ InUse(p) /\ table[p] = NoFrame
          /\ \E f \in Frame : FindFrame(t, f)
          /\ UNCHANGED << pins, disk, todo >>
          /\ target' = [target EXCEPT ![t] = p]
      BY <1>1, <2>2 DEF Fetch, Miss
    <3>2. target'[t] = p
      BY <3>1 DEF Inv, TypeOK
    <3> QED
      BY <3>1, <3>2, FindFrames
  <2> QED
    BY <1>1, <2>1, <2>2 DEF Fetch
<1>2. ASSUME NEW t \in Thread, NewPage(t) PROVE FramesInv'
  <2>1. /\ pc[t] = "idle" /\ mutex = Nobody /\ \E f \in Frame : FindFrame(t, f)
        /\ UNCHANGED << pins, disk, todo >> /\ intent'[t] = "new"
    BY <1>2 DEF NewPage, Inv, TypeOK
  <2> QED
    BY <2>1, FindFrames
<1>3. ASSUME NEW t \in Thread, NEW p \in Page, FlushPage(t, p) PROVE FramesInv'
  <2>1. {table[p]} \in SUBSET {table[q] : q \in Page} /\ StartFlush(t, {table[p]} \ {NoFrame})
    BY <1>3 DEF FlushPage
  <2> QED
    BY <2>1, FlushFrames
<1>4. ASSUME NEW t \in Thread, FlushAll(t) PROVE FramesInv'
  BY <1>4, FlushFrames DEF FlushAll
<1>5. ASSUME NEW t \in Thread, FlushFrame(t) \/ FailFlush(t) \/ EndFlush(t) PROVE FramesInv'
  BY <1>5, FlushFrames
<1>6. ASSUME NEW t \in Thread, NEW v \in Value, NEW l \in Lsn, Modify(t, v, l) PROVE FramesInv'
  <2>1. /\ pc[t] = "guard" /\ UNCHANGED << pc, frame, intent, target, todo >>
        /\ UNCHANGED << page, pins, mutex, table, free, evictable, disk >>
    BY <1>6 DEF Modify, managerVars
  <2> QED
    BY <2>1, OutsideFrames DEF Inside
<1>7. ASSUME NEW t \in Thread, ReadLsn(t) \/ TakeLock(t) \/ Release(t) PROVE FramesInv'
  <2>1. /\ pc[t] \notin Inside /\ pc'[t] \notin Inside
        /\ UNCHANGED << page, pins, mutex, table, free, evictable, disk >>
    BY <1>7 DEF ReadLsn, TakeLock, Release, Return, Goto, frameVars, managerVars, Inside,
                Inv, TypeOK
  <2>2. \A u \in Thread : u # t =>
              pc'[u] = pc[u] /\ frame'[u] = frame[u] /\ intent'[u] = intent[u]
              /\ target'[u] = target[u] /\ todo'[u] = todo[u]
    BY <1>7 DEF ReadLsn, TakeLock, Release, Return, Goto, Inv, TypeOK
  <2> QED
    BY <2>1, <2>2, OutsideFrames
<1>8. ASSUME NEW l \in Lsn, RecordWalSync(l) PROVE FramesInv'
  <2>1. /\ UNCHANGED << page, pins, mutex, table, free, evictable, disk >>
        /\ UNCHANGED << pc, frame, intent, target, todo >>
    BY <1>8 DEF RecordWalSync, frameVars, threadVars
  <2>2. \A f \in Frame : Held(f)' <=> Held(f)
    BY <2>1 DEF Held
  <2>3. MutexInv'
    BY <2>1 DEF Inv, MutexInv, InUse
  <2> QED
    BY <2>1, <2>2, <2>3, NothingMoves DEF FramesInv, InUse
<1>9. ASSUME NEW t \in Thread, Call(t) PROVE FramesInv'
  BY <1>1, <1>2, <1>3, <1>4, <1>6, <1>9, DeleteFrames DEF Call
<1>10. ASSUME NEW t \in Thread, Progress(t) PROVE FramesInv'
  BY <1>5, <1>7, <1>10, EvictFrames, FailEvictFrames, FillFrames, FailFillFrames,
     UnpinFrames DEF Progress
<1> QED
  BY <1>8, <1>9, <1>10 DEF Next

-----------------------------------------------------------------------------
(* Pins and locks. *)
LEMMA OthersStay ==
    ASSUME Inv, NEW t \in Thread, Call(t) \/ Progress(t)
    PROVE  \A u \in Thread : u # t =>
              /\ pc'[u] = pc[u] /\ frame'[u] = frame[u] /\ intent'[u] = intent[u]
              /\ target'[u] = target[u] /\ mark'[u] = mark[u] /\ todo'[u] = todo[u]
<1> USE DEF Goto, Return
<1>0. /\ pc \in [Thread -> Labels] /\ intent \in [Thread -> {"read", "write", "new"}]
      /\ target \in [Thread -> Page \cup {NoPage}]
      /\ frame \in [Thread -> Frame \cup {NoFrame}]
      /\ mark \in [Thread -> [dirty: BOOLEAN, lsn: Lsn]]
      /\ todo \in [Thread -> SUBSET Frame]
  BY DEF Inv, TypeOK
<1>1. ASSUME Call(t)
      PROVE  \A u \in Thread : u # t =>
              /\ pc'[u] = pc[u] /\ frame'[u] = frame[u] /\ intent'[u] = intent[u]
              /\ target'[u] = target[u] /\ mark'[u] = mark[u] /\ todo'[u] = todo[u]
  <2>1. CASE \E p \in Page, how \in {"read", "write"} : Fetch(t, p, how)
    BY <1>0, <2>1 DEF Fetch, Hit, Miss, FindFrame, PickFrame
  <2>2. CASE \E p \in Page : FlushPage(t, p) \/ DeletePage(t, p)
    BY <1>0, <2>2 DEF FlushPage, StartFlush, DeletePage, threadVars
  <2>3. CASE NewPage(t) \/ FlushAll(t)
    BY <1>0, <2>3 DEF NewPage, FlushAll, StartFlush, FindFrame, PickFrame
  <2>4. CASE \E v \in Value, l \in Lsn : Modify(t, v, l)
    BY <1>0, <2>4 DEF Modify
  <2> QED
    BY <1>1, <2>1, <2>2, <2>3, <2>4 DEF Call
<1>2. ASSUME Progress(t)
      PROVE  \A u \in Thread : u # t =>
              /\ pc'[u] = pc[u] /\ frame'[u] = frame[u] /\ intent'[u] = intent[u]
              /\ target'[u] = target[u] /\ mark'[u] = mark[u] /\ todo'[u] = todo[u]
  <2>1. CASE Evict(t) \/ FailEvict(t)
    BY <1>0, <2>1 DEF Evict, FailEvict
  <2>2. CASE FillFetch(t) \/ FillNew(t) \/ FailFill(t)
    BY <1>0, <2>2 DEF FillFetch, FillNew, FailFill
  <2>3. CASE ReadLsn(t) \/ TakeLock(t) \/ Unpin(t) \/ Release(t)
    BY <1>0, <2>3 DEF ReadLsn, TakeLock, Unpin, Release
  <2>4. CASE FlushFrame(t) \/ FailFlush(t) \/ EndFlush(t)
    BY <1>0, <2>4 DEF FlushFrame, FailFlush, EndFlush
  <2> QED
    BY <1>2, <2>1, <2>2, <2>3, <2>4 DEF Progress
<1> QED
  BY <1>1, <1>2

LEMMA PinnersFinite ==
    ASSUME NEW f \in Frame
    PROVE  /\ IsFiniteSet(Pinners(f)) /\ Cardinality(Pinners(f)) \in Nat
           /\ Cardinality(Pinners(f)) = 0 <=> Pinners(f) = {}
<1>1. Pinners(f) \subseteq Thread
  BY DEF Pinners
<1> QED
  BY <1>1, PoolConstants, FS_Subset, FS_CardinalityType, FS_EmptySet

(* Nobody pins a frame whose count is zero. *)
LEMMA Unpinned ==
    ASSUME Inv, NEW f \in Frame, pins[f] = 0
    PROVE  Pinners(f) = {}
BY PinnersFinite DEF Inv, PinInv

(* Neither before nor after the step the thread has a page pinned. *)
LEMMA PinsStay ==
    ASSUME Inv, NEW t \in Thread, Call(t) \/ Progress(t),
           pc[t] \notin Pinning, pc'[t] \notin Pinning,
           UNCHANGED pins, \A f \in Frame : page'[f] = page[f] \/ pins[f] = 0
    PROVE  \A f \in Frame : PinInv(f)'
<1> SUFFICES ASSUME NEW f \in Frame PROVE PinInv(f)'
  OBVIOUS
<1>1. Pinners(f)' = Pinners(f)
  BY OthersStay DEF Pinners, Pinning
<1>2. t \notin Pinners(f)
  BY DEF Pinners, Pinning
<1>3. Pinners(f) \subseteq Thread /\ PinInv(f)
  BY DEF Pinners, Inv
<1>4. \A u \in Pinners(f) : page'[f] = page[f] /\ target'[u] = target[u]
  BY <1>2, <1>3, OthersStay, Unpinned
<1> QED
  BY <1>1, <1>3, <1>4 DEF PinInv

(* A thread gets its pin. *)
LEMMA PinAdded ==
    ASSUME Inv, NEW t \in Thread, Call(t) \/ Progress(t), NEW f \in Frame,
           pc[t] \notin Pinning, pc'[t] \in Pinning, frame'[t] = f,
           pins' = [pins EXCEPT ![f] = @ + 1], page'[f] = target'[t],
           page'[f] = page[f] \/ pins[f] = 0,
           \A g \in Frame : g # f => page'[g] = page[g]
    PROVE  \A g \in Frame : PinInv(g)'
<1> SUFFICES ASSUME NEW g \in Frame PROVE PinInv(g)'
  OBVIOUS
<1>1. t \notin Pinners(g) /\ Pinners(g) \subseteq Thread /\ PinInv(g)
  BY DEF Pinners, Pinning, Inv
<1>2. Pinners(g)' = IF g = f THEN Pinners(g) \cup {t} ELSE Pinners(g)
  BY OthersStay DEF Pinners, Pinning
<1>3. Cardinality(Pinners(g) \cup {t}) = Cardinality(Pinners(g)) + 1
  BY <1>1, PinnersFinite, FS_AddElement
<1>4. pins'[g] = IF g = f THEN pins[g] + 1 ELSE pins[g]
  BY DEF Inv, TypeOK
<1>5. pins'[g] = Cardinality(Pinners(g))'
  BY <1>1, <1>2, <1>3, <1>4 DEF PinInv
<1>6. \A u \in Pinners(g) : page'[g] = page[g] /\ target'[u] = target[u]
  BY <1>1, OthersStay, Unpinned
<1> QED
  BY <1>1, <1>2, <1>5, <1>6 DEF PinInv

(* A thread that has a page pinned, its frame and its page. *)
LEMMA PinnerHas ==
    ASSUME Inv, NEW t \in Thread, pc[t] \in Pinning
    PROVE  /\ frame[t] \in Frame /\ target[t] \in Page /\ t \in Pinners(frame[t])
           /\ page[frame[t]] = target[t] /\ table[target[t]] = frame[t]
           /\ pins[frame[t]] \in Nat \ {0}
<1>1. frame[t] \in Frame /\ target[t] \in Page /\ t \in Pinners(frame[t])
  BY DEF Inv, ThreadInv, Pinners, Pinning
<1>2. page[frame[t]] = target[t] /\ table[target[t]] = frame[t]
  BY <1>1 DEF Inv, PinInv, TableInv
<1>3. pins[frame[t]] \in Nat \ {0}
  BY <1>1, Unpinned DEF Inv, TypeOK
<1> QED
  BY <1>1, <1>2, <1>3

LEMMA UnpinPins ==
    ASSUME Inv, NEW t \in Thread, Unpin(t)
    PROVE  \A g \in Frame : PinInv(g)'
<1> SUFFICES ASSUME NEW g \in Frame PROVE PinInv(g)'
  OBVIOUS
<1> DEFINE f == frame[t]
<1>1. /\ pc[t] = "guard" /\ pc'[t] = "release"
      /\ UNCHANGED << page, target, frame >>
  BY DEF Unpin, Goto, Inv, TypeOK
<1>2. f \in Frame /\ t \in Pinners(f) /\ table[target[t]] = f /\ pins[f] \in Nat \ {0}
  BY <1>1, PinnerHas DEF Pinning
<1>3. pins' = [pins EXCEPT ![f] = IF @ <= 1 THEN 0 ELSE @ - 1]
  BY <1>2, PoolConstants DEF Unpin
<1>4. Pinners(g) \subseteq Thread /\ PinInv(g) /\ (g # f => t \notin Pinners(g))
  BY DEF Pinners, Inv
<1>5. Pinners(g)' = IF g = f THEN Pinners(g) \ {t} ELSE Pinners(g)
  <2>1. \A u \in Thread : u # t => pc'[u] = pc[u]
    BY OthersStay DEF Progress
  <2> QED
    BY <1>1, <2>1 DEF Pinners
<1>6. Cardinality(Pinners(f) \ {t}) = Cardinality(Pinners(f)) - 1
  BY <1>2, PinnersFinite, FS_RemoveElement
<1>7. pins'[g] = IF g = f THEN pins[g] - 1 ELSE pins[g]
  BY <1>2, <1>3 DEF Inv, TypeOK
<1>8. pins'[g] = Cardinality(Pinners(g))'
  BY <1>4, <1>5, <1>6, <1>7 DEF PinInv
<1> QED
  BY <1>1, <1>4, <1>5, <1>8 DEF PinInv

(* A frame that is picked has no pin. *)
LEMMA FindPins ==
    ASSUME Inv, NEW t \in Thread, \E f \in Frame : FindFrame(t, f)
    PROVE  \A g \in Frame : page'[g] = page[g] \/ pins[g] = 0
<1>1. PICK f \in Frame : PickFrame(t, f)
  BY DEF FindFrame
<1>2. /\ f \in Free \/ f \in evictable
      /\ UNCHANGED page \/ Unmap(f)
  BY <1>1, PickFrameEffect DEF Inv
<1>3. pins[f] = 0
  BY <1>2 DEF Inv, PlaceInv
<1> QED
  BY <1>2, <1>3 DEF Unmap, Inv, TypeOK

LEMMA FillPins ==
    ASSUME Inv, NEW t \in Thread, FillFetch(t) \/ FillNew(t)
    PROVE  \A g \in Frame : PinInv(g)'
<1> DEFINE f == frame[t]
<1>1. pc[t] = "fill"
  BY DEF FillFetch, FillNew
<1>2. f \in Frame /\ Held(f) /\ pins[f] = 0
  <2>1. f \in Frame /\ Held(f)
    BY <1>1, InsideHas DEF Inside
  <2> QED
    BY <2>1 DEF Inv, PlaceInv
<1>3. frame' = frame /\ pc'[t] \in Pinning
  BY DEF FillFetch, FillNew, Goto, AfterPin, Pinning, Inv, TypeOK
<1>4. pins' = [pins EXCEPT ![f] = 1] /\ page' = [page EXCEPT ![f] = target'[t]]
  <2>1. CASE FillFetch(t)
    BY <2>1 DEF FillFetch, Install
  <2>2. CASE FillNew(t)
    BY <2>2 DEF FillNew, Install, Inv, TypeOK
  <2> QED
    BY <2>1, <2>2
<1>5. pins' = [pins EXCEPT ![f] = @ + 1]
  BY <1>2, <1>4 DEF Inv, TypeOK
<1>6. page'[f] = target'[t] /\ \A g \in Frame : g # f => page'[g] = page[g]
  BY <1>2, <1>4 DEF Inv, TypeOK
<1>7. Progress(t) /\ pc[t] \notin Pinning
  BY <1>1 DEF Progress, Pinning
<1> QED
  BY <1>2, <1>3, <1>5, <1>6, <1>7, PinAdded

LEMMA PinsNext == Inv /\ Next => \A f \in Frame : PinInv(f)'
<1> SUFFICES ASSUME Inv, Next PROVE \A f \in Frame : PinInv(f)'
  OBVIOUS
<1>0. pc \in [Thread -> Labels] /\ page \in [Frame -> Page \cup {NoPage}] /\ pins \in [Frame -> Nat]
  BY DEF Inv, TypeOK
<1>1. ASSUME NEW t \in Thread, NEW p \in Page, NEW how \in {"read", "write"}, Fetch(t, p, how)
      PROVE  \A f \in Frame : PinInv(f)'
  <2>0. Call(t) /\ pc[t] \notin Pinning /\ target'[t] = p
    BY <1>1 DEF Call, Fetch, Pinning, Inv, TypeOK
  <2>1. CASE Hit(t, p, how)
    <3>1. /\ table[p] \in Frame /\ pins' = [pins EXCEPT ![table[p]] = @ + 1]
          /\ frame'[t] = table[p] /\ pc'[t] \in Pinning /\ page' = page
      BY <2>1 DEF Hit, Goto, AfterPin, Pinning, Inv, TypeOK
    <3>2. page[table[p]] = p
      BY <3>1 DEF Inv, TableInv
    <3> QED
      BY <2>0, <3>1, <3>2, PinAdded
  <2>2. CASE Miss(t, p)
    <3>1. pc'[t] \notin Pinning /\ pins' = pins /\ \E f \in Frame : FindFrame(t, f)
      BY <1>0, <2>2 DEF Miss, FindFrame, PickFrame, Goto, Pinning
    <3> QED
      BY <2>0, <3>1, FindPins, PinsStay
  <2> QED
    BY <1>1, <2>1, <2>2 DEF Fetch
<1>2. ASSUME NEW t \in Thread, NewPage(t) PROVE \A f \in Frame : PinInv(f)'
  <2>1. /\ Call(t) /\ pc[t] \notin Pinning /\ pc'[t] \notin Pinning /\ pins' = pins
        /\ \E f \in Frame : FindFrame(t, f)
    BY <1>0, <1>2 DEF Call, NewPage, FindFrame, PickFrame, Goto, Pinning
  <2> QED
    BY <2>1, FindPins, PinsStay
<1>3. ASSUME NEW t \in Thread, NEW p \in Page, FlushPage(t, p) \/ DeletePage(t, p)
      PROVE  \A f \in Frame : PinInv(f)'
  <2>1. Call(t) /\ pc[t] \notin Pinning /\ pc'[t] \notin Pinning /\ pins' = pins
    BY <1>0, <1>3 DEF Call, FlushPage, DeletePage, StartFlush, Goto, Pinning, threadVars,
                      frameVars
  <2>2. page' = page \/ (table[p] \in Frame /\ pins[table[p]] = 0 /\ Unmap(table[p]))
    BY <1>3 DEF FlushPage, DeletePage, StartFlush, Forget, frameVars, Inv, TypeOK
  <2>3. \A f \in Frame : page'[f] = page[f] \/ pins[f] = 0
    BY <1>0, <2>2 DEF Unmap
  <2> QED
    BY <2>1, <2>3, PinsStay
<1>4. ASSUME NEW t \in Thread, FlushAll(t) PROVE \A f \in Frame : PinInv(f)'
  <2>1. /\ Call(t) /\ pc[t] \notin Pinning /\ pc'[t] \notin Pinning
        /\ UNCHANGED << page, pins >>
    BY <1>0, <1>4 DEF Call, FlushAll, StartFlush, Goto, Pinning, frameVars
  <2> QED
    BY <2>1, PinsStay
<1>5. ASSUME NEW t \in Thread, Evict(t) PROVE \A f \in Frame : PinInv(f)'
  <2>1. Progress(t) /\ pc[t] \notin Pinning /\ pc'[t] \notin Pinning /\ pins' = pins
    BY <1>0, <1>5 DEF Progress, Evict, Goto, Pinning
  <2>2. frame[t] \in Frame /\ Held(frame[t]) /\ Unmap(frame[t])
    BY <1>5, InsideHas DEF Evict, Inside
  <2>3. pins[frame[t]] = 0
    BY <2>2 DEF Inv, PlaceInv
  <2>4. \A f \in Frame : page'[f] = page[f] \/ pins[f] = 0
    BY <1>0, <2>2, <2>3 DEF Unmap
  <2> QED
    BY <2>1, <2>4, PinsStay
<1>6. ASSUME NEW t \in Thread,
             \/ FailEvict(t) \/ FailFill(t) \/ Release(t)
             \/ FlushFrame(t) \/ FailFlush(t) \/ EndFlush(t)
      PROVE  \A f \in Frame : PinInv(f)'
  <2>1. Progress(t) /\ UNCHANGED << page, pins >>
    BY <1>6 DEF Progress, FailEvict, FailFill, Release, FlushFrame, FailFlush, EndFlush, frameVars
  <2>2. pc[t] \notin Pinning /\ pc'[t] \notin Pinning
    BY <1>0, <1>6 DEF FailEvict, FailFill, Release, FlushFrame, FailFlush, EndFlush, Return,
                      Goto, Pinning
  <2> QED
    BY <2>1, <2>2, PinsStay
<1>7. ASSUME UNCHANGED << page, pins, frame, target >>,
             \A u \in Thread : pc'[u] \in Pinning <=> pc[u] \in Pinning
      PROVE  \A f \in Frame : PinInv(f)'
  <2> SUFFICES ASSUME NEW f \in Frame PROVE PinInv(f)'
    OBVIOUS
  <2>1. Pinners(f)' = Pinners(f) /\ PinInv(f)
    BY <1>7 DEF Pinners, Pinning, Inv
  <2> QED
    BY <1>7, <2>1 DEF PinInv
<1>8. ASSUME NEW t \in Thread, NEW v \in Value, NEW l \in Lsn, Modify(t, v, l)
      PROVE  \A f \in Frame : PinInv(f)'
  BY <1>7, <1>8 DEF Modify
<1>9. ASSUME NEW t \in Thread, ReadLsn(t) \/ TakeLock(t) PROVE \A f \in Frame : PinInv(f)'
  <2>1. UNCHANGED << page, pins, frame, target >>
    BY <1>9 DEF ReadLsn, TakeLock, frameVars
  <2>2. pc[t] \in Pinning /\ pc'[t] \in Pinning /\ \A u \in Thread : u # t => pc'[u] = pc[u]
    BY <1>0, <1>9 DEF ReadLsn, TakeLock, Goto, Pinning
  <2> QED
    BY <1>7, <2>1, <2>2
<1>10. ASSUME NEW l \in Lsn, RecordWalSync(l) PROVE \A f \in Frame : PinInv(f)'
  BY <1>7, <1>10 DEF RecordWalSync, frameVars, threadVars
<1>11. ASSUME NEW t \in Thread, Call(t) PROVE \A f \in Frame : PinInv(f)'
  BY <1>1, <1>2, <1>3, <1>4, <1>8, <1>11 DEF Call
<1>12. ASSUME NEW t \in Thread, Progress(t) PROVE \A f \in Frame : PinInv(f)'
  BY <1>5, <1>6, <1>9, <1>12, FillPins, UnpinPins DEF Progress
<1> QED
  BY <1>10, <1>11, <1>12 DEF Next

(* Who holds the bytes of a frame after a step held them before, unless the
   step is the one that takes the lock. *)
LEMMA HoldsStay ==
    ASSUME Inv, NEW t \in Thread, Call(t) \/ Progress(t), ~ TakeLock(t)
    PROVE  \A u \in Thread, f \in Frame, how \in {"read", "write"} :
              pc'[u] \in {"guard", "release"} /\ frame'[u] = f /\ intent'[u] = how
                  => Holds(u, f, how)
<1>0. pc \in [Thread -> Labels] /\ intent \in [Thread -> {"read", "write", "new"}]
  BY DEF Inv, TypeOK
<1>1. pc'[t] \in {"guard", "release"} =>
          /\ pc[t] \in {"guard", "release"}
          /\ frame'[t] = frame[t] /\ intent'[t] = intent[t]
  <2>1. CASE Call(t)
    <3>1. ASSUME NEW p \in Page, NEW how \in {"read", "write"}, Fetch(t, p, how)
          PROVE  pc'[t] \notin {"guard", "release"}
      BY <1>0, <3>1 DEF Fetch, Hit, Miss, FindFrame, PickFrame, Goto, AfterPin
    <3>2. ASSUME NEW p \in Page, FlushPage(t, p) \/ DeletePage(t, p)
          PROVE  pc'[t] \notin {"guard", "release"}
      BY <1>0, <3>2 DEF FlushPage, StartFlush, DeletePage, Goto, threadVars
    <3>3. ASSUME NewPage(t) \/ FlushAll(t) PROVE pc'[t] \notin {"guard", "release"}
      BY <1>0, <3>3 DEF NewPage, FindFrame, PickFrame, FlushAll, StartFlush, Goto
    <3>4. ASSUME NEW v \in Value, NEW l \in Lsn, Modify(t, v, l)
          PROVE  UNCHANGED << pc, frame, intent >>
      BY <3>4 DEF Modify
    <3> QED
      BY <2>1, <3>1, <3>2, <3>3, <3>4 DEF Call
  <2>2. CASE Progress(t)
    <3>1. CASE Evict(t) \/ FailEvict(t)
      BY <1>0, <3>1 DEF Evict, FailEvict, Return, Goto
    <3>2. CASE FillFetch(t) \/ FillNew(t) \/ FailFill(t)
      BY <1>0, <3>2 DEF FillFetch, FillNew, FailFill, Return, Goto, AfterPin
    <3>3. CASE ReadLsn(t) \/ Unpin(t) \/ Release(t)
      BY <1>0, <3>3 DEF ReadLsn, Unpin, Release, Return, Goto
    <3>4. CASE FlushFrame(t) \/ FailFlush(t) \/ EndFlush(t)
      BY <1>0, <3>4 DEF FlushFrame, FailFlush, EndFlush, Return, Goto
    <3> QED
      BY <2>2, <3>1, <3>2, <3>3, <3>4 DEF Progress
  <2> QED
    BY <2>1, <2>2
<1> QED
  BY <1>1, OthersStay DEF Holds

LEMMA LocksNext == Inv /\ Next => LockInv'
<1> SUFFICES ASSUME Inv, Next PROVE LockInv'
  OBVIOUS
<1>1. ASSUME NEW t \in Thread, Call(t) \/ Progress(t), ~ TakeLock(t) PROVE LockInv'
  BY <1>1, HoldsStay DEF Inv, LockInv, Holds
<1>2. ASSUME NEW t \in Thread, TakeLock(t) PROVE LockInv'
  <2> DEFINE g == frame[t]
  <2>1. /\ UNCHANGED << frame, intent >> /\ pc[t] = "lock"
        /\ pc' = [pc EXCEPT ![t] = "guard"]
        /\ IF intent[t] = "write" THEN MayWrite(g) ELSE MayRead(g)
    BY <1>2 DEF TakeLock, Goto
  <2>2. SUFFICES ASSUME NEW f \in Frame, NEW a \in Thread, NEW b \in Thread,
                        Holds(a, f, "write")', Holds(b, f, "read")' \/ Holds(b, f, "write")',
                        a # b
                 PROVE  FALSE
    BY DEF LockInv
  <2>3. \A u \in Thread : u # t => pc'[u] = pc[u]
    BY <2>1 DEF Inv, TypeOK
  <2>4. CASE a # t /\ b # t
    <3>1. Holds(a, f, "write") /\ (Holds(b, f, "read") \/ Holds(b, f, "write"))
      BY <2>1, <2>2, <2>3, <2>4 DEF Holds
    <3> QED
      BY <2>2, <3>1 DEF Inv, LockInv
  <2>5. CASE a = t
    <3>1. MayWrite(f) /\ (Holds(b, f, "read") \/ Holds(b, f, "write"))
      BY <2>1, <2>2, <2>3, <2>5 DEF Holds
    <3> QED
      BY <3>1 DEF MayWrite, Reads, Writes
  <2>6. CASE b = t
    <3>1. Holds(a, f, "write") /\ f = g
      BY <2>1, <2>2, <2>3, <2>6 DEF Holds
    <3> QED
      BY <2>1, <3>1 DEF MayWrite, MayRead, Writes
  <2> QED
    BY <2>2, <2>4, <2>5, <2>6
<1>3. ASSUME NEW l \in Lsn, RecordWalSync(l) PROVE LockInv'
  BY <1>3 DEF RecordWalSync, threadVars, Inv, LockInv, Holds
<1> QED
  BY <1>1, <1>2, <1>3 DEF Next, Progress

-----------------------------------------------------------------------------
(* The log comes first. *)
LEMMA Numbers ==
    ASSUME Inv
    PROVE  /\ \A f \in Frame : bytes[f].lsn \in Nat /\ lsn[f] \in Nat
           /\ \A t \in Thread : mark[t].lsn \in Nat /\ mark[t].dirty \in BOOLEAN
           /\ \A p \in Page : InUse(p) => disk[p].lsn \in Nat
           /\ flushed \in Nat
BY ContentType DEF Inv, TypeOK, InUse

(* What a write-back puts on disk is in the log, and a log only grows. *)
LEMMA WriteBackLog ==
    ASSUME Inv, NEW f \in Frame, page[f] \in Page, WriteBack(f) \/ FailWriteBack(f)
    PROVE  /\ flushed' \in Nat /\ flushed <= flushed'
           /\ \A p \in Page : disk'[p] \in Content => disk'[p].lsn <= flushed'
<1>1. UNCHANGED << flushed, disk >> \/ WriteBack(f)
  BY DEF FailWriteBack
<1>2. CASE UNCHANGED << flushed, disk >>
  BY <1>2, Numbers DEF Inv, WalRule, InUse
<1>3. CASE WriteBack(f)
  <2>1. /\ flushed' = Max2(flushed, lsn[f]) /\ ~ Writes(f)
        /\ disk' = [disk EXCEPT ![page[f]] = bytes[f]]
    BY <1>3 DEF WriteBack, SyncWal, MayRead
  <2>2. flushed' \in Nat /\ flushed <= flushed' /\ lsn[f] <= flushed'
    BY <2>1, Max2Type, ContentType DEF Inv, TypeOK
  <2>3. \A t \in Thread : ~ MarkedBy(t, f)
    BY <2>1 DEF Writes, Holds, MarkedBy
  <2>4. bytes[f].lsn <= lsn[f] \/ bytes[f].lsn <= flushed
    BY <2>3, PoolConstants DEF Inv, RecordInv, Recorded
  <2>5. bytes[f].lsn <= flushed'
    BY <2>2, <2>4, Numbers
  <2>6. ASSUME NEW p \in Page, disk'[p] \in Content PROVE disk'[p].lsn <= flushed'
    <3>1. CASE p = page[f]
      BY <2>1, <2>5, <3>1 DEF Inv, TypeOK
    <3>2. CASE p # page[f]
      <4>1. disk'[p] = disk[p] /\ InUse(p)
        BY <2>1, <2>6, <3>2 DEF Inv, TypeOK, InUse
      <4>2. disk[p].lsn <= flushed /\ disk[p].lsn \in Nat
        BY <4>1, Numbers DEF Inv, WalRule
      <4> QED
        BY <2>2, <4>1, <4>2, Numbers
    <3> QED
      BY <3>1, <3>2
  <2> QED
    BY <2>2, <2>6
<1> QED
  BY <1>1, <1>2, <1>3

(* A step that changes no frame's bytes, takes no LSN back and moves no guard
   that has changed its page. *)
LEMMA RecordsStay ==
    ASSUME Inv, UNCHANGED bytes,
           flushed' \in Nat, flushed <= flushed',
           \A f \in Frame : page'[f] # NoPage =>
               page[f] # NoPage /\ lsn'[f] \in Nat /\ lsn[f] <= lsn'[f],
           \A t \in Thread : pc[t] = "guard" =>
               /\ pc'[t] = pc[t] /\ intent'[t] = intent[t] /\ frame'[t] = frame[t]
               /\ mark'[t] = mark[t]
    PROVE  RecordInv'
<1> SUFFICES ASSUME NEW f \in Frame, page'[f] # NoPage PROVE Recorded(f)'
  BY DEF RecordInv
<1>1. Recorded(f) /\ lsn'[f] \in Nat /\ lsn[f] <= lsn'[f]
  BY DEF Inv, RecordInv
<1>2. CASE bytes[f].lsn <= lsn[f] \/ bytes[f].lsn <= flushed
  <2>1. bytes'[f].lsn <= lsn'[f] \/ bytes'[f].lsn <= flushed'
    BY <1>1, <1>2, Numbers
  <2> QED
    BY <2>1 DEF Recorded
<1>3. ASSUME NEW t \in Thread, MarkedBy(t, f) PROVE Recorded(f)'
  <2>1. MarkedBy(t, f)'
    BY <1>3 DEF MarkedBy
  <2> QED
    BY <2>1 DEF Recorded
<1> QED
  BY <1>1, <1>2, <1>3 DEF Recorded

(* The same for the marks. *)
LEMMA MarksStay ==
    ASSUME Inv, NEW t \in Thread, Call(t) \/ Progress(t), pc'[t] \notin Pinning,
           \A f \in Frame : pins[f] = 0 \/ (lsn[f] <= lsn'[f] /\ lsn'[f] \in Nat)
    PROVE  MarkInv'
<1> SUFFICES ASSUME NEW f \in Frame, NEW u \in Thread,
                    pc'[u] \in Pinning, frame'[u] = f, ~ mark'[u].dirty
             PROVE  mark'[u].lsn <= lsn'[f]
  BY DEF MarkInv, Pinners, Pinning
<1>1. u # t
  OBVIOUS
<1>2. mark'[u] = mark[u] /\ u \in Pinners(f)
  BY <1>1, OthersStay DEF Pinners, Pinning
<1>3. mark[u].lsn <= lsn[f] /\ pins[f] # 0
  BY <1>2, Unpinned DEF Inv, MarkInv
<1> QED
  BY <1>2, <1>3, Numbers

(* The log, the records and the marks together. *)
LogInv == WalRule /\ RecordInv /\ MarkInv

LEMMA SameDisk ==
    ASSUME Inv, flushed' \in Nat, flushed <= flushed',
           \A p \in Page : disk'[p] \in Content => disk'[p] = disk[p]
    PROVE  WalRule'
<1> SUFFICES ASSUME NEW p \in Page, disk'[p] \in Content PROVE disk'[p].lsn <= flushed'
  BY DEF WalRule, InUse
<1>1. disk'[p] = disk[p] /\ InUse(p)
  BY DEF InUse
<1> QED
  BY <1>1, Numbers DEF Inv, WalRule

(* Calls that work on the lists only, and the steps of a flush. *)
LEMMA ListsLog ==
    ASSUME Inv, NEW t \in Thread, Call(t) \/ Progress(t),
           UNCHANGED << bytes, lsn, flushed, disk >>,
           pc[t] # "guard", pc'[t] \notin Pinning,
           \A f \in Frame : page'[f] # NoPage => page'[f] = page[f]
    PROVE  LogInv'
<1>1. WalRule'
  BY SameDisk, Numbers
<1>2. RecordInv'
  BY RecordsStay, OthersStay, Numbers
<1>3. MarkInv'
  BY MarksStay, Numbers
<1> QED
  BY <1>1, <1>2, <1>3 DEF LogInv

(* Steps that may write a frame back. *)
LEMMA WritersLog ==
    ASSUME Inv, NEW t \in Thread,
           Evict(t) \/ FailEvict(t) \/ FlushFrame(t) \/ FailFlush(t)
    PROVE  LogInv'
<1>1. /\ Progress(t) /\ pc[t] \in Inside /\ pc'[t] \notin Pinning
      /\ UNCHANGED << bytes, lsn >>
  BY DEF Progress, Evict, FailEvict, FlushFrame, FailFlush, Return, Goto, Inside, Pinning,
         frameVars, Inv, TypeOK
<1>2. \A f \in Frame : page'[f] # NoPage => page[f] # NoPage
  BY InsideHas DEF Evict, FailEvict, FlushFrame, FailFlush, Unmap, frameVars, Inside, Inv, TypeOK
<1>3. \/ UNCHANGED << flushed, disk >>
      \/ \E f \in Frame : page[f] \in Page /\ (WriteBack(f) \/ FailWriteBack(f))
  <2>1. CASE Evict(t) \/ FailEvict(t)
    BY <2>1, InsideHas DEF Evict, FailEvict, Inside
  <2>2. CASE FlushFrame(t) \/ FailFlush(t)
    <3>1. \/ UNCHANGED << flushed, disk >>
          \/ \E f \in todo[t] : WriteBack(f) \/ FailWriteBack(f)
      BY <2>2 DEF FlushFrame, FailFlush
    <3> QED
      BY <1>1, <3>1, InsideHas
  <2> QED
    BY <2>1, <2>2
<1>4. flushed' \in Nat /\ flushed <= flushed' /\ WalRule'
  <2>1. CASE UNCHANGED << flushed, disk >>
    BY <2>1, SameDisk, Numbers
  <2>2. CASE \E f \in Frame : page[f] \in Page /\ (WriteBack(f) \/ FailWriteBack(f))
    BY <2>2, WriteBackLog DEF WalRule, InUse
  <2> QED
    BY <1>3, <2>1, <2>2
<1>5. RecordInv'
  <2>1. pc[t] # "guard"
    BY <1>1 DEF Inside
  <2> QED
    BY <1>1, <1>2, <1>4, <2>1, RecordsStay, OthersStay, Numbers
<1>6. MarkInv'
  BY <1>1, MarksStay, Numbers
<1> QED
  BY <1>4, <1>5, <1>6 DEF LogInv

(* A page is read in, or starts out zeroed. *)
LEMMA InstallLog ==
    ASSUME Inv, NEW t \in Thread, FillFetch(t) \/ FillNew(t)
    PROVE  LogInv'
<1> DEFINE f == frame[t]
<1>1. pc[t] = "fill" /\ Progress(t) /\ UNCHANGED << flushed, frame >>
  BY DEF FillFetch, FillNew, Progress
<1>2. f \in Frame /\ mutex = t /\ Held(f) /\ pins[f] = 0
  <2>1. f \in Frame /\ mutex = t /\ Held(f)
    BY <1>1, InsideHas DEF Inside
  <2> QED
    BY <2>1 DEF Inv, PlaceInv
<1>3. /\ lsn' = [lsn EXCEPT ![f] = 0]
      /\ \E p \in Page : page' = [page EXCEPT ![f] = p]
      /\ \E content \in Content : content.lsn <= flushed /\ bytes' = [bytes EXCEPT ![f] = content]
      /\ \A p \in Page : disk'[p] \in Content => disk'[p].lsn <= flushed
      /\ mark'[t].dirty \/ mark'[t] = Clean
  <2>1. CASE FillFetch(t)
    <3> DEFINE p == target[t]
    <3>1. /\ Install(t, f, p, disk[p], FALSE) /\ disk' = disk /\ intent[t] # "new" /\ mark' = mark
      BY <2>1 DEF FillFetch
    <3>2. p \in Page /\ InUse(p) /\ mark[t] = Clean
      BY <1>1, <1>2, <3>1 DEF Inv, ThreadInv, MutexInv
    <3> QED
      BY <3>1, <3>2 DEF Install, InUse, Inv, WalRule
  <2>2. CASE FillNew(t)
    <3>1. PICK p \in Page : Install(t, f, p, Zeroed, TRUE) /\ disk' = [disk EXCEPT ![p] = Zeroed]
      BY <2>2 DEF FillNew
    <3>2. Zeroed \in Content /\ Zeroed.lsn <= flushed
      BY ContentType, Numbers DEF Zeroed
    <3>3. \A q \in Page : disk'[q] \in Content => disk'[q].lsn <= flushed
      BY <3>1, <3>2 DEF Inv, WalRule, InUse, TypeOK
    <3>4. mark'[t].dirty
      BY <2>2 DEF FillNew, Inv, TypeOK
    <3> QED
      BY <3>1, <3>2, <3>3, <3>4 DEF Install
  <2> QED
    BY <2>1, <2>2
<1>4. WalRule'
  BY <1>1, <1>3 DEF WalRule, InUse
<1>5. RecordInv'
  <2> SUFFICES ASSUME NEW g \in Frame, page'[g] # NoPage PROVE Recorded(g)'
    BY DEF RecordInv
  <2>1. CASE g = f
    <3>1. bytes'[f].lsn <= flushed'
      BY <1>1, <1>2, <1>3 DEF Inv, TypeOK
    <3> QED
      BY <2>1, <3>1 DEF Recorded
  <2>2. CASE g # f
    <3>1. page'[g] = page[g] /\ bytes'[g] = bytes[g] /\ lsn'[g] = lsn[g]
      BY <1>3, <2>2 DEF Inv, TypeOK
    <3>2. Recorded(g)
      BY <3>1 DEF Inv, RecordInv
    <3>3. ASSUME NEW u \in Thread, MarkedBy(u, g) PROVE MarkedBy(u, g)'
      <4>1. u # t
        BY <1>1, <3>3 DEF MarkedBy
      <4> QED
        BY <1>1, <3>1, <3>3, <4>1, OthersStay DEF MarkedBy
    <3> QED
      BY <1>1, <3>1, <3>2, <3>3 DEF Recorded
  <2> QED
    BY <2>1, <2>2
<1>6. MarkInv'
  <2> SUFFICES ASSUME NEW g \in Frame, NEW u \in Thread,
                      pc'[u] \in Pinning, frame'[u] = g, ~ mark'[u].dirty
               PROVE  mark'[u].lsn <= lsn'[g]
    BY DEF MarkInv, Pinners, Pinning
  <2>1. lsn'[g] = IF g = f THEN 0 ELSE lsn[g]
    BY <1>3 DEF Inv, TypeOK
  <2>2. CASE u = t
    BY <1>1, <1>3, <2>1, <2>2 DEF Clean
  <2>3. CASE u # t
    <3>1. u \in Pinners(g) /\ mark'[u] = mark[u]
      BY <1>1, <2>3, OthersStay DEF Pinners, Pinning
    <3>2. g # f
      BY <1>2, <3>1, Unpinned
    <3> QED
      BY <2>1, <3>1, <3>2 DEF Inv, MarkInv
  <2> QED
    BY <2>2, <2>3
<1> QED
  BY <1>4, <1>5, <1>6 DEF LogInv

(* A change is marked with its LSN before anything else happens. *)
LEMMA ModifyLog ==
    ASSUME Inv, NEW t \in Thread, NEW v \in Value, NEW l \in Lsn, Modify(t, v, l)
    PROVE  LogInv'
<1> DEFINE f == frame[t]  high == Max2(bytes[f].lsn, l)  marked == Max2(mark[t].lsn, l)
<1>1. /\ pc[t] = "guard" /\ intent[t] = "write"
      /\ bytes' = [bytes EXCEPT ![f] = [value |-> v, lsn |-> high]]
      /\ mark' = [mark EXCEPT ![t] = [dirty |-> TRUE, lsn |-> marked]]
      /\ UNCHANGED << page, lsn, flushed, disk, pc, intent, frame >>
  <2>1. bytes' = [bytes EXCEPT ![f] = [value |-> v, lsn |-> Max2(@.lsn, l)]]
    BY DEF Modify
  <2>2. mark' = [mark EXCEPT ![t] = [dirty |-> TRUE, lsn |-> Max2(@.lsn, l)]]
    BY DEF Modify
  <2> QED
    BY <2>1, <2>2 DEF Modify, managerVars, Inv, TypeOK
<1>2. f \in Frame /\ page[f] # NoPage
  BY <1>1, PinnerHas, PoolConstants DEF Pinning
<1>3. bytes'[f].lsn = high /\ mark'[t].dirty /\ mark'[t].lsn = marked
  BY <1>1, <1>2 DEF Inv, TypeOK
<1>4. /\ high \in {bytes[f].lsn, l} /\ high \in Nat
      /\ l \in Nat /\ l <= marked
      /\ marked \in Nat /\ mark[t].lsn <= marked
  <2>1. bytes[f].lsn \in Lsn /\ mark[t].lsn \in Lsn
    BY <1>2, ContentType DEF Inv, TypeOK
  <2>2. high \in Lsn /\ high \in {bytes[f].lsn, l}
    BY <2>1, Max2Type
  <2>3. marked \in Lsn /\ mark[t].lsn <= marked /\ l <= marked
    BY <2>1, Max2Type
  <2> HIDE DEF high, marked
  <2> QED
    BY <2>2, <2>3, ContentType
<1> HIDE DEF high, marked
<1>5. Recorded(f)'
  <2>1. CASE high = l
    <3>1. MarkedBy(t, f)'
      BY <1>1, <1>3, <1>4, <2>1 DEF MarkedBy
    <3> QED
      BY <3>1 DEF Recorded
  <2>2. CASE high = bytes[f].lsn
    <3>1. Recorded(f)
      BY <1>2 DEF Inv, RecordInv
    <3>2. ASSUME NEW u \in Thread, MarkedBy(u, f) PROVE Recorded(f)'
      <4>1. Holds(t, f, "write") /\ Holds(u, f, "write")
        BY <1>1, <3>2 DEF Holds, MarkedBy
      <4>2. u = t
        BY <1>2, <4>1 DEF Inv, LockInv
      <4>3. bytes[f].lsn <= mark[t].lsn
        BY <3>2, <4>2 DEF MarkedBy
      <4>4. bytes'[f].lsn <= mark'[t].lsn
        BY <1>2, <1>3, <1>4, <2>2, <4>3, Numbers
      <4>5. MarkedBy(t, f)'
        BY <1>1, <1>3, <4>4 DEF MarkedBy
      <4> QED
        BY <4>5 DEF Recorded
    <3> QED
      BY <1>1, <1>3, <2>2, <3>1, <3>2 DEF Recorded
  <2> QED
    BY <1>4, <2>1, <2>2
<1>6. RecordInv'
  <2> SUFFICES ASSUME NEW g \in Frame, page'[g] # NoPage PROVE Recorded(g)'
    BY DEF RecordInv
  <2>1. CASE g = f
    BY <1>1, <1>5, <2>1 DEF Recorded, MarkedBy
  <2>2. CASE g # f
    <3>1. bytes'[g] = bytes[g] /\ Recorded(g)
      BY <1>1, <2>2 DEF Inv, TypeOK, RecordInv
    <3>2. \A u \in Thread : MarkedBy(u, g) => u # t
      BY <2>2 DEF MarkedBy
    <3>3. \A u \in Thread : u # t => mark'[u] = mark[u]
      BY <1>1 DEF Inv, TypeOK
    <3> QED
      BY <1>1, <3>1, <3>2, <3>3 DEF Recorded, MarkedBy
  <2> QED
    BY <2>1, <2>2
<1>7. MarkInv'
  <2>1. \A u \in Thread : u # t => mark'[u] = mark[u]
    BY <1>1 DEF Inv, TypeOK
  <2> QED
    BY <1>1, <1>3, <2>1 DEF Inv, MarkInv, Pinners
<1>8. WalRule'
  BY <1>1 DEF Inv, WalRule, InUse
<1> QED
  BY <1>6, <1>7, <1>8 DEF LogInv

(* The frame takes the mark over when the guard is dropped. *)
LEMMA UnpinLog ==
    ASSUME Inv, NEW t \in Thread, Unpin(t)
    PROVE  LogInv'
<1> DEFINE f == frame[t]
<1>1. /\ pc[t] = "guard" /\ pc'[t] = "release" /\ Progress(t)
      /\ UNCHANGED << page, bytes, flushed, disk, intent, frame, mark >>
  BY DEF Unpin, Goto, Progress, Inv, TypeOK
<1>2. f \in Frame /\ table[target[t]] = f
  BY <1>1, PinnerHas DEF Pinning
<1>3. IF mark[t].dirty THEN lsn' = [lsn EXCEPT ![f] = Max2(lsn[f], mark[t].lsn)] ELSE lsn' = lsn
  <2>1. Stamp(t, f)
    BY <1>2, PoolConstants DEF Unpin
  <2> QED
    BY <1>2, <2>1 DEF Stamp, Inv, TypeOK
<1>4. \A g \in Frame : lsn'[g] \in Nat /\ lsn[g] <= lsn'[g]
  <2>1. /\ Max2(lsn[f], mark[t].lsn) \in Lsn
        /\ lsn[f] <= Max2(lsn[f], mark[t].lsn)
    BY <1>2, Max2Type DEF Inv, TypeOK
  <2>2. Max2(lsn[f], mark[t].lsn) \in Nat
    BY <2>1, ContentType
  <2>3. \A g \in Frame : lsn'[g] = lsn[g] \/ (g = f /\ lsn'[g] = Max2(lsn[f], mark[t].lsn))
    BY <1>2, <1>3 DEF Inv, TypeOK
  <2> QED
    BY <2>1, <2>2, <2>3, Numbers
<1>5. mark[t].dirty => mark[t].lsn <= lsn'[f]
  <2>1. mark[t].lsn <= Max2(lsn[f], mark[t].lsn)
    BY <1>2, Max2Type DEF Inv, TypeOK
  <2> QED
    BY <1>2, <1>3, <2>1 DEF Inv, TypeOK
<1>6. RecordInv'
  <2> SUFFICES ASSUME NEW g \in Frame, page'[g] # NoPage PROVE Recorded(g)'
    BY DEF RecordInv
  <2>1. Recorded(g)
    BY <1>1 DEF Inv, RecordInv
  <2>2. CASE bytes[g].lsn <= lsn[g] \/ bytes[g].lsn <= flushed
    <3>1. bytes'[g].lsn <= lsn'[g] \/ bytes'[g].lsn <= flushed'
      BY <1>1, <1>4, <2>2, Numbers
    <3> QED
      BY <3>1 DEF Recorded
  <2>3. ASSUME NEW u \in Thread, MarkedBy(u, g) PROVE Recorded(g)'
    <3>1. CASE u = t
      <4>1. g = f /\ mark[t].dirty /\ bytes[f].lsn <= mark[t].lsn
        BY <2>3, <3>1 DEF MarkedBy
      <4>2. bytes'[g].lsn <= lsn'[g]
        BY <1>1, <1>2, <1>4, <1>5, <4>1, Numbers
      <4> QED
        BY <4>2 DEF Recorded
    <3>2. CASE u # t
      <4>1. MarkedBy(u, g)'
        BY <1>1, <2>3, <3>2, OthersStay DEF MarkedBy
      <4> QED
        BY <4>1 DEF Recorded
    <3> QED
      BY <3>1, <3>2
  <2> QED
    BY <2>1, <2>2, <2>3 DEF Recorded
<1>7. MarkInv'
  BY <1>1, <1>4, MarksStay DEF Pinning
<1>8. WalRule'
  BY <1>1 DEF Inv, WalRule, InUse
<1> QED
  BY <1>6, <1>7, <1>8 DEF LogInv

(* The log, whatever the step. *)
LEMMA LogNext == Inv /\ Next => LogInv'
<1> SUFFICES ASSUME Inv, Next PROVE LogInv'
  OBVIOUS
<1>0. pc \in [Thread -> Labels] /\ page \in [Frame -> Page \cup {NoPage}]
  BY DEF Inv, TypeOK
<1>1. ASSUME NEW t \in Thread, NEW p \in Page, NEW how \in {"read", "write"}, Fetch(t, p, how)
      PROVE  LogInv'
  <2>0. Call(t) /\ pc[t] = "idle"
    BY <1>1 DEF Call, Fetch
  <2>1. CASE Miss(t, p)
    <3>1. /\ UNCHANGED << bytes, lsn, flushed, disk >> /\ pc'[t] \notin Pinning
          /\ \E f \in Frame : FindFrame(t, f)
      BY <1>0, <1>1, <2>1 DEF Fetch, Miss, FindFrame, PickFrame, Goto, Pinning
    <3>2. UNCHANGED page \/ \E f \in Frame : Unmap(f)
      BY <3>1 DEF FindFrame, PickFrame
    <3>3. \A f \in Frame : page'[f] # NoPage => page'[f] = page[f]
      BY <1>0, <3>2 DEF Unmap
    <3> QED
      BY <2>0, <3>1, <3>3, ListsLog
  <2>2. CASE Hit(t, p, how)
    <3>1. UNCHANGED << page, bytes, lsn, flushed, disk, mark >>
      BY <1>1, <2>2 DEF Fetch, Hit
    <3>2. WalRule' /\ RecordInv'
      BY <2>0, <3>1, SameDisk, RecordsStay, OthersStay, Numbers
    <3>3. MarkInv'
      <4> SUFFICES ASSUME NEW f \in Frame, NEW u \in Thread,
                          pc'[u] \in Pinning, frame'[u] = f, ~ mark'[u].dirty
                   PROVE  mark'[u].lsn <= lsn'[f]
        BY DEF MarkInv, Pinners, Pinning
      <4>1. CASE u = t
        <5>1. mark[t] = Clean
          BY <2>0 DEF Inv, ThreadInv
        <5> QED
          BY <3>1, <4>1, <5>1, Numbers DEF Clean
      <4>2. CASE u # t
        <5>1. u \in Pinners(f)
          BY <2>0, <4>2, OthersStay DEF Pinners, Pinning
        <5> QED
          BY <3>1, <5>1 DEF Inv, MarkInv
      <4> QED
        BY <4>1, <4>2
    <3> QED
      BY <3>2, <3>3 DEF LogInv
  <2> QED
    BY <1>1, <2>1, <2>2 DEF Fetch
<1>2. ASSUME NEW t \in Thread, NewPage(t) PROVE LogInv'
  <2>1. /\ UNCHANGED << bytes, lsn, flushed, disk >> /\ pc'[t] \notin Pinning
        /\ pc[t] = "idle" /\ Call(t) /\ \E f \in Frame : FindFrame(t, f)
    BY <1>0, <1>2 DEF NewPage, FindFrame, PickFrame, Goto, Pinning, Call
  <2>2. UNCHANGED page \/ \E f \in Frame : Unmap(f)
    BY <2>1 DEF FindFrame, PickFrame
  <2>3. \A f \in Frame : page'[f] # NoPage => page'[f] = page[f]
    BY <1>0, <2>2 DEF Unmap
  <2> QED
    BY <2>1, <2>3, ListsLog
<1>3. ASSUME NEW t \in Thread, FlushAll(t) \/ \E p \in Page : FlushPage(t, p) PROVE LogInv'
  <2>1. /\ UNCHANGED << bytes, lsn, flushed, disk, page >> /\ pc'[t] \notin Pinning
        /\ pc[t] = "idle" /\ Call(t)
    BY <1>0, <1>3 DEF FlushAll, FlushPage, StartFlush, Goto, Pinning, Call, frameVars
  <2> QED
    BY <2>1, ListsLog
<1>4. ASSUME NEW t \in Thread, NEW p \in Page, DeletePage(t, p) PROVE LogInv'
  <2>1. /\ Call(t) /\ UNCHANGED << bytes, flushed, threadVars >> /\ pc[t] = "idle"
        /\ \A q \in Page : disk'[q] \in Content => disk'[q] = disk[q]
    BY <1>4, PageStates DEF DeletePage, Call, Inv, TypeOK
  <2>2. \/ UNCHANGED << page, lsn >>
        \/ /\ table[p] \in Frame /\ pins[table[p]] = 0
           /\ page' = [page EXCEPT ![table[p]] = NoPage]
           /\ lsn' = [lsn EXCEPT ![table[p]] = 0]
    BY <1>4 DEF DeletePage, Forget, Unmap, Inv, TypeOK
  <2>3. ASSUME NEW f \in Frame
        PROVE  /\ lsn'[f] \in Nat
               /\ lsn'[f] = lsn[f] \/ (page'[f] = NoPage /\ pins[f] = 0)
               /\ page'[f] # NoPage => page[f] # NoPage
    <3>1. CASE UNCHANGED << page, lsn >>
      BY <3>1, Numbers
    <3>2. CASE page' = [page EXCEPT ![table[p]] = NoPage] /\ lsn' = [lsn EXCEPT ![table[p]] = 0]
      BY <1>0, <2>2, <3>2, Numbers DEF Inv, TypeOK
    <3> QED
      BY <2>2, <3>1, <3>2
  <2>4. /\ \A f \in Frame : page'[f] # NoPage =>
              page[f] # NoPage /\ lsn'[f] \in Nat /\ lsn[f] <= lsn'[f]
        /\ \A f \in Frame : pins[f] = 0 \/ (lsn[f] <= lsn'[f] /\ lsn'[f] \in Nat)
    BY <2>3, Numbers
  <2>5. WalRule' /\ RecordInv'
    BY <2>1, <2>4, SameDisk, RecordsStay, Numbers DEF threadVars
  <2>6. MarkInv'
    BY <2>1, <2>4, MarksStay DEF threadVars, Pinning
  <2> QED
    BY <2>5, <2>6 DEF LogInv
<1>5. ASSUME NEW t \in Thread, FailFill(t) \/ EndFlush(t) \/ Release(t) PROVE LogInv'
  <2>1. /\ UNCHANGED << bytes, lsn, flushed, disk, page >> /\ pc'[t] \notin Pinning
        /\ pc[t] # "guard" /\ Progress(t)
    BY <1>0, <1>5 DEF FailFill, EndFlush, Release, Return, Goto, Pinning, Progress,
                      frameVars, managerVars
  <2> QED
    BY <2>1, ListsLog
<1>6. ASSUME NEW t \in Thread, ReadLsn(t) \/ TakeLock(t) PROVE LogInv'
  <2>1. /\ UNCHANGED << page, bytes, lsn, flushed, disk, frame >>
        /\ pc[t] \in {"pinned", "lock"} /\ Progress(t)
    BY <1>6 DEF ReadLsn, TakeLock, Progress, frameVars, managerVars
  <2>2. WalRule' /\ RecordInv'
    BY <2>1, SameDisk, RecordsStay, OthersStay, Numbers
  <2>3. MarkInv'
    <3> SUFFICES ASSUME NEW f \in Frame, NEW u \in Thread,
                        pc'[u] \in Pinning, frame'[u] = f, ~ mark'[u].dirty
                 PROVE  mark'[u].lsn <= lsn'[f]
      BY DEF MarkInv, Pinners, Pinning
    <3>1. u \in Pinners(f)
      BY <2>1, OthersStay DEF Pinners, Pinning
    <3>2. mark'[u] = mark[u] \/ mark'[u].lsn = lsn[f]
      <4>1. CASE ReadLsn(t)
        BY <2>1, <4>1 DEF ReadLsn, Inv, TypeOK
      <4>2. CASE TakeLock(t)
        BY <4>2 DEF TakeLock
      <4> QED
        BY <1>6, <4>1, <4>2
    <3> QED
      BY <2>1, <3>1, <3>2, Numbers DEF Inv, MarkInv
  <2> QED
    BY <2>2, <2>3 DEF LogInv
<1>7. ASSUME NEW l \in Lsn, RecordWalSync(l) PROVE LogInv'
  <2>1. /\ flushed' = l /\ l \in Nat /\ flushed <= l
        /\ UNCHANGED << page, bytes, lsn, disk, pc, intent, frame, mark >>
    BY <1>7, Numbers, ContentType DEF RecordWalSync, frameVars, threadVars
  <2>2. WalRule' /\ RecordInv'
    BY <2>1, SameDisk, RecordsStay, Numbers
  <2>3. MarkInv'
    BY <2>1 DEF Inv, MarkInv, Pinners
  <2> QED
    BY <2>2, <2>3 DEF LogInv
<1>8. ASSUME NEW t \in Thread, Call(t) PROVE LogInv'
  BY <1>1, <1>2, <1>3, <1>4, <1>8, ModifyLog DEF Call
<1>9. ASSUME NEW t \in Thread, Progress(t) PROVE LogInv'
  BY <1>5, <1>6, <1>9, WritersLog, InstallLog, UnpinLog DEF Progress
<1> QED
  BY <1>7, <1>8, <1>9 DEF Next

-----------------------------------------------------------------------------
(* The invariant. *)

LEMMA InjectionCardinality ==
    ASSUME NEW S, IsFiniteSet(S), NEW T, IsFiniteSet(T), NEW f \in [S -> T],
           \A x, y \in S : f[x] = f[y] => x = y
    PROVE  ~ (Cardinality(T) < Cardinality(S))
BY FS_PigeonHole

(* At the start the free list names every frame. *)
LEMMA InitFree == Init => FreeInv /\ free \in Seq(Frame) /\ Free = Frame
<1> SUFFICES ASSUME Init PROVE FreeInv /\ free \in Seq(Frame) /\ Free = Frame
  OBVIOUS
<1> DEFINE N == Cardinality(Frame)
<1>1. N \in Nat /\ IsFiniteSet(Frame)
  BY PoolConstants, FS_CardinalityType
<1>2. free \in [1 .. N -> Frame] /\ \A i, j \in DOMAIN free : free[i] = free[j] => i = j
  BY DEF Init
<1>3. free \in Seq(Frame) /\ FreeInv
  BY <1>1, <1>2 DEF FreeInv
<1>4. IsFiniteSet(1 .. N) /\ Cardinality(1 .. N) = N
  BY <1>1, FS_Interval
<1>5. ASSUME NEW f \in Frame, f \notin Free PROVE FALSE
  <2>0. Cardinality(Frame) = N
    OBVIOUS
  <2> HIDE DEF N
  <2>1. free \in [1 .. N -> Frame \ {f}]
    BY <1>2, <1>5 DEF Free
  <2>2. IsFiniteSet(Frame \ {f}) /\ Cardinality(Frame \ {f}) = N - 1
    BY <1>1, <1>5, <2>0, FS_RemoveElement
  <2>3. Cardinality(Frame \ {f}) < Cardinality(1 .. N)
    BY <1>1, <1>4, <2>2
  <2>4. \A i, j \in 1 .. N : free[i] = free[j] => i = j
    BY <1>2
  <2> QED
    BY <1>4, <2>1, <2>2, <2>3, <2>4, InjectionCardinality
<1>6. Free \subseteq Frame
  BY <1>2 DEF Free
<1> QED
  BY <1>3, <1>5, <1>6

LEMMA InitInv == Init => Inv
<1> SUFFICES ASSUME Init PROVE Inv
  OBVIOUS
<1>1. FreeInv /\ free \in Seq(Frame) /\ Free = Frame
  BY InitFree
<1>2. TypeOK
  BY <1>1, ContentType DEF Init, TypeOK, Labels, Clean
<1>3. ASSUME NEW t \in Thread PROVE ThreadInv(t)
  BY PoolConstants DEF Init, ThreadInv, Inside, Clean
<1>4. TableInv /\ MutexInv
  BY PoolConstants DEF Init, TableInv, MutexInv
<1>5. ASSUME NEW f \in Frame PROVE PlaceInv(f)
  BY <1>1, PoolConstants DEF Init, PlaceInv, Held
<1>6. ASSUME NEW f \in Frame PROVE Pinners(f) = {}
  BY DEF Init, Pinners
<1>7. ASSUME NEW f \in Frame PROVE PinInv(f)
  BY <1>6, <1>7, FS_EmptySet DEF Init, PinInv
<1>8. LockInv /\ MarkInv
  BY <1>6 DEF Init, LockInv, Holds, MarkInv
<1>9. WalRule /\ RecordInv
  BY PageStates DEF Init, WalRule, InUse, RecordInv
<1> QED
  BY <1>1, <1>2, <1>3, <1>4, <1>5, <1>7, <1>8, <1>9 DEF Inv

LEMMA NextInv == Inv /\ [Next]_vars => Inv'
<1> SUFFICES ASSUME Inv, [Next]_vars PROVE Inv'
  OBVIOUS
<1>1. CASE Next
  <2>1. TypeOK' /\ ThreadsInv' /\ FramesInv' /\ LockInv' /\ LogInv'
    BY <1>1, TypesNext, FramesNext, LocksNext, LogNext
  <2>2. \A f \in Frame : PinInv(f)'
    BY <1>1, PinsNext
  <2> QED
    BY <2>1, <2>2 DEF Inv, ThreadsInv, FramesInv, LogInv
<1>2. CASE UNCHANGED vars
  <2> USE <1>2 DEF vars, frameVars, managerVars, threadVars
  <2>1. TypeOK' /\ (\A t \in Thread : ThreadInv(t)')
    BY DEF Inv, TypeOK, ThreadInv
  <2>2. TableInv' /\ FreeInv' /\ MutexInv' /\ LockInv'
    BY DEF Inv, TableInv, FreeInv, MutexInv, LockInv, Holds, InUse
  <2>3. \A f \in Frame : PlaceInv(f)' /\ PinInv(f)'
    BY DEF Inv, PlaceInv, PinInv, Held, Free, InUse, Pinners
  <2>4. WalRule' /\ RecordInv' /\ MarkInv'
    BY DEF Inv, WalRule, RecordInv, Recorded, MarkedBy, MarkInv, InUse, Pinners
  <2> QED
    BY <2>1, <2>2, <2>3, <2>4 DEF Inv
<1> QED
  BY <1>1, <1>2

(* How often the free list names a frame. *)
LEMMA FreeOnce ==
    ASSUME Inv, NEW f \in Frame
    PROVE  Cardinality({i \in DOMAIN free : free[i] = f}) = IF f \in Free THEN 1 ELSE 0
<1>1. CASE f \in Free
  <2>1. PICK j \in DOMAIN free : free[j] = f
    BY <1>1 DEF Free
  <2>2. {i \in DOMAIN free : free[i] = f} = {j}
    BY <2>1 DEF Inv, FreeInv
  <2> QED
    BY <1>1, <2>2, FS_Singleton
<1>2. CASE f \notin Free
  <2>1. {i \in DOMAIN free : free[i] = f} = {}
    BY <1>2 DEF Free
  <2> QED
    BY <1>2, <2>1, FS_EmptySet
<1> QED
  BY <1>1, <1>2

(* The lost frames are the ones without a page that are neither free nor in
   hand, and only FailRead adds to them. *)
LostInv ==
    \A f \in Frame : f \in lost <=> page[f] = NoPage /\ f \notin Free /\ ~ Held(f)

(* A step that moves no frame. *)
LEMMA LostStays ==
    ASSUME LostInv, UNCHANGED << page, free, lost >>,
           \A f \in Frame : Held(f)' <=> Held(f)
    PROVE  LostInv'
BY DEF LostInv, Free

(* Nobody has a frame in hand, neither before nor after. *)
LEMMA OutsideLost ==
    ASSUME Inv, LostInv, NEW t \in Thread, pc[t] \notin Inside, pc'[t] \notin Inside,
           \A u \in Thread : u # t => pc'[u] = pc[u] /\ frame'[u] = frame[u],
           UNCHANGED << page, mutex, free, lost >>
    PROVE  LostInv'
<1>1. \A f \in Frame : Held(f)' <=> Held(f)
  BY DEF Held, Inside
<1> QED
  BY <1>1, LostStays

LEMMA FindLost ==
    ASSUME Inv, LostInv, NEW t \in Thread, pc[t] = "idle", mutex = Nobody,
           \E f \in Frame : FindFrame(t, f), UNCHANGED lost
    PROVE  LostInv'
<1>1. PICK f \in Frame : FindFrame(t, f)
  OBVIOUS
<1>2. PickFrame(t, f) /\ frame' = [frame EXCEPT ![t] = f] /\ mutex' = t
  BY <1>1 DEF FindFrame
<1>3. /\ Free' = Free \ {f}
      /\ \/ pc' = [pc EXCEPT ![t] = "evict"] /\ page[f] # NoPage /\ UNCHANGED page
         \/ pc' = [pc EXCEPT ![t] = "fill"] /\ page[f] # NoPage /\ Unmap(f)
         \/ pc' = [pc EXCEPT ![t] = "fill"] /\ page[f] = NoPage /\ UNCHANGED page
      /\ f \in Free \/ f \in evictable
  BY <1>2, PickFrameEffect DEF Inv
<1>4. frame'[t] = f /\ pc'[t] \in {"evict", "fill"}
  BY <1>2, <1>3 DEF Inv, TypeOK
<1>5. Held(f)' /\ \A g \in Frame : ~ Held(g) /\ (g # f => ~ Held(g)')
  BY <1>2, <1>4, PoolConstants DEF Held
<1>6. \A g \in Frame : g # f => page'[g] = page[g]
  BY <1>3 DEF Unmap, Inv, TypeOK
<1>7. f \notin lost
  BY <1>3 DEF LostInv, Inv, PlaceInv
<1> QED
  BY <1>3, <1>5, <1>6, <1>7 DEF LostInv

(* The thread inside the mutex: it has no second frame in hand, and where it
   gives up its frame, that has a page, is free or was lost in a read. *)
LEMMA InsideLost ==
    ASSUME Inv, LostInv, NEW t \in Thread,
           Evict(t) \/ FailEvict(t) \/ FillFetch(t) \/ FillNew(t) \/ FailFill(t)
    PROVE  LostInv'
<1> DEFINE f == frame[t]
<1>1. pc[t] \in {"evict", "fill"}
  BY DEF Evict, FailEvict, FillFetch, FillNew, FailFill
<1>2. mutex = t /\ f \in Frame /\ Held(f) /\ Nobody \notin Thread
  BY <1>1, InsideHas, PoolConstants DEF Inside
<1>3. \A g \in Frame : g # f => ~ Held(g)
  BY <1>2 DEF Held
<1>4. f \notin lost /\ f \notin Free /\ (pc[t] = "fill" <=> page[f] = NoPage)
  BY <1>2 DEF LostInv, Inv, PlaceInv
<1>5. CASE Evict(t)
  <2>1. /\ UNCHANGED << free, lost, mutex, frame >> /\ Unmap(f)
        /\ pc' = [pc EXCEPT ![t] = "fill"]
    BY <1>5 DEF Evict, Goto
  <2>2. page' = [page EXCEPT ![f] = NoPage] /\ pc'[t] = "fill"
    BY <2>1 DEF Unmap, Inv, TypeOK
  <2>3. Held(f)' /\ \A g \in Frame : g # f => ~ Held(g)' /\ page'[g] = page[g]
    BY <1>2, <2>1, <2>2 DEF Held, Inv, TypeOK
  <2> QED
    BY <1>2, <1>3, <1>4, <2>1, <2>3 DEF LostInv, Free
<1>6. CASE FailEvict(t)
  <2>1. UNCHANGED << page, free, lost >> /\ mutex' = Nobody /\ pc[t] = "evict"
    BY <1>6 DEF FailEvict, frameVars
  <2>2. \A g \in Frame : ~ Held(g)'
    BY <1>2, <2>1 DEF Held
  <2> QED
    BY <1>2, <1>3, <1>4, <2>1, <2>2 DEF LostInv, Free
<1>7. CASE FillFetch(t) \/ FillNew(t)
  <2>1. /\ UNCHANGED << free, lost >> /\ mutex' = Nobody
        /\ \E p \in Page : page' = [page EXCEPT ![f] = p]
    <3>1. FillFetch(t) => target[t] \in Page
      BY DEF FillFetch, Inv, ThreadInv
    <3> QED
      BY <1>7, <3>1 DEF FillFetch, FillNew, Install
  <2>2. page'[f] # NoPage /\ \A g \in Frame : g # f => page'[g] = page[g]
    BY <1>2, <2>1, PoolConstants DEF Inv, TypeOK
  <2>3. \A g \in Frame : ~ Held(g)'
    BY <1>2, <2>1 DEF Held
  <2> QED
    BY <1>2, <1>3, <1>4, <2>1, <2>2, <2>3 DEF LostInv, Free
<1>8. CASE FailFill(t)
  <2>1. UNCHANGED page /\ mutex' = Nobody /\ pc[t] = "fill" /\ (FailRead(t) \/ FailAlloc(t))
    BY <1>8 DEF FailFill, frameVars
  <2>2. \A g \in Frame : ~ Held(g)'
    BY <1>2, <2>1 DEF Held
  <2>3. CASE FailRead(t)
    <3>1. lost' = lost \cup {f} /\ Free' = Free
      BY <2>3 DEF FailRead, Free
    <3> QED
      BY <1>2, <1>3, <1>4, <2>1, <2>2, <3>1 DEF LostInv
  <2>4. CASE FailAlloc(t)
    <3>1. free \in Seq(Frame) /\ FreeInv
      BY DEF Inv, TypeOK
    <3>2. lost' = lost /\ Free' = Free \cup {f}
      BY <1>2, <1>4, <2>4, <3>1, FreePush DEF FailAlloc
    <3> QED
      BY <1>2, <1>3, <1>4, <2>1, <2>2, <3>2 DEF LostInv
  <2> QED
    BY <2>1, <2>3, <2>4
<1> QED
  BY <1>5, <1>6, <1>7, <1>8

LEMMA FlushLost ==
    ASSUME Inv, LostInv, NEW t \in Thread,
           FlushAll(t) \/ (\E p \in Page : FlushPage(t, p))
              \/ FlushFrame(t) \/ FailFlush(t) \/ EndFlush(t)
    PROVE  LostInv'
<1>1. UNCHANGED << page, free, lost >>
  BY DEF FlushAll, FlushPage, StartFlush, FlushFrame, FailFlush, EndFlush, frameVars
<1>2. \/ mutex = Nobody /\ mutex' = t /\ pc' = [pc EXCEPT ![t] = "flush"]
      \/ pc[t] = "flush" /\ mutex' = mutex /\ pc' = pc
      \/ pc[t] = "flush" /\ mutex' = Nobody
  BY DEF FlushAll, FlushPage, StartFlush, FlushFrame, FailFlush, EndFlush, Goto
<1>3. pc[t] = "flush" => mutex = t
  BY InsideHas DEF Inside
<1>4. \A f \in Frame : ~ Held(f) /\ ~ Held(f)'
  BY <1>2, <1>3, PoolConstants DEF Held, Inv, TypeOK
<1> QED
  BY <1>1, <1>4, LostStays

LEMMA DeleteLost ==
    ASSUME Inv, LostInv, NEW t \in Thread, NEW p \in Page, DeletePage(t, p)
    PROVE  LostInv'
<1>1. mutex = Nobody /\ mutex' = Nobody /\ Nobody \notin Thread /\ lost' = lost
  BY PoolConstants DEF DeletePage
<1>2. \A f \in Frame : ~ Held(f) /\ ~ Held(f)'
  BY <1>1 DEF Held
<1>3. CASE table[p] = NoFrame
  BY <1>1, <1>2, <1>3, LostStays DEF DeletePage
<1>4. CASE table[p] \in Frame
  <2> DEFINE f == table[p]
  <2>1. Forget(f) /\ page[f] = p /\ p # NoPage
    BY <1>4, PoolConstants DEF DeletePage, Inv, TableInv
  <2>2. page' = [page EXCEPT ![f] = NoPage] /\ free' = Append(free, f)
    BY <2>1 DEF Forget, Unmap
  <2>3. free \in Seq(Frame) /\ FreeInv /\ f \notin Free
    BY <1>4, <2>1 DEF Inv, TypeOK, PlaceInv
  <2>4. Free' = Free \cup {f}
    BY <1>4, <2>2, <2>3, FreePush
  <2>5. f \notin lost /\ \A g \in Frame : g # f => page'[g] = page[g]
    BY <1>4, <2>1, <2>2 DEF LostInv, Inv, TypeOK
  <2> QED
    BY <1>1, <1>2, <2>4, <2>5 DEF LostInv
<1> QED
  BY <1>3, <1>4 DEF Inv, TypeOK

(* A frame is lost in a failed read, or not at all. *)
LEMMA LostNext == Inv /\ LostInv /\ [Next]_vars => LostInv'
<1> SUFFICES ASSUME Inv, LostInv, [Next]_vars PROVE LostInv'
  OBVIOUS
<1>0. pc \in [Thread -> Labels] /\ frame \in [Thread -> Frame \cup {NoFrame}]
  BY DEF Inv, TypeOK
<1>1. ASSUME NEW t \in Thread, NEW p \in Page, NEW how \in {"read", "write"}, Fetch(t, p, how)
      PROVE  LostInv'
  <2>1. pc[t] = "idle" /\ mutex = Nobody /\ lost' = lost
    BY <1>1 DEF Fetch
  <2>2. CASE Hit(t, p, how)
    <3>1. UNCHANGED << page, mutex, free >>
      BY <2>2 DEF Hit
    <3>2. \A f \in Frame : ~ Held(f) /\ ~ Held(f)'
      BY <2>1, <3>1, PoolConstants DEF Held
    <3> QED
      BY <2>1, <3>1, <3>2, LostStays
  <2>3. CASE Miss(t, p)
    BY <2>1, <2>3, FindLost DEF Miss
  <2> QED
    BY <1>1, <2>2, <2>3 DEF Fetch
<1>2. ASSUME NEW t \in Thread, NewPage(t) PROVE LostInv'
  BY <1>2, FindLost DEF NewPage
<1>3. ASSUME NEW t \in Thread, NEW v \in Value, NEW l \in Lsn, Modify(t, v, l) PROVE LostInv'
  <2>1. UNCHANGED << page, mutex, free, lost, pc, frame >>
    BY <1>3 DEF Modify, managerVars
  <2> QED
    BY <2>1, LostStays DEF Held
<1>4. ASSUME NEW t \in Thread, ReadLsn(t) \/ TakeLock(t) \/ Unpin(t) \/ Release(t) PROVE LostInv'
  <2>1. pc[t] \notin Inside /\ UNCHANGED << page, mutex, free, lost >>
    BY <1>4 DEF ReadLsn, TakeLock, Unpin, Release, frameVars, managerVars, Inside
  <2>2. /\ pc' \in {[pc EXCEPT ![t] = l] : l \in {"lock", "guard", "release", "idle"}}
        /\ frame' = frame \/ frame' = [frame EXCEPT ![t] = NoFrame]
    BY <1>4 DEF ReadLsn, TakeLock, Unpin, Release, Return, Goto
  <2>3. /\ pc'[t] \notin Inside
        /\ \A u \in Thread : u # t => pc'[u] = pc[u] /\ frame'[u] = frame[u]
    BY <1>0, <2>2 DEF Inside
  <2> QED
    BY <2>1, <2>3, OutsideLost
<1>5. ASSUME NEW l \in Lsn, RecordWalSync(l) PROVE LostInv'
  <2>1. UNCHANGED << page, mutex, free, lost, pc, frame >>
    BY <1>5 DEF RecordWalSync, frameVars, threadVars
  <2> QED
    BY <2>1, LostStays DEF Held
<1>6. ASSUME NEW t \in Thread, Call(t) PROVE LostInv'
  BY <1>1, <1>2, <1>3, <1>6, DeleteLost, FlushLost DEF Call
<1>7. ASSUME NEW t \in Thread, Progress(t) PROVE LostInv'
  BY <1>4, <1>7, InsideLost, FlushLost DEF Progress
<1>8. CASE UNCHANGED vars
  <2>1. UNCHANGED << page, mutex, free, lost, pc, frame >>
    BY <1>8 DEF vars, frameVars, managerVars, threadVars
  <2> QED
    BY <2>1, LostStays DEF Held
<1> QED
  BY <1>5, <1>6, <1>7, <1>8 DEF Next

LEMMA LostInit == Init => LostInv
<1> SUFFICES ASSUME Init, NEW f \in Frame PROVE f \notin lost /\ f \in Free
  BY DEF LostInv
<1> QED
  BY InitFree DEF Init

LEMMA Accounted == Inv /\ LostInv => FramesAccounted
<1> SUFFICES ASSUME Inv, LostInv, mutex = Nobody, NEW f \in Frame
             PROVE  /\ pins[f] = Cardinality(Pinners(f))
                    /\ Cardinality({i \in DOMAIN free : free[i] = f})
                         + (IF f \in evictable THEN 1 ELSE 0)
                         + (IF Pinners(f) # {} THEN 1 ELSE 0) = IF f \in lost THEN 0 ELSE 1
  BY DEF FramesAccounted, Inv
<1>1. PlaceInv(f) /\ ~ Held(f) /\ PinInv(f)
  BY PoolConstants DEF Inv, Held
<1>2. Pinners(f) # {} <=> pins[f] # 0
  BY <1>1, PinnersFinite DEF PinInv
<1>3. f \in lost <=> page[f] = NoPage /\ f \notin Free
  BY <1>1 DEF LostInv
<1>4. CASE page[f] = NoPage
  <2>1. pins[f] = 0 /\ f \notin evictable
    BY <1>1, <1>4 DEF PlaceInv
  <2> QED
    BY <1>1, <1>2, <1>3, <1>4, <2>1, FreeOnce DEF PinInv
<1>5. CASE page[f] # NoPage
  <2>1. f \notin Free /\ (f \in evictable <=> pins[f] = 0)
    BY <1>1, <1>5 DEF PlaceInv
  <2> QED
    BY <1>1, <1>2, <1>3, <1>5, <2>1, FreeOnce DEF PinInv
<1> QED
  BY <1>4, <1>5

(* Between calls every frame is on the free list, with the replacer or pinned as
   often as its count says, in one place only; the frames in no place are those
   that a failed pager.read left there (buffer_pool.rs:768), and no others. *)
THEOREM FramesAreAccounted == Spec => []FramesAccounted
BY InitInv, NextInv, LostInit, LostNext, Accounted, PTL DEF Spec

(* A pinned frame keeps its page, and no second frame has it. *)
THEOREM GuardsKeep == Spec => []GuardsKeepTheirPage
<1>1. Inv => GuardsKeepTheirPage
  <2> SUFFICES ASSUME Inv, NEW f \in Frame, NEW t \in Pinners(f), NEW p \in Page
               PROVE  (p = target[t]) <=> (page[f] = p /\ table[p] = f)
    BY DEF GuardsKeepTheirPage
  <2>1. t \in Thread /\ pc[t] \in Pinning /\ frame[t] = f
    BY DEF Pinners, Pinning
  <2> QED
    BY <2>1, PinnerHas
<1> QED
  BY <1>1, InitInv, NextInv, PTL DEF Spec

(* buffer_pool.rs:28: no page reaches the disk before the log does. *)
THEOREM LogComesFirst == Spec => []WalRule
<1>1. Inv => WalRule
  BY DEF Inv
<1> QED
  BY <1>1, InitInv, NextInv, PTL DEF Spec

-----------------------------------------------------------------------------
(* A frame that is not dirty holds what is on disk, unless the guard that
   changed it is still open. *)
Changed(t, f) ==
    pc[t] = "guard" /\ intent[t] = "write" /\ frame[t] = f /\ mark[t].dirty

Stored(f) == bytes[f] = disk[page[f]] \/ \E t \in Thread : Changed(t, f)

StoredInv == \A f \in Frame : page[f] # NoPage /\ ~ dirty[f] => Stored(f)

(* A step that changes no bytes, and puts on disk only what the frames hold. *)
LEMMA StoredStays ==
    ASSUME Inv, StoredInv, UNCHANGED bytes,
           \A f \in Frame : page'[f] # NoPage =>
               /\ page'[f] = page[f]
               /\ \/ disk'[page[f]] = bytes[f]
                  \/ disk'[page[f]] = disk[page[f]] /\ (~ dirty'[f] => ~ dirty[f]),
           \A t \in Thread : pc[t] = "guard" =>
               /\ pc'[t] = pc[t] /\ intent'[t] = intent[t] /\ frame'[t] = frame[t]
               /\ mark'[t] = mark[t]
    PROVE  StoredInv'
<1> SUFFICES ASSUME NEW f \in Frame, page'[f] # NoPage, ~ dirty'[f] PROVE Stored(f)'
  BY DEF StoredInv
<1>1. CASE disk'[page[f]] = bytes[f]
  BY <1>1 DEF Stored
<1>2. CASE disk'[page[f]] # bytes[f]
  <2>1. disk'[page'[f]] = disk[page[f]] /\ Stored(f)
    BY <1>2 DEF StoredInv
  <2>2. ASSUME NEW t \in Thread, Changed(t, f) PROVE Changed(t, f)'
    BY <2>2 DEF Changed
  <2> QED
    BY <2>1, <2>2 DEF Stored
<1> QED
  BY <1>1, <1>2

(* Where write-backs leave the disk. *)
LEMMA WriteBackDisk ==
    ASSUME Inv, NEW f \in Frame, page[f] \in Page, WriteBack(f) \/ FailWriteBack(f)
    PROVE  /\ \A p \in Page : p # page[f] => disk'[p] = disk[p]
           /\ disk'[page[f]] \in {disk[page[f]], bytes[f]}
           /\ WriteBack(f) => disk'[page[f]] = bytes[f]
           /\ \A g \in Frame : page[g] = page[f] => g = f
           /\ table[page[f]] = f
<1>1. \A g \in Frame : page[g] = page[f] => g = f
  BY DEF Inv, TableInv
<1>2. UNCHANGED disk \/ disk' = [disk EXCEPT ![page[f]] = bytes[f]]
  BY DEF WriteBack, FailWriteBack
<1>3. WriteBack(f) => disk' = [disk EXCEPT ![page[f]] = bytes[f]]
  BY DEF WriteBack
<1>4. table[page[f]] = f
  BY DEF Inv, TableInv
<1> QED
  BY <1>1, <1>2, <1>3, <1>4 DEF Inv, TypeOK

(* What Evict, FailEvict, FlushFrame and FailFlush do to frames and disk. *)
LEMMA WritersDisk ==
    ASSUME Inv, NEW t \in Thread,
           Evict(t) \/ FailEvict(t) \/ FlushFrame(t) \/ FailFlush(t)
    PROVE  /\ UNCHANGED bytes
           /\ pc[t] # "guard" /\ pc'[t] # "guard"
           /\ \/ UNCHANGED << page, table, dirty, disk >>
              \/ \E f \in Frame :
                    /\ page[f] \in Page /\ table[page[f]] = f
                    /\ \A g \in Frame : page[g] = page[f] => g = f
                    /\ \A p \in Page : p # page[f] => disk'[p] = disk[p]
                    /\ disk'[page[f]] \in {disk[page[f]], bytes[f]}
                    /\ \/ UNCHANGED << page, table, dirty >>
                       \/ /\ disk'[page[f]] = bytes[f]
                          /\ dirty' = [dirty EXCEPT ![f] = FALSE]
                          /\ UNCHANGED << page, table >> \/ Unmap(f)
<1>1. /\ UNCHANGED bytes
      /\ pc[t] \in Inside /\ pc[t] # "guard" /\ pc'[t] # "guard"
  BY DEF Evict, FailEvict, FlushFrame, FailFlush, frameVars, Goto, Return, Inside, Inv, TypeOK
<1>2. CASE Evict(t)
  <2>1. frame[t] \in Frame /\ page[frame[t]] \in Page
    BY <1>2, InsideHas DEF Evict, Inside
  <2> QED
    BY <1>1, <1>2, <2>1, WriteBackDisk DEF Evict
<1>3. CASE FailEvict(t)
  <2>1. frame[t] \in Frame /\ page[frame[t]] \in Page
    BY <1>3, InsideHas DEF FailEvict, Inside
  <2> QED
    BY <1>1, <1>3, <2>1, WriteBackDisk DEF FailEvict, frameVars
<1>4. CASE FlushFrame(t) \/ FailFlush(t)
  <2>1. \A f \in todo[t] : f \in Frame /\ page[f] \in Page
    BY <1>1, InsideHas
  <2>2. CASE FlushFrame(t)
    <3>1. PICK f \in todo[t] :
             IF dirty[f]
             THEN WriteBack(f) /\ dirty' = [dirty EXCEPT ![f] = FALSE]
             ELSE UNCHANGED << flushed, disk, dirty >>
      BY <2>2 DEF FlushFrame
    <3>2. UNCHANGED << page, table >> /\ f \in Frame /\ page[f] \in Page
      BY <2>1, <2>2 DEF FlushFrame
    <3> QED
      BY <1>1, <3>1, <3>2, WriteBackDisk
  <2>3. CASE FailFlush(t)
    <3>1. PICK f \in todo[t] : FailWriteBack(f)
      BY <2>3 DEF FailFlush
    <3>2. UNCHANGED << page, table, dirty >> /\ f \in Frame /\ page[f] \in Page
      BY <2>1, <2>3 DEF FailFlush, frameVars
    <3> QED
      BY <1>1, <3>1, <3>2, WriteBackDisk
  <2> QED
    BY <1>4, <2>2, <2>3
<1> QED
  BY <1>2, <1>3, <1>4

LEMMA StoredNext == Inv /\ StoredInv /\ Next => StoredInv'
<1> SUFFICES ASSUME Inv, StoredInv, Next PROVE StoredInv'
  OBVIOUS
<1>0. /\ pc \in [Thread -> Labels] /\ page \in [Frame -> Page \cup {NoPage}]
      /\ dirty \in [Frame -> BOOLEAN] /\ table \in [Page -> Frame \cup {NoFrame}]
  BY DEF Inv, TypeOK
(* Steps that only move frames between lists, or nothing. *)
<1>1. ASSUME UNCHANGED << bytes, dirty, disk >>,
             \A f \in Frame : page'[f] # NoPage => page'[f] = page[f],
             NEW t \in Thread, Call(t) \/ Progress(t), pc[t] # "guard"
      PROVE  StoredInv'
  BY <1>1, StoredStays, OthersStay
<1>2. ASSUME NEW t \in Thread, NEW p \in Page, NEW how \in {"read", "write"}, Fetch(t, p, how)
      PROVE  StoredInv'
  <2>1. UNCHANGED << bytes, dirty, disk >> /\ Call(t) /\ pc[t] # "guard"
    BY <1>2 DEF Fetch, Hit, Miss, Call
  <2>2. UNCHANGED page \/ \E f \in Frame : Unmap(f)
    BY <1>2 DEF Fetch, Hit, Miss, FindFrame, PickFrame
  <2>3. \A f \in Frame : page'[f] # NoPage => page'[f] = page[f]
    BY <1>0, <2>2 DEF Unmap
  <2> QED
    BY <1>1, <2>1, <2>3
<1>3. ASSUME NEW t \in Thread, NewPage(t) PROVE StoredInv'
  <2>1. UNCHANGED << bytes, dirty, disk >> /\ Call(t) /\ pc[t] # "guard"
    BY <1>3 DEF NewPage, Call
  <2>2. UNCHANGED page \/ \E f \in Frame : Unmap(f)
    BY <1>3 DEF NewPage, FindFrame, PickFrame
  <2>3. \A f \in Frame : page'[f] # NoPage => page'[f] = page[f]
    BY <1>0, <2>2 DEF Unmap
  <2> QED
    BY <1>1, <2>1, <2>3
<1>4. ASSUME NEW t \in Thread, FlushAll(t) \/ \E p \in Page : FlushPage(t, p) PROVE StoredInv'
  <2>1. UNCHANGED << bytes, dirty, disk, page >> /\ Call(t) /\ pc[t] # "guard"
    BY <1>4 DEF FlushAll, FlushPage, StartFlush, Call, frameVars
  <2> QED
    BY <1>1, <2>1
<1>5. ASSUME NEW t \in Thread, NEW p \in Page, DeletePage(t, p) PROVE StoredInv'
  <2>1. /\ Call(t) /\ pc[t] # "guard" /\ UNCHANGED << bytes, pc, intent, frame, mark >>
        /\ \A q \in Page : q # p => disk'[q] = disk[q]
    BY <1>5 DEF DeletePage, Call, threadVars, Inv, TypeOK
  <2>2. ASSUME NEW f \in Frame, page'[f] # NoPage
        PROVE  page'[f] = page[f] /\ page[f] # p /\ dirty'[f] = dirty[f]
    <3>1. CASE table[p] = NoFrame
      BY <1>5, <3>1, PoolConstants DEF DeletePage, Inv, TableInv
    <3>2. CASE table[p] \in Frame
      <4>1. Unmap(table[p]) /\ dirty' = [dirty EXCEPT ![table[p]] = FALSE]
        BY <1>5, <3>2, PoolConstants DEF DeletePage, Forget
      <4>2. page[f] = p => f = table[p]
        BY DEF Inv, TableInv
      <4> QED
        BY <1>0, <2>2, <3>2, <4>1, <4>2 DEF Unmap
    <3> QED
      BY <1>0, <3>1, <3>2
  <2>3. \A f \in Frame : page[f] \in Page \cup {NoPage}
    BY <1>0
  <2> QED
    BY <2>1, <2>2, <2>3, StoredStays
<1>6. ASSUME NEW t \in Thread, NEW v \in Value, NEW l \in Lsn, Modify(t, v, l) PROVE StoredInv'
  <2>1. /\ pc[t] = "guard" /\ intent[t] = "write"
        /\ UNCHANGED << page, dirty, disk, pc, intent, frame >>
        /\ mark'[t].dirty
        /\ \A f \in Frame : f # frame[t] => bytes'[f] = bytes[f]
        /\ \A u \in Thread : u # t => mark'[u] = mark[u]
    BY <1>6 DEF Modify, Inv, TypeOK
  <2> SUFFICES ASSUME NEW f \in Frame, page'[f] # NoPage, ~ dirty'[f] PROVE Stored(f)'
    BY DEF StoredInv
  <2>2. CASE f = frame[t]
    <3>1. Changed(t, f)'
      BY <2>1, <2>2 DEF Changed
    <3> QED
      BY <3>1 DEF Stored
  <2>3. CASE f # frame[t]
    <3>1. Stored(f) /\ bytes'[f] = bytes[f]
      BY <2>1, <2>3 DEF StoredInv
    <3>2. ASSUME NEW u \in Thread, Changed(u, f) PROVE Changed(u, f)'
      BY <2>1, <2>3, <3>2 DEF Changed
    <3> QED
      BY <2>1, <3>1, <3>2 DEF Stored
  <2> QED
    BY <2>2, <2>3
<1>7. ASSUME NEW t \in Thread, Evict(t) \/ FailEvict(t) \/ FlushFrame(t) \/ FailFlush(t)
      PROVE  StoredInv'
  <2>1. UNCHANGED bytes /\ pc[t] # "guard" /\ Progress(t)
    BY <1>7, WritersDisk DEF Progress
  <2>2. ASSUME NEW g \in Frame, page'[g] # NoPage
        PROVE  /\ page'[g] = page[g]
               /\ \/ disk'[page[g]] = bytes[g]
                  \/ disk'[page[g]] = disk[page[g]] /\ (~ dirty'[g] => ~ dirty[g])
    <3>1. CASE UNCHANGED << page, table, dirty, disk >>
      BY <3>1
    <3>2. CASE \E f \in Frame :
                    /\ page[f] \in Page /\ table[page[f]] = f
                    /\ \A h \in Frame : page[h] = page[f] => h = f
                    /\ \A p \in Page : p # page[f] => disk'[p] = disk[p]
                    /\ disk'[page[f]] \in {disk[page[f]], bytes[f]}
                    /\ \/ UNCHANGED << page, table, dirty >>
                       \/ /\ disk'[page[f]] = bytes[f]
                          /\ dirty' = [dirty EXCEPT ![f] = FALSE]
                          /\ UNCHANGED << page, table >> \/ Unmap(f)
      <4>1. PICK f \in Frame :
                    /\ page[f] \in Page /\ table[page[f]] = f
                    /\ \A h \in Frame : page[h] = page[f] => h = f
                    /\ \A p \in Page : p # page[f] => disk'[p] = disk[p]
                    /\ disk'[page[f]] \in {disk[page[f]], bytes[f]}
                    /\ \/ UNCHANGED << page, table, dirty >>
                       \/ /\ disk'[page[f]] = bytes[f]
                          /\ dirty' = [dirty EXCEPT ![f] = FALSE]
                          /\ UNCHANGED << page, table >> \/ Unmap(f)
        BY <3>2
      <4>2. page'[g] = page[g] /\ page[g] \in Page
        BY <1>0, <2>2, <4>1 DEF Unmap
      <4>3. CASE g = f
        BY <4>1, <4>2, <4>3
      <4>4. CASE g # f
        <5>1. page[g] # page[f] /\ dirty'[g] = dirty[g]
          BY <1>0, <4>1, <4>4
        <5> QED
          BY <4>1, <4>2, <5>1
      <4> QED
        BY <4>3, <4>4
    <3> QED
      BY <1>7, <3>1, <3>2, WritersDisk
  <2> QED
    BY <2>1, <2>2, StoredStays, OthersStay
<1>8. ASSUME NEW t \in Thread, FillFetch(t) \/ FillNew(t) PROVE StoredInv'
  <2> DEFINE f == frame[t]
  <2>1. f \in Frame /\ Progress(t) /\ pc[t] # "guard"
    BY <1>8, InsideHas DEF FillFetch, FillNew, Inside, Progress
  <2>2. /\ \E p \in Page : \E content, isDirty : Install(t, f, p, content, isDirty)
        /\ dirty'[f] \/ bytes'[f] = disk'[page'[f]]
        /\ \A q \in Page : InUse(q) => disk'[q] = disk[q]
    <3>1. CASE FillFetch(t)
      <4>1. Install(t, f, target[t], disk[target[t]], FALSE) /\ disk' = disk /\ intent[t] # "new"
        BY <3>1 DEF FillFetch
      <4>2. target[t] \in Page
        BY <3>1, <4>1 DEF FillFetch, Inv, ThreadInv
      <4>3. bytes'[f] = disk[target[t]] /\ page'[f] = target[t]
        BY <2>1, <4>1 DEF Install, Inv, TypeOK
      <4> QED
        BY <4>1, <4>2, <4>3
    <3>2. CASE FillNew(t)
      <4>1. PICK p \in Page : /\ disk[p] = Unowned /\ disk' = [disk EXCEPT ![p] = Zeroed]
                              /\ Install(t, f, p, Zeroed, TRUE)
        BY <3>2 DEF FillNew
      <4>2. dirty'[f]
        BY <1>0, <2>1, <4>1 DEF Install
      <4>3. \A q \in Page : InUse(q) => disk'[q] = disk[q]
        BY <4>1, PageStates DEF InUse, Inv, TypeOK
      <4> QED
        BY <4>1, <4>2, <4>3
    <3> QED
      BY <1>8, <3>1, <3>2
  <2> SUFFICES ASSUME NEW g \in Frame, page'[g] # NoPage, ~ dirty'[g] PROVE Stored(g)'
    BY DEF StoredInv
  <2>3. CASE g = f
    BY <2>2, <2>3 DEF Stored
  <2>4. CASE g # f
    <3>1. page'[g] = page[g] /\ bytes'[g] = bytes[g] /\ dirty'[g] = dirty[g]
      BY <2>2, <2>4 DEF Install, Inv, TypeOK
    <3>2. disk'[page[g]] = disk[page[g]]
      BY <1>0, <2>2, <3>1 DEF Inv, PlaceInv
    <3>3. Stored(g)
      BY <3>1 DEF StoredInv
    <3>4. ASSUME NEW u \in Thread, Changed(u, g) PROVE Changed(u, g)'
      <4>1. u # t
        BY <2>1, <3>4 DEF Changed
      <4> QED
        BY <2>1, <3>4, <4>1, OthersStay DEF Changed
    <3> QED
      BY <3>1, <3>2, <3>3, <3>4 DEF Stored
  <2> QED
    BY <2>3, <2>4
<1>9. ASSUME NEW t \in Thread, FailFill(t) \/ EndFlush(t) \/ Release(t) \/ ReadLsn(t) \/ TakeLock(t)
      PROVE  StoredInv'
  <2>1. UNCHANGED << bytes, dirty, disk, page >> /\ Progress(t) /\ pc[t] # "guard"
    BY <1>9 DEF FailFill, EndFlush, Release, ReadLsn, TakeLock, Progress, frameVars
  <2> QED
    BY <1>1, <2>1
<1>10. ASSUME NEW t \in Thread, Unpin(t) PROVE StoredInv'
  <2> DEFINE f == frame[t]
  <2>1. /\ pc[t] = "guard" /\ Progress(t)
        /\ UNCHANGED << page, bytes, disk, intent, frame, mark >>
    BY <1>10 DEF Unpin, Progress
  <2>2. f \in Frame /\ table[target[t]] = f
    BY <2>1, PinnerHas DEF Pinning
  <2>3. dirty' = IF mark[t].dirty THEN [dirty EXCEPT ![f] = TRUE] ELSE dirty
    BY <1>10, <2>2, PoolConstants DEF Unpin, Stamp
  <2> SUFFICES ASSUME NEW g \in Frame, page'[g] # NoPage, ~ dirty'[g] PROVE Stored(g)'
    BY DEF StoredInv
  <2>4. ~ dirty[g] /\ (g = f => ~ mark[t].dirty)
    BY <1>0, <2>2, <2>3
  <2>5. Stored(g)
    BY <2>1, <2>4 DEF StoredInv
  <2>6. ASSUME NEW u \in Thread, Changed(u, g) PROVE Changed(u, g)'
    <3>1. u # t
      BY <2>4, <2>6 DEF Changed
    <3> QED
      BY <2>1, <2>6, <3>1, OthersStay DEF Changed
  <2> QED
    BY <2>1, <2>5, <2>6 DEF Stored
<1>11. ASSUME NEW l \in Lsn, RecordWalSync(l) PROVE StoredInv'
  BY <1>11, StoredStays DEF RecordWalSync, frameVars, threadVars
<1>12. ASSUME NEW t \in Thread, Call(t) PROVE StoredInv'
  BY <1>2, <1>3, <1>4, <1>5, <1>6, <1>12 DEF Call
<1>13. ASSUME NEW t \in Thread, Progress(t) PROVE StoredInv'
  BY <1>7, <1>8, <1>9, <1>10, <1>13 DEF Progress
<1> QED
  BY <1>11, <1>12, <1>13 DEF Next

LEMMA StoredInit == Init => StoredInv
BY DEF Init, StoredInv

LEMMA StoredStep == Inv /\ StoredInv /\ [Next]_vars => StoredInv'
<1>1. ASSUME StoredInv, UNCHANGED vars PROVE StoredInv'
  BY <1>1 DEF StoredInv, Stored, Changed, vars, frameVars, threadVars
<1> QED
  BY <1>1, StoredNext

-----------------------------------------------------------------------------
(* The refinement mapping: what clients see of the pages, and who has them
   open. *)
Look(d, tbl, b, p) ==
    IF d[p] \notin Content THEN Unowned
    ELSE IF tbl[p] # NoFrame THEN b[tbl[p]] ELSE d[p]

Pages == [p \in Page |-> Seen(p)]
Readers == Using("read")
Writers == Using("write")

LEMMA PagesLook ==
    /\ Pages = [p \in Page |-> Look(disk, table, bytes, p)]
    /\ Pages' = [p \in Page |-> Look(disk', table', bytes', p)]
BY DEF Pages, Seen, InUse, Look

(* A step of the store under the mapping, or none. *)
StoreStep ==
    Store!Next \/ (Pages' = Pages /\ Readers' = Readers /\ Writers' = Writers)

(* Who uses a page before a step still does after it. *)
LEMMA UsingStays ==
    ASSUME \A u \in Thread :
              /\ pc'[u] = "guard" <=> pc[u] = "guard"
              /\ pc[u] = "guard" => intent'[u] = intent[u] /\ target'[u] = target[u]
    PROVE  Readers' = Readers /\ Writers' = Writers
BY DEF Readers, Writers, Using

LEMMA OutsideGuards ==
    ASSUME Inv, NEW t \in Thread, Call(t) \/ Progress(t), pc[t] # "guard", pc'[t] # "guard"
    PROVE  Readers' = Readers /\ Writers' = Writers
BY UsingStays, OthersStay

(* A step that changes nothing clients see. *)
LEMMA StoreStutter ==
    ASSUME Readers' = Readers, Writers' = Writers,
           \A p \in Page : Look(disk', table', bytes', p) = Look(disk, table, bytes, p)
    PROVE  StoreStep
BY PagesLook DEF StoreStep

(* Whoever uses a page has it pinned in the frame the table names. *)
LEMMA UserHas ==
    ASSUME Inv, NEW u \in Thread, NEW p \in Page,
           << u, p >> \in Readers \/ << u, p >> \in Writers
    PROVE  /\ pc[u] = "guard" /\ target[u] = p /\ frame[u] \in Frame
           /\ table[p] = frame[u] /\ pins[frame[u]] # 0
           /\ << u, p >> \in Readers => Holds(u, frame[u], "read")
           /\ << u, p >> \in Writers => Holds(u, frame[u], "write")
<1>1. /\ pc[u] = "guard" /\ target[u] = p
      /\ << u, p >> \in Readers => intent[u] = "read"
      /\ << u, p >> \in Writers => intent[u] = "write"
  BY DEF Readers, Writers, Using
<1>2. frame[u] \in Frame /\ table[p] = frame[u] /\ pins[frame[u]] # 0
  BY <1>1, PinnerHas DEF Pinning
<1> QED
  BY <1>1, <1>2 DEF Holds

(* The frame of a page that is in use, and what clients see. *)
LEMMA SeenOf ==
    ASSUME Inv, NEW p \in Page
    PROVE  /\ ~ InUse(p) => table[p] = NoFrame /\ Look(disk, table, bytes, p) = Unowned
           /\ InUse(p) /\ table[p] = NoFrame => Look(disk, table, bytes, p) = disk[p]
           /\ InUse(p) /\ table[p] # NoFrame =>
                 /\ table[p] \in Frame /\ page[table[p]] = p
                 /\ Look(disk, table, bytes, p) = bytes[table[p]]
           /\ Look(disk, table, bytes, p) \in Content \/ ~ InUse(p)
<1>1. table[p] \in Frame => page[table[p]] = p /\ InUse(p)
  <2>1. table[p] \in Frame => page[table[p]] = p
    BY DEF Inv, TableInv
  <2> QED
    BY <2>1, PoolConstants DEF Inv, PlaceInv
<1>2. table[p] \in Frame \cup {NoFrame}
  BY DEF Inv, TypeOK
<1>3. InUse(p) <=> disk[p] \in Content
  BY DEF InUse
<1> QED
  BY <1>1, <1>2, <1>3 DEF Look, Inv, TypeOK

(* Taking the page off a frame that agrees with the disk. *)
LEMMA UnmapSeen ==
    ASSUME Inv, NEW f \in Frame, page[f] \in Page, Unmap(f), UNCHANGED bytes,
           disk'[page[f]] = bytes[f], \A p \in Page : p # page[f] => disk'[p] = disk[p]
    PROVE  \A p \in Page : Look(disk', table', bytes', p) = Look(disk, table, bytes, p)
<1> SUFFICES ASSUME NEW p \in Page
             PROVE  Look(disk', table', bytes', p) = Look(disk, table, bytes, p)
  OBVIOUS
<1>1. table' = [q \in Page |-> IF q = page[f] THEN NoFrame ELSE table[q]]
  BY DEF Unmap
<1>2. CASE p = page[f]
  <2>1. table[p] = f /\ InUse(p) /\ bytes[f] \in Content /\ table[p] # NoFrame
    BY <1>2, PoolConstants DEF Inv, TableInv, PlaceInv, TypeOK
  <2>2. table'[p] = NoFrame /\ disk'[p] = bytes[f]
    BY <1>1, <1>2
  <2> QED
    BY <2>1, <2>2 DEF Look, InUse
<1>3. CASE p # page[f]
  <2>1. table'[p] = table[p] /\ disk'[p] = disk[p]
    BY <1>1, <1>3
  <2> QED
    BY <2>1 DEF Look
<1> QED
  BY <1>2, <1>3

(* find_available_frame takes a victim that is clean, or leaves it its page. *)
LEMMA FindStep ==
    ASSUME Inv, StoredInv, NEW t \in Thread, Call(t), pc[t] = "idle",
           \E f \in Frame : FindFrame(t, f), UNCHANGED << bytes, disk >>
    PROVE  StoreStep
<1>1. PICK f \in Frame : PickFrame(t, f)
  BY DEF FindFrame
<1>2. pc'[t] # "guard"
  BY <1>1 DEF PickFrame, Goto, Inv, TypeOK
<1>3. Readers' = Readers /\ Writers' = Writers
  BY <1>2, OutsideGuards
<1>4. \/ UNCHANGED table
      \/ f \in evictable /\ ~ dirty[f] /\ Unmap(f)
  BY <1>1 DEF PickFrame, Victims
<1>5. CASE UNCHANGED table
  BY <1>3, <1>5, StoreStutter
<1>6. CASE f \in evictable /\ ~ dirty[f] /\ Unmap(f)
  <2>1. page[f] \in Page /\ pins[f] = 0
    BY <1>6 DEF Inv, PlaceInv, TypeOK
  <2>2. \A u \in Thread : ~ Changed(u, f)
    BY <2>1, Unpinned DEF Changed, Pinners
  <2>3. bytes[f] = disk[page[f]]
    BY <1>6, <2>1, <2>2, PoolConstants DEF StoredInv, Stored
  <2> QED
    BY <1>3, <1>6, <2>1, <2>3, UnmapSeen, StoreStutter
<1> QED
  BY <1>4, <1>5, <1>6

(* Write-backs. *)
LEMMA WritersStep ==
    ASSUME Inv, NEW t \in Thread,
           Evict(t) \/ FailEvict(t) \/ FlushFrame(t) \/ FailFlush(t)
    PROVE  StoreStep
<1>1. UNCHANGED bytes /\ Readers' = Readers /\ Writers' = Writers
  BY WritersDisk, OutsideGuards DEF Progress
<1>2. CASE UNCHANGED << page, table, dirty, disk >>
  BY <1>1, <1>2, StoreStutter
<1>3. ASSUME NEW f \in Frame, page[f] \in Page, table[page[f]] = f,
             \A p \in Page : p # page[f] => disk'[p] = disk[p],
             disk'[page[f]] \in {disk[page[f]], bytes[f]}, UNCHANGED table
      PROVE  StoreStep
  <2>1. ASSUME NEW p \in Page
        PROVE  Look(disk', table', bytes', p) = Look(disk, table, bytes, p)
    <3>1. CASE p = page[f]
      <4>1. disk[p] \in Content /\ disk'[p] \in Content /\ table[p] # NoFrame
        BY <1>3, <3>1, PoolConstants DEF Inv, PlaceInv, InUse, TypeOK
      <4> QED
        BY <1>1, <1>3, <4>1 DEF Look
    <3>2. CASE p # page[f]
      BY <1>1, <1>3, <3>2 DEF Look
    <3> QED
      BY <3>1, <3>2
  <2> QED
    BY <1>1, <2>1, StoreStutter
<1>4. ASSUME NEW f \in Frame, page[f] \in Page, Unmap(f), disk'[page[f]] = bytes[f],
             \A p \in Page : p # page[f] => disk'[p] = disk[p]
      PROVE  StoreStep
  BY <1>1, <1>4, UnmapSeen, StoreStutter
<1> QED
  BY <1>2, <1>3, <1>4, WritersDisk

(* A page is read into a frame: clients see what they saw. *)
LEMMA FillFetchStep ==
    ASSUME Inv, NEW t \in Thread, FillFetch(t)
    PROVE  StoreStep
<1> DEFINE f == frame[t]  p == target[t]
<1>1. /\ pc[t] = "fill" /\ intent[t] # "new" /\ disk' = disk
      /\ Install(t, f, p, disk[p], FALSE) /\ pc'[t] # "guard"
  BY DEF FillFetch, Goto, AfterPin, Inv, TypeOK
<1>2. f \in Frame /\ mutex = t /\ Held(f)
  BY <1>1, InsideHas DEF Inside
<1>3. p \in Page /\ table[p] = NoFrame /\ InUse(p) /\ page[f] = NoPage
  BY <1>1, <1>2 DEF Inv, ThreadInv, MutexInv, PlaceInv
<1>4. Readers' = Readers /\ Writers' = Writers
  BY <1>1, OutsideGuards DEF Progress
<1>5. /\ \A q \in Page : table'[q] = IF q = p THEN f ELSE table[q]
      /\ \A g \in Frame : bytes'[g] = IF g = f THEN disk[p] ELSE bytes[g]
  BY <1>1, <1>2, <1>3 DEF Install, Inv, TypeOK
<1>6. ASSUME NEW q \in Page PROVE Look(disk', table', bytes', q) = Look(disk, table, bytes, q)
  <2>1. CASE q = p
    BY <1>1, <1>2, <1>3, <1>5, <2>1, PoolConstants DEF Look, InUse
  <2>2. CASE q # p
    <3>1. table[q] # f /\ table[q] \in Frame \cup {NoFrame}
      BY <1>2, <1>3, PoolConstants DEF Inv, TableInv, TypeOK
    <3> QED
      BY <1>1, <1>5, <2>2, <3>1 DEF Look
  <2> QED
    BY <2>1, <2>2
<1> QED
  BY <1>4, <1>6, StoreStutter

(* new_page allocates. *)
LEMMA FillNewStep ==
    ASSUME Inv, NEW t \in Thread, FillNew(t)
    PROVE  StoreStep
<1> DEFINE f == frame[t]
<1>1. pc[t] = "fill" /\ pc'[t] # "guard"
  BY DEF FillNew, Goto, Inv, TypeOK
<1>2. f \in Frame /\ Held(f) /\ page[f] = NoPage
  <2>1. f \in Frame /\ Held(f) /\ mutex = t
    BY <1>1, InsideHas DEF Inside
  <2> QED
    BY <1>1, <2>1 DEF Inv, PlaceInv
<1>3. PICK p \in Page : /\ disk[p] = Unowned /\ disk' = [disk EXCEPT ![p] = Zeroed]
                        /\ Install(t, f, p, Zeroed, TRUE)
  BY DEF FillNew
<1>4. Readers' = Readers /\ Writers' = Writers
  BY <1>1, OutsideGuards DEF Progress
<1>5. /\ \A q \in Page : table'[q] = IF q = p THEN f ELSE table[q]
      /\ \A g \in Frame : bytes'[g] = IF g = f THEN Zeroed ELSE bytes[g]
      /\ \A q \in Page : disk'[q] = IF q = p THEN Zeroed ELSE disk[q]
  BY <1>2, <1>3 DEF Install, Inv, TypeOK
<1>6. Look(disk, table, bytes, p) = Unowned /\ Look(disk', table', bytes', p) = Zeroed
  BY <1>2, <1>3, <1>5, PageStates, PoolConstants, ContentType DEF Look
<1>7. ASSUME NEW q \in Page, q # p
      PROVE  Look(disk', table', bytes', q) = Look(disk, table, bytes, q)
  <2>1. table[q] # f /\ table[q] \in Frame \cup {NoFrame}
    BY <1>2, PoolConstants DEF Inv, TableInv, TypeOK
  <2> QED
    BY <1>5, <1>7, <2>1 DEF Look
<1>8. Pages[p] = Unowned /\ Pages' = [Pages EXCEPT ![p] = Zeroed]
  BY <1>6, <1>7, PagesLook
<1>9. Store!Allocate(p)
  BY <1>4, <1>8 DEF Store!Allocate, Pages, Readers, Writers
<1> QED
  BY <1>9 DEF StoreStep, Store!Next

(* delete_page gives the page back: nobody has it open. *)
LEMMA DeleteStep ==
    ASSUME Inv, NEW t \in Thread, NEW p \in Page, DeletePage(t, p)
    PROVE  StoreStep
<1>1. /\ InUse(p) /\ UNCHANGED << bytes, pc, intent, target >>
      /\ \A q \in Page : q # p => disk'[q] = disk[q]
      /\ disk'[p] \notin Content
  BY PageStates DEF DeletePage, threadVars, Inv, TypeOK
<1>2. /\ \A q \in Page : q # p => table'[q] = table[q]
      /\ table[p] # NoFrame => pins[table[p]] = 0
  <2>1. CASE table[p] = NoFrame
    BY <2>1 DEF DeletePage
  <2>2. CASE table[p] # NoFrame
    <3>1. table[p] \in Frame /\ page[table[p]] = p
      BY <2>2 DEF Inv, TypeOK, TableInv
    <3>2. pins[table[p]] = 0 /\ Unmap(table[p])
      BY <2>2 DEF DeletePage, Forget
    <3> QED
      BY <3>1, <3>2 DEF Unmap
  <2> QED
    BY <2>1, <2>2
<1>3. Readers' = Readers /\ Writers' = Writers
  BY <1>1, UsingStays
<1>4. \A u \in Thread : << u, p >> \notin Readers /\ << u, p >> \notin Writers
  BY <1>2, UserHas, PoolConstants
<1>5. Pages[p] # Unowned
  BY <1>1, SeenOf, PagesLook, PageStates
<1>6. Look(disk', table', bytes', p) = Unowned
  BY <1>1 DEF Look
<1>7. ASSUME NEW q \in Page, q # p
      PROVE  Look(disk', table', bytes', q) = Look(disk, table, bytes, q)
  BY <1>1, <1>2, <1>7 DEF Look
<1>8. Pages' = [Pages EXCEPT ![p] = Unowned]
  BY <1>6, <1>7, PagesLook
<1>9. Store!Release(p)
  BY <1>3, <1>4, <1>5, <1>8 DEF Store!Release, Store!IsOpen, Pages, Readers, Writers
<1> QED
  BY <1>9 DEF StoreStep, Store!Next

(* A guard is written through. *)
LEMMA ModifyStep ==
    ASSUME Inv, NEW t \in Thread, NEW v \in Value, NEW l \in Lsn, Modify(t, v, l)
    PROVE  StoreStep
<1> DEFINE f == frame[t]  p == target[t]
<1>1. /\ pc[t] = "guard" /\ intent[t] = "write"
      /\ UNCHANGED << page, table, disk, pc, intent, target >>
  BY DEF Modify, managerVars
<1>2. /\ f \in Frame /\ p \in Page /\ table[p] = f /\ page[f] = p /\ f # NoFrame
  BY <1>1, PinnerHas, PoolConstants DEF Pinning
<1>3. PICK c \in Content : bytes' = [bytes EXCEPT ![f] = c]
  <2>1. Max2(bytes[f].lsn, l) \in Lsn
    BY <1>2, Max2Type, ContentType DEF Inv, TypeOK
  <2>2. [value |-> v, lsn |-> Max2(bytes[f].lsn, l)] \in Content
    BY <2>1, ContentType
  <2> QED
    BY <1>2, <2>2 DEF Modify, Inv, TypeOK
<1>4. Readers' = Readers /\ Writers' = Writers
  BY <1>1, UsingStays
<1>5. << t, p >> \in Writers
  BY <1>1, <1>2 DEF Writers, Using
<1>6. InUse(p)
  BY <1>2, PoolConstants DEF Inv, PlaceInv
<1>7. \A g \in Frame : bytes'[g] = IF g = f THEN c ELSE bytes[g]
  BY <1>3 DEF Inv, TypeOK
<1>8. Look(disk', table', bytes', p) = c
  BY <1>1, <1>2, <1>6, <1>7 DEF Look, InUse
<1>9. ASSUME NEW q \in Page, q # p
      PROVE  Look(disk', table', bytes', q) = Look(disk, table, bytes, q)
  <2>1. table[q] # f /\ table[q] \in Frame \cup {NoFrame}
    BY <1>2, <1>9 DEF Inv, TableInv, TypeOK
  <2> QED
    BY <1>1, <1>7, <2>1 DEF Look
<1>10. Pages' = [Pages EXCEPT ![p] = c]
  BY <1>8, <1>9, PagesLook
<1>11. Store!Write(t, p, c)
  BY <1>4, <1>5, <1>10 DEF Store!Write, Pages, Readers, Writers
<1> QED
  BY <1>2, <1>11 DEF StoreStep, Store!Next

(* The lock is taken: the page is open. *)
LEMMA OpenStep ==
    ASSUME Inv, NEW t \in Thread, TakeLock(t)
    PROVE  StoreStep
<1> DEFINE f == frame[t]  p == target[t]
<1>1. /\ pc[t] = "lock" /\ pc' = [pc EXCEPT ![t] = "guard"]
      /\ UNCHANGED << table, bytes, disk, intent, target >>
      /\ IF intent[t] = "write" THEN MayWrite(f) ELSE MayRead(f)
  BY DEF TakeLock, Goto, frameVars, managerVars
<1>2. /\ f \in Frame /\ p \in Page /\ table[p] = f /\ f # NoFrame
      /\ page[f] = p /\ intent[t] \in {"read", "write"}
  <2>1. intent[t] \in {"read", "write"}
    BY <1>1 DEF Inv, ThreadInv, TypeOK
  <2> QED
    BY <1>1, <2>1, PinnerHas, PoolConstants DEF Pinning
<1>3. InUse(p) /\ Pages[p] # Unowned
  <2>1. InUse(p)
    BY <1>2, PoolConstants DEF Inv, PlaceInv
  <2> QED
    BY <1>2, <2>1, SeenOf, PagesLook, PageStates
<1>4. Pages' = Pages
  BY <1>1, PagesLook
<1>5. pc'[t] = "guard" /\ \A u \in Thread : u # t => pc'[u] = pc[u]
  BY <1>1 DEF Inv, TypeOK
<1>6. CASE intent[t] = "read"
  <2>1. \A u \in Thread : << u, p >> \notin Writers
    BY <1>1, <1>2, <1>6, UserHas DEF MayRead, Writes
  <2>2. Readers' = Readers \cup {<< t, p >>} /\ Writers' = Writers
    <3>1. ASSUME NEW u \in Thread, NEW q \in Page
          PROVE  /\ << u, q >> \in Readers' <=> << u, q >> \in Readers \/ (u = t /\ q = p)
                 /\ << u, q >> \in Writers' <=> << u, q >> \in Writers
      BY <1>1, <1>2, <1>5, <1>6 DEF Readers, Writers, Using
    <3>2. /\ Readers \subseteq Thread \X Page /\ Readers' \subseteq Thread \X Page
          /\ Writers \subseteq Thread \X Page /\ Writers' \subseteq Thread \X Page
      BY DEF Readers, Writers, Using
    <3> QED
      BY <1>2, <3>1, <3>2
  <2>3. Store!OpenToRead(t, p)
    BY <1>3, <1>4, <2>1, <2>2 DEF Store!OpenToRead, Store!IsOpen, Pages, Readers, Writers
  <2> QED
    BY <1>2, <2>3 DEF StoreStep, Store!Next
<1>7. CASE intent[t] = "write"
  <2>1. \A u \in Thread : << u, p >> \notin Writers /\ << u, p >> \notin Readers
    BY <1>1, <1>2, <1>7, UserHas DEF MayWrite, Writes, Reads
  <2>2. Writers' = Writers \cup {<< t, p >>} /\ Readers' = Readers
    <3>1. ASSUME NEW u \in Thread, NEW q \in Page
          PROVE  /\ << u, q >> \in Writers' <=> << u, q >> \in Writers \/ (u = t /\ q = p)
                 /\ << u, q >> \in Readers' <=> << u, q >> \in Readers
      BY <1>1, <1>2, <1>5, <1>7 DEF Readers, Writers, Using
    <3>2. /\ Readers \subseteq Thread \X Page /\ Readers' \subseteq Thread \X Page
          /\ Writers \subseteq Thread \X Page /\ Writers' \subseteq Thread \X Page
      BY DEF Readers, Writers, Using
    <3> QED
      BY <1>2, <3>1, <3>2
  <2>3. Store!OpenToWrite(t, p)
    BY <1>3, <1>4, <2>1, <2>2 DEF Store!OpenToWrite, Store!IsOpen, Pages, Readers, Writers
  <2> QED
    BY <1>2, <2>3 DEF StoreStep, Store!Next
<1> QED
  BY <1>2, <1>6, <1>7

(* The guard unpins its page: it is closed. *)
LEMMA CloseStep ==
    ASSUME Inv, NEW t \in Thread, Unpin(t)
    PROVE  StoreStep
<1> DEFINE p == target[t]
<1>1. /\ pc[t] = "guard" /\ pc' = [pc EXCEPT ![t] = "release"]
      /\ UNCHANGED << table, bytes, disk, intent, target >>
  BY DEF Unpin, Goto
<1>2. p \in Page /\ intent[t] \in {"read", "write"}
  BY <1>1 DEF Inv, ThreadInv, TypeOK
<1>3. Pages' = Pages
  BY <1>1, PagesLook
<1>4. << t, p >> \in Readers \cup Writers
  BY <1>1, <1>2 DEF Readers, Writers, Using
<1>5. pc'[t] # "guard" /\ \A u \in Thread : u # t => pc'[u] = pc[u]
  BY <1>1 DEF Inv, TypeOK
<1>6. Readers' = Readers \ {<< t, p >>} /\ Writers' = Writers \ {<< t, p >>}
  <2>1. ASSUME NEW u \in Thread, NEW q \in Page
        PROVE  /\ << u, q >> \in Readers' <=> << u, q >> \in Readers /\ ~ (u = t /\ q = p)
               /\ << u, q >> \in Writers' <=> << u, q >> \in Writers /\ ~ (u = t /\ q = p)
    BY <1>1, <1>2, <1>5 DEF Readers, Writers, Using
  <2>2. /\ Readers \subseteq Thread \X Page /\ Readers' \subseteq Thread \X Page
        /\ Writers \subseteq Thread \X Page /\ Writers' \subseteq Thread \X Page
    BY DEF Readers, Writers, Using
  <2> QED
    BY <1>2, <2>1, <2>2
<1>7. Store!Close(t, p)
  BY <1>3, <1>4, <1>6 DEF Store!Close, Pages, Readers, Writers
<1> QED
  BY <1>2, <1>7 DEF StoreStep, Store!Next

(* Every step is a step of the store, or none of its. *)
LEMMA StoreSteps == Inv /\ StoredInv /\ Next => StoreStep
<1> SUFFICES ASSUME Inv, StoredInv, Next PROVE StoreStep
  OBVIOUS
<1>1. ASSUME UNCHANGED << bytes, table, disk >>, Readers' = Readers, Writers' = Writers
      PROVE  StoreStep
  BY <1>1, StoreStutter
<1>2. ASSUME NEW t \in Thread, NEW p \in Page, NEW how \in {"read", "write"}, Fetch(t, p, how)
      PROVE  StoreStep
  <2>0. Call(t) /\ pc[t] = "idle" /\ UNCHANGED << bytes, disk >>
    BY <1>2 DEF Call, Fetch, Hit, Miss
  <2>1. CASE Hit(t, p, how)
    <3>1. pc'[t] # "guard" /\ UNCHANGED table
      BY <2>1 DEF Hit, Goto, AfterPin, Inv, TypeOK
    <3> QED
      BY <1>1, <2>0, <3>1, OutsideGuards
  <2>2. CASE Miss(t, p)
    BY <2>0, <2>2, FindStep DEF Miss
  <2> QED
    BY <1>2, <2>1, <2>2 DEF Fetch
<1>3. ASSUME NEW t \in Thread, NewPage(t) PROVE StoreStep
  <2>1. Call(t) /\ pc[t] = "idle" /\ UNCHANGED << bytes, disk >> /\ \E f \in Frame : FindFrame(t, f)
    BY <1>3 DEF Call, NewPage
  <2> QED
    BY <2>1, FindStep
<1>4. ASSUME NEW t \in Thread, FlushAll(t) \/ \E p \in Page : FlushPage(t, p) PROVE StoreStep
  <2>1. /\ Call(t) /\ pc[t] # "guard" /\ pc'[t] # "guard"
        /\ UNCHANGED << bytes, table, disk >>
    BY <1>4 DEF Call, FlushAll, FlushPage, StartFlush, Goto, frameVars, Inv, TypeOK
  <2> QED
    BY <1>1, <2>1, OutsideGuards
<1>5. ASSUME NEW t \in Thread, FailFill(t) \/ EndFlush(t) \/ Release(t) \/ ReadLsn(t)
      PROVE  StoreStep
  <2>1. /\ Progress(t) /\ pc[t] # "guard" /\ pc'[t] # "guard"
        /\ UNCHANGED << bytes, table, disk >>
    BY <1>5 DEF Progress, FailFill, EndFlush, Release, ReadLsn, Return, Goto, frameVars,
                managerVars, Inv, TypeOK
  <2> QED
    BY <1>1, <2>1, OutsideGuards
<1>6. ASSUME NEW l \in Lsn, RecordWalSync(l) PROVE StoreStep
  <2>1. UNCHANGED << bytes, table, disk, pc, intent, target >>
    BY <1>6 DEF RecordWalSync, frameVars, threadVars
  <2> QED
    BY <1>1, <2>1, UsingStays
<1>7. ASSUME NEW t \in Thread, Call(t) PROVE StoreStep
  BY <1>2, <1>3, <1>4, <1>7, DeleteStep, ModifyStep DEF Call
<1>8. ASSUME NEW t \in Thread, Progress(t) PROVE StoreStep
  BY <1>5, <1>8, WritersStep, FillFetchStep, FillNewStep, OpenStep, CloseStep DEF Progress
<1> QED
  BY <1>6, <1>7, <1>8 DEF Next

(* The pool keeps the promise of a page store: whatever is evicted, flushed,
   read back or fails, a page changes only under the guard of its one writer,
   and nobody has it open when it is deleted. *)
THEOREM ImplementsStore == Spec => ImplementsPageStore
<1>1. Init => Store!Init
  BY PageStates DEF Init, Store!Init, Seen, InUse, Using
<1>2. Inv /\ StoredInv /\ [Next]_vars => [Store!Next]_(Store!vars)
  <2> SUFFICES ASSUME Inv, StoredInv, [Next]_vars PROVE [Store!Next]_(Store!vars)
    OBVIOUS
  <2>1. CASE UNCHANGED vars
    BY <2>1 DEF vars, frameVars, managerVars, threadVars, Store!vars, Seen, InUse, Using
  <2>2. CASE Next
    <3>1. StoreStep
      BY <2>2, StoreSteps
    <3> QED
      BY <3>1 DEF StoreStep, Pages, Readers, Writers, Store!vars
  <2> QED
    BY <2>1, <2>2
<1> QED
  BY <1>1, <1>2, InitInv, NextInv, StoredInit, StoredStep, PTL
  DEF Spec, ImplementsPageStore, Store!Spec

-----------------------------------------------------------------------------
(* The replacers. *)
Evictable == {f \in Clock!FrameId : ~ pinned[f]}

LEMMA LeastNatural ==
    ASSUME NEW S, S \subseteq Nat, S # {}
    PROVE  \E m \in S : \A x \in S : m <= x
<1>1. PICK m \in S : \A x \in Nat : << x, m >> \in OpToRel(<, Nat) => x \notin S
  BY NatLessThanWellFounded, WFMin
<1>2. \A x \in S : ~ (x < m)
  BY <1>1 DEF OpToRel
<1> QED BY <1>2

-----------------------------------------------------------------------------
(* CLOCK.  In its second round the hand comes by every frame. *)
LEMMA OnceRound ==
    ASSUME NEW f \in Clock!FrameId
    PROVE  (f + capacity) % capacity = f /\ (f + 2 * capacity) % capacity = f
BY ReplacerConstants, Z3 DEF Clock!FrameId

LEMMA HandIsFrame == ASSUME NEW n \in Nat PROVE n % capacity \in Clock!FrameId
BY ReplacerConstants, Z3 DEF Clock!FrameId

ClockInv == hand \in Clock!FrameId /\ pinned \in [Clock!FrameId -> BOOLEAN]

LEMMA SecondRoundMeets ==
    ASSUME ClockInv, NEW f \in Clock!FrameId
    PROVE  \E i \in capacity .. 2 * capacity - 1 : Clock!Candidate(i) = f
<1> USE ReplacerConstants DEF Clock!FrameId, ClockInv
<1>1. CASE f >= hand
  <2>1. /\ capacity + f - hand \in capacity .. 2 * capacity - 1
        /\ hand + (capacity + f - hand) = f + capacity
    BY <1>1
  <2> QED BY <2>1, OnceRound DEF Clock!Candidate
<1>2. CASE f < hand
  <2>1. /\ 2 * capacity + f - hand \in capacity .. 2 * capacity - 1
        /\ hand + (2 * capacity + f - hand) = f + 2 * capacity
    BY <1>2
  <2> QED BY <2>1, OnceRound DEF Clock!Candidate
<1> QED BY <1>1, <1>2

LEMMA ClockStep ==
    ASSUME ClockInv, Clock!Next
    PROVE  ClockInv' /\ [Abstract!Next]_Abstract!vars
<1> USE DEF ClockInv, Evictable
<1>1. CASE Clock!Victim
  <2>1. PICK i \in 0 .. 2 * capacity - 1 :
            /\ Clock!Takes(i) /\ outcome' = Clock!Candidate(i) /\ hand' = Clock!HandAfter(i)
            /\ pinned' = [pinned EXCEPT ![Clock!Candidate(i)] = TRUE]
    BY <1>1 DEF Clock!Victim, Clock!Stops
  <2>2. hand + i \in Nat /\ hand + i + 1 \in Nat
    BY ReplacerConstants DEF Clock!FrameId
  <2>3. Clock!Candidate(i) \in Clock!FrameId /\ hand' \in Clock!FrameId /\ ~ pinned[Clock!Candidate(i)]
    BY <2>1, <2>2, HandIsFrame DEF Clock!Candidate, Clock!HandAfter, Clock!Takes
  <2>4. Evictable' = Evictable \ {Clock!Candidate(i)}
    BY <2>1, <2>3
  <2> QED BY <2>1, <2>3, <2>4 DEF Abstract!Next, Abstract!Victim
<1>2. CASE Clock!VictimNone
  <2>1. /\ \A i \in 0 .. 2 * capacity - 1 : ~ Clock!Takes(i)
        /\ outcome' = Clock!None /\ UNCHANGED << hand, pinned >>
    BY <1>2 DEF Clock!VictimNone
  <2>2. ASSUME NEW f \in Clock!FrameId, ~ pinned[f] PROVE FALSE
    <3>1. PICK i \in capacity .. 2 * capacity - 1 : Clock!Candidate(i) = f
      BY SecondRoundMeets
    <3>2. i \in 0 .. 2 * capacity - 1 /\ i >= capacity
      BY ReplacerConstants
    <3> QED BY <2>1, <2>2, <3>1, <3>2 DEF Clock!Takes
  <2> QED BY <2>1, <2>2 DEF Abstract!Next, Abstract!VictimNone
<1>3. ASSUME NEW f \in Clock!FrameId, Clock!Access(f) \/ Clock!Unpin(f) \/ Clock!Remove(f)
      PROVE  ClockInv' /\ [Abstract!Next]_Abstract!vars
  <2>1. CASE Clock!Access(f) \/ Clock!Remove(f)
    <3>1. /\ pinned' = [pinned EXCEPT ![f] = TRUE] /\ UNCHANGED << hand, outcome >>
      BY <2>1 DEF Clock!Access, Clock!Remove
    <3>2. Evictable' = Evictable \ {f}
      BY <3>1
    <3> QED BY <3>1, <3>2 DEF Abstract!Next, Abstract!Pin
  <2>2. CASE Clock!Unpin(f)
    <3>1. /\ pinned' = [pinned EXCEPT ![f] = FALSE] /\ UNCHANGED << hand, outcome >>
      BY <2>2 DEF Clock!Unpin
    <3>2. Evictable' = Evictable \cup {f}
      BY <3>1
    <3> QED BY <3>1, <3>2 DEF Abstract!Next, Abstract!Unpin
  <2> QED BY <1>3, <2>1, <2>2
<1> QED
  BY <1>1, <1>2, <1>3 DEF Clock!Next

-----------------------------------------------------------------------------
(* LRU-K.  Some frame is preferred to all others whenever there is one. *)
LruTypes ==
    /\ current_timestamp \in Nat
    /\ pinned \in [Clock!FrameId -> BOOLEAN]
    /\ history \in [Clock!FrameId -> Seq(Nat)]
    /\ accesses \in [Clock!FrameId -> Seq(Nat)]

(* Times are of the past, and no two frames share one. *)
AccessTimes ==
    /\ \A f \in Clock!FrameId : \A i \in 1 .. Len(accesses[f]) :
          accesses[f][i] \in 1 .. current_timestamp
    /\ \A f, g \in Clock!FrameId : f # g =>
          \A i \in 1 .. Len(accesses[f]), j \in 1 .. Len(accesses[g]) :
              accesses[f][i] # accesses[g][j]

(* h is the end of the record a. *)
IsEndOf(h, a) ==
    /\ Len(a) < k => Len(h) = Len(a)
    /\ Len(a) >= k => Len(h) = k
    /\ \A i \in 1 .. Len(h) : h[i] = a[Len(a) - Len(h) + i]

HistoryIsEnd == \A f \in Clock!FrameId : IsEndOf(history[f], accesses[f])

LruInv == LruTypes /\ AccessTimes /\ HistoryIsEnd

LEMMA RecordedTypes ==
    ASSUME NEW h \in Seq(Nat), NEW a \in Seq(Nat), IsEndOf(h, a), NEW now \in Nat
    PROVE  /\ LruK!Recorded(h, now) \in Seq(Nat) /\ Append(a, now) \in Seq(Nat)
           /\ IsEndOf(LruK!Recorded(h, now), Append(a, now))
<1> USE ReplacerConstants
<1>1. PICK b : b = Append(a, now)
  OBVIOUS
<1>2. /\ b \in Seq(Nat) /\ Len(b) = Len(a) + 1 /\ Len(a) \in Nat /\ Len(h) \in Nat
      /\ \A i \in 1 .. Len(a) : b[i] = a[i]
      /\ b[Len(a) + 1] = now
  BY <1>1, AppendProperties, LenProperties
<1>3. /\ Len(a) < k => Len(h) = Len(a)
      /\ Len(a) >= k => Len(h) = k
      /\ \A i \in 1 .. Len(h) : h[i] = a[Len(a) - Len(h) + i]
  BY DEF IsEndOf
<1>4. CASE Len(h) = k
  <2>1. PICK t : t = Tail(h)
    OBVIOUS
  <2>2. PICK r : r = Append(t, now)
    OBVIOUS
  <2>3. h # << >>
    BY <1>4
  <2>4. /\ t \in Seq(Nat) /\ Len(t) = k - 1
        /\ \A i \in 1 .. Len(t) : t[i] = h[i + 1]
    BY <1>4, <2>1, <2>3, HeadTailProperties
  <2>5. /\ r \in Seq(Nat) /\ Len(r) = k
        /\ \A i \in 1 .. k - 1 : r[i] = t[i]
        /\ r[k] = now
    BY <2>2, <2>4, AppendProperties
  <2>6. LruK!Recorded(h, now) = r
    BY <1>4, <2>1, <2>2 DEF LruK!Recorded
  <2>7. Len(a) >= k /\ \A i \in 1 .. k : h[i] = a[Len(a) - k + i]
    <3>1. \A i \in 1 .. k : h[i] = a[Len(a) - k + i]
      BY <1>4, <1>3
    <3> QED BY <1>2, <1>4, <1>3, <3>1
  <2>8. ASSUME NEW i \in 1 .. k PROVE r[i] = b[Len(b) - k + i]
    <3>1. CASE i = k
      BY <1>2, <2>5, <3>1
    <3>2. CASE i # k
      <4>1. i \in 1 .. k - 1 /\ i + 1 \in 1 .. k
        BY <3>2
      <4>2. r[i] = a[Len(a) - k + (i + 1)]
        BY <2>4, <2>5, <2>7, <4>1
      <4>3. Len(a) - k + (i + 1) = Len(b) - k + i /\ Len(b) - k + i \in 1 .. Len(a)
        BY <1>2, <2>7, <4>1
      <4> QED BY <1>2, <4>2, <4>3
    <3> QED BY <3>1, <3>2
  <2>9. Len(b) >= k
    BY <1>2, <2>7
  <2>10. (Len(b) < k => Len(r) = Len(b)) /\ (Len(b) >= k => Len(r) = k)
    BY <1>2, <2>5, <2>9
  <2>11. IsEndOf(r, b)
    BY <2>5, <2>8, <2>10 DEF IsEndOf
  <2> QED BY <1>1, <1>2, <2>5, <2>6, <2>11
<1>5. CASE Len(h) # k
  <2>1. PICK r : r = Append(h, now)
    OBVIOUS
  <2>2. /\ r \in Seq(Nat) /\ Len(r) = Len(h) + 1
        /\ \A i \in 1 .. Len(h) : r[i] = h[i]
        /\ r[Len(h) + 1] = now
    BY <2>1, AppendProperties, LenProperties
  <2>3. LruK!Recorded(h, now) = r
    BY <1>5, <2>1 DEF LruK!Recorded
  <2>4. Len(a) < k /\ Len(h) = Len(a) /\ \A i \in 1 .. Len(h) : h[i] = a[i]
    <3>1. Len(a) < k /\ Len(h) = Len(a)
      BY <1>2, <1>3, <1>5
    <3>2. \A i \in 1 .. Len(h) : Len(a) - Len(h) + i = i
      BY <1>2, <3>1
    <3> QED BY <1>3, <3>1, <3>2
  <2>5. ASSUME NEW i \in 1 .. Len(r) PROVE r[i] = b[i]
    <3>1. CASE i = Len(h) + 1
      BY <1>2, <2>2, <2>4, <3>1
    <3>2. CASE i # Len(h) + 1
      <4>1. i \in 1 .. Len(h)
        BY <1>2, <2>2, <3>2
      <4> QED BY <1>2, <2>2, <2>4, <4>1
    <3> QED BY <3>1, <3>2
  <2>6. Len(b) = Len(r) /\ (Len(b) < k => Len(r) = Len(b)) /\ (Len(b) >= k => Len(r) = k)
    BY <1>2, <2>2, <2>4
  <2>7. \A i \in 1 .. Len(r) : Len(b) - Len(r) + i = i
    <3>1. Len(b) \in Nat /\ Len(r) = Len(b)
      BY <1>2, <2>6
    <3> QED BY <3>1
  <2>8. \A i \in 1 .. Len(r) : r[i] = b[Len(b) - Len(r) + i]
    <3> SUFFICES ASSUME NEW i \in 1 .. Len(r) PROVE r[i] = b[Len(b) - Len(r) + i]
      OBVIOUS
    <3>1. Len(b) - Len(r) + i = i
      BY <2>7
    <3>2. r[i] = b[i]
      BY <2>5
    <3> QED BY <3>1, <3>2, Zenon
  <2>9. IsEndOf(r, b)
    BY <2>6, <2>8 DEF IsEndOf
  <2> QED BY <1>1, <1>2, <2>2, <2>3, <2>9
<1> QED BY <1>4, <1>5

LEMMA SomeIsSelected ==
    ASSUME LruInv, Evictable # {}
    PROVE  \E f \in Clock!FrameId : LruK!Selected(f)
<1>1. Clock!FrameId \subseteq Nat
  BY ReplacerConstants DEF Clock!FrameId
<1>2. \A f \in Clock!FrameId : LruK!Front(f) \in Nat
  <2> SUFFICES ASSUME NEW f \in Clock!FrameId PROVE LruK!Front(f) \in Nat
    OBVIOUS
  <2>1. history[f] \in Seq(Nat)
    BY DEF LruInv, LruTypes
  <2>2. history[f] # << >> => history[f][1] \in Nat
    BY <2>1
  <2> QED BY <2>2 DEF LruK!Front
<1>3. ASSUME NEW S \in SUBSET Clock!FrameId, S # {}
      PROVE  \E f \in S : LruK!FirstOf(f, S)
  <2>1. PICK m \in {LruK!Front(f) : f \in S} : \A n \in {LruK!Front(f) : f \in S} : m <= n
    <3>1. {LruK!Front(f) : f \in S} \subseteq Nat /\ {LruK!Front(f) : f \in S} # {}
      BY <1>2, <1>3
    <3> QED BY <3>1, LeastNatural
  <2>2. {f \in S : LruK!Front(f) = m} \subseteq Nat /\ {f \in S : LruK!Front(f) = m} # {}
    BY <1>1, <2>1
  <2>3. PICK f \in {g \in S : LruK!Front(g) = m} :
            \A g \in {h \in S : LruK!Front(h) = m} : f <= g
    BY <2>2, LeastNatural
  <2>4. \A g \in S \ {f} : LruK!Front(f) < LruK!Front(g)
                           \/ (LruK!Front(f) = LruK!Front(g) /\ f < g)
    <3> SUFFICES ASSUME NEW g \in S, g # f
                 PROVE  LruK!Front(f) < LruK!Front(g)
                        \/ (LruK!Front(f) = LruK!Front(g) /\ f < g)
      OBVIOUS
    <3>1. m <= LruK!Front(g) /\ LruK!Front(f) = m /\ LruK!Front(g) \in Nat /\ m \in Nat
      BY <1>2, <2>1, <2>3
    <3>2. LruK!Front(g) = m => f < g
      BY <1>1, <2>3
    <3> QED BY <3>1, <3>2
  <2> QED BY <2>3, <2>4 DEF LruK!FirstOf
<1>4. ASSUME NEW S \in SUBSET Clock!FrameId, NEW f, LruK!FirstOf(f, S)
      PROVE  LruK!MostDistantOf(f, S)
  BY <1>2, <1>4
  DEF LruK!FirstOf, LruK!MostDistantOf, LruK!Distance, LruInv, LruTypes
<1>5. LruK!Young \subseteq Clock!FrameId /\ LruK!Old \subseteq Clock!FrameId
      /\ (LruK!Young # {} \/ LruK!Old # {})
  <2>1. \A f \in Clock!FrameId : Len(history[f]) \in Nat
    BY LenProperties DEF LruInv, LruTypes
  <2> QED
    BY <2>1, ReplacerConstants DEF LruK!Young, LruK!Old, Evictable, Clock!FrameId, LruK!FrameId
<1> QED
  BY <1>3, <1>4, <1>5 DEF LruK!Selected

LEMMA SelectedIsEvictable ==
    ASSUME NEW f, LruK!Selected(f) PROVE f \in Evictable
BY DEF LruK!Selected, LruK!FirstOf, LruK!MostDistantOf, LruK!Young, LruK!Old, Evictable,
       Clock!FrameId, LruK!FrameId

LEMMA LruAccess ==
    ASSUME LruInv, NEW f \in Clock!FrameId, LruK!Access(f)
    PROVE  LruInv' /\ [Abstract!Next]_Abstract!vars
<1> USE DEF Evictable, LruK!FrameId
<1>1. PICK now : now = current_timestamp + 1
  OBVIOUS
<1>2. /\ current_timestamp' = now /\ UNCHANGED outcome
      /\ history' = [history EXCEPT ![f] = LruK!Recorded(history[f], now)]
      /\ accesses' = [accesses EXCEPT ![f] = Append(accesses[f], now)]
      /\ pinned' = [pinned EXCEPT ![f] = TRUE]
  BY <1>1 DEF LruK!Access
<1>3. now \in Nat \ {0} /\ current_timestamp \in Nat /\ now > current_timestamp
  BY <1>1 DEF LruInv, LruTypes
<1>4. /\ history[f] \in Seq(Nat) /\ accesses[f] \in Seq(Nat)
      /\ IsEndOf(history[f], accesses[f])
  BY DEF LruInv, LruTypes, HistoryIsEnd
<1>5. /\ LruK!Recorded(history[f], now) \in Seq(Nat) /\ Append(accesses[f], now) \in Seq(Nat)
      /\ IsEndOf(LruK!Recorded(history[f], now), Append(accesses[f], now))
  BY <1>3, <1>4, RecordedTypes
<1>6. LruTypes'
  BY <1>2, <1>3, <1>5 DEF LruInv, LruTypes
<1>7. HistoryIsEnd'
  <2> SUFFICES ASSUME NEW g \in Clock!FrameId PROVE IsEndOf(history'[g], accesses'[g])
    BY DEF HistoryIsEnd, IsEndOf
  <2>1. CASE g = f
    <3>1. /\ history'[g] = LruK!Recorded(history[f], now)
          /\ accesses'[g] = Append(accesses[f], now)
      BY <1>2, <2>1 DEF LruInv, LruTypes
    <3> QED BY <1>5, <3>1
  <2>2. CASE g # f
    <3>1. history'[g] = history[g] /\ accesses'[g] = accesses[g]
      BY <1>2, <2>2 DEF LruInv, LruTypes
    <3> QED BY <3>1 DEF LruInv, HistoryIsEnd
  <2> QED BY <2>1, <2>2
<1>8. PICK b : b = Append(accesses[f], now)
  OBVIOUS
<1>9. /\ Len(b) = Len(accesses[f]) + 1 /\ Len(accesses[f]) \in Nat
      /\ \A i \in 1 .. Len(accesses[f]) : b[i] = accesses[f][i]
      /\ b[Len(accesses[f]) + 1] = now
  BY <1>3, <1>4, <1>8, AppendProperties, LenProperties
<1>10. \A i \in 1 .. Len(b) :
          b[i] = now \/ (i \in 1 .. Len(accesses[f]) /\ b[i] = accesses[f][i])
  BY <1>9
<1>11. \A g \in Clock!FrameId : accesses'[g] = IF g = f THEN b ELSE accesses[g]
  BY <1>2, <1>8 DEF LruInv, LruTypes
<1>12. \A g \in Clock!FrameId : \A i \in 1 .. Len(accesses[g]) :
          accesses[g][i] \in 1 .. current_timestamp
  BY DEF LruInv, AccessTimes
<1>13. \A g \in Clock!FrameId : \A i \in 1 .. Len(accesses'[g]) : accesses'[g][i] \in 1 .. now
  <2> SUFFICES ASSUME NEW g \in Clock!FrameId, NEW i \in 1 .. Len(accesses'[g])
               PROVE  accesses'[g][i] \in 1 .. now
    OBVIOUS
  <2>1. CASE g = f
    <3>1. accesses'[g] = b
      BY <1>11, <2>1
    <3>2. b[i] \in 1 .. now
      BY <1>3, <1>10, <1>12, <3>1
    <3> QED BY <3>1, <3>2
  <2>2. CASE g # f
    <3>1. accesses'[g] = accesses[g]
      BY <1>11, <2>2
    <3>2. accesses[g][i] \in 1 .. current_timestamp
      BY <1>12, <3>1
    <3> QED BY <1>3, <3>1, <3>2
  <2> QED BY <2>1, <2>2
<1>14. ASSUME NEW g \in Clock!FrameId \ {f},
              NEW i \in 1 .. Len(b), NEW j \in 1 .. Len(accesses[g])
       PROVE  b[i] # accesses[g][j]
  <2>1. accesses[g][j] \in 1 .. current_timestamp
    BY <1>12
  <2>2. CASE b[i] = now
    BY <1>3, <2>1, <2>2
  <2>3. CASE i \in 1 .. Len(accesses[f]) /\ b[i] = accesses[f][i]
    BY <2>3 DEF LruInv, AccessTimes
  <2> QED BY <1>10, <2>2, <2>3
<1>15. ASSUME NEW g \in Clock!FrameId, NEW h \in Clock!FrameId, g # h,
              NEW i \in 1 .. Len(accesses'[g]), NEW j \in 1 .. Len(accesses'[h])
       PROVE  accesses'[g][i] # accesses'[h][j]
  <2>1. CASE g = f
    <3>1. accesses'[g] = b /\ accesses'[h] = accesses[h] /\ h \in Clock!FrameId \ {f}
      BY <1>11, <1>15, <2>1
    <3> QED BY <1>14, <3>1
  <2>2. CASE h = f
    <3>1. accesses'[h] = b /\ accesses'[g] = accesses[g] /\ g \in Clock!FrameId \ {f}
      BY <1>11, <1>15, <2>2
    <3> QED BY <1>14, <3>1
  <2>3. CASE g # f /\ h # f
    <3>1. accesses'[h] = accesses[h] /\ accesses'[g] = accesses[g]
      BY <1>11, <2>3
    <3> QED BY <1>15, <3>1 DEF LruInv, AccessTimes
  <2> QED BY <2>1, <2>2, <2>3
<1>16. AccessTimes'
  BY <1>2, <1>13, <1>15 DEF AccessTimes
<1>17. Evictable' = Evictable \ {f}
  BY <1>2 DEF LruInv, LruTypes
<1> QED
  BY <1>2, <1>6, <1>7, <1>16, <1>17 DEF LruInv, Abstract!Next, Abstract!Pin

LEMMA LruStep ==
    ASSUME LruInv, LruK!Next
    PROVE  LruInv' /\ [Abstract!Next]_Abstract!vars
<1> USE DEF Evictable, Clock!FrameId, LruK!FrameId
<1>1. ASSUME UNCHANGED << current_timestamp, history, accesses >>,
             pinned' \in [Clock!FrameId -> BOOLEAN]
      PROVE  LruInv'
  BY <1>1 DEF LruInv, LruTypes, AccessTimes, HistoryIsEnd, IsEndOf
<1>2. CASE LruK!Victim
  <2>1. PICK f \in Clock!FrameId :
            /\ LruK!Selected(f) /\ outcome' = f
            /\ pinned' = [pinned EXCEPT ![f] = TRUE]
            /\ UNCHANGED << current_timestamp, history, accesses >>
    BY <1>2 DEF LruK!Victim
  <2>2. LruInv'
    BY <1>1, <2>1 DEF LruInv, LruTypes
  <2>3. f \in Evictable /\ Evictable' = Evictable \ {f}
    BY <2>1, SelectedIsEvictable DEF LruInv, LruTypes
  <2> QED BY <2>1, <2>2, <2>3 DEF Abstract!Next, Abstract!Victim
<1>3. CASE LruK!VictimNone
  <2>1. /\ \A f \in Clock!FrameId : ~ LruK!Selected(f)
        /\ outcome' = LruK!None
        /\ UNCHANGED << current_timestamp, history, pinned, accesses >>
    BY <1>3 DEF LruK!VictimNone
  <2>2. LruInv'
    BY <1>1, <2>1 DEF LruInv, LruTypes
  <2>3. Evictable = {} /\ Evictable' = Evictable
    BY <2>1, SomeIsSelected
  <2> QED
    BY <2>1, <2>2, <2>3 DEF Abstract!Next, Abstract!VictimNone, Clock!None, LruK!None
<1>4. ASSUME NEW f \in Clock!FrameId, LruK!Unpin(f)
      PROVE  LruInv' /\ [Abstract!Next]_Abstract!vars
  <2>1. /\ pinned' = [pinned EXCEPT ![f] = FALSE]
        /\ UNCHANGED << current_timestamp, history, outcome, accesses >>
    BY <1>4 DEF LruK!Unpin
  <2>2. LruInv'
    BY <1>1, <2>1 DEF LruInv, LruTypes
  <2>3. Evictable' = Evictable \cup {f}
    BY <2>1 DEF LruInv, LruTypes
  <2> QED BY <2>1, <2>2, <2>3 DEF Abstract!Next, Abstract!Unpin
<1>5. ASSUME NEW f \in Clock!FrameId, LruK!Remove(f)
      PROVE  LruInv' /\ [Abstract!Next]_Abstract!vars
  <2>1. /\ pinned' = [pinned EXCEPT ![f] = TRUE]
        /\ history' = [history EXCEPT ![f] = << >>]
        /\ accesses' = [accesses EXCEPT ![f] = << >>]
        /\ UNCHANGED << current_timestamp, outcome >>
    BY <1>5 DEF LruK!Remove
  <2>2. << >> \in Seq(Nat) /\ Len(<< >>) = 0
    OBVIOUS
  <2>3. \A g \in Clock!FrameId :
          \/ g = f /\ history'[g] = << >> /\ accesses'[g] = << >>
          \/ history'[g] = history[g] /\ accesses'[g] = accesses[g]
    BY <2>1 DEF LruInv, LruTypes
  <2>4. LruTypes'
    BY <2>1, <2>2 DEF LruInv, LruTypes
  <2>5. IsEndOf(<< >>, << >>)
    BY <2>2, ReplacerConstants DEF IsEndOf
  <2>6. HistoryIsEnd'
    <3> SUFFICES ASSUME NEW g \in Clock!FrameId PROVE IsEndOf(history'[g], accesses'[g])
      BY DEF HistoryIsEnd, IsEndOf
    <3> QED BY <2>3, <2>5 DEF LruInv, HistoryIsEnd
  <2>7. AccessTimes'
    BY <2>1, <2>2, <2>3 DEF LruInv, AccessTimes
  <2>8. Evictable' = Evictable \ {f}
    BY <2>1 DEF LruInv, LruTypes
  <2> QED
    BY <2>1, <2>4, <2>6, <2>7, <2>8 DEF LruInv, Abstract!Next, Abstract!Pin
<1> QED
  BY <1>2, <1>3, <1>4, <1>5, LruAccess DEF LruK!Next

(* The oldest time kept is that of the k-th access back, or of the first. *)
LEMMA FrontIsKthBack ==
    ASSUME LruInv, NEW f \in Clock!FrameId
    PROVE  /\ Len(history[f]) < k =>
                /\ LruK!KthBack(f) = 0
                /\ LruK!FirstAccess(f) = LruK!Front(f)
           /\ Len(history[f]) >= k =>
                /\ LruK!KthBack(f) = LruK!Front(f)
                /\ \E i \in 1 .. Len(accesses[f]) : LruK!Front(f) = accesses[f][i]
           /\ LruK!Front(f) \in Nat
<1> USE ReplacerConstants
<1>1. /\ accesses[f] \in Seq(Nat) /\ history[f] \in Seq(Nat)
      /\ Len(accesses[f]) \in Nat /\ Len(history[f]) \in Nat
  BY LenProperties DEF LruInv, LruTypes
<1>2. /\ Len(accesses[f]) < k => Len(history[f]) = Len(accesses[f])
      /\ Len(accesses[f]) >= k => Len(history[f]) = k
      /\ \A i \in 1 .. Len(history[f]) :
            history[f][i] = accesses[f][Len(accesses[f]) - Len(history[f]) + i]
  BY DEF LruInv, HistoryIsEnd, IsEndOf
<1>3. (history[f] = << >> <=> Len(history[f]) = 0)
      /\ (accesses[f] = << >> <=> Len(accesses[f]) = 0)
  BY <1>1, EmptySeq
<1>4. LruK!Front(f) \in Nat
  <2>1. history[f] # << >> => history[f][1] \in Nat
    BY <1>1
  <2> QED BY <2>1 DEF LruK!Front
<1>5. CASE Len(history[f]) < k
  <2>1. Len(accesses[f]) < k /\ Len(history[f]) = Len(accesses[f])
    BY <1>1, <1>2, <1>5
  <2>2. LruK!KthBack(f) = 0
    BY <2>1 DEF LruK!KthBack
  <2>3. ASSUME accesses[f] = << >> PROVE LruK!FirstAccess(f) = LruK!Front(f)
    <3>1. history[f] = << >>
      <4>1. Len(accesses[f]) = 0
        BY <1>3, <2>3
      <4>2. Len(history[f]) = 0
        BY <2>1, <4>1
      <4> QED BY <1>3, <4>2
    <3> QED BY <2>3, <3>1 DEF LruK!FirstAccess, LruK!Front
  <2>4. ASSUME accesses[f] # << >> PROVE LruK!FirstAccess(f) = LruK!Front(f)
    <3>1. 1 \in 1 .. Len(history[f]) /\ Len(accesses[f]) - Len(history[f]) + 1 = 1
      <4>1. Len(accesses[f]) # 0
        BY <1>3, <2>4
      <4> QED BY <1>1, <2>1, <4>1
    <3>2. history[f][1] = accesses[f][1]
      <4>1. history[f][1] = accesses[f][Len(accesses[f]) - Len(history[f]) + 1]
        BY <1>2, <3>1
      <4> QED BY <3>1, <4>1
    <3>3. history[f] # << >>
      <4>1. Len(accesses[f]) # 0
        BY <1>3, <2>4
      <4>2. Len(history[f]) # 0
        BY <2>1, <4>1
      <4> QED BY <1>3, <4>2
    <3> QED BY <2>4, <3>2, <3>3 DEF LruK!FirstAccess, LruK!Front
  <2> QED BY <1>1, <1>4, <1>5, <2>2, <2>3, <2>4
<1>6. CASE Len(history[f]) >= k
  <2>1. Len(accesses[f]) >= k /\ Len(history[f]) = k /\ history[f] # << >>
    BY <1>1, <1>2, <1>3, <1>6
  <2>2. history[f][1] = accesses[f][Len(accesses[f]) - k + 1]
    BY <1>2, <2>1
  <2>3. Len(accesses[f]) - k + 1 \in 1 .. Len(accesses[f])
    BY <1>1, <2>1
  <2>4. LruK!Front(f) = history[f][1]
    BY <2>1 DEF LruK!Front
  <2>5. LruK!KthBack(f) = accesses[f][Len(accesses[f]) - k + 1]
    BY <1>1, <2>1 DEF LruK!KthBack
  <2> QED BY <1>1, <1>4, <1>6, <2>2, <2>3, <2>4, <2>5
<1> QED BY <1>1, <1>5, <1>6

LEMMA SelectedIsPreferred ==
    ASSUME LruInv, NEW f \in Clock!FrameId, LruK!Selected(f)
    PROVE  LruK!PrefersTo(f)
<1> USE DEF Clock!FrameId, LruK!FrameId
<1>1. SUFFICES ASSUME NEW g \in Clock!FrameId, g # f, ~ pinned[g] PROVE LruK!Prefers(f, g)
  BY DEF LruK!PrefersTo
<1>2. \A x \in Clock!FrameId : Len(history[x]) \in Nat /\ LruK!Front(x) \in Nat
  BY FrontIsKthBack, LenProperties DEF LruInv, LruTypes
<1>3. g \in LruK!Young \/ g \in LruK!Old
  BY <1>1, <1>2, ReplacerConstants DEF LruK!Young, LruK!Old
<1>4. CASE LruK!Young # {}
  <2>1. f \in LruK!Young /\ (g \in LruK!Young => LruK!Front(f) <= LruK!Front(g))
    BY <1>1, <1>2, <1>4 DEF LruK!Selected, LruK!FirstOf
  <2>2. LruK!KthBack(f) = 0 /\ LruK!FirstAccess(f) = LruK!Front(f)
    BY <2>1, FrontIsKthBack DEF LruK!Young
  <2>3. CASE g \in LruK!Young
    <3>1. LruK!KthBack(g) = 0 /\ LruK!FirstAccess(g) = LruK!Front(g)
      BY <2>3, FrontIsKthBack DEF LruK!Young
    <3> QED BY <2>1, <2>2, <2>3, <3>1 DEF LruK!Prefers
  <2>4. CASE g \in LruK!Old
    <3>1. LruK!KthBack(g) = LruK!Front(g)
          /\ \E i \in 1 .. Len(accesses[g]) : LruK!Front(g) = accesses[g][i]
      BY <2>4, FrontIsKthBack DEF LruK!Old
    <3>2. LruK!KthBack(g) > 0
      BY <3>1 DEF LruInv, LruTypes, AccessTimes
    <3> QED BY <2>2, <3>2 DEF LruK!Prefers
  <2> QED BY <1>3, <2>3, <2>4
<1>5. CASE LruK!Young = {}
  <2>1. f \in LruK!Old /\ g \in LruK!Old
    BY <1>3, <1>5 DEF LruK!Selected, LruK!MostDistantOf
  <2>2. LruK!Front(f) <= LruK!Front(g)
    <3>1. LruK!Distance(f) >= LruK!Distance(g)
      BY <1>1, <1>2, <1>5, <2>1
      DEF LruK!Selected, LruK!MostDistantOf, LruK!Distance, LruInv, LruTypes
    <3> QED BY <1>2, <3>1 DEF LruK!Distance, LruInv, LruTypes
  <2>3. /\ LruK!KthBack(f) = LruK!Front(f) /\ LruK!KthBack(g) = LruK!Front(g)
        /\ \E i \in 1 .. Len(accesses[f]) : LruK!Front(f) = accesses[f][i]
        /\ \E i \in 1 .. Len(accesses[g]) : LruK!Front(g) = accesses[g][i]
    BY <2>1, FrontIsKthBack DEF LruK!Old
  <2>4. LruK!Front(f) # LruK!Front(g)
    BY <1>1, <2>3 DEF LruInv, AccessTimes
  <2> QED BY <1>2, <2>2, <2>3, <2>4 DEF LruK!Prefers
<1> QED BY <1>4, <1>5

-----------------------------------------------------------------------------
(* The policy is chosen once. *)
PolicyInv ==
    /\ policy \in {"clock", "lru-k"}
    /\ policy = "clock" => ClockInv
    /\ policy = "lru-k" => LruInv

LEMMA InitPolicy == ReplacersInit => PolicyInv /\ Abstract!Init
<1> SUFFICES ASSUME ReplacersInit PROVE PolicyInv /\ Abstract!Init
  OBVIOUS
<1> USE DEF Clock!FrameId, LruK!FrameId
<1>1. /\ hand = 0 /\ pinned = [f \in Clock!FrameId |-> TRUE] /\ outcome = Clock!None
      /\ policy \in {"clock", "lru-k"} /\ current_timestamp = 0
      /\ history = [f \in Clock!FrameId |-> << >>] /\ accesses = [f \in Clock!FrameId |-> << >>]
  BY DEF ReplacersInit, Clock!Init, LruK!Init
<1>2. ClockInv
  BY <1>1, ReplacerConstants DEF ClockInv
<1>3. \A f \in Clock!FrameId : history[f] = << >> /\ accesses[f] = << >>
  BY <1>1
<1>4. << >> \in Seq(Nat) /\ Len(<< >>) = 0
  OBVIOUS
<1>5. LruTypes
  BY <1>1, <1>4 DEF LruTypes
<1>6. IsEndOf(<< >>, << >>)
  BY <1>4, ReplacerConstants DEF IsEndOf
<1>7. AccessTimes /\ HistoryIsEnd
  BY <1>3, <1>4, <1>6 DEF AccessTimes, HistoryIsEnd
<1> QED BY <1>1, <1>2, <1>5, <1>7 DEF PolicyInv, LruInv, Abstract!Init

LEMMA PolicyStep ==
    PolicyInv /\ [ReplacersNext]_replacerVars => PolicyInv' /\ [Abstract!Next]_Abstract!vars
<1> SUFFICES ASSUME PolicyInv, [ReplacersNext]_replacerVars
             PROVE  PolicyInv' /\ [Abstract!Next]_Abstract!vars
  OBVIOUS
<1>1. CASE policy = "clock" /\ Clock!Next /\ UNCHANGED policy
  BY <1>1, ClockStep DEF PolicyInv
<1>2. CASE policy = "lru-k" /\ LruK!Next /\ UNCHANGED policy
  BY <1>2, LruStep DEF PolicyInv
<1>3. CASE UNCHANGED replacerVars
  <2>1. UNCHANGED << policy, hand, pinned, outcome, current_timestamp, history, accesses >>
    BY <1>3 DEF replacerVars, lruVars
  <2>2. ClockInv => ClockInv'
    BY <2>1 DEF ClockInv
  <2>3. LruInv => LruInv'
    BY <2>1 DEF LruInv, LruTypes, AccessTimes, HistoryIsEnd, IsEndOf
  <2> QED BY <2>1, <2>2, <2>3 DEF PolicyInv, Abstract!vars
<1> QED BY <1>1, <1>2, <1>3 DEF ReplacersNext

(* Whichever policy the pool was built with, for any number of frames: a victim
   is found whenever a frame may be taken - two rounds of the clock are enough,
   however many flags are set, and LRU-K always has a least recent frame - and
   no pinned frame is given up. *)
THEOREM BothAreReplacers == ReplacersSpec => ImplementsReplacer
<1> QED
  BY InitPolicy, PolicyStep, PTL DEF ReplacersSpec, ImplementsReplacer, Abstract!Spec

(* The k times kept of a frame decide as its whole record of accesses would:
   the victim has the greatest backward k-distance of the unpinned frames, and
   of those accessed fewer than k times it was accessed first. *)
THEOREM VictimHasGreatestDistance == ReplacersSpec => VictimIsLruK
<1>1. PolicyInv /\ [ReplacersNext]_replacerVars =>
          [policy = "lru-k" /\ LruK!Victim => LruK!PrefersTo(outcome')]_replacerVars
  <2> SUFFICES ASSUME PolicyInv, policy = "lru-k", LruK!Victim
               PROVE  LruK!PrefersTo(outcome')
    OBVIOUS
  <2>1. PICK f \in Clock!FrameId : LruK!Selected(f) /\ outcome' = f
    BY DEF LruK!Victim, Clock!FrameId, LruK!FrameId
  <2>2. LruK!PrefersTo(f)
    BY <2>1, SelectedIsPreferred DEF PolicyInv
  <2> QED BY <2>1, <2>2
<1> QED
  BY <1>1, InitPolicy, PolicyStep, PTL DEF ReplacersSpec, VictimIsLruK
=============================================================================
