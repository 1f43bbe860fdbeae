----------------------------- MODULE PagerProofs -----------------------------
(***************************************************************************)
(* Proofs about the pager, for a file of any size and any faults: types,   *)
(* the WAL marker, the free list, and the refinement of PageStore.         *)
(***************************************************************************)
EXTENDS Pager, FiniteSetTheorems, TLAPS

(* What the program counter says of the running call and of its page. *)
CallInv ==
    /\ pc \in {"idle", "closed"} => call = "none"
    /\ pc = "zero" => call = "alloc"
    /\ pc = "link" => call = "free"
    /\ pc \in {"buffer", "write"} => call = "write"
    /\ pc = "header" => call \notin {"none", "write"}
    /\ pc = "sync" => call # "none"
    /\ pc = "failed" => "io" \in faults
    /\ call = "alloc" => target \in Page
    /\ pc = "link" => target \in Page \ owned
    /\ call = "write" => target \in owned
    /\ call = "alloc" /\ pc \in {"header", "sync"} => page[target] = Zeroed

(* When memory and file agree: at a sync, and as long as nothing fails. *)
HeaderInv ==
    /\ pc # "closed" => cached.count > 0
    /\ pc = "closed" => cached = NoHeader
    /\ pc = "sync" /\ call # "write" => header = cached
    /\ faults = {} /\ pc \in {"idle", "buffer", "write", "sync"} => header = cached

Inv == TypeOK /\ CallInv /\ HeaderInv

-----------------------------------------------------------------------------
LEMMA HeaderTypes ==
    /\ NoHeader \in Header /\ NewHeader \in Header /\ Zeroed \in Content
    /\ NoHeader.count = 0 /\ NoHeader.head = 0 /\ NoHeader.seq = 0
    /\ NewHeader.count = 1 /\ NewHeader.head = 0 /\ NewHeader.seq = 0
    /\ Zeroed.word = 0
BY PagerConstants DEF NoHeader, NewHeader, Header, Zeroed, Content, Word

LEMMA InitInv == Init => Inv
<1> SUFFICES ASSUME Init PROVE Inv
  OBVIOUS
<1>1. 0 \in 0 .. MaxPage /\ {0} \subseteq 0 .. MaxSeq
  BY PagerConstants
<1>2. page \in [Page -> Content] /\ synced \in [header : Header, page : [Page -> Content]]
  BY HeaderTypes DEF Init, Snapshot
<1>3. TypeOK
  BY <1>1, <1>2, HeaderTypes DEF Init, TypeOK, Labels, Calls
<1>4. CallInv /\ HeaderInv
  BY DEF Init, CallInv, HeaderInv
<1> QED
  BY <1>3, <1>4 DEF Inv

(* The state of the file keeps its type under the steps that write. *)
LEMMA KeepSyncedType ==
    ASSUME TypeOK, KeepSynced, header' \in Header, page' \in [Page -> Content]
    PROVE  synced' \in [header : Header, page : [Page -> Content]]
BY DEF TypeOK, KeepSynced, Snapshot

LEMMA SyncAllType ==
    ASSUME TypeOK, SyncAll
    PROVE  synced' \in [header : Header, page : [Page -> Content]]
BY DEF TypeOK, SyncAll, Snapshot

(* What the next write leaves of a page, and what is left of it when it fails. *)
LEMMA ReplacementType ==
    ASSUME Inv, pc \in {"zero", "link", "write"}
    PROVE  /\ target \in Page
           /\ Replacement \in Content
           /\ [Replacement EXCEPT !.rest = Torn] \in Content
           /\ pc = "zero" => Replacement.word = 0
<1>1. target \in Page /\ page[target] \in Content /\ buffer \in Content /\ cached.head \in Word
  BY DEF Inv, TypeOK, CallInv, Header
<1>2. Replacement \in Content
  BY <1>1, HeaderTypes DEF Replacement, Content
<1>3. pc = "zero" => Replacement.word = 0
  BY HeaderTypes DEF Replacement
<1> QED
  BY <1>1, <1>2, <1>3, PagerConstants DEF Content

-----------------------------------------------------------------------------
LEMMA CallsInv ==
    ASSUME Inv, UNCHANGED faults,
           \/ Alloc \/ SyncHeader
           \/ \E p \in Page : Free(p) \/ OpenBuffer(p)
           \/ \E p \in Page, c \in Written : StartWrite(p, c)
           \/ \E n \in 1 .. MaxSeq : RecordWalCommit(n)
    PROVE  Inv'
<1> USE DEF Inv, TypeOK, CallInv, HeaderInv, Start, fileVars, Labels, Calls
<1>1. CASE Alloc
  <2>1. cached' \in Header /\ cached'.count > 0 /\ target' \in Page
    <3>1. CASE AllocFromFreeList
      <4>1. cached.head \in Page /\ page[cached.head] \in Content
        BY <3>1 DEF AllocFromFreeList
      <4>2. page[cached.head].word \in Word
        BY <4>1 DEF Content
      <4>3. cached' \in Header /\ cached'.count = cached.count
        BY <3>1, <4>2 DEF AllocFromFreeList, Header
      <4> QED
        BY <3>1, <4>1, <4>3 DEF AllocFromFreeList
    <3>2. CASE AllocAtEnd
      <4>1. cached.count \in 1 .. MaxPage
        BY <3>2, PagerConstants DEF AllocAtEnd, Header
      <4>2. cached' \in Header /\ cached'.count = cached.count + 1
        BY <3>2, <4>1, PagerConstants DEF AllocAtEnd, Header
      <4> QED
        BY <3>2, <4>1, <4>2, PagerConstants DEF AllocAtEnd, Page
    <3> QED
      BY <1>1, <3>1, <3>2 DEF Alloc
  <2> QED
    BY <1>1, <2>1 DEF Alloc, AllocFromFreeList, AllocAtEnd, Page
<1>2. CASE SyncHeader
  BY <1>2, PagerConstants DEF SyncHeader
<1>3. ASSUME NEW p \in Page, Free(p) PROVE Inv'
  BY <1>3 DEF Free, Page
<1>4. ASSUME NEW p \in Page, OpenBuffer(p) PROVE Inv'
  BY <1>4 DEF OpenBuffer, Page
<1>5. ASSUME NEW p \in Page, NEW c \in Written, StartWrite(p, c) PROVE Inv'
  BY <1>5, PagerConstants DEF StartWrite, Page
<1>6. ASSUME NEW n \in 1 .. MaxSeq, RecordWalCommit(n) PROVE Inv'
  BY <1>6, PagerConstants DEF RecordWalCommit, Header
<1> QED
  BY <1>1, <1>2, <1>3, <1>4, <1>5, <1>6

LEMMA WritesInv ==
    ASSUME Inv, UNCHANGED faults, ZeroPage \/ LinkPage \/ WriteHeader \/ WritePage
    PROVE  Inv'
<1> USE DEF Inv, TypeOK, CallInv, HeaderInv, callVars, Labels, Calls
<1>1. CASE ZeroPage
  <2>1. page' \in [Page -> Content] /\ page'[target] = Zeroed
    BY <1>1, HeaderTypes DEF ZeroPage
  <2>2. synced' \in [header : Header, page : [Page -> Content]]
    BY <1>1, <2>1, KeepSyncedType DEF ZeroPage
  <2> QED
    BY <1>1, <2>1, <2>2 DEF ZeroPage
<1>2. CASE LinkPage
  <2>1. page' \in [Page -> Content]
    <3>1. target \in Page /\ page[target] \in Content /\ cached.head \in Word
      BY <1>2 DEF LinkPage, Header
    <3>2. [page[target] EXCEPT !.word = cached.head] \in Content
      BY <3>1 DEF Content
    <3> QED
      BY <1>2, <3>2 DEF LinkPage
  <2>3. cached' \in Header /\ cached'.count = cached.count
    <3>1. target \in Word
      BY <1>2, PagerConstants DEF LinkPage, Page, Word
    <3> QED
      BY <1>2, <3>1 DEF LinkPage, Header
  <2>2. synced' \in [header : Header, page : [Page -> Content]]
    BY <1>2, <2>1, KeepSyncedType DEF LinkPage
  <2> QED
    BY <1>2, <2>1, <2>2, <2>3 DEF LinkPage
<1>3. CASE WriteHeader
  <2>1. synced' \in [header : Header, page : [Page -> Content]]
    BY <1>3, KeepSyncedType DEF WriteHeader
  <2> QED
    BY <1>3, <2>1 DEF WriteHeader
<1>4. CASE WritePage
  <2>1. page' \in [Page -> Content]
    BY <1>4 DEF WritePage
  <2>2. synced' \in [header : Header, page : [Page -> Content]]
    BY <1>4, <2>1, KeepSyncedType DEF WritePage
  <2> QED
    BY <1>4, <2>1, <2>2 DEF WritePage
<1> QED
  BY <1>1, <1>2, <1>3, <1>4

LEMMA ReturnsInv ==
    ASSUME Inv, UNCHANGED faults,
           \/ Create \/ Open \/ Sync \/ FlushBuffer \/ DropBuffer \/ ReturnError \/ Close
           \/ \E c \in Written : EditBuffer(c)
    PROVE  Inv'
<1> USE PagerConstants, HeaderTypes
    DEF Inv, TypeOK, CallInv, HeaderInv, callVars, fileVars, Return, Leave, Labels, Calls
<1>1. CASE Create
  BY <1>1 DEF Create
<1>2. CASE Open
  BY <1>2 DEF Open
<1>3. CASE Sync
  <2>1. synced' \in [header : Header, page : [Page -> Content]]
    BY <1>3, SyncAllType DEF Sync
  <2>2. owned' \subseteq Page
    BY <1>3 DEF Sync
  <2>5. marks' \subseteq 0 .. MaxSeq
    <3>1. cached.seq \in 0 .. MaxSeq
      BY DEF Header
    <3> QED
      BY <1>3, <3>1 DEF Sync
  <2>3. /\ pc' = "idle" /\ call' = "none" /\ target' = 0 /\ buffer' \in Content
        /\ UNCHANGED << exists, header, page, cached >>
    BY <1>3 DEF Sync, SyncAll
  <2>4. /\ pc = "sync" /\ cached.count > 0
        /\ faults = {} => header = cached
    BY <1>3 DEF Sync
  <2> QED
    BY <2>1, <2>2, <2>3, <2>4, <2>5
<1>4. CASE FlushBuffer
  BY <1>4 DEF FlushBuffer
<1>8. CASE DropBuffer
  <2>1. /\ pc = "buffer" /\ pc' = "idle" /\ call' = "none" /\ target' = 0
        /\ buffer' \in Content
        /\ UNCHANGED << exists, header, page, synced, cached, owned, marks >>
    BY <1>8 DEF DropBuffer
  <2> QED
    BY <2>1
<1>5. CASE ReturnError
  <2>1. CASE call = "create"
    <3>1. /\ pc' = "closed" /\ call' = "none" /\ target' = 0
          /\ buffer' \in Content /\ cached' = NoHeader
          /\ UNCHANGED << exists, header, page, synced, owned, marks >>
      BY <1>5, <2>1 DEF ReturnError
    <3> QED
      BY <3>1
  <2>2. CASE call # "create"
    <3>1. /\ pc = "failed" /\ pc' = "idle" /\ call' = "none" /\ target' = 0
          /\ buffer' \in Content
          /\ UNCHANGED << exists, header, page, synced, cached, owned, marks >>
      BY <1>5, <2>2 DEF ReturnError
    <3>2. faults # {} /\ cached.count > 0
      BY <3>1
    <3> QED
      BY <3>1, <3>2
  <2> QED
    BY <2>1, <2>2
<1>6. CASE Close
  BY <1>6 DEF Close
<1>7. ASSUME NEW c \in Written, EditBuffer(c) PROVE Inv'
  BY <1>7 DEF EditBuffer
<1> QED
  BY <1>1, <1>2, <1>3, <1>4, <1>5, <1>6, <1>7, <1>8

(* What a failed write leaves. *)
LEMMA FailWriteEffect ==
    ASSUME Inv, FailWrite
    PROVE  /\ page' \in [Page -> Content] /\ header' \in Header
           /\ \/ /\ pc \in {"zero", "link", "write"} /\ header' = header
                 /\ target \in Page
                 /\ \A p \in Page \ {target} : page'[p] = page[p]
                 /\ pc = "zero" => page'[target].word \in {0, page[target].word}
              \/ pc = "header" /\ header' \in {header, cached} /\ page' = page
<1> USE DEF Inv, TypeOK
<1>1. CASE pc = "header"
  BY <1>1 DEF FailWrite
<1>2. CASE pc \in {"zero", "link", "write"}
  <2>1. PICK c \in {page[target], Replacement, [Replacement EXCEPT !.rest = Torn]} :
               page' = [page EXCEPT ![target] = c]
    BY <1>2 DEF FailWrite
  <2>2. c \in Content /\ target \in Page
    BY <1>2, <2>1, ReplacementType
  <2>3. pc = "zero" => c.word \in {0, page[target].word}
    BY <1>2, <2>1, ReplacementType DEF Content
  <2> QED
    BY <1>2, <2>1, <2>2, <2>3 DEF FailWrite
<1> QED
  BY <1>1, <1>2 DEF FailWrite

LEMMA FaultsInv ==
    ASSUME Inv, UNCHANGED faults, FailWrite \/ FailSync \/ Kill \/ PowerCut
    PROVE  Inv'
<1> USE DEF Inv, TypeOK, CallInv, HeaderInv, callVars, fileVars, Labels, Calls
<1>1. CASE FailWrite
  <2>1. page' \in [Page -> Content] /\ header' \in Header
    BY <1>1, FailWriteEffect
  <2>2. synced' \in [header : Header, page : [Page -> Content]]
    BY <1>1, <2>1, KeepSyncedType DEF FailWrite
  <2>3. /\ pc' = "failed" /\ "io" \in faults /\ pc # "closed"
        /\ UNCHANGED << exists, cached, callVars, owned, marks >>
    BY <1>1 DEF FailWrite
  <2> QED
    BY <2>1, <2>2, <2>3
<1>2. CASE FailSync
  BY <1>2 DEF FailSync
<1>3. CASE Kill
  BY <1>3, HeaderTypes, PagerConstants DEF Kill, Leave
<1>4. CASE PowerCut
  <2>1. header' \in Header /\ page' \in [Page -> Content]
    BY <1>4 DEF PowerCut
  <2>2. synced' \in [header : Header, page : [Page -> Content]]
    BY <1>4, <2>1 DEF PowerCut, Snapshot
  <2> QED
    BY <1>4, <2>1, <2>2, HeaderTypes, PagerConstants DEF PowerCut, Leave
<1> QED
  BY <1>1, <1>2, <1>3, <1>4

(* The first part of the invariant is inductive. *)
LEMMA NextInv == Inv /\ [Next]_vars => Inv'
<1> SUFFICES ASSUME Inv, [Next]_vars PROVE Inv'
  OBVIOUS
<1>1. CASE UNCHANGED vars
  BY <1>1 DEF vars, fileVars, callVars, Inv, TypeOK, CallInv, HeaderInv
<1>2. CASE Next
  BY <1>2, CallsInv, WritesInv, ReturnsInv, FaultsInv DEF Next
<1> QED
  BY <1>1, <1>2

(* Every variable of the pager keeps its type. *)
THEOREM TypeCorrect == Spec => []TypeOK
<1>1. Inv => TypeOK
  BY DEF Inv
<1> QED
  BY <1>1, InitInv, NextInv, PTL DEF Spec

-----------------------------------------------------------------------------
(* Where the WAL marker is in memory, and before the file exists. *)
MarkInv ==
    /\ MarkSurvives
    /\ pc # "closed" => exists /\ cached.seq \in marks
    /\ ~ exists => marks = {0} /\ pc = "closed" /\ header.count = 0

LEMMA MarkInit == Init => MarkInv
BY HeaderTypes DEF Init, MarkInv, MarkSurvives, Snapshot

(* ... and so is the marker's, with it. *)
LEMMA MarkNext == Inv /\ MarkInv /\ [Next]_vars => MarkInv'
<1> SUFFICES ASSUME Inv, MarkInv, [Next]_vars PROVE MarkInv'
  OBVIOUS
<1> USE DEF MarkInv, MarkSurvives
<1>1. CASE UNCHANGED vars
  BY <1>1 DEF vars, fileVars
<1>2. CASE Create
  <2>1. cached'.seq = 0 /\ exists' = TRUE /\ marks = {0}
    BY <1>2, HeaderTypes DEF Create
  <2> QED
    BY <1>2, <2>1 DEF Create
<1>11. CASE Open
  <2>1. exists /\ cached' = header /\ header.count > 0
        /\ UNCHANGED << exists, header, synced, marks >>
    BY <1>11 DEF Open, fileVars
  <2> QED
    BY <2>1
<1>3. CASE \E n \in 1 .. MaxSeq : RecordWalCommit(n)
  <2>1. PICK n \in 1 .. MaxSeq : RecordWalCommit(n)
    BY <1>3
  <2>2. cached'.seq = n
    BY <2>1 DEF RecordWalCommit, Inv, TypeOK, Header
  <2> QED
    BY <2>1, <2>2 DEF RecordWalCommit, Start, fileVars
<1>4. CASE Sync
  <2>1. call = "mark" => header = cached
    BY <1>4 DEF Sync, Inv, HeaderInv
  <2>2. synced'.header = header /\ UNCHANGED << exists, header, cached >> /\ pc # "closed"
    BY <1>4 DEF Sync, SyncAll, Snapshot
  <2> QED
    BY <1>4, <2>1, <2>2 DEF Sync
<1>5. CASE Alloc
  <2>1. cached'.seq = cached.seq
    BY <1>5 DEF Alloc, AllocFromFreeList, AllocAtEnd, Inv, TypeOK, Header
  <2>2. pc = "idle" /\ UNCHANGED << exists, header, synced, marks >>
    BY <1>5 DEF Alloc, AllocFromFreeList, AllocAtEnd, Start, fileVars
  <2> QED
    BY <2>1, <2>2
<1>6. CASE LinkPage
  <2>1. cached'.seq = cached.seq
    BY <1>6 DEF LinkPage, Inv, TypeOK, Header
  <2>2. pc = "link" /\ KeepSynced /\ UNCHANGED << exists, header, marks >>
    BY <1>6 DEF LinkPage
  <2> QED
    BY <2>1, <2>2 DEF KeepSynced, Snapshot
<1>7. CASE \/ \E p \in Page : Free(p) \/ OpenBuffer(p)
           \/ \E p \in Page, c \in Written : StartWrite(p, c)
           \/ \E c \in Written : EditBuffer(c)
           \/ SyncHeader \/ FlushBuffer \/ FailSync
  BY <1>7 DEF Free, OpenBuffer, StartWrite, EditBuffer, SyncHeader, FlushBuffer, FailSync,
              Start, fileVars
<1>8. CASE DropBuffer \/ ReturnError \/ Close \/ Kill
  <2>1. \/ DropBuffer /\ pc # "closed" /\ UNCHANGED << exists, header, synced, cached, marks >>
        \/ pc' = "closed" /\ UNCHANGED << exists, header, synced, marks >>
        \/ ReturnError /\ pc # "closed" /\ UNCHANGED << exists, header, synced, cached, marks >>
    BY <1>8 DEF DropBuffer, ReturnError, Close, Kill, Leave, Return, fileVars
  <2> QED
    BY <2>1
<1>9. CASE ZeroPage \/ WriteHeader \/ WritePage \/ FailWrite
  <2>1. /\ header' \in {header, cached} /\ pc # "closed" /\ KeepSynced
        /\ UNCHANGED << exists, cached, marks >>
    BY <1>9 DEF ZeroPage, WriteHeader, WritePage, FailWrite
  <2> QED
    BY <2>1 DEF KeepSynced, Snapshot
<1>10. CASE PowerCut
  <2>1. /\ header' \in {header, synced.header} /\ pc' = "closed" /\ synced'.header = header'
        /\ exists /\ UNCHANGED << exists, marks >>
    BY <1>10 DEF PowerCut, Leave, Snapshot
  <2> QED
    BY <2>1
<1> QED
  BY <1>1, <1>2, <1>3, <1>4, <1>5, <1>6, <1>7, <1>8, <1>9, <1>10, <1>11
  DEF Next

(* pager.rs:212: the WAL marker of record_wal_commit survives a kill, a failed
   write and a power cut. *)
THEOREM MarkerSurvives == Spec => []MarkSurvives
<1>1. MarkInv => MarkSurvives
  BY DEF MarkInv
<1> QED
  BY <1>1, InitInv, NextInv, MarkInit, MarkNext, PTL DEF Spec

-----------------------------------------------------------------------------
-----------------------------------------------------------------------------
(* The pages s, in this order, are the free list from head, when f holds the
   pages and o has an owner: IsFreeList, of any pages and owners. *)
Chain(f, o, n, s, head, count) ==
    /\ n \in 0 .. MaxPage /\ s \in [1 .. n -> Page]
    /\ head = IF n = 0 THEN 0 ELSE s[1]
    /\ \A i \in 1 .. n :
          /\ s[i] < count
          /\ s[i] \notin o
          /\ f[s[i]].word = IF i = n THEN 0 ELSE s[i + 1]
          /\ \A j \in 1 .. n : s[i] = s[j] => i = j

Nodes(s, n) == {s[i] : i \in 1 .. n}

LEMMA ChainOfFreeList ==
    ASSUME NEW n \in 0 .. MaxPage, NEW s \in [1 .. n -> Page], NEW head, NEW count
    PROVE  IsFreeList(s, n, head, count) <=> Chain(page, owned, n, s, head, count)
BY DEF IsFreeList, Chain

(* A list does not see what happens to other pages. *)
LEMMA ChainFrame ==
    ASSUME NEW f, NEW g, NEW o, NEW q, NEW n, NEW s,
           NEW head, NEW count \in Nat, NEW larger \in Nat, count <= larger,
           Chain(f, o, n, s, head, count),
           \A p \in Nodes(s, n) : g[p].word = f[p].word /\ p \notin q
    PROVE  Chain(g, q, n, s, head, larger)
<1>1. n \in Nat /\ \A i \in 1 .. n : s[i] \in Nat
  BY PagerConstants DEF Page, Chain
<1>2. \A i \in 1 .. n : g[s[i]].word = f[s[i]].word /\ s[i] \notin q
  BY DEF Nodes
<1> QED
  BY <1>1, <1>2 DEF Chain

TailOf(s, n) == [i \in 1 .. n - 1 |-> s[i + 1]]
ConsTo(p, s, n) == [i \in 1 .. n + 1 |-> IF i = 1 THEN p ELSE s[i - 1]]

(* What alloc leaves of the list. *)
LEMMA ChainTail ==
    ASSUME NEW f, NEW o, NEW n, NEW s, NEW head \in Page, NEW count,
           Chain(f, o, n, s, head, count)
    PROVE  /\ Chain(f, o, n - 1, TailOf(s, n), f[head].word, count)
           /\ head < count /\ head \notin o
           /\ head \notin Nodes(TailOf(s, n), n - 1)
           /\ Nodes(s, n) = Nodes(TailOf(s, n), n - 1) \cup {head}
<1>1. n \in Nat /\ n > 0 /\ head = s[1] /\ s \in [1 .. n -> Page] /\ n - 1 \in 0 .. MaxPage
  BY PagerConstants DEF Chain, Page
<1> DEFINE t == TailOf(s, n)
<1>2. t \in [1 .. n - 1 -> Page]
  BY <1>1 DEF TailOf
<1>3. \A i \in 1 .. n - 1 : t[i] = s[i + 1] /\ i + 1 \in 1 .. n /\ i \in 1 .. n /\ i + 1 # 1
  BY <1>1 DEF TailOf
<1> HIDE DEF t
<1>4. 1 \in 1 .. n
  BY <1>1
<1>5. \A i \in 1 .. n - 1 : t[i] # head
  BY <1>1, <1>3, <1>4 DEF Chain
<1>6. f[head].word = IF n - 1 = 0 THEN 0 ELSE t[1]
  BY <1>1, <1>3, <1>4 DEF Chain
<1>7. ASSUME NEW i \in 1 .. n - 1
      PROVE  /\ t[i] < count /\ t[i] \notin o
             /\ f[t[i]].word = IF i = n - 1 THEN 0 ELSE t[i + 1]
             /\ \A j \in 1 .. n - 1 : t[i] = t[j] => i = j
  <2>1. t[i] = s[i + 1] /\ i + 1 \in 1 .. n
    BY <1>3
  <2>2. t[i] < count /\ t[i] \notin o
    BY <2>1 DEF Chain
  <2>3. f[t[i]].word = IF i + 1 = n THEN 0 ELSE s[i + 1 + 1]
    BY <2>1 DEF Chain
  <2>4. i # n - 1 => t[i + 1] = s[i + 1 + 1]
    BY <1>1, <1>3
  <2>5. f[t[i]].word = IF i = n - 1 THEN 0 ELSE t[i + 1]
    BY <1>1, <2>3, <2>4
  <2>6. ASSUME NEW j \in 1 .. n - 1, t[i] = t[j] PROVE i = j
    <3>1. t[j] = s[j + 1] /\ j + 1 \in 1 .. n
      BY <1>3
    <3>2. i + 1 = j + 1
      BY <2>1, <2>6, <3>1 DEF Chain
    <3> QED
      BY <1>1, <3>2
  <2> QED
    BY <2>2, <2>5, <2>6
<1>8. ASSUME NEW i \in 1 .. n
      PROVE  s[i] = head \/ \E j \in 1 .. n - 1 : t[j] = s[i]
  <2>1. CASE i = 1
    BY <1>1, <2>1
  <2>2. CASE i # 1
    <3>1. i - 1 \in 1 .. n - 1 /\ i - 1 + 1 = i
      BY <1>1, <2>2
    <3>2. t[i - 1] = s[i]
      BY <1>3, <3>1
    <3> QED
      BY <3>1, <3>2
  <2> QED
    BY <2>1, <2>2
<1>9. Chain(f, o, n - 1, t, f[head].word, count)
  BY <1>1, <1>2, <1>6, <1>7 DEF Chain
<1>10. head < count /\ head \notin o
  BY <1>1, <1>4 DEF Chain
<1>11. head \notin Nodes(t, n - 1) /\ Nodes(s, n) = Nodes(t, n - 1) \cup {head}
  BY <1>1, <1>3, <1>4, <1>5, <1>8 DEF Nodes
<1> QED
  BY <1>9, <1>10, <1>11 DEF t

LEMMA InjectionCardinality ==
    ASSUME NEW S, IsFiniteSet(S), NEW T, IsFiniteSet(T), NEW f \in [S -> T],
           \A x, y \in S : f[x] = f[y] => x = y
    PROVE  ~ (Cardinality(T) < Cardinality(S))
BY FS_PigeonHole

LEMMA ConsNodes ==
    ASSUME NEW f, NEW o, NEW n, NEW s, NEW head, NEW count, NEW p,
           Chain(f, o, n, s, head, count)
    PROVE  Nodes(ConsTo(p, s, n), n + 1) = Nodes(s, n) \cup {p}
<1> DEFINE t == ConsTo(p, s, n)
<1>1. n \in Nat
  BY PagerConstants DEF Chain
<1>2. 1 \in 1 .. n + 1 /\ t[1] = p
  BY <1>1 DEF ConsTo
<1>3. \A i \in 1 .. n + 1 : i # 1 => t[i] = s[i - 1] /\ i - 1 \in 1 .. n
  BY <1>1 DEF ConsTo
<1>4. \A i \in 1 .. n : i + 1 \in 1 .. n + 1 /\ t[i + 1] = s[i]
  BY <1>1 DEF ConsTo
<1> HIDE DEF t
<1>5. Nodes(t, n + 1) = Nodes(s, n) \cup {p}
  BY <1>2, <1>3, <1>4 DEF Nodes
<1> QED
  BY <1>5 DEF t

(* What free makes of the list; there is room, for no page is on it twice. *)
LEMMA ChainCons ==
    ASSUME NEW f, NEW g, NEW o, NEW n, NEW s,
           NEW count, NEW p \in Page, p \notin o, p < count,
           Chain(f, o, n, s, g[p].word, count),
           p \notin Nodes(s, n), \A q \in Nodes(s, n) : g[q].word = f[q].word
    PROVE  Chain(g, o, n + 1, ConsTo(p, s, n), p, count)
<1>0. /\ n \in Nat /\ s \in [1 .. n -> Page]
      /\ \A i \in 1 .. n : s[i] # p /\ g[s[i]].word = f[s[i]].word
  BY PagerConstants DEF Nodes, Chain
<1> DEFINE t == ConsTo(p, s, n)
<1>1. t \in [1 .. n + 1 -> Page]
  BY <1>0 DEF Page, ConsTo
<1>2. 1 \in 1 .. n + 1 /\ t[1] = p
  BY <1>0 DEF ConsTo
<1>3. \A i \in 1 .. n + 1 : i # 1 => t[i] = s[i - 1] /\ i - 1 \in 1 .. n
  BY <1>0 DEF ConsTo
<1>4. \A i \in 1 .. n : i + 1 \in 1 .. n + 1 /\ i + 1 # 1 /\ t[i + 1] = s[i]
  BY <1>0 DEF ConsTo
<1> HIDE DEF t
<1>5. ASSUME NEW i \in 1 .. n + 1, NEW j \in 1 .. n + 1, t[i] = t[j] PROVE i = j
  <2>1. CASE i = 1 \/ j = 1
    BY <1>0, <1>2, <1>3, <1>5, <2>1
  <2>2. CASE i # 1 /\ j # 1
    <3>1. i - 1 \in 1 .. n /\ j - 1 \in 1 .. n /\ s[i - 1] = s[j - 1]
      BY <1>3, <1>5, <2>2
    <3>2. i - 1 = j - 1
      BY <3>1 DEF Chain
    <3> QED
      BY <1>0, <3>2
  <2> QED
    BY <2>1, <2>2
<1>6. ASSUME NEW i \in 1 .. n + 1
      PROVE  /\ t[i] < count /\ t[i] \notin o
             /\ g[t[i]].word = IF i = n + 1 THEN 0 ELSE t[i + 1]
  <2>1. CASE i = 1
    <3>1. n # 0 => t[1 + 1] = s[1]
      BY <1>0, <1>4
    <3> QED
      BY <1>0, <1>2, <2>1, <3>1 DEF Chain
  <2>2. CASE i # 1
    <3>1. i - 1 \in 1 .. n /\ t[i] = s[i - 1]
      BY <1>3, <2>2
    <3>2. /\ t[i] < count /\ t[i] \notin o
          /\ g[t[i]].word = IF i - 1 = n THEN 0 ELSE s[i - 1 + 1]
      BY <1>0, <3>1 DEF Chain
    <3>3. i # n + 1 => t[i + 1] = s[i - 1 + 1]
      BY <1>0, <1>4, <2>2
    <3> QED
      BY <1>0, <3>2, <3>3
  <2> QED
    BY <2>1, <2>2
<1>7. n + 1 \in 0 .. MaxPage
  <2>1. /\ IsFiniteSet(1 .. n + 1) /\ Cardinality(1 .. n + 1) = n + 1
        /\ IsFiniteSet(Page) /\ Cardinality(Page) = MaxPage
    BY <1>0, FS_Interval, PagerConstants DEF Page
  <2>2. ~ (Cardinality(Page) < Cardinality(1 .. n + 1))
    BY <1>1, <1>5, <2>1, InjectionCardinality
  <2> QED
    BY <1>0, <2>1, <2>2, PagerConstants
<1>8. Chain(g, o, n + 1, t, p, count)
  BY <1>0, <1>1, <1>2, <1>5, <1>6, <1>7 DEF Chain
<1> QED
  BY <1>8 DEF t

(* Zeroing a page, or part of it, ends the list there. *)
LEMMA ChainCut ==
    ASSUME NEW f, NEW g, NEW o, NEW n, NEW s, NEW head, NEW count, NEW p \in Page,
           Chain(f, o, n, s, head, count),
           g[p].word \in {0, f[p].word},
           \A q \in Page \ {p} : g[q].word = f[q].word
    PROVE  \E m, t : Chain(g, o, m, t, head, count)
<1>0. n \in 0 .. MaxPage /\ s \in [1 .. n -> Page]
  BY DEF Chain
<1>1. CASE \A i \in 1 .. n : g[s[i]].word = f[s[i]].word
  <2>1. Chain(g, o, n, s, head, count)
    BY <1>1 DEF Chain
  <2> QED
    BY <2>1
<1>2. ASSUME NEW k \in 1 .. n, g[s[k]].word # f[s[k]].word
      PROVE  \E m, t : Chain(g, o, m, t, head, count)
  <2>1. s[k] = p /\ g[p].word = 0
    BY <1>0, <1>2
  <2>2. \A i \in 1 .. n : i # k => g[s[i]].word = f[s[i]].word
    BY <1>0, <2>1 DEF Chain
  <2> DEFINE t == [i \in 1 .. k |-> s[i]]
  <2>3. t \in [1 .. k -> Page] /\ k \in 0 .. MaxPage /\ k # 0
    BY <1>0, PagerConstants
  <2>4. \A i \in 1 .. k : t[i] = s[i] /\ i \in 1 .. n
    BY <1>0
  <2> HIDE DEF t
  <2>5. ASSUME NEW i \in 1 .. k
        PROVE  /\ t[i] < count /\ t[i] \notin o
               /\ g[t[i]].word = IF i = k THEN 0 ELSE t[i + 1]
               /\ \A j \in 1 .. k : t[i] = t[j] => i = j
    <3>1. t[i] < count /\ t[i] \notin o /\ \A j \in 1 .. k : t[i] = t[j] => i = j
      BY <2>4 DEF Chain
    <3>2. CASE i = k
      BY <2>1, <2>4, <3>1, <3>2
    <3>3. CASE i # k
      <4>1. i + 1 \in 1 .. k /\ i # n /\ i \in 1 .. n
        BY <1>0, <3>3
      <4>2. f[s[i]].word = s[i + 1]
        BY <4>1 DEF Chain
      <4> QED
        BY <2>2, <2>4, <3>1, <3>3, <4>1, <4>2
    <3> QED
      BY <3>2, <3>3
  <2>6. head = t[1]
    BY <1>0, <2>3, <2>4 DEF Chain
  <2>7. Chain(g, o, k, t, head, count)
    BY <2>3, <2>5, <2>6 DEF Chain
  <2> QED
    BY <2>7
<1> QED
  BY <1>1, <1>2

-----------------------------------------------------------------------------
(* The free list from h, with pages f and owners o, meets none of `avoided',
   and every page of the file has an owner, or is on it, or is in `missing'. *)
List(f, o, h, avoided, missing) ==
    \E n, s :
        /\ Chain(f, o, n, s, h.head, h.count)
        /\ Nodes(s, n) \cap avoided = {}
        /\ \A p \in Page \ missing : p < h.count => p \in o \cup Nodes(s, n)

LEMMA ListFrame ==
    ASSUME NEW f, NEW g, NEW o, NEW q, NEW h \in Header, NEW k \in Header,
           NEW a, NEW b, NEW m, NEW l,
           List(f, o, h, a, m), k.head = h.head, h.count <= k.count,
           \A p \in Page \ (o \cup a) : g[p].word = f[p].word,
           q \subseteq o \cup a,
           \A p \in b : p \in o \cup a \/ ~ (p < h.count),
           \A p \in Page \ l :
              p < k.count => p \in q \/ (p < h.count /\ p \notin m /\ p \notin o)
    PROVE  List(g, q, k, b, l)
<1>1. PICK n, s :
        /\ Chain(f, o, n, s, h.head, h.count)
        /\ Nodes(s, n) \cap a = {}
        /\ \A p \in Page \ m : p < h.count => p \in o \cup Nodes(s, n)
  BY DEF List
<1>2. Nodes(s, n) \subseteq Page \ (o \cup a)
  BY <1>1 DEF Chain, Nodes
<1>3. \A p \in Nodes(s, n) : g[p].word = f[p].word /\ p \notin q /\ p \notin b
  <2>1. \A p \in Nodes(s, n) : p < h.count
    BY <1>1 DEF Chain, Nodes
  <2> QED
    BY <1>2, <2>1
<1>4. h.count \in Nat /\ k.count \in Nat
  BY PagerConstants DEF Header
<1>5. Chain(g, q, n, s, k.head, k.count)
  BY <1>1, <1>3, <1>4, ChainFrame
<1>6. \A p \in Page \ l : p < k.count => p \in q \cup Nodes(s, n)
  BY <1>1
<1>7. Nodes(s, n) \cap b = {}
  BY <1>3
<1> QED
  BY <1>5, <1>6, <1>7 DEF List

LEMMA ListTail ==
    ASSUME NEW f, NEW o, NEW h \in Header, NEW k \in Header, NEW a, NEW m,
           List(f, o, h, a, m), h.head \in Page,
           k.head = f[h.head].word, k.count = h.count
    PROVE  /\ List(f, o, k, {h.head}, m \cup {h.head})
           /\ h.head \notin o /\ h.head < h.count
<1>1. PICK n, s :
        /\ Chain(f, o, n, s, h.head, h.count)
        /\ \A p \in Page \ m : p < h.count => p \in o \cup Nodes(s, n)
  BY DEF List
<1> DEFINE t == TailOf(s, n)
<1>2. /\ Chain(f, o, n - 1, t, k.head, k.count)
      /\ h.head < h.count /\ h.head \notin o
      /\ h.head \notin Nodes(t, n - 1)
      /\ Nodes(s, n) = Nodes(t, n - 1) \cup {h.head}
  BY <1>1, ChainTail
<1> HIDE DEF t
<1>3. \A p \in Page \ (m \cup {h.head}) : p < k.count => p \in o \cup Nodes(t, n - 1)
  BY <1>1, <1>2
<1>4. Nodes(t, n - 1) \cap {h.head} = {}
  BY <1>2
<1> QED
  BY <1>2, <1>3, <1>4 DEF List

LEMMA ListCons ==
    ASSUME NEW f, NEW g, NEW o, NEW h \in Header, NEW k \in Header, NEW a, NEW m,
           NEW p \in Page, List(f, o, h, a, m),
           p \in a, p \notin o, p < h.count,
           g[p].word = h.head, \A q \in Page \ {p} : g[q].word = f[q].word,
           k.head = p, k.count = h.count
    PROVE  List(g, o, k, {}, m \ {p})
<1>1. PICK n, s :
        /\ Chain(f, o, n, s, h.head, h.count)
        /\ Nodes(s, n) \cap a = {}
        /\ \A q \in Page \ m : q < h.count => q \in o \cup Nodes(s, n)
  BY DEF List
<1>2. p \notin Nodes(s, n) /\ Nodes(s, n) \subseteq Page
  BY <1>1 DEF Chain, Nodes
<1>3. \A q \in Nodes(s, n) : g[q].word = f[q].word
  BY <1>2
<1> DEFINE t == ConsTo(p, s, n)
<1>4. /\ Chain(g, o, n + 1, t, p, h.count)
      /\ Nodes(t, n + 1) = Nodes(s, n) \cup {p}
  <2>1. Chain(f, o, n, s, g[p].word, h.count)
    BY <1>1
  <2>2. Nodes(ConsTo(p, s, n), n + 1) = Nodes(s, n) \cup {p}
    BY <1>1, ConsNodes
  <2>3. Chain(g, o, n + 1, ConsTo(p, s, n), p, h.count)
    BY <2>1, <1>2, <1>3, ChainCons
  <2> QED
    BY <2>2, <2>3
<1> HIDE DEF t
<1>5. Chain(g, o, n + 1, t, k.head, k.count) /\ Nodes(t, n + 1) \cap {} = {}
  BY <1>4
<1>6. \A q \in Page \ (m \ {p}) : q < k.count => q \in o \cup Nodes(t, n + 1)
  BY <1>1, <1>4
<1> QED
  BY <1>5, <1>6 DEF List

LEMMA ListCut ==
    ASSUME NEW f, NEW g, NEW o, NEW h \in Header, NEW a, NEW m, NEW p \in Page,
           List(f, o, h, a, m),
           g[p].word \in {0, f[p].word}, \A q \in Page \ {p} : g[q].word = f[q].word
    PROVE  List(g, o, h, {}, Page)
<1>1. PICK n, s : Chain(f, o, n, s, h.head, h.count)
  BY DEF List
<1>2. PICK m1, t : Chain(g, o, m1, t, h.head, h.count)
  BY <1>1, ChainCut
<1> QED
  BY <1>2 DEF List

(* A file with no free list. *)
LEMMA ListEmpty ==
    ASSUME NEW f, NEW o, NEW h \in Header, h.head = 0, h.count \in {0, 1}, NEW a
    PROVE  List(f, o, h, a, {})
<1> DEFINE s == [i \in 1 .. 0 |-> 1]
<1>1. s \in [1 .. 0 -> Page] /\ 0 \in 0 .. MaxPage
  BY PagerConstants DEF Page
<1>2. Chain(f, o, 0, s, h.head, h.count) /\ Nodes(s, 0) = {}
  BY <1>1 DEF Chain, Nodes
<1>3. \A p \in Page : ~ (p < h.count)
  BY PagerConstants DEF Page
<1> HIDE DEF s
<1> QED
  BY <1>2, <1>3 DEF List

-----------------------------------------------------------------------------
(* The page that alloc or free has in hand: on no list. *)
Reserved == IF call = "alloc" \/ pc = "link" THEN {target} ELSE {}

(* The free list in memory; nothing leaks as long as nothing fails. *)
MemoryList ==
    List(page, owned, cached, Reserved, IF faults = {} THEN Reserved ELSE Page)

(* The free list in the file. *)
FileAvoids == IF pc = "link" THEN {target} ELSE {}
FileList ==
    List(page, owned, header, FileAvoids,
         IF faults = {} /\ pc = "closed" THEN {} ELSE Page)

ListInv ==
    /\ FileList
    /\ \A p \in owned : p < header.count
    /\ pc # "closed" =>
          /\ MemoryList
          /\ header.count <= cached.count
          /\ Reserved # {} => target \notin owned /\ target < cached.count

LEMMA ListInit == Init => ListInv
<1> SUFFICES ASSUME Init PROVE ListInv
  OBVIOUS
<1>1. List(page, owned, header, {}, {})
  BY HeaderTypes, ListEmpty DEF Init
<1>2. List(page, owned, header, {}, Page)
  BY <1>1 DEF List
<1> QED
  BY <1>1, <1>2 DEF Init, ListInv, FileList, FileAvoids

LEMMA MemoryFrame ==
    ASSUME Inv, Inv', MemoryList, UNCHANGED faults,
           cached'.head = cached.head, cached'.count = cached.count,
           \A p \in Page \ (owned \cup Reserved) : page'[p].word = page[p].word,
           owned' \cup Reserved' \subseteq owned \cup Reserved,
           faults = {} => owned' \cup Reserved' = owned \cup Reserved
    PROVE  MemoryList'
<1>1. /\ cached \in Header /\ cached' \in Header
      /\ cached.count <= cached'.count
  BY PagerConstants DEF Inv, TypeOK, Header
<1> DEFINE m == IF faults = {} THEN Reserved ELSE Page
<1> DEFINE l == IF faults = {} THEN Reserved' ELSE Page
<1>2. \A p \in Page \ l :
         p < cached'.count => p \in owned' \/ (p < cached.count /\ p \notin m /\ p \notin owned)
  OBVIOUS
<1>3. List(page, owned, cached, Reserved, m)
  BY DEF MemoryList
<1> HIDE DEF l, m
<1>4. List(page', owned', cached', Reserved', l)
  BY <1>1, <1>2, <1>3, ListFrame
<1> QED
  BY <1>4 DEF MemoryList, l

LEMMA FileFrame ==
    ASSUME Inv, Inv', FileList, UNCHANGED << faults, header >>,
           \A p \in Page \ (owned \cup FileAvoids) : page'[p].word = page[p].word,
           owned' \cup FileAvoids' \subseteq owned \cup FileAvoids,
           pc' # "closed" \/ faults # {}
    PROVE  FileList'
<1>1. header \in Header /\ header.count <= header.count
  BY PagerConstants DEF Inv, TypeOK, Header
<1>2. PICK m : List(page, owned, header, FileAvoids, m)
  BY DEF FileList
<1>3. List(page', owned', header, FileAvoids', Page)
  BY <1>1, <1>2, ListFrame
<1> QED
  BY <1>3 DEF FileList

-----------------------------------------------------------------------------
(* The steps that touch no page of a list, and no list. *)
LEMMA QuietList ==
    ASSUME Inv, Inv', ListInv, UNCHANGED << faults, header, owned >>,
           pc # "closed", pc' # "closed",
           cached'.head = cached.head, cached'.count = cached.count,
           \A p \in Page \ owned : page'[p].word = page[p].word,
           Reserved' = Reserved, FileAvoids' = FileAvoids,
           Reserved # {} => target' = target
    PROVE  ListInv'
<1>1. MemoryList'
  BY MemoryFrame DEF ListInv
<1>2. FileList'
  BY FileFrame DEF ListInv
<1> QED
  BY <1>1, <1>2 DEF ListInv

LEMMA QuietSteps ==
    ASSUME Inv, Inv', ListInv, UNCHANGED faults,
           \/ SyncHeader \/ FlushBuffer \/ DropBuffer \/ WritePage \/ FailSync
           \/ \E p \in Page : OpenBuffer(p)
           \/ \E p \in Page, c \in Written : StartWrite(p, c)
           \/ \E c \in Written : EditBuffer(c)
           \/ \E n \in 1 .. MaxSeq : RecordWalCommit(n)
    PROVE  ListInv'
<1> USE DEF Reserved, FileAvoids
<1>1. CASE \/ SyncHeader
           \/ \E p \in Page : OpenBuffer(p)
           \/ \E p \in Page, c \in Written : StartWrite(p, c)
  <2>1. /\ pc = "idle" /\ pc' \in {"header", "buffer", "write"} /\ call' \in {"header", "write"}
        /\ UNCHANGED << header, page, owned, cached >>
    BY <1>1 DEF SyncHeader, OpenBuffer, StartWrite, Start, fileVars
  <2> QED
    BY <2>1, QuietList DEF Inv, CallInv
<1>2. CASE \E n \in 1 .. MaxSeq : RecordWalCommit(n)
  <2>1. /\ pc = "idle" /\ pc' = "header" /\ call' = "mark"
        /\ UNCHANGED << header, page, owned >>
        /\ \E n \in 1 .. MaxSeq : cached' = [cached EXCEPT !.seq = n]
    BY <1>2 DEF RecordWalCommit, Start, fileVars
  <2>2. cached'.head = cached.head /\ cached'.count = cached.count
    BY <2>1 DEF Inv, TypeOK, Header
  <2> QED
    BY <2>1, <2>2, QuietList DEF Inv, CallInv
<1>3. CASE FlushBuffer \/ FailSync \/ \E c \in Written : EditBuffer(c)
  <2>1. /\ pc \in {"buffer", "sync"} /\ pc' \in {"write", "buffer", "failed"}
        /\ UNCHANGED << header, page, owned, cached, call, target >>
    BY <1>3 DEF FlushBuffer, FailSync, EditBuffer, fileVars, callVars
  <2> QED
    BY <2>1, QuietList
<1>4. CASE DropBuffer
  <2>1. /\ pc = "buffer" /\ pc' = "idle" /\ call = "write" /\ call' = "none"
        /\ UNCHANGED << header, page, owned, cached >>
    BY <1>4 DEF DropBuffer, Return, fileVars, Inv, CallInv
  <2> QED
    BY <2>1, QuietList
<1>5. CASE WritePage
  <2>1. /\ pc = "write" /\ pc' = "sync"
        /\ UNCHANGED << header, owned, cached, call, target >>
    BY <1>5 DEF WritePage, callVars
  <2>2. \A p \in Page \ owned : page'[p].word = page[p].word
    BY <1>5 DEF WritePage, Inv, TypeOK, CallInv
  <2> QED
    BY <2>1, <2>2, QuietList
<1> QED
  BY <1>1, <1>2, <1>3, <1>4, <1>5

LEMMA OpenSteps ==
    ASSUME Inv, Inv', MarkInv, ListInv, UNCHANGED faults, Create \/ Open
    PROVE  ListInv'
<1>1. CASE Create
  <2>1. /\ pc' = "header" /\ call' = "create" /\ pc = "closed" /\ cached' = NewHeader
        /\ UNCHANGED << header, page, owned >> /\ header.count = 0
    BY <1>1 DEF Create, MarkInv
  <2>2. FileList'
    BY <2>1, FileFrame DEF ListInv, FileAvoids
  <2>3. Reserved' = {}
    BY <2>1 DEF Reserved
  <2>4. List(page', owned', cached', Reserved', {})
    BY <2>1, HeaderTypes, ListEmpty
  <2>5. MemoryList'
    BY <2>3, <2>4 DEF MemoryList, List
  <2> QED
    BY <2>1, <2>2, <2>3, <2>5, HeaderTypes DEF ListInv
<1>2. CASE Open
  <2>1. /\ pc' = "idle" /\ pc = "closed" /\ cached' = header /\ call' = "none"
        /\ UNCHANGED << header, page, owned >>
    BY <1>2 DEF Open, fileVars, callVars, Inv, CallInv
  <2>2. FileList'
    BY <2>1, FileFrame DEF ListInv, FileAvoids
  <2>3. Reserved' = {} /\ FileAvoids = {}
    BY <2>1 DEF Reserved, FileAvoids
  <2>4. List(page, owned, header, {}, IF faults = {} THEN {} ELSE Page)
    BY <2>1, <2>3 DEF ListInv, FileList
  <2>5. MemoryList'
    BY <2>1, <2>3, <2>4 DEF MemoryList
  <2>6. header'.count <= cached'.count
    BY <2>1, PagerConstants DEF Inv, TypeOK, Header
  <2> QED
    BY <2>1, <2>2, <2>3, <2>5, <2>6 DEF ListInv
<1> QED
  BY <1>1, <1>2

LEMMA AllocStep ==
    ASSUME Inv, Inv', ListInv, UNCHANGED faults, Alloc
    PROVE  ListInv'
<1>1. /\ pc = "idle" /\ pc' = "zero" /\ call = "none" /\ call' = "alloc"
      /\ UNCHANGED << header, page, owned >>
  BY DEF Alloc, AllocFromFreeList, AllocAtEnd, Start, fileVars, Inv, CallInv
<1>2. Reserved = {} /\ Reserved' = {target'} /\ FileAvoids = {} /\ FileAvoids' = {}
  BY <1>1 DEF Reserved, FileAvoids
<1>3. FileList'
  BY <1>1, <1>2, FileFrame DEF ListInv
<1>4. /\ cached \in Header /\ cached' \in Header /\ header \in Header
      /\ cached.count \in Nat /\ cached'.count \in Nat /\ header.count \in Nat
      /\ \A p \in Page : p \in Nat
  BY PagerConstants DEF Inv, TypeOK, Header, Page
<1> DEFINE m == IF faults = {} THEN {} ELSE Page
<1>5. List(page, owned, cached, {}, m) /\ header.count <= cached.count
  BY <1>1, <1>2 DEF ListInv, MemoryList
<1>6. \A p \in owned : p \in Page /\ p < header.count
  BY DEF ListInv, Inv, TypeOK
<1> HIDE DEF m
<1>7. CASE AllocFromFreeList
  <2>1. /\ cached.head \in Page /\ target' = cached.head
        /\ cached'.head = page[cached.head].word /\ cached'.count = cached.count
    BY <1>7 DEF AllocFromFreeList, Start, Inv, TypeOK, Header
  <2>2. /\ List(page, owned, cached', {cached.head}, m \cup {cached.head})
        /\ cached.head \notin owned /\ cached.head < cached.count
    BY <1>4, <1>5, <2>1, ListTail
  <2>3. m \cup {cached.head} = IF faults = {} THEN Reserved' ELSE Page
    BY <1>2, <2>1 DEF m
  <2>4. MemoryList'
    BY <1>1, <1>2, <2>1, <2>2, <2>3 DEF MemoryList
  <2> QED
    BY <1>1, <1>2, <1>3, <1>5, <1>6, <2>1, <2>2, <2>4 DEF ListInv
<1>8. CASE AllocAtEnd
  <2>1. /\ target' = cached.count
        /\ cached'.head = cached.head /\ cached'.count = cached.count + 1
    BY <1>8 DEF AllocAtEnd, Start, Inv, TypeOK, Header
  <2>2. target' \notin owned
    BY <1>4, <1>5, <1>6, <2>1
  <2> DEFINE l == IF faults = {} THEN {target'} ELSE Page
  <2>3. \A p \in Page \ l :
           p < cached'.count => p \in owned \/ (p < cached.count /\ p \notin m /\ p \notin owned)
    BY <1>4, <2>1 DEF m
  <2>4. \A p \in {target'} : ~ (p < cached.count)
    BY <1>4, <2>1
  <2> HIDE DEF l
  <2>5. List(page, owned, cached', {target'}, l)
    BY <1>4, <1>5, <2>1, <2>3, <2>4, ListFrame
  <2>6. MemoryList'
    BY <1>1, <1>2, <2>5 DEF MemoryList, l
  <2>7. header.count <= cached'.count /\ target' < cached'.count
    BY <1>4, <1>5, <2>1
  <2> QED
    BY <1>1, <1>2, <1>3, <1>6, <2>2, <2>6, <2>7 DEF ListInv
<1> QED
  BY <1>7, <1>8 DEF Alloc

(* The page in hand is overwritten, its link kept or zeroed. *)
LEMMA ListZeroed ==
    ASSUME Inv, Inv', ListInv, UNCHANGED << faults, header, owned, cached, call, target >>,
           call = "alloc", pc = "zero", pc' \in {"header", "failed"},
           \A p \in Page \ {target} : page'[p] = page[p],
           page'[target].word \in {0, page[target].word}
    PROVE  ListInv'
<1>1. /\ target \in Page /\ header \in Header
      /\ Reserved = {target} /\ Reserved' = {target} /\ FileAvoids' = {}
  BY DEF Inv, TypeOK, CallInv, Reserved, FileAvoids
<1>2. PICK a, m : List(page, owned, header, a, m)
  BY DEF ListInv, FileList
<1>3. List(page', owned, header, {}, Page)
  BY <1>1, <1>2, ListCut
<1>4. FileList'
  BY <1>1, <1>3 DEF FileList
<1>5. MemoryList'
  BY <1>1, MemoryFrame DEF ListInv
<1> QED
  BY <1>1, <1>4, <1>5 DEF ListInv

LEMMA ZeroStep ==
    ASSUME Inv, Inv', ListInv, UNCHANGED faults, ZeroPage
    PROVE  ListInv'
<1>1. /\ UNCHANGED << header, owned, cached, call, target >>
      /\ pc = "zero" /\ call = "alloc" /\ pc' = "header"
  BY DEF ZeroPage, callVars, Inv, CallInv
<1>2. /\ \A p \in Page \ {target} : page'[p] = page[p]
      /\ page'[target].word = 0
  BY HeaderTypes DEF ZeroPage, Inv, TypeOK, CallInv
<1> QED
  BY <1>1, <1>2, ListZeroed

LEMMA FreeStep ==
    ASSUME Inv, Inv', ListInv, UNCHANGED faults, NEW p \in Page, Free(p)
    PROVE  ListInv'
<1>1. /\ pc = "idle" /\ pc' = "link" /\ call = "none" /\ call' = "free" /\ target' = p
      /\ p \in owned /\ owned' = owned \ {p}
      /\ UNCHANGED << header, page, cached >>
  BY DEF Free, Start, fileVars, Inv, CallInv
<1>2. Reserved = {} /\ Reserved' = {p} /\ FileAvoids = {} /\ FileAvoids' = {p}
  BY <1>1 DEF Reserved, FileAvoids
<1>3. FileList'
  BY <1>1, <1>2, FileFrame DEF ListInv
<1>4. MemoryList'
  BY <1>1, <1>2, MemoryFrame DEF ListInv
<1>5. p < cached.count
  <2>1. p < header.count /\ header.count <= cached.count
    BY <1>1 DEF ListInv
  <2>2. p \in Nat /\ header.count \in Nat /\ cached.count \in Nat
    BY PagerConstants DEF Inv, TypeOK, Header, Page
  <2> QED
    BY <2>1, <2>2
<1> QED
  BY <1>1, <1>3, <1>4, <1>5 DEF ListInv

LEMMA LinkStep ==
    ASSUME Inv, Inv', ListInv, UNCHANGED faults, LinkPage
    PROVE  ListInv'
<1>1. /\ pc = "link" /\ pc' = "header" /\ call = "free" /\ call' = "free"
      /\ UNCHANGED << header, owned >>
  BY DEF LinkPage, callVars, Inv, CallInv
<1>2. /\ Reserved = {target} /\ Reserved' = {} /\ FileAvoids = {target} /\ FileAvoids' = {}
  BY <1>1 DEF Reserved, FileAvoids
<1>3. target \in Page /\ target \notin owned /\ target < cached.count
  BY <1>1, <1>2 DEF ListInv, Inv, CallInv
<1>4. /\ \A p \in Page \ {target} : page'[p].word = page[p].word
      /\ page'[target].word = cached.head
  BY <1>3 DEF LinkPage, Inv, TypeOK, Content
<1>5. /\ cached \in Header /\ cached' \in Header
      /\ cached'.head = target /\ cached'.count = cached.count
  BY DEF LinkPage, Inv, TypeOK, Header
<1>6. FileList'
  BY <1>1, <1>2, <1>4, FileFrame DEF ListInv
<1> DEFINE m == IF faults = {} THEN {target} ELSE Page
<1>7. List(page, owned, cached, {target}, m)
  BY <1>1, <1>2 DEF ListInv, MemoryList
<1> HIDE DEF m
<1>8. List(page', owned, cached', {}, m \ {target})
  <2>1. target \in {target}
    OBVIOUS
  <2> QED
    BY <1>3, <1>4, <1>5, <1>7, <2>1, ListCons
<1>9. List(page', owned, cached', {}, IF faults = {} THEN {} ELSE Page)
  <2>1. m \ {target} \subseteq IF faults = {} THEN {} ELSE Page
    BY DEF m
  <2> QED
    BY <1>8, <2>1 DEF List
<1>10. MemoryList'
  BY <1>1, <1>2, <1>9 DEF MemoryList
<1> QED
  BY <1>1, <1>2, <1>5, <1>6, <1>10 DEF ListInv

(* The header is written: the file takes the list in memory. *)
LEMMA HeaderWritten ==
    ASSUME Inv, Inv', ListInv, UNCHANGED << faults, page, owned, cached, call, target >>,
           header' = cached, pc = "header", pc' \in {"sync", "failed"}
    PROVE  ListInv'
<1>1. Reserved' = Reserved /\ FileAvoids' = {}
  BY DEF Reserved, FileAvoids
<1>2. MemoryList'
  BY <1>1, MemoryFrame DEF ListInv
<1>3. PICK a, m : List(page, owned, cached, a, m)
  BY DEF ListInv, MemoryList
<1>4. List(page', owned', header', {}, Page)
  BY <1>3 DEF List
<1>5. FileList'
  BY <1>1, <1>4 DEF FileList
<1>6. /\ cached.count \in Nat /\ header.count \in Nat
      /\ \A p \in owned : p \in Nat /\ p < header.count
      /\ header.count <= cached.count
  BY PagerConstants DEF ListInv, Inv, TypeOK, Header, Page
<1>7. header'.count <= cached'.count /\ \A p \in owned' : p < header'.count
  BY <1>6
<1> QED
  BY <1>1, <1>2, <1>5, <1>7 DEF ListInv

LEMMA SyncStep ==
    ASSUME Inv, Inv', ListInv, UNCHANGED faults, Sync
    PROVE  ListInv'
<1>1. /\ pc = "sync" /\ pc' = "idle" /\ call' = "none"
      /\ UNCHANGED << header, page, cached >>
      /\ owned' = IF call = "alloc" THEN owned \cup {target} ELSE owned
  BY DEF Sync, SyncAll, Return
<1>2. Reserved' = {} /\ FileAvoids = {} /\ FileAvoids' = {}
  BY <1>1 DEF Reserved, FileAvoids
<1>3. owned' = owned \cup Reserved
  BY <1>1 DEF Reserved
<1>4. MemoryList'
  BY <1>1, <1>2, <1>3, MemoryFrame DEF ListInv
<1>5. CASE call = "alloc"
  <2>1. header = cached /\ Reserved = {target}
    BY <1>1, <1>5 DEF Inv, HeaderInv, Reserved
  <2>2. PICK a, m : List(page', owned', cached', a, m)
    BY <1>4 DEF MemoryList
  <2>3. List(page', owned', header', {}, Page)
    BY <1>1, <2>1, <2>2 DEF List
  <2>4. FileList'
    BY <1>1, <1>2, <2>3 DEF FileList
  <2>5. \A p \in owned' : p < header'.count
    BY <1>1, <1>3, <2>1 DEF ListInv
  <2> QED
    BY <1>1, <1>2, <1>4, <2>4, <2>5 DEF ListInv
<1>6. CASE call # "alloc"
  <2>1. FileList'
    BY <1>1, <1>2, <1>6, FileFrame DEF ListInv
  <2> QED
    BY <1>1, <1>2, <1>4, <1>6, <2>1 DEF ListInv
<1> QED
  BY <1>5, <1>6

LEMMA FailWriteStep ==
    ASSUME Inv, Inv', ListInv, UNCHANGED faults, FailWrite
    PROVE  ListInv'
<1>1. /\ faults # {} /\ pc # "closed" /\ pc' = "failed"
      /\ UNCHANGED << owned, cached, call, target >>
  BY DEF FailWrite, callVars
<1>2. FileAvoids' = {}
  BY <1>1 DEF FileAvoids
<1>3. CASE pc = "header"
  <2>1. header' \in {header, cached} /\ page' = page
    BY <1>3, FailWriteEffect
  <2>2. CASE header' = cached
    BY <1>1, <1>3, <2>1, <2>2, HeaderWritten
  <2>3. CASE header' = header
    BY <1>1, <1>3, <2>1, <2>3, QuietList DEF Reserved, FileAvoids
  <2> QED
    BY <2>1, <2>2, <2>3
<1>4. CASE pc = "zero"
  <2>1. /\ header' = header /\ \A p \in Page \ {target} : page'[p] = page[p]
        /\ page'[target].word \in {0, page[target].word}
    BY <1>4, FailWriteEffect
  <2> QED
    BY <1>1, <1>4, <2>1, ListZeroed DEF Inv, CallInv
<1>5. CASE pc = "link"
  <2>1. header' = header /\ \A p \in Page \ {target} : page'[p] = page[p]
    BY <1>5, FailWriteEffect
  <2>2. Reserved = {target} /\ Reserved' = {} /\ FileAvoids = {target}
    BY <1>1, <1>5 DEF Reserved, FileAvoids, Inv, CallInv
  <2>3. MemoryList'
    BY <1>1, <2>1, <2>2, MemoryFrame DEF ListInv
  <2>4. FileList'
    BY <1>1, <1>2, <2>1, <2>2, FileFrame DEF ListInv
  <2> QED
    BY <1>1, <2>1, <2>2, <2>3, <2>4 DEF ListInv
<1>6. CASE pc = "write"
  <2>1. header' = header /\ \A p \in Page \ {target} : page'[p] = page[p]
    BY <1>6, FailWriteEffect
  <2>2. target \in owned
    BY <1>6 DEF Inv, CallInv
  <2> QED
    BY <1>1, <1>6, <2>1, <2>2, QuietList DEF Reserved, FileAvoids
<1> QED
  BY <1>3, <1>4, <1>5, <1>6 DEF FailWrite

(* The handle goes; without a fault only from idle, where the file and memory
   have the same list. *)
LEMMA LeaveStep ==
    ASSUME Inv, Inv', ListInv, UNCHANGED << faults, header, page >>, Leave,
           pc = "idle" \/ faults # {}, pc # "closed"
    PROVE  ListInv'
<1>1. pc' = "closed" /\ FileAvoids' = {} /\ UNCHANGED owned
  BY DEF Leave, FileAvoids
<1>2. CASE faults = {}
  <2>1. header = cached /\ Reserved = {}
    BY <1>2 DEF Inv, HeaderInv, CallInv, Reserved
  <2>2. List(page, owned, header, {}, {})
    BY <1>2, <2>1 DEF ListInv, MemoryList
  <2>3. FileList'
    BY <1>1, <1>2, <2>2 DEF FileList
  <2> QED
    BY <1>1, <2>3 DEF ListInv
<1>3. CASE faults # {}
  <2>1. FileList'
    BY <1>1, <1>3, FileFrame DEF ListInv
  <2> QED
    BY <1>1, <2>1 DEF ListInv
<1> QED
  BY <1>2, <1>3

LEMMA EndSteps ==
    ASSUME Inv, Inv', ListInv, UNCHANGED faults, ReturnError \/ Close \/ Kill
    PROVE  ListInv'
<1>1. CASE Close \/ Kill
  BY <1>1, LeaveStep DEF Close, Kill
<1>2. CASE ReturnError
  <2>1. pc = "failed" /\ faults # {} /\ UNCHANGED << header, page >>
    BY <1>2 DEF ReturnError, Inv, CallInv
  <2>2. CASE call = "create"
    BY <1>2, <2>1, <2>2, LeaveStep DEF ReturnError
  <2>3. CASE call # "create"
    <3>1. pc' = "idle" /\ call' = "none" /\ UNCHANGED << cached, owned >>
      BY <1>2, <2>3 DEF ReturnError, Return
    <3>2. Reserved' = {} /\ FileAvoids = {} /\ FileAvoids' = {}
      BY <2>1, <3>1 DEF Reserved, FileAvoids
    <3>3. MemoryList'
      BY <2>1, <3>1, <3>2, MemoryFrame DEF ListInv
    <3>4. FileList'
      BY <2>1, <3>1, <3>2, FileFrame DEF ListInv
    <3> QED
      BY <2>1, <3>1, <3>2, <3>3, <3>4 DEF ListInv
  <2> QED
    BY <2>2, <2>3
<1> QED
  BY <1>1, <1>2

(* ... and so are the lists, with both, as long as the power stays. *)
LEMMA ListNext ==
    Inv /\ MarkInv /\ ("power" \notin faults => ListInv) /\ [Next]_vars
        => ("power" \notin faults => ListInv)'
<1> SUFFICES ASSUME Inv, MarkInv, "power" \notin faults => ListInv, [Next]_vars,
                    "power" \notin faults'
             PROVE  ListInv'
  OBVIOUS
<1>1. Inv'
  BY NextInv
<1>2. "power" \notin faults /\ UNCHANGED faults /\ ListInv
  BY DEF Next, vars
<1>3. CASE UNCHANGED vars
  <2>1. UNCHANGED << header, page, owned, cached, pc, call, target >>
    BY <1>3 DEF vars, fileVars, callVars
  <2> QED
    BY <1>2, <2>1
    DEF ListInv, MemoryList, FileList, Reserved, FileAvoids
<1>4. CASE Next
  <2>1. CASE Create \/ Open
    BY <1>1, <1>2, <2>1, OpenSteps
  <2>2. CASE Alloc
    BY <1>1, <1>2, <2>2, AllocStep
  <2>3. CASE ZeroPage
    BY <1>1, <1>2, <2>3, ZeroStep
  <2>4. ASSUME NEW p \in Page, Free(p) PROVE ListInv'
    BY <1>1, <1>2, <2>4, FreeStep
  <2>5. CASE LinkPage
    BY <1>1, <1>2, <2>5, LinkStep
  <2>6. CASE WriteHeader
    BY <1>1, <1>2, <2>6, HeaderWritten DEF WriteHeader, callVars
  <2>7. CASE Sync
    BY <1>1, <1>2, <2>7, SyncStep
  <2>8. CASE FailWrite
    BY <1>1, <1>2, <2>8, FailWriteStep
  <2>9. CASE ReturnError \/ Close \/ Kill
    BY <1>1, <1>2, <2>9, EndSteps
  <2>10. CASE \/ SyncHeader \/ FlushBuffer \/ DropBuffer \/ WritePage \/ FailSync
              \/ \E p \in Page : OpenBuffer(p)
              \/ \E p \in Page, c \in Written : StartWrite(p, c)
              \/ \E c \in Written : EditBuffer(c)
              \/ \E n \in 1 .. MaxSeq : RecordWalCommit(n)
    BY <1>1, <1>2, <2>10, QuietSteps
  <2>11. ~ PowerCut
    BY <1>2 DEF PowerCut
  <2> QED
    BY <1>4, <2>1, <2>2, <2>3, <2>4, <2>5, <2>6, <2>7, <2>8, <2>9, <2>10, <2>11 DEF Next
<1> QED
  BY <1>3, <1>4

-----------------------------------------------------------------------------
(* The invariant gives what the runs check. *)
LEMMA ListsAreSound ==
    Inv /\ ("power" \notin faults => ListInv) => FreeListSound
<1> SUFFICES ASSUME Inv, "power" \notin faults => ListInv PROVE FreeListSound
  OBVIOUS
<1>1. ASSUME NEW h, NEW a, NEW m, List(page, owned, h, a, m) PROVE HasFreeList(h)
  <2>1. PICK n, s : Chain(page, owned, n, s, h.head, h.count)
    BY <1>1 DEF List
  <2>2. n \in 0 .. MaxPage /\ s \in [1 .. n -> Page]
    BY <2>1 DEF Chain
  <2> QED
    BY <2>1, <2>2, ChainOfFreeList DEF HasFreeList
<1>2. "power" \notin faults =>
          /\ HasFreeList(header)
          /\ pc # "closed" => HasFreeList(cached)
  BY <1>1 DEF ListInv, MemoryList, FileList
<1>3. ASSUME faults = {}, pc = "idle" PROVE EveryPageAccounted
  <2>1. header = cached /\ Reserved = {}
    BY <1>3 DEF Inv, HeaderInv, CallInv, Reserved
  <2>2. List(page, owned, header, {}, {})
    BY <1>3, <2>1 DEF ListInv, MemoryList
  <2>3. PICK n, s :
          /\ Chain(page, owned, n, s, header.head, header.count)
          /\ \A p \in Page : p < header.count => p \in owned \cup Nodes(s, n)
    BY <2>2 DEF List
  <2>4. n \in 0 .. MaxPage /\ s \in [1 .. n -> Page]
    BY <2>3 DEF Chain
  <2>5. IsFreeList(s, n, header.head, header.count)
    BY <2>3, <2>4, ChainOfFreeList
  <2>6. \A p \in Page : p < header.count => p \in owned \/ \E i \in 1 .. n : s[i] = p
    BY <2>3 DEF Nodes
  <2> QED
    BY <2>1, <2>4, <2>5, <2>6 DEF EveryPageAccounted
<1>4. faults = {} => EveryPageAccounted
  BY <1>3 DEF EveryPageAccounted
<1> QED
  BY <1>2, <1>4 DEF FreeListSound, Inv

(* No page is handed out twice: the free list, in memory and in the file that
   a kill or a failed write leaves, is finite, meets no page twice and none that
   is owned; and with no fault at all, no page is lost. *)
THEOREM FreeListIsSound == Spec => []FreeListSound
<1> DEFINE L == "power" \notin faults => ListInv
<1>1. Init => L
  BY ListInit
<1>2. Inv /\ MarkInv /\ L /\ [Next]_vars => L'
  BY ListNext
<1>3. Inv /\ L => FreeListSound
  BY ListsAreSound
<1> HIDE DEF L
<1> QED
  BY <1>1, <1>2, <1>3, InitInv, NextInv, MarkInit, MarkNext, PTL DEF Spec

-----------------------------------------------------------------------------
(* The refinement mapping. *)
Pages == [p \in Page |-> IF p \in owned THEN page[p] ELSE Unowned]
Writers == IF call = "write" THEN {<< "client", target >>} ELSE {}

(* A step of the store under the mapping, or none. *)
StoreStep == Store!Next \/ (Pages' = Pages /\ Writers' = Writers)

(* A step that changes no owned page, and opens and closes none. *)
LEMMA StoreStutter ==
    ASSUME UNCHANGED owned, \A p \in owned : page'[p] = page[p],
           \/ call # "write" /\ call' # "write"
           \/ UNCHANGED << call, target >>
    PROVE  StoreStep
BY DEF StoreStep, Pages, Writers

LEMMA StoreClose ==
    ASSUME Inv, call = "write", call' # "write", UNCHANGED owned,
           \A p \in owned : page'[p] = page[p]
    PROVE  StoreStep
<1>1. target \in Page
  BY DEF Inv, TypeOK, CallInv
<1>2. Writers = {<< "client", target >>} /\ Writers' = {} /\ Pages' = Pages
  BY DEF Writers, Pages
<1>3. Store!Close("client", target)
  BY <1>2 DEF Store!Close, Pages, Writers
<1> QED
  BY <1>1, <1>3 DEF StoreStep, Store!Next

LEMMA StoreWrite ==
    ASSUME Inv, pc = "write", UNCHANGED << owned, call, target >>, NEW c \in Content,
           page' = [page EXCEPT ![target] = c]
    PROVE  StoreStep
<1>1. target \in owned /\ target \in Page /\ call = "write"
  BY DEF Inv, TypeOK, CallInv
<1>2. Writers = {<< "client", target >>} /\ Writers' = Writers
  BY <1>1 DEF Writers
<1>3. Pages' = [Pages EXCEPT ![target] = c]
  BY <1>1 DEF Pages, Inv, TypeOK
<1>4. Store!Write("client", target, c)
  BY <1>2, <1>3 DEF Store!Write, Pages, Writers
<1> QED
  BY <1>1, <1>4 DEF StoreStep, Store!Next

LEMMA StoreOpen ==
    ASSUME Inv, pc = "idle", NEW p \in owned, UNCHANGED << page, owned >>,
           call' = "write", target' = p
    PROVE  StoreStep
<1>1. p \in Page /\ page[p] \in Content /\ call = "none"
  BY DEF Inv, TypeOK, CallInv
<1>2. Writers = {} /\ Writers' = {<< "client", p >>} /\ Pages' = Pages /\ Pages[p] # Unowned
  BY <1>1, PagerConstants DEF Writers, Pages
<1>3. Store!OpenToWrite("client", p)
  BY <1>2 DEF Store!OpenToWrite, Store!IsOpen, Pages, Writers
<1> QED
  BY <1>1, <1>3 DEF StoreStep, Store!Next

LEMMA StoreRelease ==
    ASSUME Inv, NEW p \in Page, Free(p)
    PROVE  StoreStep
<1>1. /\ p \in owned /\ owned' = owned \ {p} /\ page' = page
      /\ call = "none" /\ call' = "free" /\ page[p] \in Content
  BY DEF Free, Start, fileVars, Inv, TypeOK, CallInv
<1>2. Writers = {} /\ Writers' = {} /\ Pages[p] # Unowned
  BY <1>1, PagerConstants DEF Writers, Pages
<1>3. Pages' = [Pages EXCEPT ![p] = Unowned]
  BY <1>1 DEF Pages
<1>4. Store!Release(p)
  BY <1>2, <1>3 DEF Store!Release, Store!IsOpen, Pages, Writers
<1> QED
  BY <1>4 DEF StoreStep, Store!Next

LEMMA StoreAllocate ==
    ASSUME Inv, ListInv, Sync, call = "alloc", NEW p \in Page, p = target
    PROVE  StoreStep
<1>1. /\ pc = "sync" /\ page[p] = Zeroed
      /\ owned' = owned \cup {p} /\ page' = page /\ call' = "none"
  BY DEF Sync, SyncAll, Return, Inv, CallInv
<1>2. p \notin owned
  BY <1>1 DEF ListInv, Reserved
<1>3. Writers = {} /\ Writers' = {} /\ Pages[p] = Unowned
  BY <1>1, <1>2 DEF Writers, Pages
<1>4. Pages' = [Pages EXCEPT ![p] = Zeroed]
  BY <1>1 DEF Pages
<1>5. Store!Allocate(p)
  BY <1>3, <1>4 DEF Store!Allocate, Pages, Writers
<1> QED
  BY <1>5 DEF StoreStep, Store!Next

LEMMA StoreSteps ==
    ASSUME Inv, ListInv, Next, "power" \notin faults
    PROVE  StoreStep
<1> USE DEF callVars, fileVars
<1>1. CASE ZeroPage \/ LinkPage \/ (FailWrite /\ pc # "write")
  <2>1. /\ pc \in {"zero", "link", "header"} /\ call # "write"
        /\ UNCHANGED << owned, call, target >>
    BY <1>1 DEF ZeroPage, LinkPage, FailWrite, Inv, CallInv
  <2>2. pc # "header" => target \notin owned
    BY <2>1 DEF ListInv, Reserved, Inv, CallInv
  <2>3. \A p \in owned : page'[p] = page[p]
    BY <1>1, <2>2 DEF ZeroPage, LinkPage, FailWrite, Inv, TypeOK
  <2> QED
    BY <2>1, <2>3, StoreStutter
<1>2. CASE WritePage
  <2>1. buffer \in Content
    BY DEF Inv, TypeOK
  <2> QED
    BY <1>2, <2>1, StoreWrite DEF WritePage
<1>3. CASE FailWrite /\ pc = "write"
  <2>1. PICK c \in {page[target], Replacement, [Replacement EXCEPT !.rest = Torn]} :
               page' = [page EXCEPT ![target] = c]
    BY <1>3 DEF FailWrite
  <2>2. c \in Content
    BY <1>3, <2>1, ReplacementType DEF Inv, TypeOK
  <2> QED
    BY <1>3, <2>1, <2>2, StoreWrite DEF FailWrite
<1>4. CASE \E p \in Page : OpenBuffer(p) \/ \E c \in Written : StartWrite(p, c)
  <2>1. PICK p \in owned : /\ pc = "idle" /\ call' = "write" /\ target' = p
                           /\ UNCHANGED << page, owned >>
    BY <1>4 DEF OpenBuffer, StartWrite, Start
  <2> QED
    BY <2>1, StoreOpen
<1>5. CASE \E p \in Page : Free(p)
  BY <1>5, StoreRelease
<1>6. CASE Sync
  <2>1. CASE call = "alloc"
    <3>1. target \in Page
      BY <2>1 DEF Inv, CallInv
    <3> QED
      BY <1>6, <2>1, <3>1, StoreAllocate
  <2>2. CASE call # "alloc"
    <3>1. UNCHANGED << owned, page >> /\ call' = "none"
      BY <1>6, <2>2 DEF Sync, SyncAll, Return
    <3> QED
      BY <3>1, StoreClose, StoreStutter
  <2> QED
    BY <2>1, <2>2
<1>7. CASE DropBuffer \/ ReturnError \/ Kill \/ Close
  <2>1. UNCHANGED << owned, page >> /\ call' = "none"
    BY <1>7 DEF DropBuffer, ReturnError, Kill, Close, Leave, Return
  <2> QED
    BY <2>1, StoreClose, StoreStutter
<1>8. CASE FlushBuffer \/ FailSync \/ WriteHeader \/ \E c \in Written : EditBuffer(c)
  BY <1>8, StoreStutter DEF EditBuffer, FlushBuffer, FailSync, WriteHeader
<1>9. CASE Create \/ Open \/ Alloc \/ SyncHeader \/ \E n \in 1 .. MaxSeq : RecordWalCommit(n)
  <2>1. UNCHANGED << owned, page >> /\ call # "write" /\ call' # "write"
    BY <1>9 DEF Create, Open, Alloc, AllocFromFreeList, AllocAtEnd, SyncHeader,
                RecordWalCommit, Start, Inv, CallInv
  <2> QED
    BY <2>1, StoreStutter
<1>10. ~ PowerCut
  BY DEF PowerCut
<1> QED
  BY <1>1, <1>2, <1>3, <1>4, <1>5, <1>6, <1>7, <1>8, <1>9, <1>10 DEF Next

(* The pager keeps the promise of a page store: a page belongs to its owner from
   alloc to free, starts zeroed, and changes only while its owner writes it,
   whatever dies or fails, save a power cut. *)
THEOREM ImplementsStore == Spec => ImplementsPageStore
<1> DEFINE L == "power" \notin faults => ListInv
<1>1. Init => L /\ Store!Init
  <2> SUFFICES ASSUME Init PROVE L /\ Store!Init
    OBVIOUS
  <2>1. Store!Init
    BY DEF Init, Store!Init
  <2> QED
    BY <2>1, ListInit
<1>2. Inv /\ MarkInv /\ L /\ [Next]_vars => L'
  BY ListNext
<1>3. Inv /\ L /\ [Next]_vars => [Store!Next \/ "power" \in faults]_(Store!vars)
  <2> SUFFICES ASSUME Inv, L, [Next]_vars, "power" \notin faults
               PROVE  [Store!Next]_(Store!vars)
    BY DEF Store!vars
  <2>1. CASE UNCHANGED vars
    BY <2>1 DEF vars, fileVars, callVars, Store!vars
  <2>2. CASE Next
    <3>1. StoreStep
      BY <2>2, StoreSteps
    <3> QED
      BY <3>1 DEF StoreStep, Pages, Writers, Store!vars
  <2> QED
    BY <2>1, <2>2
<1> HIDE DEF L
<1> QED
  BY <1>1, <1>2, <1>3, InitInv, NextInv, MarkInit, MarkNext, PTL
  DEF Spec, ImplementsPageStore

=============================================================================
