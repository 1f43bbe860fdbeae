----------------------------- MODULE RecordStore -----------------------------
(***************************************************************************)
(* put_record, get_record and delete_record of slotted_page.rs over the    *)
(* pager: a record is kept in one page, or cut into overflow pages that a  *)
(* descriptor in its home page lists.  Every pager call is a step that may *)
(* fail, and the process may die between two of them.  Each page here has  *)
(* one slot, as put_record always starts a page of its own; SlottedPage    *)
(* models the page itself.                                                 *)
(***************************************************************************)
EXTENDS Integers, Sequences, Functions, FiniteSetsExt

CONSTANTS
    Page,           \* the pages the file may grow to
    NoPage,
    Payload,        \* records [value, size]
    InlineCap,      \* bytes of a record that fit in its home page
    ChunkCap,       \* overflow_chunk_cap: bytes that fit in an overflow page
    Faults,         \* subset of {"io", "kill"}
    Interruptible   \* the calls that faults strike: subset of {"put", "delete"}

ASSUME RecordConstants ==
    /\ NoPage \notin Page
    /\ InlineCap \in Nat /\ ChunkCap \in Nat \ {0}
    /\ \A payload \in Payload : payload.size \in Nat \ {0}
    /\ Faults \subseteq {"io", "kill"} /\ Interruptible \subseteq {"put", "delete"}

VARIABLES
    content,        \* what a page holds
    free,           \* pages that alloc may return
    pc,
    payload,        \* the record a put stores
    chunks,         \* overflow pages written by a put, or still to be freed
    current,        \* the page a call works on: the home page of a delete
    stored,         \* the records put and not deleted, by their home page
    freedTwice      \* some page was freed while it was free

jobVars == << pc, payload, chunks, current >>
vars == << content, free, jobVars, stored, freedTwice >>

-----------------------------------------------------------------------------
(* Contents.  A page that is new, freed or half written does not parse. *)
Unparsable == [kind |-> "none"]
Inline(bytes) == [kind |-> "inline", bytes |-> bytes]
Chunk(bytes) == [kind |-> "chunk", bytes |-> bytes]
Descriptor(size, pages) == [kind |-> "overflow", size |-> size, pages |-> pages]
Tombstone == [kind |-> "tombstone"]

Bytes(record) == [i \in 1 .. record.size |-> << record.value, i >>]
IsInline(record) == record.size <= InlineCap
ChunkCount(record) == (record.size + ChunkCap - 1) \div ChunkCap

(* The i-th piece of payload.chunks(chunk_cap). *)
Piece(record, i) ==
    SubSeq(Bytes(record), (i - 1) * ChunkCap + 1, Min({i * ChunkCap, record.size}))

NoRecord == [value |-> "none", size |-> 0]

(* get_record: the bytes, or an error.  An overflow page is read whatever its
   first byte is, so that an inline record or a descriptor would do. *)
SlotBytes(p) ==
    CASE content[p].kind \in {"inline", "chunk"} -> content[p].bytes
      [] content[p].kind = "overflow" -> << << "descriptor", 1 >> >>
      [] OTHER -> << >>

(* out of decode_overflow after each of the pieces. *)
OutAfter(pieces) ==
    LET out[n \in 0 .. Len(pieces)] == IF n = 0 THEN << >> ELSE out[n - 1] \o pieces[n]
    IN  out

DecodeOverflow(d) ==
    LET pieces == [i \in 1 .. Len(d.pages) |-> SlotBytes(d.pages[i])]
        out == OutAfter(pieces)[Len(pieces)]
    IN  IF (\E i \in 1 .. Len(pieces) : pieces[i] = << >>) \/ Len(out) # d.size
        THEN << "error" >> ELSE out

Get(p) ==
    CASE content[p].kind = "inline" -> content[p].bytes
      [] content[p].kind = "overflow" -> DecodeOverflow(content[p])
      [] OTHER -> << "error" >>

-----------------------------------------------------------------------------
Init ==
    /\ content = [p \in Page |-> Unparsable]
    /\ free = Page
    /\ pc = "idle" /\ payload = NoRecord /\ chunks = << >> /\ current = NoPage
    /\ stored = [p \in {} |-> NoRecord]
    /\ freedTwice = FALSE

Return ==
    /\ pc' = "idle" /\ payload' = NoRecord /\ chunks' = << >> /\ current' = NoPage

(* put_record *)
Put(record) ==
    /\ pc = "idle"
    /\ payload' = record
    /\ pc' = "alloc"
    /\ UNCHANGED << content, free, chunks, current, stored, freedTwice >>

Alloc ==
    /\ pc = "alloc"
    /\ \E p \in free :
          /\ current' = p
          /\ free' = free \ {p}
          /\ content' = [content EXCEPT ![p] = Unparsable]
    /\ pc' = "write"
    /\ UNCHANGED << payload, chunks, stored, freedTwice >>

(* A slip: the descriptor is written before the last chunk. *)
WritingHomeEarly == IsInline(payload) \/ Len(chunks) + 1 = ChunkCount(payload)

WritingHome == IsInline(payload) \/ Len(chunks) = ChunkCount(payload)

HomeContent ==
    IF IsInline(payload) THEN Inline(Bytes(payload)) ELSE Descriptor(payload.size, chunks)

WriteChunk ==
    /\ pc = "write" /\ ~ WritingHome
    /\ content' = [content EXCEPT ![current] = Chunk(Piece(payload, Len(chunks) + 1))]
    /\ chunks' = Append(chunks, current)
    /\ current' = NoPage
    /\ pc' = "alloc"
    /\ UNCHANGED << free, payload, stored, freedTwice >>

WriteHome ==
    /\ pc = "write" /\ WritingHome
    /\ content' = [content EXCEPT ![current] = HomeContent]
    /\ stored' = [p \in DOMAIN stored \cup {current} |->
                     IF p = current THEN payload ELSE stored[p]]
    /\ Return
    /\ UNCHANGED << free, freedTwice >>

(* The pages that a failed put_record gives back. *)
Allocated == IF pc = "write" THEN Append(chunks, current) ELSE chunks

(* An error: an inline record's page stays allocated, the pages of an
   overflowing one are freed. *)
FailPut ==
    /\ "io" \in Faults /\ "put" \in Interruptible
    /\ pc \in {"alloc", "write"}
    /\ \/ UNCHANGED content
       \/ pc = "write" /\ content' = [content EXCEPT ![current] = Unparsable]
    /\ IF IsInline(payload)
       THEN Return
       ELSE /\ chunks' = Allocated
            /\ pc' = "undo"
            /\ UNCHANGED << payload, current >>
    /\ UNCHANGED << free, stored, freedTwice >>

(* pager.free: the page gets a link.  When it fails, the page may be on the
   free list all the same. *)
FreePage(p) ==
    /\ content' = [content EXCEPT ![p] = Unparsable]
    /\ free' = free \cup {p}
    /\ freedTwice' = (freedTwice \/ p \in free)

FailFree(p) ==
    /\ "io" \in Faults
    /\ \/ content' = [content EXCEPT ![p] = Unparsable]
       \/ UNCHANGED content
    /\ free' \in {free, free \cup {p}}
    /\ UNCHANGED freedTwice

(* Errors of the clean-up are ignored. *)
Undo ==
    /\ pc = "undo" /\ chunks # << >>
    /\ FreePage(Head(chunks)) \/ FailFree(Head(chunks))
    /\ chunks' = Tail(chunks)
    /\ UNCHANGED << pc, payload, current, stored >>

EndUndo ==
    /\ pc = "undo" /\ chunks = << >>
    /\ Return
    /\ UNCHANGED << content, free, stored, freedTwice >>

-----------------------------------------------------------------------------
(* delete_record: the overflow pages are freed, then the slot is deleted. *)
Delete(p) ==
    /\ pc = "idle"
    /\ p \in DOMAIN stored
    /\ content[p].kind \in {"inline", "overflow"}
    /\ chunks' = IF content[p].kind = "overflow" THEN content[p].pages ELSE << >>
    /\ current' = p
    /\ pc' = "free"
    /\ UNCHANGED << content, free, payload, stored, freedTwice >>

FreeChunk ==
    /\ pc = "free" /\ chunks # << >>
    /\ FreePage(Head(chunks))
    /\ chunks' = Tail(chunks)
    /\ UNCHANGED << pc, payload, current, stored >>

WriteTombstone ==
    /\ pc = "free" /\ chunks = << >>
    /\ content' = [content EXCEPT ![current] = Tombstone]
    /\ stored' = Restrict(stored, DOMAIN stored \ {current})
    /\ Return
    /\ UNCHANGED << free, freedTwice >>

(* The caller keeps the id of a record it could not delete. *)
FailDelete ==
    /\ "io" \in Faults /\ "delete" \in Interruptible
    /\ pc = "free"
    /\ IF chunks = << >>
       THEN /\ \/ UNCHANGED content
               \/ content' = [content EXCEPT ![current] = Unparsable]
            /\ UNCHANGED << free, freedTwice >>
       ELSE FailFree(Head(chunks))
    /\ Return
    /\ UNCHANGED stored

Kill ==
    /\ "kill" \in Faults
    /\ \/ "put" \in Interruptible /\ pc \in {"alloc", "write", "undo"}
       \/ "delete" \in Interruptible /\ pc = "free"
    /\ Return
    /\ UNCHANGED << content, free, stored, freedTwice >>

Next ==
    \/ \E record \in Payload : Put(record)
    \/ \E p \in Page : Delete(p)
    \/ Alloc \/ WriteChunk \/ WriteHome \/ FailPut \/ Undo \/ EndUndo
    \/ FreeChunk \/ WriteTombstone \/ FailDelete \/ Kill

Spec == Init /\ [][Next]_vars

-----------------------------------------------------------------------------
BeingDeleted(p) == pc = "free" /\ current = p

(* A stored record reads back byte for byte, whatever puts and deletes of
   other records do, fail at or die in: no put reuses a page of it, no
   clean-up frees one; and no page is given to the pager twice, which would
   hand it out twice. *)
StoredRecordsRead ==
    /\ ~ freedTwice
    /\ \A p \in DOMAIN stored : ~ BeingDeleted(p) => Get(p) = Bytes(stored[p])
=============================================================================
