----------------------------- MODULE SlottedPage -----------------------------
(***************************************************************************)
(* SlottedPage of crates/ferrite-core/src/slotted_page.rs: a directory of  *)
(* slots that grows forward, payloads that are packed backward, tombstones *)
(* and compaction.  The page is an array of cells; a cell remembers which  *)
(* byte of which payload was copied into it.                               *)
(***************************************************************************)
EXTENDS Sums, FiniteSetsExt

CONSTANTS
    PageSize, HEADER_LEN, SLOT_LEN,
    Payload,        \* records [value, length]
    Deleted,
    NoSpace

VARIABLES
    slot,           \* the directory: offset, length and flags of each slot
    freeEnd,        \* where the payloads begin
    data,           \* the bytes behind the directory
    answer          \* of the last call

vars == << slot, freeEnd, data, answer >>

Byte(payload, i) == << payload, i >>
Zero == << >>
Tombstone == [offset |-> 0, length |-> 0, flags |-> "tombstone"]
Slots == DOMAIN slot
IsLive(s) == slot[s].flags # "tombstone"

Init ==
    /\ slot = << >>
    /\ freeEnd = PageSize
    /\ data = [a \in HEADER_LEN .. PageSize - 1 |-> Zero]
    /\ answer = 0

DirectoryEnd(n) == HEADER_LEN + n * SLOT_LEN
Positive(n) == IF n < 0 THEN 0 ELSE n        \* saturating_sub

ContiguousFree == Positive(freeEnd - DirectoryEnd(Len(slot)))

(* The payload bytes of each slot; a tombstone has none. *)
Sizes == [s \in 1 .. Len(slot) |-> IF IsLive(s) THEN slot[s].length ELSE 0]

ReclaimableFree == Positive(PageSize - DirectoryEnd(Len(slot)) - SumOf(Sizes))

(* compact: the live payloads, in slot order, against the end of the page. *)
PackedAt(s) == PageSize - RunningTotal(Sizes)[s]
PackedSlots ==
    [s \in Slots |-> IF IsLive(s) THEN [slot[s] EXCEPT !.offset = PackedAt(s)] ELSE slot[s]]
PackedEnd == PageSize - SumOf(Sizes)

(* A slip: the bytes stay where they were. *)
CompactInPlace == [slot |-> PackedSlots, freeEnd |-> PackedEnd, data |-> data]

(* The rest is zeroed. *)
Compacted ==
    LET at(a) == {s \in Slots : IsLive(s) /\ a - PackedAt(s) \in 0 .. slot[s].length - 1}
    IN  [slot |-> PackedSlots,
         freeEnd |-> PackedEnd,
         data |-> [a \in DOMAIN data |->
                     IF at(a) = {} THEN Zero
                     ELSE LET s == CHOOSE s \in at(a) : TRUE
                          IN  data[slot[s].offset + a - PackedAt(s)]]]

Unmoved == [slot |-> slot, freeEnd |-> freeEnd, data |-> data]

(* The first tombstone, or a new slot. *)
Tombstones == {s \in Slots : ~ IsLive(s)}
ExtraDirectory == IF Tombstones = {} THEN SLOT_LEN ELSE 0
Target == IF Tombstones = {} THEN Len(slot) + 1 ELSE Min(Tombstones)

(* A slip: the new directory entry is not counted. *)
NeededWithoutEntry(payload) == payload.length

Needed(payload) == payload.length + ExtraDirectory

(* The page that insert writes to: compacted if that makes room. *)
Prepared(payload) ==
    IF ContiguousFree < Needed(payload) /\ ReclaimableFree >= Needed(payload)
    THEN Compacted ELSE Unmoved

Fits(page, payload) ==
    Positive(page.freeEnd - DirectoryEnd(Len(page.slot))) >= Needed(payload)

Insert(payload) ==
    LET page == Prepared(payload)
        start == page.freeEnd - payload.length
        entry == [offset |-> start, length |-> payload.length, flags |-> "live"]
    IN  /\ Fits(page, payload)
        /\ slot' = IF Tombstones = {} THEN Append(page.slot, entry)
                                      ELSE [page.slot EXCEPT ![Target] = entry]
        /\ freeEnd' = start
        /\ data' = [a \in DOMAIN data |->
                      IF a \in start .. page.freeEnd - 1
                      THEN Byte(payload, a - start) ELSE page.data[a]]
        /\ answer' = Target

(* NoSpace leaves the page as it is: compaction happens only if it helps. *)
Refuse(payload) ==
    /\ ~ Fits(Prepared(payload), payload)
    /\ answer' = NoSpace
    /\ slot' = Prepared(payload).slot
    /\ freeEnd' = Prepared(payload).freeEnd
    /\ data' = Prepared(payload).data

Delete(s) ==
    /\ IsLive(s)
    /\ slot' = [slot EXCEPT ![s] = Tombstone]
    /\ answer' = s
    /\ UNCHANGED << freeEnd, data >>

Compact ==
    /\ slot' = Compacted.slot
    /\ freeEnd' = Compacted.freeEnd
    /\ data' = Compacted.data
    /\ UNCHANGED answer

Next ==
    \/ \E payload \in Payload : Insert(payload) \/ Refuse(payload)
    \/ \E s \in Slots : Delete(s)
    \/ Compact

Spec == Init /\ [][Next]_vars

-----------------------------------------------------------------------------
(* validate, which parse runs on every page it is given. *)
Validates ==
    /\ DirectoryEnd(Len(slot)) <= freeEnd /\ freeEnd <= PageSize
    /\ \A s \in Slots :
          IF IsLive(s)
          THEN /\ slot[s].offset >= freeEnd
               /\ slot[s].offset + slot[s].length <= PageSize
               /\ slot[s].length > 0
          ELSE slot[s] = Tombstone
    /\ \A s, t \in {u \in Slots : IsLive(u)} :
          s # t /\ slot[s].offset <= slot[t].offset
              => slot[s].offset + slot[s].length <= slot[t].offset

(* get: the bytes of a slot are those of one payload, from first to last. *)
Holds(s, payload) ==
    /\ payload.length = slot[s].length
    /\ \A i \in 0 .. slot[s].length - 1 : data[slot[s].offset + i] = Byte(payload, i)

Get(s) == CHOOSE payload \in Payload : Holds(s, payload)
Readable(s) == \E payload \in Payload : Holds(s, payload)

Contents ==
    [s \in Slots |->
        IF ~ IsLive(s) THEN Deleted
        ELSE IF Readable(s) THEN Get(s)
        ELSE [value |-> "garbled", length |-> slot[s].length]]

Directory == INSTANCE SlotDirectory WITH record <- Contents

(* A slot id keeps its payload through inserts, deletes and compactions of the
   others; a deleted id is the first to be reused; and NoSpace is answered
   only when the live payloads and the directory really leave no room. *)
ImplementsDirectory == Directory!Spec
=============================================================================
