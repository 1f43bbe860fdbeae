---------------------------- MODULE SlotDirectory ----------------------------
(***************************************************************************)
(* What a slotted page promises: stable ids for payloads of any length.  A *)
(* payload is refused only when the page has no room for it, however the   *)
(* holes lie.                                                              *)
(***************************************************************************)
EXTENDS Sums, FiniteSetsExt

CONSTANTS
    Payload,        \* records with a length
    Deleted,
    NoSpace,
    PageSize, HEADER_LEN, SLOT_LEN

VARIABLES
    record,         \* the payload of each slot, or Deleted
    answer          \* of the last insert: a slot or NoSpace

vars == << record, answer >>

Slots == DOMAIN record
Live == {s \in Slots : record[s] # Deleted}

Sizes == [s \in 1 .. Len(record) |-> IF s \in Live THEN record[s].length ELSE 0]

BytesUsed == HEADER_LEN + Len(record) * SLOT_LEN + SumOf(Sizes)

HasRoom(payload) ==
    BytesUsed + payload.length + (IF Live = Slots THEN SLOT_LEN ELSE 0) <= PageSize

Init == record = << >> /\ answer = 0

Free == IF Live = Slots THEN Len(record) + 1 ELSE Min(Slots \ Live)

Insert(payload) ==
    /\ HasRoom(payload)
    /\ answer' = Free
    /\ record' = IF Live = Slots THEN Append(record, payload)
                                 ELSE [record EXCEPT ![Free] = payload]

Refuse(payload) ==
    /\ ~ HasRoom(payload)
    /\ answer' = NoSpace
    /\ UNCHANGED record

Delete(s) ==
    /\ s \in Live
    /\ record' = [record EXCEPT ![s] = Deleted]
    /\ answer' = s

Next ==
    \/ \E payload \in Payload : Insert(payload) \/ Refuse(payload)
    \/ \E s \in Slots : Delete(s)

Spec == Init /\ [][Next]_vars
=============================================================================
