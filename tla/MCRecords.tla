------------------------------ MODULE MCRecords ------------------------------
(***************************************************************************)
(* A slotted page of a few bytes, or records over several pages: which of  *)
(* the two runs is chosen once.                                            *)
(***************************************************************************)
EXTENDS RecordStore, TLC

CONSTANTS SlotPayload, PageSize, HEADER_LEN, SLOT_LEN, Deleted, NoSpace

ASSUME PageConstants ==
    /\ {PageSize, HEADER_LEN, SLOT_LEN} \subseteq Nat
    /\ HEADER_LEN <= PageSize
    /\ \A bytes \in SlotPayload : bytes.length \in Nat \ {0}
    /\ Deleted \notin SlotPayload

VARIABLES part, slot, freeEnd, data, answer

(* Two records that fit in a page, and two of two overflow pages each. *)
MCPayload == [value: {"a", "b"}, size: {1, 4}]

MCSlotPayload == [value: {"a", "b"}, length: {1}] \cup [value: {"a"}, length: {3, 4}]

Slotted == INSTANCE SlottedPage WITH Payload <- SlotPayload

slotVars == << slot, freeEnd, data, answer >>
allVars == << part, vars, slotVars >>

MCInit == Init /\ Slotted!Init /\ part \in {"page", "records"}

MCNext ==
    /\ UNCHANGED part
    /\ \/ part = "page" /\ Slotted!Next /\ UNCHANGED vars
       \/ part = "records" /\ Next /\ UNCHANGED slotVars

MCSpec == MCInit /\ [][MCNext]_allVars

(* Pages have no order here, so they may be permuted. *)
PageSymmetry == Permutations(Page)

-----------------------------------------------------------------------------
(* Every page that a sequence of calls can build is accepted when it is read
   back: the directory and the payloads never meet, no payload runs over
   another or over the end. *)
ParsesAgain == Slotted!Validates

(* A slot id keeps its payload through inserts, deletes and compactions of the
   others; a deleted id is the first to be reused; and NoSpace is answered
   only when the live payloads and the directory really leave no room. *)
ImplementsDirectory == Slotted!ImplementsDirectory
=============================================================================
