------------------------------- MODULE MCBTree -------------------------------
(***************************************************************************)
(* Instances of BTree.  Lengths are in units of about 340 bytes: a key     *)
(* takes three, 1 KiB, a value one or less.  So two entries fill a leaf,   *)
(* and two keys an internal node.                                          *)
(***************************************************************************)
EXTENDS BTreeReaders

MCKeyLen(k) == 3
MCValueLen(v) == 1

(* Keys of 2 KiB: one entry fills a leaf, and one key an internal node. *)
MCLargeKeyLen(k) == 6

(* Values of two sizes; an entry with the larger one fills a leaf. *)
MCMixedValueLen(v) == IF v = "second" THEN 7 ELSE 1

MCAloneWrites == Key \X {"first"}
MCAnyWrites == Key \X Value
MCSharedWrites == ({1, 2, 3, 4} \X {"first"}) \cup {<< 2, "second" >>}
=============================================================================
