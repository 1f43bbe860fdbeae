-------------------------------- MODULE BTree --------------------------------
(***************************************************************************)
(* BTree of crates/ferrite-core/src/btree.rs.  A call is cut where the     *)
(* code gives up the pages it holds: each step reads and writes the pages  *)
(* of one such section, so that another thread may run, or the buffer pool *)
(* may return an error, between any two.                                   *)
(***************************************************************************)
EXTENDS Sums, Integers, Sequences, SequencesExt, FiniteSetsExt

CONSTANTS
    Writer,             \* threads that insert and delete
    MaxPage,            \* the file has room for pages 1 .. MaxPage
    MaxKey, Value, NoValue, NoCall,
    PageSize, LEAF_HEADER_LEN, LEAF_SLOT_LEN, INTERNAL_HEADER_LEN, INTERNAL_SLOT_LEN,
    KeyLen(_), ValueLen(_),
    Calls,              \* subset of {"insert", "delete"}
    MayFail             \* a page may be refused: no frame, or an I/O error

Page == 1 .. MaxPage
Key == 1 .. MaxKey

ASSUME BTreeConstants ==
    /\ MaxPage \in Nat \ {0} /\ MaxKey \in Nat \ {0}
    /\ {PageSize, LEAF_HEADER_LEN, LEAF_SLOT_LEN,
        INTERNAL_HEADER_LEN, INTERNAL_SLOT_LEN} \subseteq Nat
    /\ \A k \in Key : KeyLen(k) \in Nat \ {0}
    /\ \A v \in Value : ValueLen(v) \in Nat
    /\ Calls \subseteq {"insert", "delete"} /\ MayFail \in BOOLEAN
    /\ NoValue \notin Value
    /\ NoCall \notin [op : {"insert", "delete"}, key : Key, value : Value \cup {NoValue}]

VARIABLES
    node,       \* what each page holds
    root,       \* root_page_id
    run,        \* the local variables of each writer
    held        \* pages that readers hold

vars == << node, root, run, held >>

-----------------------------------------------------------------------------
(* Pages.  An internal node has one child more than it has keys: children[1]
   is first_child, keys[i] and children[i + 1] are slot i.  A rebuild that
   needs more than a page panics, or writes payloads over the slots: nothing
   reads the page again. *)
Freed == [type |-> "freed"]
Overrun == [type |-> "overrun"]

LeafUsed(entries) ==
    LEAF_HEADER_LEN + Len(entries) * LEAF_SLOT_LEN
        + SumOf([i \in DOMAIN entries |->
                   KeyLen(entries[i].key) + ValueLen(entries[i].value)])

InternalUsed(keys) ==
    INTERNAL_HEADER_LEN + Len(keys) * INTERNAL_SLOT_LEN
        + SumOf([i \in DOMAIN keys |-> KeyLen(keys[i])])

Leaf(entries, parent, prev, next) ==
    IF LeafUsed(entries) <= PageSize
    THEN [type |-> "leaf", entries |-> entries, parent |-> parent, prev |-> prev,
          next |-> next]
    ELSE Overrun

Internal(keys, children, parent) ==
    IF InternalUsed(keys) <= PageSize
    THEN [type |-> "internal", keys |-> keys, children |-> children, parent |-> parent]
    ELSE Overrun

IsLeaf(p) == p \in Page /\ node[p].type = "leaf"
IsInternal(p) == p \in Page /\ node[p].type = "internal"

(* A slip: the slot of the new entry is not counted. *)
FitsWithoutSlot(used) == used <= PageSize + INTERNAL_SLOT_LEN

Fits(used) == used <= PageSize

(* The threshold of delete and remove_parent_entry. *)
Underflow(used, count) == used < PageSize \div 3 \/ count = 0

(* Where a key belongs among the entries of a leaf, and the leaf with it. *)
Before(entries, k) == Cardinality({i \in DOMAIN entries : entries[i].key < k})
Holds(entries, k) == \E i \in DOMAIN entries : entries[i].key = k

With(entries, k, v) ==
    LET i == Before(entries, k) + 1  e == [key |-> k, value |-> v]
    IN  IF Holds(entries, k) THEN ReplaceAt(entries, i, e) ELSE InsertAt(entries, i, e)

Without(entries, k) == RemoveAt(entries, Before(entries, k) + 1)

(* find_child: a key equal to a separator is found to its right. *)
FindChild(p, k) ==
    node[p].children[Cardinality({i \in DOMAIN node[p].keys : node[p].keys[i] <= k}) + 1]

(* Which free page new_page returns is the pager's business; here, the least. *)
FreePages == {p \in Page : node[p].type = "freed"}
NewPage == Min(FreePages)

-----------------------------------------------------------------------------
(* page and right: the nodes a step is about, left and right siblings when
   there are two; slot: the separator between them in parent; sep: the key to
   promote; next: the leaf after the new or merged one; adopt: << child, parent >>
   pointers still to be written. *)
Idle == [pc |-> "idle", op |-> "none", key |-> 0, value |-> NoValue, done |-> FALSE,
         page |-> 0, right |-> 0, parent |-> 0, slot |-> 0, sep |-> 0,
         next |-> 0, adopt |-> << >>, then |-> "none"]

Init ==
    /\ node = [p \in Page |-> IF p = 1 THEN Leaf(<< >>, 0, 0, 0) ELSE Freed]
    /\ root = 1
    /\ run = [w \in Writer |-> Idle]
    /\ held = {}

At(w, pc) == run[w].pc = pc
Continue(w, locals) == run' = [run EXCEPT ![w] = locals]
Return(w) == Continue(w, Idle)

Call(w, op, k, v) ==
    /\ At(w, "idle")
    /\ op \in Calls
    /\ Continue(w, [Idle EXCEPT !.pc = "find", !.op = op, !.key = k, !.value = v,
                                !.page = root])
    /\ UNCHANGED << node, root, held >>

(* find_leaf_page_id, a page at a time. *)
Find(w) ==
    /\ At(w, "find")
    /\ \/ IsLeaf(run[w].page) /\ Continue(w, [run[w] EXCEPT !.pc = run[w].op])
       \/ IsInternal(run[w].page)
          /\ Continue(w, [run[w] EXCEPT !.page = FindChild(run[w].page, run[w].key)])
    /\ UNCHANGED << node, root, held >>

(* set_parent_pointer, for each child in turn. *)
Adopt(w) ==
    LET child == run[w].adopt[1][1]  parent == run[w].adopt[1][2]
    IN  /\ At(w, "adopt") /\ run[w].adopt # << >>
        /\ IsLeaf(child) \/ IsInternal(child)
        /\ node' = [node EXCEPT ![child].parent = parent]
        /\ Continue(w, [run[w] EXCEPT !.adopt = Tail(@)])
        /\ UNCHANGED << root, held >>

Adopted(w) ==
    /\ At(w, "adopt") /\ run[w].adopt = << >>
    /\ IF run[w].then = "return" THEN Return(w)
       ELSE Continue(w, [run[w] EXCEPT !.pc = run[w].then])
    /\ UNCHANGED << node, root, held >>

(* new_root_id becomes the root. *)
StoreRoot(w) ==
    /\ At(w, "root")
    /\ root' = run[w].right
    /\ Return(w)
    /\ UNCHANGED << node, held >>

-----------------------------------------------------------------------------
(* insert: in place, if the leaf has room, ... *)
Entries(w) == With(node[run[w].page].entries, run[w].key, run[w].value)

InsertInPlace(w) ==
    /\ At(w, "insert") /\ IsLeaf(run[w].page)
    /\ Fits(LeafUsed(Entries(w)))
    /\ node' = [node EXCEPT ![run[w].page].entries = Entries(w)]
    /\ Continue(w, [run[w] EXCEPT !.done = TRUE, !.pc = "return"])
    /\ UNCHANGED << root, held >>

(* ... or split_leaf: the upper half moves to a new page on the right. *)
Half(seq) == Len(seq) \div 2

SplitLeaf(w) ==
    LET leaf == node[run[w].page]  entries == Entries(w)  mid == Half(entries)
    IN  /\ At(w, "insert") /\ IsLeaf(run[w].page)
        /\ ~ Fits(LeafUsed(entries))
        /\ FreePages # {}
        /\ node' = [node EXCEPT
              ![NewPage] = Leaf(SubSeq(entries, mid + 1, Len(entries)), leaf.parent,
                                run[w].page, leaf.next),
              ![run[w].page] = Leaf(SubSeq(entries, 1, mid), leaf.parent, leaf.prev,
                                    NewPage)]
        /\ Continue(w, [run[w] EXCEPT !.done = TRUE, !.right = NewPage,
                                      !.sep = entries[mid + 1].key,
                                      !.next = leaf.next, !.pc = "next", !.then = "promote"])
        /\ UNCHANGED << root, held >>

(* The leaf after the new one, or after two merged ones, points back. *)
FixNext(w) ==
    LET next == run[w].next
        prev == IF run[w].op = "insert" THEN run[w].right ELSE run[w].page
    IN  /\ At(w, "next")
        /\ IF next = 0 THEN UNCHANGED node
           ELSE IsLeaf(next) /\ node' = [node EXCEPT ![next].prev = prev]
        /\ Continue(w, [run[w] EXCEPT !.next = 0, !.pc = run[w].then])
        /\ UNCHANGED << root, held >>

(* insert_into_parent: a new root over the two halves, ... *)
IsRoot(p) == p = root \/ node[p].parent = 0

GrowRoot(w) ==
    /\ At(w, "promote") /\ IsRoot(run[w].page)
    /\ FreePages # {}
    /\ node' = [node EXCEPT ![NewPage] =
                  Internal(<< run[w].sep >>, << run[w].page, run[w].right >>, 0)]
    /\ Continue(w, [run[w] EXCEPT !.pc = "adopt", !.then = "root", !.right = NewPage,
                       !.adopt = << << run[w].page, NewPage >>, << run[w].right, NewPage >> >>])
    /\ UNCHANGED << root, held >>

ToParent(w) ==
    /\ At(w, "promote") /\ ~ IsRoot(run[w].page)
    /\ Continue(w, [run[w] EXCEPT !.pc = "parent", !.page = node[run[w].page].parent])
    /\ UNCHANGED << node, root, held >>

(* ... an entry in the parent, ... *)
NewKeys(w) ==
    LET n == Cardinality({i \in DOMAIN node[run[w].page].keys :
                             node[run[w].page].keys[i] < run[w].sep})
    IN  InsertAt(node[run[w].page].keys, n + 1, run[w].sep)

NewChildren(w) ==
    LET n == Cardinality({i \in DOMAIN node[run[w].page].keys :
                             node[run[w].page].keys[i] < run[w].sep})
    IN  InsertAt(node[run[w].page].children, n + 2, run[w].right)

InsertEntry(w) ==
    /\ At(w, "parent") /\ IsInternal(run[w].page)
    /\ Fits(InternalUsed(NewKeys(w)))
    /\ node' = [node EXCEPT ![run[w].page].keys = NewKeys(w),
                            ![run[w].page].children = NewChildren(w)]
    /\ Continue(w, [run[w] EXCEPT !.pc = "adopt", !.then = "return",
                                  !.adopt = << << run[w].right, run[w].page >> >>])
    /\ UNCHANGED << root, held >>

(* A slip: the children that moved keep their parent. *)
OrphansNone(children, parent) == << >>

(* The children whose parent a step has changed. *)
Orphans(children, parent) == [i \in DOMAIN children |-> << children[i], parent >>]

(* ... or split_internal, which promotes the median and moves what is right
   of it to a new page. *)
SplitInternal(w) ==
    LET keys == NewKeys(w)  children == NewChildren(w)  mid == Half(keys)
        moved == SubSeq(children, mid + 2, Len(children))
        parent == node[run[w].page].parent
    IN  /\ At(w, "parent") /\ IsInternal(run[w].page)
        /\ ~ Fits(InternalUsed(keys))
        /\ FreePages # {}
        /\ node' = [node EXCEPT
              ![NewPage] = Internal(SubSeq(keys, mid + 2, Len(keys)), moved, parent),
              ![run[w].page] = Internal(SubSeq(keys, 1, mid), SubSeq(children, 1, mid + 1),
                                        parent)]
        /\ Continue(w, [run[w] EXCEPT !.pc = "adopt", !.then = "promote", !.right = NewPage,
                                      !.sep = keys[mid + 1],
                                      !.adopt = Orphans(moved, NewPage)])
        /\ UNCHANGED << root, held >>

-----------------------------------------------------------------------------
(* delete: the leaf is rebalanced if it is not the root and it underflows. *)
RemoveKey(w) ==
    LET p == run[w].page
        entries == IF Holds(node[p].entries, run[w].key)
                   THEN Without(node[p].entries, run[w].key) ELSE node[p].entries
        rebalance == /\ entries # node[p].entries /\ p # root
                     /\ Underflow(LeafUsed(entries), Len(entries))
    IN  /\ At(w, "delete") /\ IsLeaf(p)
        /\ node' = [node EXCEPT ![p].entries = entries]
        /\ Continue(w, [run[w] EXCEPT !.done = TRUE,
                           !.pc = IF rebalance THEN "rebalance" ELSE "return"])
        /\ UNCHANGED << root, held >>

(* rebalance_leaf and rebalance_internal: the sibling on the left, or the one
   on the right of a first child; an only child is left as it is. *)
Rebalance(w) ==
    /\ At(w, "rebalance")
    /\ IsLeaf(run[w].page) \/ IsInternal(run[w].page)
    /\ IF node[run[w].page].parent = 0 THEN Return(w)
       ELSE Continue(w, [run[w] EXCEPT !.pc = "siblings",
                                       !.parent = node[run[w].page].parent])
    /\ UNCHANGED << node, root, held >>

Siblings(w) ==
    /\ At(w, "siblings") /\ IsInternal(run[w].parent)
    /\ LET children == node[run[w].parent].children
       IN  \E i \in DOMAIN children :
              /\ children[i] = run[w].page
              /\ IF i > 1
                 THEN Continue(w, [run[w] EXCEPT !.pc = "share", !.then = "left",
                                     !.page = children[i - 1], !.right = children[i],
                                     !.slot = i - 1])
                 ELSE IF Len(children) > 1
                 THEN Continue(w, [run[w] EXCEPT !.pc = "share", !.then = "right",
                                     !.right = children[2], !.slot = 1])
                 ELSE Return(w)
    /\ UNCHANGED << node, root, held >>

(* try_redistribute_leaf_left and _right: one entry, if the sibling keeps one
   and the leaf has room. *)
L(w) == node[run[w].page]
R(w) == node[run[w].right]
FromLeft(w) == run[w].then = "left"

SharedLeft(w) ==
    IF FromLeft(w) THEN Front(L(w).entries) ELSE Append(L(w).entries, Head(R(w).entries))
SharedRight(w) ==
    IF FromLeft(w) THEN << Last(L(w).entries) >> \o R(w).entries ELSE Tail(R(w).entries)

CanShare(w) ==
    IF FromLeft(w)
    THEN Len(L(w).entries) > 1 /\ Fits(LeafUsed(SharedRight(w)))
    ELSE Len(R(w).entries) > 1 /\ Fits(LeafUsed(SharedLeft(w)))

(* A slip: the separator is the last key on its left. *)
NewSeparatorLeft(w) == Last(SharedLeft(w)).key

NewSeparator(w) == SharedRight(w)[1].key

ShareLeaves(w) ==
    /\ At(w, "share") /\ IsLeaf(run[w].page) /\ IsLeaf(run[w].right)
    /\ CanShare(w)
    /\ node' = [node EXCEPT
          ![run[w].page] = Leaf(SharedLeft(w), run[w].parent, @.prev, run[w].right),
          ![run[w].right] = Leaf(SharedRight(w), run[w].parent, run[w].page, @.next)]
    /\ Continue(w, [run[w] EXCEPT !.pc = "separator", !.sep = NewSeparator(w)])
    /\ UNCHANGED << root, held >>

SetSeparator(w) ==
    /\ At(w, "separator") /\ IsInternal(run[w].parent)
    /\ node' = [node EXCEPT ![run[w].parent] =
                  Internal(ReplaceAt(@.keys, run[w].slot, run[w].sep), @.children, @.parent)]
    /\ Return(w)
    /\ UNCHANGED << root, held >>

(* A slip: the right leaf is taken to be the empty one. *)
MergedLeftOnly(w) == L(w).entries

(* merge_leaf: whatever the two leaves hold goes to the left one. *)
Merged(w) == L(w).entries \o R(w).entries

MergeLeaves(w) ==
    /\ At(w, "share") /\ IsLeaf(run[w].page) /\ IsLeaf(run[w].right)
    /\ ~ CanShare(w)
    /\ node' = [node EXCEPT ![run[w].page] =
                  Leaf(Merged(w), run[w].parent, @.prev, R(w).next)]
    /\ Continue(w, [run[w] EXCEPT !.pc = "next", !.then = "free", !.next = R(w).next])
    /\ UNCHANGED << root, held >>

(* try_redistribute_internal_left and _right: a child changes sides, its
   separator goes up and the old one comes down. *)
Separator(w) == node[run[w].parent].keys[run[w].slot]

ShareChildFromLeft(w) ==
    /\ FromLeft(w) /\ L(w).keys # << >>
    /\ node' = [node EXCEPT
          ![run[w].page] = Internal(Front(@.keys), Front(@.children), run[w].parent),
          ![run[w].right] = Internal(<< Separator(w) >> \o @.keys,
                                     << Last(L(w).children) >> \o @.children, run[w].parent),
          ![run[w].parent] = Internal(ReplaceAt(@.keys, run[w].slot, Last(L(w).keys)),
                                      @.children, @.parent)]
    /\ Continue(w, [run[w] EXCEPT !.pc = "adopt", !.then = "return",
                       !.adopt = << << Last(L(w).children), run[w].right >> >>])

ShareChildFromRight(w) ==
    /\ ~ FromLeft(w) /\ R(w).keys # << >>
    /\ node' = [node EXCEPT
          ![run[w].page] = Internal(Append(@.keys, Separator(w)),
                                    Append(@.children, Head(R(w).children)), run[w].parent),
          ![run[w].right] = Internal(Tail(@.keys), Tail(@.children), run[w].parent),
          ![run[w].parent] = Internal(ReplaceAt(@.keys, run[w].slot, Head(R(w).keys)),
                                      @.children, @.parent)]
    /\ Continue(w, [run[w] EXCEPT !.pc = "adopt", !.then = "return",
                       !.adopt = << << Head(R(w).children), run[w].page >> >>])

ShareChildren(w) ==
    /\ At(w, "share") /\ IsInternal(run[w].page) /\ IsInternal(run[w].right)
    /\ IsInternal(run[w].parent)
    /\ ShareChildFromLeft(w) \/ ShareChildFromRight(w)
    /\ UNCHANGED << root, held >>

(* merge_internal *)
MergeInternals(w) ==
    /\ At(w, "share") /\ IsInternal(run[w].page) /\ IsInternal(run[w].right)
    /\ IsInternal(run[w].parent)
    /\ (IF FromLeft(w) THEN L(w) ELSE R(w)).keys = << >>
    /\ node' = [node EXCEPT ![run[w].page] =
                  Internal(@.keys \o << Separator(w) >> \o R(w).keys,
                           @.children \o R(w).children, run[w].parent)]
    /\ Continue(w, [run[w] EXCEPT !.pc = "adopt", !.then = "free",
                       !.adopt = Orphans(R(w).children, run[w].page)])
    /\ UNCHANGED << root, held >>

(* delete_page, which refuses a page that a reader has pinned: the call fails
   half way, and as in Fail the thread stops. *)
FreePage(w, p) ==
    IF p \in held
    THEN Continue(w, [Idle EXCEPT !.pc = "failed"]) /\ UNCHANGED node
    ELSE /\ node' = [node EXCEPT ![p] = Freed]
         /\ Continue(w, [run[w] EXCEPT !.pc = IF @ = "free" THEN "remove" ELSE "root"])

FreeRight(w) ==
    /\ At(w, "free")
    /\ FreePage(w, run[w].right)
    /\ UNCHANGED << root, held >>

(* remove_parent_entry: a root without keys gives way to its only child. *)
RemoveEntry(w) ==
    LET p == run[w].parent
        keys == RemoveAt(node[p].keys, run[w].slot)
        children == RemoveAt(node[p].children, run[w].slot + 1)
    IN  /\ At(w, "remove") /\ IsInternal(p)
        /\ IF p = root /\ keys = << >>
           THEN /\ Continue(w, [run[w] EXCEPT !.pc = "adopt", !.then = "collapse",
                                   !.right = children[1], !.adopt = << << children[1], 0 >> >>])
                /\ UNCHANGED node
           ELSE /\ node' = [node EXCEPT ![p].keys = keys, ![p].children = children]
                /\ IF p # root /\ Underflow(InternalUsed(keys), Len(keys))
                   THEN Continue(w, [run[w] EXCEPT !.pc = "rebalance", !.page = p])
                   ELSE Continue(w, [run[w] EXCEPT !.pc = "return"])
        /\ UNCHANGED << root, held >>

FreeRoot(w) ==
    /\ At(w, "collapse")
    /\ FreePage(w, run[w].parent)
    /\ UNCHANGED << root, held >>

Done(w) ==
    /\ At(w, "return")
    /\ Return(w)
    /\ UNCHANGED << node, root, held >>

(* A page is refused.  What comes after a call that failed half way is not
   looked at: the thread stops. *)
Fail(w) ==
    /\ MayFail
    /\ run[w].pc \notin {"idle", "failed"}
    /\ Continue(w, [Idle EXCEPT !.pc = "failed"])
    /\ UNCHANGED << node, root, held >>

Step(w) ==
    \/ \E k \in Key :
          \/ \E v \in Value : Call(w, "insert", k, v)
          \/ Call(w, "delete", k, NoValue)
    \/ Find(w) \/ Adopt(w) \/ Adopted(w) \/ StoreRoot(w)
    \/ InsertInPlace(w) \/ SplitLeaf(w) \/ FixNext(w)
    \/ GrowRoot(w) \/ ToParent(w) \/ InsertEntry(w) \/ SplitInternal(w)
    \/ RemoveKey(w) \/ Rebalance(w) \/ Siblings(w)
    \/ ShareLeaves(w) \/ SetSeparator(w) \/ MergeLeaves(w)
    \/ ShareChildren(w) \/ MergeInternals(w)
    \/ FreeRight(w) \/ RemoveEntry(w) \/ FreeRoot(w) \/ Done(w) \/ Fail(w)

Next == \E w \in Writer : Step(w)

Spec == Init /\ [][Next]_vars

-----------------------------------------------------------------------------
(* The first leaf keeps its page: a split moves the upper half, a merge the
   right leaf. *)
FirstLeaf == 1

(* The leaves from p on, following next_leaf. *)
ChainFrom[p \in 0 .. MaxPage] ==
    IF ~ IsLeaf(p) THEN << >> ELSE << p >> \o ChainFrom[node[p].next]

EntriesFrom[p \in 0 .. MaxPage] ==
    IF ~ IsLeaf(p) THEN << >> ELSE node[p].entries \o EntriesFrom[node[p].next]

(* scan: the entries from the leaf where the key belongs, the smaller ones of
   that leaf left out; BTreeRangeIter walks the same way. *)
LeafFor(k) ==
    LET down[p \in Page] == IF IsInternal(p) THEN down[FindChild(p, k)] ELSE p
    IN  down[root]

Scan(k, limit) ==
    LET leaf == LeafFor(k)
        all == EntriesFrom[leaf]
        skipped == Before(node[leaf].entries, k)
    IN  SubSeq(all, skipped + 1, Min({Len(all), skipped + limit}))

(* get *)
Get(k) ==
    LET entries == node[LeafFor(k)].entries
    IN  IF Holds(entries, k) THEN entries[Before(entries, k) + 1].value ELSE NoValue

(* first, last and len, from the outermost leaves. *)
Outermost(pick(_)) ==
    LET down[p \in Page] == IF IsInternal(p) THEN down[pick(node[p].children)] ELSE p
    IN  down[root]

LeftmostLeaf == Outermost(Head)
RightmostLeaf == Outermost(Last)
FirstKey ==
    IF node[LeftmostLeaf].entries = << >> THEN 0 ELSE Head(node[LeftmostLeaf].entries).key
LastKey ==
    IF node[RightmostLeaf].entries = << >> THEN 0 ELSE Last(node[RightmostLeaf].entries).key

(* verify_subtree: the depth of the leaves below p, or -1 if they differ or a
   key lies outside [low, high). *)
DepthOf[span \in Page \X (0 .. MaxKey + 1) \X (0 .. MaxKey + 1)] ==
    LET p == span[1]  low == span[2]  high == span[3]
        bound == << low >> \o node[p].keys \o << high >>
        below(i) == DepthOf[<< node[p].children[i], bound[i], bound[i + 1] >>]
    IN  IF IsLeaf(p)
        THEN IF \A i \in DOMAIN node[p].entries :
                   low <= node[p].entries[i].key /\ node[p].entries[i].key < high
             THEN 0 ELSE -1
        ELSE IF /\ IsInternal(p)
                /\ \A i \in DOMAIN node[p].children : below(i) = below(1) /\ below(i) # -1
        THEN below(1) + 1
        ELSE -1

Below[p \in Page] ==
    {p} \cup (IF IsInternal(p) THEN UNION {Below[c] : c \in Range(node[p].children)} ELSE {})

KeysBelow[p \in Page] ==
    IF IsLeaf(p) THEN Len(node[p].entries)
    ELSE IF ~ IsInternal(p) THEN 0
    ELSE SumOf([i \in DOMAIN node[p].children |-> KeysBelow[node[p].children[i]]])

(* verify_integrity *)
LeafChain == ChainFrom[LeftmostLeaf]

ChainVerifies ==
    LET leaves == LeafChain
        entries == EntriesFrom[LeftmostLeaf]
    IN  /\ \A i \in DOMAIN leaves :
              node[leaves[i]].prev = IF i = 1 THEN 0 ELSE leaves[i - 1]
        /\ \A i \in 1 .. Len(entries) - 1 : entries[i].key < entries[i + 1].key
        /\ Len(entries) = KeysBelow[root]

Verifies == DepthOf[<< root, 0, MaxKey + 1 >>] >= 0 /\ ChainVerifies

Quiet == \A w \in Writer : At(w, "idle")

(* btree.rs:41 "Nodes split on overflow": no rebuild is given more than fits.
   The code cuts a node in the middle of its count, whatever its entries weigh,
   so this depends on their sizes. *)
NeverOverrun == \A p \in Page : node[p].type # "overrun"

(* Between two calls, until one fails, every structural invariant of
   btree.rs:35-41 holds, as verify_integrity checks them: leaves at one depth,
   keys ordered and within their separators, leaves linked both ways; and no
   page overflows. *)
IntegrityVerifies == NeverOverrun /\ (Quiet => Verifies)

(* The parent pointers, which verify_integrity does not read and every split
   and merge relies on, name the real parents; and each page is in the tree or
   free, so that no call that succeeds leaks one. *)
ParentsAgree ==
    Quiet =>
        /\ node[root].parent = 0
        /\ \A p \in Page : IsInternal(p) =>
              \A i \in DOMAIN node[p].children : node[node[p].children[i]].parent = p
        /\ Below[root] \cup FreePages = Page

(* Between two calls, until one fails, get and scan from any key, with any
   limit, answer from the same map, which the chain lists in order. *)
Contents == EntriesFrom[FirstLeaf]

ReadsAgree ==
    Quiet => LET all == Contents IN
        \A k \in Key :
           LET rest == SubSeq(all, Before(all, k) + 1, Len(all))
           IN  /\ Get(k) = IF Holds(all, k) THEN rest[1].value ELSE NoValue
               /\ \A limit \in 1 .. MaxKey :
                     Scan(k, limit) = SubSeq(rest, 1, Min({limit, Len(rest)}))

(* btree.rs:710 "Fetch the smallest key and its value in the tree", and 723, the
   largest: first and last answer with the ends of what is in the tree.  The
   code looks in the outermost leaves only, and these may be empty: the leaf of
   an only child is not merged. *)
OuterKeysAgree ==
    Quiet => LET all == Contents IN
        all # << >> => FirstKey = all[1].key /\ LastKey = Last(all).key

(* One writer: the leaf chain is the map, and a call changes it at once. *)
TheWriter == CHOOSE w \in Writer : TRUE

Map == INSTANCE OrderedMap WITH
    map <- LET all == Contents
           IN  [k \in {all[i].key : i \in DOMAIN all} |-> all[Before(all, k) + 1].value],
    pending <- IF run[TheWriter].op = "none" THEN NoCall
               ELSE [op |-> run[TheWriter].op, key |-> run[TheWriter].key,
                     value |-> run[TheWriter].value],
    done <- run[TheWriter].done,
    Value <- Value \cup {NoValue}

(* However a call splits, shares and merges nodes, and where it fails too, the
   chain of leaves lists the map before the call or the map after it. *)
ImplementsMap == Map!Spec
=============================================================================
