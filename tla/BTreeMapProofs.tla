---------------------------- MODULE BTreeMapProofs ----------------------------
(***************************************************************************)
(* Proofs about what the pages of the B+Tree hold: with one writer, each   *)
(* page is for the keys between two bounds, the row of leaves lists the    *)
(* map and points back, and verify_integrity passes between calls.         *)
(***************************************************************************)
EXTENDS BTreeProofs

-----------------------------------------------------------------------------
(* An insert or a delete at its leaf. *)
Apart(B, k) == {x \in B : x.key # k}

(* The step of the writer has brought it to run'[TheWriter], and the tree to B. *)
Puts(B) ==
    InOrder(node', root', run'[TheWriter]) /\ Book(node', run'[TheWriter]) = B

LEMMA ElsewhereNot ==
    ASSUME NEW n, NEW S, NEW lo, NEW hi, Row(n, S, lo, hi), NEW p \in S,
           NEW k \in Int, lo[p] <= k, k < hi[p], NEW q \in S, q # p
    PROVE  \A x \in Range(n[q].entries) : x.key # k
<1>1. lo[p] \in Int /\ hi[p] \in Int /\ lo[q] \in Int /\ hi[q] \in Int
  BY RowParts
<1>2. hi[p] <= lo[q] \/ hi[q] <= lo[p]
  BY DEF Row
<1>3. Shelf(n[q].entries, lo[q], hi[q])
  BY DEF Row
<1>4. TAKE x \in Range(n[q].entries)
<1>5. lo[q] <= x.key /\ x.key < hi[q] /\ x.key \in Int
  BY <1>3, EntryParts DEF Shelf
<1> QED BY <1>1, <1>2, <1>5

LEMMA StockApart ==
    ASSUME NEW n, NEW S, NEW lo, NEW hi, Row(n, S, lo, hi), NEW p \in S,
           NEW k \in Int, lo[p] <= k, k < hi[p], NEW x
    PROVE  x \in Apart(Stock(n, S), k)
             <=> \/ \E q \in S : q # p /\ x \in Range(n[q].entries)
                 \/ x \in Range(n[p].entries) /\ x.key # k
<1>1. \A q \in S : q # p => \A y \in Range(n[q].entries) : y.key # k
  BY ElsewhereNot
<1>2. x \in Stock(n, S) <=> \E q \in S : x \in Range(n[q].entries)
  BY DEF Stock
<1> QED BY <1>1, <1>2 DEF Apart

LEMMA LeafAt ==
    ASSUME Inv, NEW l, l = run[TheWriter], NEW lo, NEW hi, NEW from, NEW upto,
           Order(node, root, l, lo, hi, from, upto),
           l.pc \in {"insert", "delete"}, IsLeaf(l.page)
    PROVE  /\ Plain(l) /\ Still(l) /\ from = lo /\ upto = hi
           /\ Live(node, l) = {p \in Page : node[p].type # "freed"}
           /\ Row(node, Leaves(node, Live(node, l)), lo, hi)
           /\ l.page \in Leaves(node, Live(node, l)) /\ l.page \in Page
           /\ Shelf(node[l.page].entries, lo[l.page], hi[l.page])
           /\ lo[l.page] <= l.key /\ l.key < hi[l.page] /\ l.key \in Int
           /\ lo[l.page] \in Bound /\ hi[l.page] \in Bound
           /\ l \in Locals /\ node \in [Page -> Node]
           /\ node[l.page] \in LeafNodes
<1>1. Plain(l) /\ Still(l)
  BY PlainIsStill DEF Plain
<1>2. from = lo /\ upto = hi
  <2>1. Sight(node, l, lo, hi, from, upto)
    BY DEF Order
  <2> QED BY <1>1, <2>1, PlainSight DEF Still
<1>3. l.page \in Live(node, l) /\ lo[l.page] <= l.key /\ l.key < hi[l.page]
  BY DEF Order, Seek
<1>4. l.page \in Page /\ node[l.page].type = "leaf"
  BY DEF IsLeaf
<1>5. l \in Locals /\ node \in [Page -> Node] /\ l.key \in Int
  BY NodesNow, BTreeConstants DEF Locals
<1>6. l.page \in Leaves(node, Live(node, l))
  BY <1>3, <1>4 DEF Leaves
<1>7. Row(node, Leaves(node, Live(node, l)), lo, hi)
  BY DEF Order, Pages
<1>8. Shelf(node[l.page].entries, lo[l.page], hi[l.page])
  BY <1>6, <1>7 DEF Row
<1>9. node[l.page] \in LeafNodes
  BY <1>4, <1>5, LeafParts
<1> QED BY <1>1, <1>2, <1>3, <1>4, <1>5, <1>6, <1>7, <1>8, <1>9, StillView, OrderParts

(* The entries of one leaf change. *)
LEMMA RefillGoes ==
    ASSUME Inv, NEW l, l = run[TheWriter], NEW lo, NEW hi, NEW from, NEW upto,
           Order(node, root, l, lo, hi, from, upto),
           l.pc \in {"insert", "delete"}, IsLeaf(l.page), root' = root,
           NEW e, node' = [node EXCEPT ![l.page].entries = e],
           Shelf(e, lo[l.page], hi[l.page]),
           NEW X, Range(e) = Apart(Range(node[l.page].entries), l.key) \cup X,
           NEW l2, run'[TheWriter] = l2, l2.pc \in {"return", "rebalance"}
    PROVE  Puts(Apart(Book(node, l), l.key) \cup X) /\ Kept(lo, hi, from, upto)
<1>1. PICK p, live, S, n2 : /\ p = l.page /\ live = Live(node, l) /\ S = Leaves(node, live)
                            /\ n2 = node'
  OBVIOUS
<1>2. /\ Still(l) /\ from = lo /\ upto = hi /\ p \in S /\ p \in Page
      /\ Row(node, S, lo, hi) /\ node \in [Page -> Node] /\ node[p] \in LeafNodes
      /\ lo[p] <= l.key /\ l.key < hi[p] /\ l.key \in Int
  BY <1>1, LeafAt
<1>3. Still(l2)
  BY PlainIsStill DEF Plain
<1>4. /\ \A q \in Page : q # p => n2[q] = node[q]
      /\ n2[p].entries = e /\ n2[p].type = "leaf" /\ n2[p].next = node[p].next
  BY <1>1, <1>2 DEF LeafNodes
<1>5. node[p].type = "leaf"
  BY <1>2 DEF LeafNodes
<1>6. \A q \in Page : n2[q].type = node[q].type
  BY <1>4, <1>5
<1>7. Live(n2, l2) = live /\ Top(root', l2) = Top(root, l)
  <2>1. live = {q \in Page : node[q].type # "freed"} /\ Live(n2, l2) = {q \in Page : n2[q].type # "freed"}
    <3>1. live = {q \in Page : node[q].type # "freed"}
      BY <1>1, <1>2, StillView
    <3>2. Live(n2, l2) = {q \in Page : n2[q].type # "freed"}
      BY <1>3, StillView
    <3> QED BY <3>1, <3>2
  <2> QED BY <1>2, <1>3, <1>6, <2>1, StillView
<1>8. live \subseteq Page /\ S \subseteq Page
  BY <1>1, OrderParts DEF Leaves
<1>9. Leaves(n2, live) = S
  BY <1>1, <1>6, <1>8 DEF Leaves
<1>10. Row(n2, S, lo, hi)
  <2>1. Shelf(n2[p].entries, lo[p], hi[p])
    BY <1>1, <1>4
  <2>2. \A q \in S : n2[q].next = node[q].next /\ (q # p => n2[q].entries = node[q].entries)
    BY <1>4, <1>8
  <2> QED BY <1>2, <2>1, <2>2, RowRefilled
<1>11. Pages(n2, live, Top(root, l), lo, hi, from, upto)
  <2>1. Pages(node, live, Top(root, l), lo, hi, from, upto)
    BY <1>1, OrderParts
  <2>2. Fenced(n2, live, lo, hi, from, upto)
    BY <1>4, <1>6, <1>8, <1>5, <2>1 DEF Pages, Fenced
  <2> QED BY <1>9, <1>10, <2>1, <2>2 DEF Pages
<1>12. Order(n2, root', l2, lo, hi, from, upto)
  <2>1. Sight(n2, l2, lo, hi, from, upto) /\ Emptied(n2, l2)
    <3>1. Sight(node, l, lo, hi, from, upto)
      BY DEF Order
    <3> QED BY <1>2, <1>3, <3>1, PlainSight, PlainEmptied DEF Still
  <2>2. Seek(n2, l2, lo, hi)
    BY DEF Seek
  <2> QED BY <1>7, <1>11, <2>1, <2>2 DEF Order
<1>13. ASSUME NEW x
       PROVE  x \in Stock(n2, S) <=> x \in Apart(Stock(node, S), l.key) \cup X
  <2>1. x \in Stock(n2, S) <=> \E q \in S : x \in Range(n2[q].entries)
    BY DEF Stock
  <2>2. \A q \in S : q # p => n2[q].entries = node[q].entries
    BY <1>4, <1>8
  <2>3. x \in Range(n2[p].entries) <=> (x \in Range(node[p].entries) /\ x.key # l.key) \/ x \in X
    BY <1>1, <1>4 DEF Apart
  <2>4. x \in Stock(n2, S)
           <=> (\E q \in S : q # p /\ x \in Range(n2[q].entries)) \/ x \in Range(n2[p].entries)
    BY <1>2, <2>1
  <2>5. (\E q \in S : q # p /\ x \in Range(n2[q].entries))
           <=> \E q \in S : q # p /\ x \in Range(node[q].entries)
    BY <2>2
  <2>6. x \in Apart(Stock(node, S), l.key)
           <=> \/ \E q \in S : q # p /\ x \in Range(node[q].entries)
               \/ x \in Range(node[p].entries) /\ x.key # l.key
    BY <1>2, StockApart
  <2> QED BY <2>3, <2>4, <2>5, <2>6
<1>14. Book(n2, l2) = Apart(Book(node, l), l.key) \cup X
  BY <1>1, <1>7, <1>9, <1>13 DEF Book
<1> QED BY <1>1, <1>12, <1>14 DEF Puts, InOrder, Kept

LEMMA WithOnShelf ==
    ASSUME NEW e, NEW a \in Bound, NEW b \in Bound, Shelf(e, a, b), NEW k \in Key,
           a <= k, k < b, NEW v \in Value
    PROVE  /\ Shelf(With(e, k, v), a, b)
           /\ Range(With(e, k, v)) = Apart(Range(e), k) \cup {[key |-> k, value |-> v]}
<1>1. /\ With(e, k, v) \in Seq(Entry) /\ Arranged(With(e, k, v))
      /\ Range(With(e, k, v)) = {x \in Range(e) : x.key # k} \cup {[key |-> k, value |-> v]}
  BY WithIs DEF Shelf
<1>2. \A x \in Range(With(e, k, v)) : a <= x.key /\ x.key < b
  BY <1>1 DEF Shelf
<1> QED BY <1>1, <1>2 DEF Shelf, Apart

LEMMA InsertInPlacePuts ==
    ASSUME OneWriter, Inv, NEW l, l = run[TheWriter], NEW lo, NEW hi, NEW from, NEW upto,
           Order(node, root, l, lo, hi, from, upto), InsertInPlace(TheWriter)
    PROVE  /\ Puts(Apart(Book(node, l), l.key) \cup {[key |-> l.key, value |-> l.value]})
           /\ Kept(lo, hi, from, upto)
<1>1. l.pc = "insert" /\ IsLeaf(l.page) /\ root' = root
  BY DEF InsertInPlace, At
<1>2. l \in Locals /\ l.key \in Key /\ l.value \in Value
  BY <1>1, AtWork DEF Asked
<1>3. PICK e : e = With(node[l.page].entries, l.key, l.value)
  OBVIOUS
<1>4. node' = [node EXCEPT ![l.page].entries = e]
  BY <1>3 DEF InsertInPlace, Entries
<1>5. PICK l2 : l2 = [l EXCEPT !.done = TRUE, !.pc = "return"]
  OBVIOUS
<1>6. run'[TheWriter] = l2
  BY <1>5, LocalsNow DEF InsertInPlace
<1>7. l2.pc = "return"
  BY <1>2, <1>5 DEF Locals
<1>8. /\ Shelf(e, lo[l.page], hi[l.page])
      /\ Range(e) = Apart(Range(node[l.page].entries), l.key) \cup {[key |-> l.key, value |-> l.value]}
  <2>1. PICK e0, a, b, k : e0 = node[l.page].entries /\ a = lo[l.page] /\ b = hi[l.page] /\ k = l.key
    OBVIOUS
  <2>2. a \in Bound /\ b \in Bound /\ Shelf(e0, a, b) /\ a <= k /\ k < b
    BY <1>1, <2>1, LeafAt
  <2>3. Shelf(With(e0, k, l.value), a, b)
        /\ Range(With(e0, k, l.value)) = Apart(Range(e0), k) \cup {[key |-> k, value |-> l.value]}
    BY <1>2, <2>1, <2>2, WithOnShelf
  <2> QED BY <1>3, <2>1, <2>3
<1>9. PICK X : X = {[key |-> l.key, value |-> l.value]}
  OBVIOUS
<1>10. Shelf(e, lo[l.page], hi[l.page]) /\ Range(e) = Apart(Range(node[l.page].entries), l.key) \cup X
  BY <1>8, <1>9
<1>11. l.pc \in {"insert", "delete"} /\ l2.pc \in {"return", "rebalance"}
  BY <1>1, <1>7
<1>12. Puts(Apart(Book(node, l), l.key) \cup X) /\ Kept(lo, hi, from, upto)
  BY <1>1, <1>4, <1>6, <1>10, <1>11, RefillGoes
<1> QED BY <1>9, <1>12

LEMMA RemoveKeyPuts ==
    ASSUME OneWriter, Inv, NEW l, l = run[TheWriter], NEW lo, NEW hi, NEW from, NEW upto,
           Order(node, root, l, lo, hi, from, upto), RemoveKey(TheWriter)
    PROVE  Puts(Apart(Book(node, l), l.key))
<1>1. l.pc = "delete" /\ IsLeaf(l.page) /\ root' = root
  BY DEF RemoveKey, At
<1>2. PICK e0, a, b : e0 = node[l.page].entries /\ a = lo[l.page] /\ b = hi[l.page]
  OBVIOUS
<1>3. Shelf(e0, a, b) /\ l \in Locals
  BY <1>1, <1>2, LeafAt
<1>4. PICK e : e = IF Holds(e0, l.key) THEN Without(e0, l.key) ELSE e0
  OBVIOUS
<1>5. node' = [node EXCEPT ![l.page].entries = e]
  BY <1>2, <1>4 DEF RemoveKey
<1>6. PICK l2 : run'[TheWriter] = l2 /\ l2.pc \in {"return", "rebalance"}
  <2>1. PICK t \in {"return", "rebalance"} :
           Continue(TheWriter, [l EXCEPT !.done = TRUE, !.pc = t])
    BY DEF RemoveKey
  <2>2. PICK l2 : l2 = [l EXCEPT !.done = TRUE, !.pc = t]
    OBVIOUS
  <2>3. l2.pc = t
    BY <1>3, <2>2 DEF Locals
  <2> QED BY <2>1, <2>2, <2>3, LocalsNow
<1>7. Shelf(e, a, b) /\ Range(e) = Apart(Range(e0), l.key) \cup {}
  <2>1. CASE Holds(e0, l.key)
    <3>1. l.key \in Key
      <4>1. PICK i \in DOMAIN e0 : e0[i].key = l.key
        BY <2>1 DEF Holds
      <4> QED BY <1>3, <4>1, EntryParts DEF Shelf
    <3>2. e \in Seq(Entry) /\ Arranged(e) /\ Range(e) = {x \in Range(e0) : x.key # l.key}
      BY <1>3, <1>4, <2>1, <3>1, WithoutIs DEF Shelf
    <3> QED BY <1>3, <3>2 DEF Shelf, Apart
  <2>2. CASE ~ Holds(e0, l.key)
    <3>1. \A x \in Range(e0) : x.key # l.key
      <4>1. TAKE x \in Range(e0)
      <4>2. PICK i \in 1 .. Len(e0) : e0[i] = x
        BY <1>3, EntryParts DEF Shelf
      <4>3. i \in DOMAIN e0
        BY <1>3, EntryParts DEF Shelf
      <4> QED BY <2>2, <4>2, <4>3 DEF Holds
    <3> QED BY <1>3, <1>4, <2>2, <3>1 DEF Apart
  <2> QED BY <2>1, <2>2
<1>8. Puts(Apart(Book(node, l), l.key) \cup {})
  BY <1>1, <1>2, <1>5, <1>6, <1>7, RefillGoes
<1> QED BY <1>8

-----------------------------------------------------------------------------
(* split_leaf *)
CutAt(e, n, m, s, x, y) ==
    /\ n \in Nat /\ n = Len(e) /\ m \in 1 .. n - 1 /\ s = e[m + 1].key
    /\ Slice(Entry, e, 1, m, x) /\ Slice(Entry, e, m + 1, n, y)

HalvesOf(e, a, b, s, x, y) ==
    /\ Shelf(x, a, s) /\ Shelf(y, s, b) /\ s \in Key /\ a < s /\ s < b
    /\ \A z : z \in Range(e) <=> z \in Range(x) \/ z \in Range(y)

LEMMA ShelfCut ==
    ASSUME NEW e, NEW a \in Bound, NEW b \in Bound, Shelf(e, a, b),
           NEW n, NEW m, NEW s, NEW x, NEW y, CutAt(e, n, m, s, x, y)
    PROVE  HalvesOf(e, a, b, s, x, y)
<1> USE DEF CutAt
<1>1. e \in Seq(Entry) /\ Arranged(e) /\ \A z \in Range(e) : a <= z.key /\ z.key < b
  BY DEF Shelf
<1>2. \A i \in 1 .. n : e[i] \in Entry /\ e[i].key \in Key /\ e[i].key \in Int /\ e[i] \in Range(e)
  BY <1>1, EntryParts
<1>3. m \in Nat /\ 1 <= m /\ m + 1 <= n /\ 1 \in 1 .. n /\ m + 1 \in 1 .. n
  OBVIOUS
<1>4. a \in Int /\ b \in Int /\ s \in Int /\ s \in Key
  BY <1>2, <1>3, BoundParts
<1>5. a < s /\ s < b
  <2>1. a <= e[1].key /\ e[1].key < s
    BY <1>1, <1>2, <1>3 DEF Arranged
  <2>2. s < b
    BY <1>1, <1>2, <1>3
  <2> QED BY <1>2, <1>3, <1>4, <2>1, <2>2
<1>6. Slice(Entry, e, 1, m, x) /\ x \in Seq(Entry) /\ Arranged(x)
  <2>1. 1 \in 1 .. Len(e) + 1 /\ m \in 1 - 1 .. Len(e)
    BY <1>3
  <2>2. Slice(Entry, e, 1, m, x)
    OBVIOUS
  <2> QED BY <1>1, <2>1, <2>2, SliceArranged
<1>7. Slice(Entry, e, m + 1, n, y) /\ y \in Seq(Entry) /\ Arranged(y)
  <2>1. m + 1 \in 1 .. Len(e) + 1 /\ n \in m + 1 - 1 .. Len(e)
    BY <1>3
  <2>2. Slice(Entry, e, m + 1, n, y)
    OBVIOUS
  <2> QED BY <1>1, <2>1, <2>2, SliceArranged
<1>8. Len(x) = m /\ \A i \in 1 .. m : x[i] = e[i]
  BY <1>3, <1>6 DEF Slice
<1>9. Len(y) = n - m /\ \A i \in 1 .. n - m : y[i] = e[m + i]
  BY <1>3, <1>7 DEF Slice
<1>10. \A z : z \in Range(e) <=> \E i \in 1 .. n : e[i] = z
  BY <1>1, <1>2, EntryParts
<1>11. \A z : z \in Range(x) <=> \E i \in 1 .. m : e[i] = z
  <2>1. \A z : z \in Range(x) <=> \E i \in 1 .. m : x[i] = z
    BY <1>3, <1>6, <1>8, EntryParts
  <2> QED BY <1>8, <2>1
<1>12. \A z : z \in Range(y) <=> \E i \in m + 1 .. n : e[i] = z
  <2>1. \A z : z \in Range(y) <=> \E i \in 1 .. n - m : y[i] = z
    <3>1. PICK d : d = n - m
      OBVIOUS
    <3>2. d = Len(y) /\ d \in Nat
      BY <1>3, <1>9, <3>1
    <3>3. \A z : z \in Range(y) <=> \E i \in 1 .. d : y[i] = z
      BY <1>7, <3>2, EntryParts
    <3> QED BY <3>1, <3>3
  <2>2. ASSUME NEW z, NEW i \in 1 .. n - m, y[i] = z
        PROVE  \E j \in m + 1 .. n : e[j] = z
    <3>1. m + i \in m + 1 .. n /\ e[m + i] = z
      BY <1>3, <1>9, <2>2
    <3> QED BY <3>1
  <2>3. ASSUME NEW z, NEW j \in m + 1 .. n, e[j] = z
        PROVE  \E i \in 1 .. n - m : y[i] = z
    <3>1. PICK i : i = j - m
      OBVIOUS
    <3>2. i \in 1 .. n - m /\ m + i = j
      BY <1>3, <3>1
    <3> QED BY <1>9, <2>3, <3>2
  <2> QED BY <2>1, <2>2, <2>3
<1>13. \A z \in Range(x) : a <= z.key /\ z.key < s
  <2>1. TAKE z \in Range(x)
  <2>2. PICK i \in 1 .. m : e[i] = z
    BY <1>11
  <2>3. i \in 1 .. n /\ i < m + 1
    BY <1>3
  <2> QED BY <1>1, <1>2, <1>3, <2>2, <2>3 DEF Arranged
<1>14. \A z \in Range(y) : s <= z.key /\ z.key < b
  <2>1. TAKE z \in Range(y)
  <2>2. PICK i \in m + 1 .. n : e[i] = z
    BY <1>12
  <2>3. i \in 1 .. n /\ (i = m + 1 \/ m + 1 < i)
    BY <1>3
  <2>4. s <= e[i].key
    <3>1. CASE i = m + 1
      BY <1>2, <2>3, <3>1
    <3>2. CASE m + 1 < i
      <4>1. e[m + 1].key < e[i].key
        BY <1>1, <1>3, <2>3, <3>2 DEF Arranged
      <4> QED BY <1>2, <1>4, <2>3, <4>1
    <3> QED BY <2>3, <3>1, <3>2
  <2> QED BY <1>1, <1>2, <2>2, <2>3, <2>4
<1>15. ASSUME NEW z
       PROVE  z \in Range(e) <=> z \in Range(x) \/ z \in Range(y)
  <2>1. \A i \in 1 .. n : i \in 1 .. m \/ i \in m + 1 .. n
    BY <1>3
  <2>2. \A i : i \in 1 .. m \/ i \in m + 1 .. n => i \in 1 .. n
    BY <1>3
  <2> QED BY <1>10, <1>11, <1>12, <2>1, <2>2
<1> QED BY <1>4, <1>5, <1>6, <1>7, <1>13, <1>14, <1>15 DEF Shelf, HalvesOf

(* The children of what is in the tree are in the tree. *)
LEMMA ChildrenLive ==
    ASSUME Inv, NEW l, l = run[TheWriter], l.pc # "failed", NEW p \in Live(node, l)
    PROVE  /\ Kids(node, l)[p] \subseteq Live(node, l)
           /\ node[p].type = "internal" /\ ~ Merging(l) =>
                 Range(node[p].children) \subseteq Live(node, l)
<1>1. PICK h : TreeOf(node, root, l, h)
  BY AtWork
<1>2. Kids(node, l)[p] \subseteq Live(node, l)
  BY <1>1 DEF TreeOf, Tree, Linked
<1>3. p \in Page
  BY DEF Live
<1> QED BY <1>2, <1>3 DEF Kids

LEMMA EnoughToSplit ==
    ASSUME NEW e \in Seq(Entry), e # << >>, ~ Fits(LeafUsed(e)),
           Fits(LeafUsed(SubSeq(e, Half(e) + 1, Len(e))))
    PROVE  Half(e) \in 1 .. Len(e) - 1
<1>1. PICK n \in Nat : n = Len(e) /\ n >= 1
  OBVIOUS
<1>2. ASSUME n = 1 PROVE FALSE
  <2>1. Half(e) + 1 = 1
    BY <1>1, <1>2 DEF Half
  <2>2. SubSeq(e, 1, Len(e)) = e
    OBVIOUS
  <2>3. SubSeq(e, Half(e) + 1, Len(e)) = e
    BY <2>1, <2>2
  <2> QED BY <2>3
<1>3. n >= 2
  BY <1>1, <1>2
<1>4. n \div 2 \in 1 .. n - 1
  BY <1>3
<1> QED BY <1>1, <1>4 DEF Half

LEMMA SplitLeafPuts ==
    ASSUME OneWriter, Inv, NeverOverrun',
           NEW l, l = run[TheWriter], NEW lo, NEW hi, NEW from, NEW upto,
           Order(node, root, l, lo, hi, from, upto), SplitLeaf(TheWriter)
    PROVE  Puts(Apart(Book(node, l), l.key) \cup {[key |-> l.key, value |-> l.value]})
<1>1. l.pc = "insert" /\ IsLeaf(l.page) /\ root' = root /\ FreePages # {}
  BY DEF SplitLeaf, At
<1>2. l \in Locals /\ l.key \in Key /\ l.value \in Value
  BY <1>1, AtWork DEF Asked
<1>3. PICK p, live, S : p = l.page /\ live = Live(node, l) /\ S = Leaves(node, live)
  OBVIOUS
<1>4. /\ Still(l) /\ Plain(l) /\ from = lo /\ upto = hi /\ p \in S /\ p \in Page
      /\ Row(node, S, lo, hi) /\ node \in [Page -> Node] /\ node[p] \in LeafNodes
      /\ lo[p] <= l.key /\ l.key < hi[p] /\ l.key \in Int
      /\ lo[p] \in Bound /\ hi[p] \in Bound /\ Shelf(node[p].entries, lo[p], hi[p])
      /\ live = {x \in Page : node[x].type # "freed"}
  BY <1>1, <1>3, LeafAt
<1>5. PICK q : q = NewPage
  OBVIOUS
<1>6. q \in Page /\ node[q].type = "freed" /\ q \notin live /\ q \notin S /\ q # p
  <2>1. q \in Page /\ node[q].type = "freed"
    BY <1>1, <1>5, NewPageIsFree
  <2>2. q \notin live
    BY <1>4, <2>1
  <2>3. q \notin S /\ q # p
    BY <1>3, <1>4, <2>2 DEF Leaves
  <2> QED BY <2>1, <2>2, <2>3
<1>7. PICK e : e = With(node[p].entries, l.key, l.value)
  OBVIOUS
<1>8. PICK n : n = Len(e)
  OBVIOUS
<1>9. PICK m : m = Half(e)
  OBVIOUS
<1>10. /\ Shelf(e, lo[p], hi[p])
       /\ Range(e) = Apart(Range(node[p].entries), l.key) \cup {[key |-> l.key, value |-> l.value]}
  <2>1. PICK e0, a, b, k : e0 = node[p].entries /\ a = lo[p] /\ b = hi[p] /\ k = l.key
    OBVIOUS
  <2>2. a \in Bound /\ b \in Bound /\ Shelf(e0, a, b) /\ a <= k /\ k < b
    BY <1>4, <2>1
  <2>3. Shelf(With(e0, k, l.value), a, b)
        /\ Range(With(e0, k, l.value)) = Apart(Range(e0), k) \cup {[key |-> k, value |-> l.value]}
    BY <1>2, <2>1, <2>2, WithOnShelf
  <2> QED BY <1>7, <2>1, <2>3
<1>11. n \in Nat /\ m \in 1 .. n - 1
  <2>1. e \in Seq(Entry)
    BY <1>10 DEF Shelf
  <2>2. ~ Fits(LeafUsed(e))
    BY <1>3, <1>7 DEF SplitLeaf, Entries
  <2>3. e # << >>
    <3>1. [key |-> l.key, value |-> l.value] \in Range(e)
      BY <1>10
    <3> QED BY <3>1, EmptyParts
  <2>4. Fits(LeafUsed(SubSeq(e, m + 1, n)))
    <3>1. PICK en, u : en = Entries(TheWriter) /\ u = node[l.page].parent
      OBVIOUS
    <3>2. en = e /\ Half(en) = m /\ Len(en) = n
      BY <1>3, <1>7, <1>8, <1>9, <3>1 DEF Entries
    <3>3. PICK new, old : /\ new = Leaf(SubSeq(en, Half(en) + 1, Len(en)), u, l.page,
                                        node[l.page].next)
                          /\ node' = [node EXCEPT ![NewPage] = new, ![l.page] = old]
      BY <3>1 DEF SplitLeaf
    <3>4. node'[q] = new
      BY <1>3, <1>4, <1>5, <1>6, <3>3
    <3>5. new.type # "overrun"
      BY <1>6, <3>4 DEF NeverOverrun
    <3> QED BY <3>2, <3>3, <3>5 DEF Leaf, Overrun, Fits
  <2> QED BY <1>8, <1>9, <2>1, <2>2, <2>3, <2>4, EnoughToSplit
<1>12. PICK x, y, s : x = SubSeq(e, 1, m) /\ y = SubSeq(e, m + 1, n) /\ s = e[m + 1].key
  OBVIOUS
<1>13. /\ Shelf(x, lo[p], s) /\ Shelf(y, s, hi[p]) /\ s \in Key /\ lo[p] < s /\ s < hi[p]
       /\ \A z : z \in Range(e) <=> z \in Range(x) \/ z \in Range(y)
  <2>1. PICK a, b : a = lo[p] /\ b = hi[p]
    OBVIOUS
  <2>2. a \in Bound /\ b \in Bound /\ Shelf(e, a, b)
    BY <1>4, <1>10, <2>1
  <2>3. /\ Shelf(x, a, s) /\ Shelf(y, s, b) /\ s \in Key /\ a < s /\ s < b
        /\ \A z : z \in Range(e) <=> z \in Range(x) \/ z \in Range(y)
    <3>1. CutAt(e, n, m, s, x, y)
      <4>1. e \in Seq(Entry)
        BY <2>2 DEF Shelf
      <4>2. /\ 1 \in 1 .. Len(e) + 1 /\ m \in 1 - 1 .. Len(e)
            /\ m + 1 \in 1 .. Len(e) + 1 /\ n \in m + 1 - 1 .. Len(e)
        BY <1>8, <1>11
      <4>3. Slice(Entry, e, 1, m, x) /\ Slice(Entry, e, m + 1, n, y)
        BY <1>12, <4>1, <4>2, SlicePlaces
      <4> QED BY <1>8, <1>11, <1>12, <4>3 DEF CutAt
    <3>2. HalvesOf(e, a, b, s, x, y)
      BY <2>2, <3>1, ShelfCut
    <3> QED BY <3>2 DEF HalvesOf
  <2> QED BY <2>1, <2>3
<1>14. PICK l2 : l2 = [l EXCEPT !.done = TRUE, !.right = q, !.sep = s,
                                !.next = node[p].next, !.pc = "next", !.then = "promote"]
  OBVIOUS
<1>15. run'[TheWriter] = l2
  <2>1. Continue(TheWriter, [l EXCEPT !.done = TRUE, !.right = NewPage,
                                !.sep = Entries(TheWriter)[Half(Entries(TheWriter)) + 1].key,
                                !.next = node[l.page].next, !.pc = "next", !.then = "promote"])
    BY DEF SplitLeaf
  <2>2. Entries(TheWriter) = e
    BY <1>3, <1>7 DEF Entries
  <2> QED BY <1>3, <1>5, <1>9, <1>12, <1>14, <2>1, <2>2, LocalsNow
<1>16. l2.pc = "next" /\ l2.then = "promote" /\ l2.page = p /\ l2.right = q /\ l2.sep = s
  BY <1>2, <1>3, <1>14 DEF Locals
<1>17. /\ Splitting(l2) /\ Promoting(l2) /\ ~ Merging(l2) /\ ~ Collapsing(l2) /\ ~ NewTop(l2)
  BY <1>16 DEF Promoting, Splitting, Merging, Collapsing, NewTop
<1>18. /\ node'[q].type = "leaf" /\ node'[q].entries = y /\ node'[q].next = node[p].next
       /\ node'[p].type = "leaf" /\ node'[p].entries = x /\ node'[p].next = q
       /\ \A z \in Page : z # p /\ z # q => node'[z] = node[z]
  <2>1. PICK new, old, u, t : /\ new = Leaf(y, u, p, node[p].next) /\ old = Leaf(x, u, t, q)
                              /\ node' = [node EXCEPT ![q] = new, ![p] = old]
    <3>1. Entries(TheWriter) = e
      BY <1>3, <1>7 DEF Entries
    <3>2. PICK en, hf : en = Entries(TheWriter) /\ hf = Half(en)
      OBVIOUS
    <3>3. node' = [node EXCEPT
              ![NewPage] = Leaf(SubSeq(en, hf + 1, Len(en)), node[l.page].parent,
                                l.page, node[l.page].next),
              ![l.page] = Leaf(SubSeq(en, 1, hf), node[l.page].parent, node[l.page].prev,
                                    NewPage)]
      BY <3>2 DEF SplitLeaf
    <3> QED BY <1>3, <1>5, <1>8, <1>9, <1>12, <3>1, <3>2, <3>3
  <2>2. node'[q] = new /\ node'[p] = old /\ \A z \in Page : z # p /\ z # q => node'[z] = node[z]
    BY <1>4, <1>6, <2>1
  <2>3. new.type # "overrun" /\ old.type # "overrun"
    BY <1>4, <1>6, <2>2 DEF NeverOverrun
  <2>4. new.type = "leaf" /\ new.entries = y /\ new.next = node[p].next
    BY <2>1, <2>3 DEF Leaf, Overrun
  <2>5. old.type = "leaf" /\ old.entries = x /\ old.next = q
    BY <2>1, <2>3 DEF Leaf, Overrun
  <2> QED BY <2>2, <2>4, <2>5
<1>19. PICK n2 : n2 = node'
  OBVIOUS
<1>20. PICK live2, S2 : live2 = live \cup {q} /\ S2 = S \cup {q}
  OBVIOUS
<1>21. live \subseteq Page /\ p \in live /\ node[p].type = "leaf"
  BY <1>3, <1>4 DEF Leaves
<1>22. Live(n2, l2) = live2 /\ Top(root', l2) = Top(root, l)
  <2>1. Top(root', l2) = root /\ Top(root, l) = root
    BY <1>1, <1>4, <1>17, StillView DEF Top
  <2>2. Live(n2, l2) = {z \in Page : n2[z].type # "freed"}
    BY <1>17 DEF Live
  <2>3. \A z \in Page : n2[z].type # "freed" <=> z \in live2
    BY <1>4, <1>6, <1>18, <1>19, <1>20, <1>21
  <2>4. live2 \subseteq Page
    BY <1>6, <1>20, <1>21
  <2> QED BY <2>1, <2>2, <2>3, <2>4
<1>23. Leaves(n2, live2) = S2
  <2>1. \A z \in live2 : n2[z].type = "leaf" <=> z \in S2
    BY <1>3, <1>4, <1>6, <1>18, <1>19, <1>20, <1>21 DEF Leaves
  <2>2. S2 \subseteq live2
    BY <1>3, <1>20 DEF Leaves
  <2> QED BY <2>1, <2>2 DEF Leaves
<1>24. PICK lo2 : lo2 = [lo EXCEPT ![q] = s]
  OBVIOUS
<1>25. PICK hi2 : hi2 = [hi EXCEPT ![p] = s, ![q] = hi[p]]
  OBVIOUS
<1>26. PICK upto2 : upto2 = [hi2 EXCEPT ![p] = hi2[q]]
  OBVIOUS
<1>27. /\ lo \in [Page -> Bound] /\ hi \in [Page -> Bound] /\ s \in Bound /\ s \in Int
  BY <1>4, <1>13, RowParts, BoundParts
<1>28. /\ lo2 \in [Page -> Bound] /\ hi2 \in [Page -> Bound] /\ upto2 \in [Page -> Bound]
       /\ lo2[q] = s /\ hi2[q] = hi[p] /\ hi2[p] = s /\ lo2[p] = lo[p]
       /\ upto2[p] = hi[p] /\ upto2[q] = hi[p]
       /\ \A z \in Page : /\ z # q => lo2[z] = lo[z] /\ upto2[z] = hi[z]
                          /\ z # q /\ z # p => hi2[z] = hi[z]
  BY <1>4, <1>6, <1>24, <1>25, <1>26, <1>27
<1>29. Row(n2, S2, lo2, hi2)
  <2>1. \A z \in S : z # p => SameLeaf(node[z], n2[z])
    BY <1>3, <1>6, <1>18, <1>19, <1>21 DEF SameLeaf, Leaves
  <2>2. n2[p].next = q /\ n2[q].next = node[p].next
    BY <1>18, <1>19
  <2>3. Shelf(n2[p].entries, lo[p], s) /\ Shelf(n2[q].entries, s, hi[p])
    BY <1>13, <1>18, <1>19
  <2> QED BY <1>4, <1>6, <1>13, <1>20, <1>24, <1>25, <1>27, <2>1, <2>2, <2>3, RowSplit
<1>30. Pages(n2, live2, Top(root, l), lo2, hi2, lo2, upto2)
  <2>1. Pages(node, live, Top(root, l), lo, hi, lo, hi)
    BY <1>3, <1>4, OrderParts
  <2>2. Fenced(n2, live2, lo2, hi2, lo2, upto2)
    <3>1. SUFFICES ASSUME NEW z \in live2, n2[z].type = "internal"
                   PROVE  Fence(n2[z].keys, n2[z].children, lo2[z], hi2[z], lo2, upto2)
      BY DEF Fenced
    <3>2. z # p /\ z # q /\ z \in live /\ z \in Page /\ n2[z] = node[z]
      BY <1>18, <1>19, <1>20, <1>21, <3>1
    <3>3. Fence(node[z].keys, node[z].children, lo[z], hi[z], lo, hi)
      BY <2>1, <3>1, <3>2 DEF Pages, Fenced
    <3>4. Slots(node[z].keys, node[z].children)
      BY <1>4, <3>1, <3>2, NodeSlots DEF Shaped
    <3>5. \A c \in Range(node[z].children) : lo2[c] = lo[c] /\ upto2[c] = hi[c]
      <4>1. Range(node[z].children) \subseteq live
        BY <1>1, <1>3, <1>4, <3>1, <3>2, ChildrenLive DEF Still
      <4> QED BY <1>6, <1>21, <1>28, <4>1
    <3>6. lo2[z] = lo[z] /\ hi2[z] = hi[z]
      BY <1>28, <3>2
    <3> QED BY <3>2, <3>3, <3>4, <3>5, <3>6, FenceKept
  <2>3. \A z \in live2 : lo2[z] < hi2[z]
    BY <1>13, <1>20, <1>21, <1>28, <2>1 DEF Pages
  <2>4. lo2[Top(root, l)] = 0 /\ upto2[Top(root, l)] = MaxKey + 1
    BY <1>6, <1>21, <1>28, <2>1 DEF Pages
  <2>5. live2 \subseteq Page /\ Top(root, l) \in live2
    BY <1>6, <1>20, <1>21, <2>1 DEF Pages
  <2> QED BY <1>23, <1>28, <1>29, <2>2, <2>3, <2>4, <2>5 DEF Pages
<1>31. Order(n2, root', l2, lo2, hi2, lo2, upto2)
  <2>1. Splits(n2, l2, lo2, hi2, upto2, p)
    BY <1>6, <1>16, <1>26, <1>28 DEF Splits
  <2>2. p \in Live(n2, l2)
    BY <1>20, <1>21, <1>22
  <2>3. Sight(n2, l2, lo2, hi2, lo2, upto2)
    BY <1>16, <1>17, <2>1, <2>2 DEF Sight
  <2>4. Seek(n2, l2, lo2, hi2) /\ Emptied(n2, l2)
    BY <1>16, <1>17, PlainEmptied DEF Seek
  <2> QED BY <1>22, <1>30, <2>3, <2>4 DEF Order
<1>32. PICK X : X = {[key |-> l.key, value |-> l.value]}
  OBVIOUS
<1>33. ASSUME NEW z
       PROVE  z \in Stock(n2, S2) <=> z \in Apart(Stock(node, S), l.key) \cup X
  <2>1. z \in Stock(n2, S2) <=> \E c \in S2 : z \in Range(n2[c].entries)
    BY DEF Stock
  <2>2. \A c \in S : c # p => n2[c].entries = node[c].entries
    BY <1>3, <1>6, <1>18, <1>19, <1>21 DEF Leaves
  <2>3. z \in Range(n2[p].entries) \/ z \in Range(n2[q].entries)
           <=> (z \in Range(node[p].entries) /\ z.key # l.key) \/ z \in X
    BY <1>10, <1>13, <1>18, <1>19, <1>32 DEF Apart
  <2>4. z \in Stock(n2, S2)
           <=> \/ \E c \in S : c # p /\ z \in Range(n2[c].entries)
               \/ z \in Range(n2[p].entries) \/ z \in Range(n2[q].entries)
    BY <1>4, <1>20, <2>1
  <2>5. (\E c \in S : c # p /\ z \in Range(n2[c].entries))
           <=> \E c \in S : c # p /\ z \in Range(node[c].entries)
    BY <2>2
  <2>6. z \in Apart(Stock(node, S), l.key)
           <=> \/ \E c \in S : c # p /\ z \in Range(node[c].entries)
               \/ z \in Range(node[p].entries) /\ z.key # l.key
    BY <1>4, StockApart
  <2> QED BY <2>3, <2>4, <2>5, <2>6
<1>34. Book(n2, l2) = Apart(Book(node, l), l.key) \cup X
  BY <1>3, <1>22, <1>23, <1>33 DEF Book
<1> QED BY <1>15, <1>19, <1>31, <1>32, <1>34 DEF Puts, InOrder

-----------------------------------------------------------------------------
(* try_redistribute_leaf_left and _right *)
LEMMA LastGoesOver ==
    ASSUME NEW s \in Seq(Entry), NEW t \in Seq(Entry), Len(s) > 1
    PROVE  CutAt(s \o t, Len(s) + Len(t), Len(s) - 1, Last(s).key, Front(s), << Last(s) >> \o t)
<1>1. PICK m \in Nat, n \in Nat : m = Len(s) - 1 /\ n = Len(t) /\ Len(s) = m + 1 /\ m >= 1
  OBVIOUS
<1>2. PICK e, x, y, z : e = s \o t /\ x = Front(s) /\ z = Last(s) /\ y = << z >> \o t
  OBVIOUS
<1>3. z = s[m + 1] /\ m + 1 \in 1 .. Len(s) /\ z \in Entry
  <2>1. z = s[m + 1]
    BY <1>1, <1>2 DEF Last
  <2> QED BY <1>1, <2>1
<1>4. JoinedAt(Entry, s, t, e) /\ JoinedAt(Entry, << z >>, t, y)
  <2>1. JoinedAt(Entry, s, t, e)
    BY <1>2, JoinedPlaces
  <2>2. << z >> \in Seq(Entry)
    BY <1>3
  <2> QED BY <1>2, <2>1, <2>2, JoinedPlaces
<1>5. /\ e \in Seq(Entry) /\ Len(e) = m + 1 + n
      /\ \A i \in 1 .. m + 1 : e[i] = s[i]
      /\ \A i \in 1 .. n : e[m + 1 + i] = t[i]
  BY <1>1, <1>4 DEF JoinedAt
<1>6. y \in Seq(Entry) /\ Len(y) = 1 + n /\ y[1] = z /\ \A i \in 1 .. n : y[1 + i] = t[i]
  <2>1. Len(<< z >>) = 1 /\ << z >>[1] = z /\ 1 \in 1 .. 1
    OBVIOUS
  <2> QED BY <1>1, <1>4, <2>1 DEF JoinedAt
<1>7. Slice(Entry, s, 1, m, x)
  <2>1. 1 \in 1 .. Len(s) + 1 /\ m \in 1 - 1 .. Len(s) /\ x = SubSeq(s, 1, m)
    BY <1>1, <1>2 DEF Front
  <2> QED BY <2>1, SlicePlaces
<1>8. Slice(Entry, e, 1, m, x)
  <2>1. x \in Seq(Entry) /\ Len(x) = m - 1 + 1 /\ \A i \in 1 .. m - 1 + 1 : x[i] = s[1 + i - 1]
    BY <1>7 DEF Slice
  <2>2. \A i \in 1 .. m - 1 + 1 : 1 + i - 1 \in 1 .. m + 1
    BY <1>1
  <2>3. \A i \in 1 .. m - 1 + 1 : x[i] = e[1 + i - 1]
    BY <1>5, <2>1, <2>2
  <2> QED BY <2>1, <2>3 DEF Slice
<1>9. Slice(Entry, e, m + 1, m + 1 + n, y)
  <2>1. m + 1 + n - (m + 1) + 1 = 1 + n
    BY <1>1
  <2>2. \A i \in 1 .. 1 + n : y[i] = e[m + 1 + i - 1]
    <3>1. TAKE i \in 1 .. 1 + n
    <3>2. CASE i = 1
      <4>1. m + 1 + i - 1 = m + 1 /\ m + 1 \in 1 .. m + 1
        BY <1>1, <3>2
      <4> QED BY <1>3, <1>5, <1>6, <3>2, <4>1
    <3>3. CASE i # 1
      <4>1. PICK j : j = i - 1
        OBVIOUS
      <4>2. j \in 1 .. n /\ 1 + j = i /\ m + 1 + i - 1 = m + 1 + j
        BY <1>1, <3>3, <4>1
      <4> QED BY <1>5, <1>6, <4>2
    <3> QED BY <3>2, <3>3
  <2> QED BY <1>6, <2>1, <2>2 DEF Slice
<1>10. e[m + 1].key = z.key /\ m \in 1 .. m + 1 + n - 1 /\ m + 1 + n \in Nat
  BY <1>1, <1>3, <1>5
<1>11. CutAt(e, m + 1 + n, m, z.key, x, y)
  BY <1>5, <1>8, <1>9, <1>10 DEF CutAt
<1> QED BY <1>1, <1>2, <1>11

LEMMA FirstGoesOver ==
    ASSUME NEW s \in Seq(Entry), NEW t \in Seq(Entry), Len(t) > 1
    PROVE  CutAt(s \o t, Len(s) + Len(t), Len(s) + 1, Tail(t)[1].key,
                 Append(s, Head(t)), Tail(t))
<1>1. PICK m \in Nat, n \in Nat : m = Len(s) /\ n = Len(t) - 1 /\ Len(t) = n + 1 /\ n >= 1
  OBVIOUS
<1>2. PICK e, x, y, z : e = s \o t /\ y = Tail(t) /\ z = Head(t) /\ x = Append(s, z)
  OBVIOUS
<1>3. z = t[1] /\ 1 \in 1 .. Len(t) /\ z \in Entry
  BY <1>1, <1>2
<1>4. JoinedAt(Entry, s, t, e)
  BY <1>2, JoinedPlaces
<1>5. /\ e \in Seq(Entry) /\ Len(e) = m + n + 1
      /\ \A i \in 1 .. m : e[i] = s[i]
      /\ \A i \in 1 .. n + 1 : e[m + i] = t[i]
  BY <1>1, <1>4 DEF JoinedAt
<1>6. x \in Seq(Entry) /\ Len(x) = m + 1 /\ x[m + 1] = z /\ \A i \in 1 .. m : x[i] = s[i]
  BY <1>1, <1>2, <1>3
<1>7. Slice(Entry, t, 2, n + 1, y)
  <2>1. 2 \in 1 .. Len(t) + 1 /\ n + 1 \in 2 - 1 .. Len(t) /\ y = SubSeq(t, 2, n + 1)
    BY <1>1, <1>2
  <2> QED BY <2>1, SlicePlaces
<1>8. Slice(Entry, e, 1, m + 1, x)
  <2>1. m + 1 - 1 + 1 = m + 1
    BY <1>1
  <2>2. \A i \in 1 .. m + 1 : x[i] = e[1 + i - 1]
    <3>1. TAKE i \in 1 .. m + 1
    <3>2. 1 + i - 1 = i
      OBVIOUS
    <3>3. CASE i = m + 1
      <4>1. 1 \in 1 .. n + 1
        BY <1>1
      <4> QED BY <1>3, <1>5, <1>6, <3>2, <3>3, <4>1
    <3>4. CASE i # m + 1
      <4>1. i \in 1 .. m
        BY <1>1, <3>4
      <4> QED BY <1>5, <1>6, <3>2, <4>1
    <3> QED BY <3>3, <3>4
  <2> QED BY <1>6, <2>1, <2>2 DEF Slice
<1>9. y \in Seq(Entry) /\ Len(y) = n /\ \A i \in 1 .. n : y[i] = t[1 + i]
  <2>1. n + 1 - 2 + 1 = n /\ \A i \in 1 .. n : 2 + i - 1 = 1 + i
    BY <1>1
  <2> QED BY <1>7, <2>1 DEF Slice
<1>10. Slice(Entry, e, m + 1 + 1, m + n + 1, y)
  <2>1. m + n + 1 - (m + 1 + 1) + 1 = n
    BY <1>1
  <2>2. \A i \in 1 .. n : y[i] = e[m + 1 + 1 + i - 1]
    <3>1. TAKE i \in 1 .. n
    <3>2. PICK j : j = 1 + i
      OBVIOUS
    <3>3. j \in 1 .. n + 1 /\ m + 1 + 1 + i - 1 = m + j
      BY <1>1, <3>2
    <3> QED BY <1>5, <1>9, <3>2, <3>3
  <2> QED BY <1>9, <2>1, <2>2 DEF Slice
<1>11. e[m + 1 + 1].key = y[1].key /\ m + 1 \in 1 .. m + n + 1 - 1 /\ m + n + 1 \in Nat
  <2>1. 1 \in 1 .. n /\ 1 + 1 = 2 /\ 2 \in 1 .. n + 1 /\ m + 1 + 1 = m + 2
    BY <1>1
  <2>2. e[m + 2] = t[2] /\ y[1] = t[2]
    BY <1>5, <1>9, <2>1
  <2> QED BY <1>1, <2>1, <2>2
<1>12. CutAt(e, m + n + 1, m + 1, y[1].key, x, y)
  BY <1>5, <1>8, <1>10, <1>11 DEF CutAt
<1>13. m + n + 1 = Len(s) + Len(t)
  BY <1>1
<1> QED BY <1>1, <1>2, <1>12, <1>13

-----------------------------------------------------------------------------
(* Two neighbours under their parent: the separator lies between them. *)
LEMMA FencePair ==
    ASSUME NEW k, NEW c, NEW a, NEW b, NEW from, NEW upto, Slots(k, c),
           Fence(k, c, a, b, from, upto), NEW m \in 1 .. Len(k)
    PROVE  /\ upto[c[m]] = k[m] /\ from[c[m + 1]] = k[m] /\ k[m] \in Key
           /\ c[m] \in Range(c) /\ c[m + 1] \in Range(c) /\ c[m] # c[m + 1]
<1>1. PICK n \in Nat : n = Len(k)
  BY SlotParts
<1>2. m \in 1 .. n + 1 /\ m + 1 \in 1 .. n + 1 /\ m + 1 - 1 = m /\ m # 0 /\ m # n + 1 /\ m # m + 1
  BY <1>1
<1>3. \A i \in 1 .. n + 1 : from[c[i]] = Edge(k, a, b, i - 1) /\ upto[c[i]] = Edge(k, a, b, i)
  BY <1>1 DEF Fence
<1>4. Edge(k, a, b, m) = k[m]
  BY <1>1, <1>2 DEF Edge
<1>5. upto[c[m]] = k[m] /\ from[c[m + 1]] = k[m]
  <2>1. from[c[m + 1]] = Edge(k, a, b, m + 1 - 1)
    BY <1>2, <1>3
  <2> QED BY <1>2, <1>3, <1>4, <2>1
<1>6. k[m] \in Key /\ c[m] \in Range(c) /\ c[m + 1] \in Range(c) /\ c[m] # c[m + 1]
  BY <1>1, <1>2, SlotParts
<1> QED BY <1>5, <1>6

SharingAt(l, lo, hi, from, upto) ==
    /\ Still(l) /\ Plain(l) /\ from = lo /\ upto = hi /\ l \in Locals
    /\ node \in [Page -> Node]
    /\ Live(node, l) = {p \in Page : node[p].type # "freed"} /\ Top(root, l) = root
    /\ Pages(node, Live(node, l), root, lo, hi, lo, hi)
    /\ l.page \in Live(node, l) /\ l.right \in Live(node, l) /\ l.parent \in Live(node, l)
    /\ l.page # l.right /\ l.parent # l.page /\ l.parent # l.right
    /\ l.page \in Page /\ l.right \in Page /\ l.parent \in Page
    /\ node[l.parent].type = "internal" /\ l.slot \in 1 .. Len(node[l.parent].keys)
    /\ Neighbours(node, l) /\ Slots(node[l.parent].keys, node[l.parent].children)
    /\ Fence(node[l.parent].keys, node[l.parent].children, lo[l.parent], hi[l.parent], lo, hi)
    /\ hi[l.page] = lo[l.right] /\ node[l.parent].keys[l.slot] = hi[l.page]
    /\ Separator(TheWriter) = hi[l.page] /\ hi[l.page] \in Key

LEMMA SharingNow ==
    ASSUME Inv, NEW l, l = run[TheWriter], NEW lo, NEW hi, NEW from, NEW upto,
           Order(node, root, l, lo, hi, from, upto), l.pc = "share"
    PROVE  SharingAt(l, lo, hi, from, upto)
<1>1. Plain(l) /\ Still(l) /\ l \in Locals /\ node \in [Page -> Node]
  BY PlainIsStill, NodesNow DEF Plain
<1>2. from = lo /\ upto = hi
  <2>1. Sight(node, l, lo, hi, from, upto)
    BY DEF Order
  <2> QED BY <1>1, <2>1, PlainSight DEF Still
<1>3. Live(node, l) = {p \in Page : node[p].type # "freed"} /\ Top(root, l) = root
  BY <1>1, StillView
<1>4. Pages(node, Live(node, l), root, lo, hi, lo, hi)
  BY <1>2, <1>3, OrderParts
<1>5. PICK h : Paired(l, h)
  BY SharingParts
<1>6. Neighbours(node, l) /\ Separator(TheWriter) = node[l.parent].keys[l.slot]
  BY <1>5, SeparatorIsKey DEF Paired
<1>7. PICK g, m, k, c : g = l.parent /\ m = l.slot /\ k = node[g].keys /\ c = node[g].children
  OBVIOUS
<1>8. /\ g \in Page /\ node[g].type = "internal" /\ m \in 1 .. Len(k) /\ Slots(k, c)
      /\ c[m] = l.page /\ c[m + 1] = l.right
  BY <1>1, <1>6, <1>7, PairParts
<1>9. g \in Live(node, l)
  BY <1>5, <1>7 DEF Paired
<1>10. Fence(k, c, lo[g], hi[g], lo, hi)
  BY <1>4, <1>7, <1>8, <1>9 DEF Pages, Fenced
<1>11. hi[c[m]] = k[m] /\ lo[c[m + 1]] = k[m] /\ k[m] \in Key
  BY <1>8, <1>10, FencePair
<1> QED BY <1>1, <1>2, <1>3, <1>4, <1>5, <1>6, <1>7, <1>8, <1>9, <1>10, <1>11 DEF SharingAt, Paired

(* The two leaves of the row that share or merge. *)
LEMMA LeavesBeside ==
    ASSUME Inv, NEW l, l = run[TheWriter], NEW lo, NEW hi, NEW from, NEW upto,
           Order(node, root, l, lo, hi, from, upto), l.pc = "share",
           IsLeaf(l.page), IsLeaf(l.right),
           NEW S, S = Leaves(node, Live(node, l)), NEW s, s = node[l.page].entries,
           NEW t, t = node[l.right].entries
    PROVE  /\ l.page \in S /\ l.right \in S /\ Row(node, S, lo, hi) /\ S \subseteq Page
           /\ Shelf(s, lo[l.page], hi[l.page]) /\ Shelf(t, hi[l.page], hi[l.right])
           /\ Shelf(s \o t, lo[l.page], hi[l.right]) /\ Range(s \o t) = Range(s) \cup Range(t)
           /\ lo[l.page] \in Bound /\ hi[l.page] \in Bound /\ hi[l.right] \in Bound
           /\ lo[l.page] < hi[l.page] /\ hi[l.page] < hi[l.right]
<1>1. SharingAt(l, lo, hi, from, upto)
  BY SharingNow
<1>2. l.page \in S /\ l.right \in S /\ Row(node, S, lo, hi) /\ S \subseteq Page
  <2>1. node[l.page].type = "leaf" /\ node[l.right].type = "leaf"
    BY DEF IsLeaf
  <2> QED BY <1>1, <2>1 DEF SharingAt, Leaves, Pages
<1>3. PICK a, b, d : a = lo[l.page] /\ b = hi[l.page] /\ d = hi[l.right]
  OBVIOUS
<1>4. b = lo[l.right]
  BY <1>1, <1>3 DEF SharingAt
<1>5. Shelf(s, a, b) /\ Shelf(t, b, d)
  BY <1>2, <1>3, <1>4 DEF Row
<1>6. a \in Bound /\ b \in Bound /\ d \in Bound /\ a \in Int /\ b \in Int /\ d \in Int
  BY <1>1, <1>3, OrderParts DEF SharingAt
<1>7. a < b /\ b < d
  <2>1. lo[l.page] < hi[l.page] /\ lo[l.right] < hi[l.right]
    BY <1>2, RowParts
  <2> QED BY <1>3, <1>4, <2>1
<1>8. s \in Seq(Entry) /\ t \in Seq(Entry) /\ Arranged(s) /\ Arranged(t)
  BY <1>5 DEF Shelf
<1>9. /\ \A x \in Range(s) : a <= x.key /\ x.key < b /\ x.key \in Int
      /\ \A y \in Range(t) : b <= y.key /\ y.key < d /\ y.key \in Int
  BY <1>5, <1>8, EntryParts DEF Shelf
<1>10. \A x \in Range(s), y \in Range(t) : x.key < y.key
  BY <1>6, <1>9
<1>11. s \o t \in Seq(Entry) /\ Arranged(s \o t) /\ Range(s \o t) = Range(s) \cup Range(t)
  BY <1>8, <1>10, JoinArranged
<1>12. \A x \in Range(s \o t) : a <= x.key /\ x.key < d
  BY <1>6, <1>7, <1>9, <1>11
<1>13. Shelf(s \o t, a, d)
  BY <1>11, <1>12 DEF Shelf
<1> QED BY <1>2, <1>3, <1>5, <1>6, <1>7, <1>11, <1>13

LEMMA SharedCut ==
    ASSUME NEW w, NEW s \in Seq(Entry), NEW t \in Seq(Entry),
           L(w).entries = s, R(w).entries = t, CanShare(w)
    PROVE  \E n, m : CutAt(s \o t, n, m, NewSeparator(w), SharedLeft(w), SharedRight(w))
<1>1. CASE FromLeft(w)
  <2>1. Len(s) > 1
    BY <1>1 DEF CanShare
  <2>2. CutAt(s \o t, Len(s) + Len(t), Len(s) - 1, Last(s).key, Front(s), << Last(s) >> \o t)
    BY <2>1, LastGoesOver
  <2>3. SharedLeft(w) = Front(s) /\ SharedRight(w) = << Last(s) >> \o t
    BY <1>1 DEF SharedLeft, SharedRight
  <2>4. NewSeparator(w) = Last(s).key
    <3>1. Last(s) \in Entry
      <4>1. Len(s) \in 1 .. Len(s)
        BY <2>1
      <4> QED BY <4>1 DEF Last
    <3>2. PICK z \in Entry : z = Last(s)
      BY <3>1
    <3>3. (<< z >> \o t)[1] = z
      OBVIOUS
    <3> QED BY <2>3, <3>2, <3>3 DEF NewSeparator
  <2> QED BY <2>2, <2>3, <2>4
<1>2. CASE ~ FromLeft(w)
  <2>1. Len(t) > 1
    BY <1>2 DEF CanShare
  <2>2. CutAt(s \o t, Len(s) + Len(t), Len(s) + 1, Tail(t)[1].key, Append(s, Head(t)), Tail(t))
    BY <2>1, FirstGoesOver
  <2>3. SharedLeft(w) = Append(s, Head(t)) /\ SharedRight(w) = Tail(t)
    BY <1>2 DEF SharedLeft, SharedRight
  <2> QED BY <2>2, <2>3 DEF NewSeparator
<1> QED BY <1>1, <1>2

-----------------------------------------------------------------------------
(* The leaves share, or one takes in the other. *)
LEMMA ShareLeavesGoes ==
    ASSUME OneWriter, Inv, NeverOverrun', NEW l, l = run[TheWriter],
           NEW lo, NEW hi, NEW from, NEW upto,
           Order(node, root, l, lo, hi, from, upto), ShareLeaves(TheWriter)
    PROVE  Goes(run'[TheWriter])
<1>1. l.pc = "share" /\ IsLeaf(l.page) /\ IsLeaf(l.right) /\ root' = root /\ CanShare(TheWriter)
  BY DEF ShareLeaves, At
<1>2. SharingAt(l, lo, hi, from, upto)
  BY <1>1, SharingNow
<1>3. PICK p, r, g, live, S, s, t : /\ p = l.page /\ r = l.right /\ g = l.parent
                                    /\ live = Live(node, l) /\ S = Leaves(node, live)
                                    /\ s = node[p].entries /\ t = node[r].entries
  OBVIOUS
<1>4. /\ p \in S /\ r \in S /\ Row(node, S, lo, hi) /\ S \subseteq Page
      /\ Shelf(s, lo[p], hi[p]) /\ Shelf(t, hi[p], hi[r])
      /\ Shelf(s \o t, lo[p], hi[r]) /\ Range(s \o t) = Range(s) \cup Range(t)
      /\ lo[p] \in Bound /\ hi[p] \in Bound /\ hi[r] \in Bound
      /\ lo[p] < hi[p] /\ hi[p] < hi[r]
  BY <1>1, <1>3, LeavesBeside
<1>5. /\ Still(l) /\ from = lo /\ upto = hi /\ l \in Locals /\ node \in [Page -> Node]
      /\ live = {z \in Page : node[z].type # "freed"} /\ Top(root, l) = root
      /\ Pages(node, live, root, lo, hi, lo, hi)
      /\ p \in live /\ r \in live /\ g \in live /\ p # r /\ g # p /\ g # r
      /\ p \in Page /\ r \in Page /\ g \in Page /\ node[g].type = "internal"
      /\ Neighbours(node, l) /\ hi[p] = lo[r] /\ node[g].keys[l.slot] = hi[p]
  BY <1>2, <1>3 DEF SharingAt
<1>6. PICK x, y, m : x = SharedLeft(TheWriter) /\ y = SharedRight(TheWriter)
                     /\ m = NewSeparator(TheWriter)
  OBVIOUS
<1>7. HalvesOf(s \o t, lo[p], hi[r], m, x, y)
  <2>1. L(TheWriter).entries = s /\ R(TheWriter).entries = t
    BY <1>3 DEF L, R
  <2>2. s \in Seq(Entry) /\ t \in Seq(Entry)
    BY <1>4 DEF Shelf
  <2>3. PICK i, j : CutAt(s \o t, i, j, m, x, y)
    BY <1>1, <1>6, <2>1, <2>2, SharedCut
  <2> QED BY <1>4, <2>3, ShelfCut
<1>8. /\ Shelf(x, lo[p], m) /\ Shelf(y, m, hi[r]) /\ m \in Key /\ lo[p] < m /\ m < hi[r]
      /\ \A z : z \in Range(s \o t) <=> z \in Range(x) \/ z \in Range(y)
  BY <1>7 DEF HalvesOf
<1>9. PICK l2 : l2 = [l EXCEPT !.pc = "separator", !.sep = m]
  OBVIOUS
<1>10. run'[TheWriter] = l2
  BY <1>6, <1>9, LocalsNow DEF ShareLeaves
<1>11. /\ l2.pc = "separator" /\ l2.sep = m /\ l2.page = p /\ l2.right = r /\ l2.parent = g
       /\ l2.slot = l.slot
  BY <1>3, <1>5, <1>9 DEF Locals
<1>12. Plain(l2) /\ ~ Promoting(l2) /\ ~ Merging(l2) /\ ~ Collapsing(l2) /\ Top(root', l2) = root
  <2>1. Plain(l2)
    BY <1>11 DEF Plain
  <2> QED BY <1>1, <2>1, PlainView
<1>13. PICK n2 : n2 = node'
  OBVIOUS
<1>14. /\ n2[p].type = "leaf" /\ n2[p].entries = x /\ n2[p].next = r
       /\ n2[r].type = "leaf" /\ n2[r].entries = y /\ n2[r].next = node[r].next
       /\ \A z \in Page : z # p /\ z # r => n2[z] = node[z]
  <2>1. PICK old, new, a, b, c : /\ old = Leaf(x, a, b, r) /\ new = Leaf(y, a, c, node[r].next)
                                 /\ node' = [node EXCEPT ![p] = old, ![r] = new]
    <3>1. node' = [node EXCEPT ![p] = Leaf(x, g, @.prev, r), ![r] = Leaf(y, g, p, @.next)]
      BY <1>3, <1>6 DEF ShareLeaves
    <3>2. node' = [node EXCEPT ![p] = Leaf(x, g, node[p].prev, r),
                               ![r] = Leaf(y, g, p, node[r].next)]
      BY <1>5, <3>1
    <3> QED BY <3>2
  <2>2. n2[p] = old /\ n2[r] = new /\ \A z \in Page : z # p /\ z # r => n2[z] = node[z]
    BY <1>5, <1>13, <2>1
  <2>3. old.type # "overrun" /\ new.type # "overrun"
    BY <1>5, <1>13, <2>2 DEF NeverOverrun
  <2>4. old.type = "leaf" /\ old.entries = x /\ old.next = r
    BY <2>1, <2>3 DEF Leaf, Overrun
  <2>5. new.type = "leaf" /\ new.entries = y /\ new.next = node[r].next
    BY <2>1, <2>3 DEF Leaf, Overrun
  <2> QED BY <2>2, <2>4, <2>5
<1>15. node[p].type = "leaf" /\ node[r].type = "leaf" /\ live \subseteq Page
  BY <1>3, <1>4, <1>5 DEF Leaves
<1>16. \A z \in Page : n2[z].type = node[z].type
  BY <1>14, <1>15
<1>17. Live(n2, l2) = live /\ Leaves(n2, live) = S
  <2>1. Live(n2, l2) = {z \in Page : n2[z].type # "freed"}
    BY <1>12 DEF Live
  <2>2. Live(n2, l2) = live
    BY <1>5, <1>16, <2>1
  <2> QED BY <1>3, <1>15, <1>16, <2>2 DEF Leaves
<1>18. PICK lo2, hi2 : lo2 = [lo EXCEPT ![r] = m] /\ hi2 = [hi EXCEPT ![p] = m]
  OBVIOUS
<1>19. lo \in [Page -> Bound] /\ hi \in [Page -> Bound] /\ m \in Bound /\ m \in Int
  BY <1>5, <1>8, BoundParts DEF Pages
<1>20. /\ lo2 \in [Page -> Bound] /\ hi2 \in [Page -> Bound]
       /\ lo2[r] = m /\ hi2[p] = m /\ hi2[r] = hi[r] /\ lo2[p] = lo[p]
       /\ \A z \in Page : /\ z # r => lo2[z] = lo[z]
                          /\ z # p => hi2[z] = hi[z]
  BY <1>5, <1>18, <1>19
<1>21. lo = [lo2 EXCEPT ![r] = hi[p]] /\ hi = [hi2 EXCEPT ![p] = hi[p]]
  <2>1. lo = [lo2 EXCEPT ![r] = lo[r]]
    BY <1>5, <1>18, <1>19
  <2>2. hi = [hi2 EXCEPT ![p] = hi[p]]
    BY <1>5, <1>18, <1>19
  <2> QED BY <1>5, <2>1, <2>2
<1>22. Row(n2, S, lo2, hi2)
  <2>1. \A z \in S : z # p /\ z # r => SameLeaf(node[z], n2[z])
    BY <1>4, <1>14 DEF SameLeaf
  <2>2. Shelf(n2[p].entries, lo[p], m) /\ Shelf(n2[r].entries, m, hi[r])
    BY <1>8, <1>14
  <2> QED BY <1>4, <1>5, <1>8, <1>14, <1>18, <1>19, <2>1, <2>2, RowShared
<1>23. Pages(n2, live, root, lo2, hi2, lo, hi)
  <2>1. Fenced(n2, live, lo2, hi2, lo, hi)
    <3>1. SUFFICES ASSUME NEW z \in live, n2[z].type = "internal"
                   PROVE  Fence(n2[z].keys, n2[z].children, lo2[z], hi2[z], lo, hi)
      BY DEF Fenced
    <3>2. z # p /\ z # r /\ z \in Page
      BY <1>14, <1>15, <3>1
    <3>3. n2[z] = node[z] /\ lo2[z] = lo[z] /\ hi2[z] = hi[z]
      BY <1>14, <1>20, <3>2
    <3> QED BY <1>5, <3>1, <3>3 DEF Pages, Fenced
  <2>2. \A z \in live : lo2[z] < hi2[z]
    <3>1. TAKE z \in live
    <3>2. CASE z = p
      BY <1>8, <1>20, <3>2
    <3>3. CASE z = r
      BY <1>8, <1>20, <3>3
    <3>4. CASE z # p /\ z # r
      <4>1. lo[z] < hi[z] /\ z \in Page
        BY <1>5 DEF Pages
      <4> QED BY <1>20, <3>4, <4>1
    <3> QED BY <3>2, <3>3, <3>4
  <2>3. root \in live /\ lo[root] = 0 /\ hi[root] = MaxKey + 1
    BY <1>5 DEF Pages
  <2> QED BY <1>15, <1>17, <1>19, <1>20, <1>22, <2>1, <2>2, <2>3 DEF Pages
<1>24. Shifted(n2, l2, lo2, hi2, lo, hi)
  <2>1. n2[g] = node[g]
    BY <1>5, <1>14
  <2>2. Neighbours(n2, l2)
    <3>1. /\ Neighbours(node, l) /\ Live(n2, l2) = Live(node, l)
          /\ l2.page = l.page /\ l2.right = l.right /\ l2.parent = l.parent /\ l2.slot = l.slot
          /\ n2[l.parent].type = node[l.parent].type
          /\ n2[l.parent].keys = node[l.parent].keys
          /\ n2[l.parent].children = node[l.parent].children
      BY <1>3, <1>5, <1>11, <1>17, <2>1
    <3> QED BY <3>1, NeighboursKept
  <2>3. n2[l2.parent].keys[l2.slot] = hi[p]
    BY <1>5, <1>11, <2>1
  <2>4. n2[l2.page].type = "leaf" /\ n2[l2.right].type = "leaf"
    BY <1>11, <1>14
  <2>5. /\ lo2[l2.right] = l2.sep /\ hi2[l2.page] = l2.sep
        /\ lo = [lo2 EXCEPT ![l2.right] = n2[l2.parent].keys[l2.slot]]
        /\ hi = [hi2 EXCEPT ![l2.page] = n2[l2.parent].keys[l2.slot]]
    BY <1>11, <1>20, <1>21, <2>3
  <2> QED BY <2>2, <2>4, <2>5 DEF Shifted
<1>25. Order(n2, root', l2, lo2, hi2, lo, hi)
  <2>1. Sight(n2, l2, lo2, hi2, lo, hi)
    BY <1>11, <1>12, <1>24 DEF Sight
  <2>2. Seek(n2, l2, lo2, hi2) /\ Emptied(n2, l2)
    BY <1>11, <1>12, PlainEmptied DEF Seek
  <2> QED BY <1>12, <1>17, <1>23, <2>1, <2>2 DEF Order
<1>26. ASSUME NEW z
       PROVE  z \in Stock(n2, S) <=> z \in Stock(node, S)
  <2>1. \A c \in S : c # p /\ c # r => n2[c].entries = node[c].entries
    BY <1>4, <1>14
  <2>2. z \in Range(n2[p].entries) \/ z \in Range(n2[r].entries)
           <=> z \in Range(node[p].entries) \/ z \in Range(node[r].entries)
    BY <1>3, <1>4, <1>8, <1>14
  <2>3. z \in Stock(n2, S) <=> \E c \in S : z \in Range(n2[c].entries)
    BY DEF Stock
  <2>4. z \in Stock(node, S) <=> \E c \in S : z \in Range(node[c].entries)
    BY DEF Stock
  <2> QED BY <1>4, <2>1, <2>2, <2>3, <2>4
<1>27. Book(n2, l2) = Book(node, l)
  BY <1>3, <1>17, <1>26 DEF Book
<1> QED BY <1>10, <1>13, <1>25, <1>27 DEF Goes, InOrder

LEMMA MergeLeavesGoes ==
    ASSUME OneWriter, Inv, NeverOverrun', NEW l, l = run[TheWriter],
           NEW lo, NEW hi, NEW from, NEW upto,
           Order(node, root, l, lo, hi, from, upto), MergeLeaves(TheWriter)
    PROVE  Goes(run'[TheWriter])
<1>1. l.pc = "share" /\ IsLeaf(l.page) /\ IsLeaf(l.right) /\ root' = root
  BY DEF MergeLeaves, At
<1>2. SharingAt(l, lo, hi, from, upto)
  BY <1>1, SharingNow
<1>3. PICK p, r, g, live, S, s, t : /\ p = l.page /\ r = l.right /\ g = l.parent
                                    /\ live = Live(node, l) /\ S = Leaves(node, live)
                                    /\ s = node[p].entries /\ t = node[r].entries
  OBVIOUS
<1>4. /\ p \in S /\ r \in S /\ Row(node, S, lo, hi) /\ S \subseteq Page
      /\ Shelf(s \o t, lo[p], hi[r]) /\ Range(s \o t) = Range(s) \cup Range(t)
      /\ lo[p] \in Bound /\ hi[p] \in Bound /\ hi[r] \in Bound
      /\ lo[p] < hi[p] /\ hi[p] < hi[r]
  BY <1>1, <1>3, LeavesBeside
<1>5. /\ Still(l) /\ from = lo /\ upto = hi /\ l \in Locals /\ node \in [Page -> Node]
      /\ live = {z \in Page : node[z].type # "freed"} /\ Top(root, l) = root
      /\ Pages(node, live, root, lo, hi, lo, hi)
      /\ p \in live /\ r \in live /\ g \in live /\ p # r /\ g # p /\ g # r
      /\ p \in Page /\ r \in Page /\ g \in Page
      /\ hi[p] = lo[r]
  BY <1>2, <1>3 DEF SharingAt
<1>6. PICK l2 : l2 = [l EXCEPT !.pc = "next", !.then = "free", !.next = node[r].next]
  OBVIOUS
<1>7. run'[TheWriter] = l2
  BY <1>3, <1>6, LocalsNow DEF MergeLeaves, R
<1>8. l2.pc = "next" /\ l2.then = "free" /\ l2.page = p /\ l2.right = r /\ l2.parent = g
  BY <1>3, <1>5, <1>6 DEF Locals
<1>9. ~ Promoting(l2) /\ Merging(l2) /\ ~ Collapsing(l2) /\ ~ NewTop(l2)
  BY <1>8 DEF Promoting, Splitting, Merging, Collapsing, NewTop
<1>10. PICK n2 : n2 = node'
  OBVIOUS
<1>11. /\ n2[p].type = "leaf" /\ n2[p].entries = s \o t /\ n2[p].next = node[r].next
       /\ \A z \in Page : z # p => n2[z] = node[z]
  <2>1. PICK old, a, b : /\ old = Leaf(s \o t, a, b, node[r].next)
                         /\ node' = [node EXCEPT ![p] = old]
    <3>1. Merged(TheWriter) = s \o t /\ R(TheWriter).next = node[r].next
      BY <1>3 DEF Merged, L, R
    <3>2. node' = [node EXCEPT ![p] = Leaf(s \o t, g, @.prev, node[r].next)]
      BY <1>3, <3>1 DEF MergeLeaves
    <3>3. node' = [node EXCEPT ![p] = Leaf(s \o t, g, node[p].prev, node[r].next)]
      BY <1>5, <3>2
    <3> QED BY <3>3
  <2>2. n2[p] = old /\ \A z \in Page : z # p => n2[z] = node[z]
    BY <1>5, <1>10, <2>1
  <2>3. old.type # "overrun"
    BY <1>5, <1>10, <2>2 DEF NeverOverrun
  <2>4. old.type = "leaf" /\ old.entries = s \o t /\ old.next = node[r].next
    BY <2>1, <2>3 DEF Leaf, Overrun
  <2> QED BY <2>2, <2>4
<1>12. node[p].type = "leaf" /\ node[r].type = "leaf" /\ live \subseteq Page
  BY <1>3, <1>4, <1>5 DEF Leaves
<1>13. \A z \in Page : n2[z].type = node[z].type
  BY <1>11, <1>12
<1>14. PICK live2, S2 : live2 = live \ {r} /\ S2 = S \ {r}
  OBVIOUS
<1>15. Live(n2, l2) = live2 /\ Leaves(n2, live2) = S2 /\ Top(root', l2) = root
  <2>1. Live(n2, l2) = {z \in Page : n2[z].type # "freed" /\ z # r}
    BY <1>8, <1>9 DEF Live
  <2>2. Live(n2, l2) = live2
    BY <1>5, <1>13, <1>14, <2>1
  <2>3. Leaves(n2, live2) = S2
    BY <1>3, <1>12, <1>13, <1>14 DEF Leaves
  <2> QED BY <1>1, <1>9, <2>2, <2>3 DEF Top
<1>16. PICK hi2 : hi2 = [hi EXCEPT ![p] = hi[r]]
  OBVIOUS
<1>17. lo \in [Page -> Bound] /\ hi \in [Page -> Bound]
  BY <1>5 DEF Pages
<1>18. /\ hi2 \in [Page -> Bound] /\ hi2[r] = hi[r] /\ hi2[p] = hi[r]
       /\ \A z \in Page : z # p => hi2[z] = hi[z]
  BY <1>4, <1>5, <1>16, <1>17
<1>19. hi = [hi2 EXCEPT ![p] = lo[r]]
  BY <1>5, <1>16, <1>17
<1>20. Row(n2, S2, lo, hi2)
  <2>1. \A z \in S : z # p /\ z # r => SameLeaf(node[z], n2[z])
    BY <1>4, <1>11 DEF SameLeaf
  <2>2. Shelf(n2[p].entries, lo[p], hi[r])
    BY <1>4, <1>11
  <2> QED BY <1>4, <1>5, <1>11, <1>14, <1>16, <2>1, <2>2, RowMerged
<1>21. Pages(n2, live2, root, lo, hi2, lo, hi)
  <2>1. Fenced(n2, live2, lo, hi2, lo, hi)
    <3>1. SUFFICES ASSUME NEW z \in live2, n2[z].type = "internal"
                   PROVE  Fence(n2[z].keys, n2[z].children, lo[z], hi2[z], lo, hi)
      BY DEF Fenced
    <3>2. z # p /\ z \in live /\ z \in Page
      BY <1>11, <1>12, <1>14, <3>1
    <3>3. n2[z] = node[z] /\ hi2[z] = hi[z]
      BY <1>11, <1>18, <3>2
    <3> QED BY <1>5, <3>1, <3>2, <3>3 DEF Pages, Fenced
  <2>2. \A z \in live2 : lo[z] < hi2[z]
    <3>1. TAKE z \in live2
    <3>2. lo[z] < hi[z] /\ z \in Page
      BY <1>5, <1>14 DEF Pages
    <3>3. CASE z = p
      <4>1. lo[p] \in Int /\ hi[p] \in Int /\ hi[r] \in Int
        BY <1>4, RowParts
      <4> QED BY <1>4, <1>18, <3>3, <4>1
    <3>4. CASE z # p
      BY <1>18, <3>2, <3>4
    <3> QED BY <3>3, <3>4
  <2>3. root \in live /\ lo[root] = 0 /\ hi[root] = MaxKey + 1
    BY <1>5 DEF Pages
  <2>4. root # r
    <3>1. 0 <= lo[p] /\ lo[p] \in Int /\ hi[p] \in Int
      BY <1>4, <1>5, RowParts
    <3>2. lo[r] # 0
      BY <1>4, <1>5, <3>1
    <3> QED BY <2>3, <3>2
  <2> QED BY <1>12, <1>14, <1>15, <1>17, <1>18, <1>20, <2>1, <2>2, <2>3, <2>4 DEF Pages
<1>22. Order(n2, root', l2, lo, hi2, lo, hi)
  <2>1. Sight(n2, l2, lo, hi2, lo, hi)
    BY <1>8, <1>9, <1>18, <1>19 DEF Sight
  <2>2. Seek(n2, l2, lo, hi2)
    BY <1>8 DEF Seek
  <2>3. Emptied(n2, l2)
    BY <1>5, <1>8, <1>9, <1>11 DEF Emptied
  <2> QED BY <1>15, <1>21, <2>1, <2>2, <2>3 DEF Order
<1>23. ASSUME NEW z
       PROVE  z \in Stock(n2, S2) <=> z \in Stock(node, S)
  <2>1. \A c \in S : c # p => n2[c].entries = node[c].entries
    BY <1>4, <1>11
  <2>2. z \in Range(n2[p].entries)
           <=> z \in Range(node[p].entries) \/ z \in Range(node[r].entries)
    BY <1>3, <1>4, <1>11
  <2>3. z \in Stock(n2, S2) <=> \E c \in S2 : z \in Range(n2[c].entries)
    BY DEF Stock
  <2>4. z \in Stock(node, S) <=> \E c \in S : z \in Range(node[c].entries)
    BY DEF Stock
  <2>5. p \in S2 /\ \A c : c \in S2 <=> c \in S /\ c # r
    BY <1>4, <1>5, <1>14
  <2> QED BY <1>4, <2>1, <2>2, <2>3, <2>4, <2>5
<1>24. Book(n2, l2) = Book(node, l)
  BY <1>3, <1>15, <1>23 DEF Book
<1> QED BY <1>7, <1>10, <1>22, <1>24 DEF Goes, InOrder

-----------------------------------------------------------------------------
(* Who has which child. *)
LEMMA ChildrenApart ==
    ASSUME Inv, NEW l, l = run[TheWriter], l.pc # "failed", ~ Merging(l),
           NEW live, live = Live(node, l)
    PROVE  /\ live \subseteq Page /\ Top(root, l) \in live
           /\ \A p \in live : node[p].type = "internal" =>
                 /\ Range(node[p].children) \subseteq live
                 /\ Top(root, l) \notin Range(node[p].children)
                 /\ Promoting(l) => l.right \notin Range(node[p].children)
           /\ \A p \in live, q \in live : \A c :
                 /\ node[p].type = "internal" /\ node[q].type = "internal"
                 /\ c \in Range(node[p].children) /\ c \in Range(node[q].children)
                 => p = q
<1>1. PICK h : TreeOf(node, root, l, h)
  BY AtWork
<1>2. PICK kids : kids = Kids(node, l)
  OBVIOUS
<1>3. Linked(live, kids, Top(root, l), Loose(l))
  BY <1>1, <1>2 DEF TreeOf, Tree
<1>4. \A p \in live : p \in Page /\ (node[p].type = "internal" => kids[p] = Range(node[p].children))
  BY <1>2, <1>3 DEF Linked, Kids
<1>5. Promoting(l) => l.right \in Loose(l)
  BY DEF Loose
<1>6. \A p \in live : kids[p] \subseteq live /\ Top(root, l) \notin kids[p] /\ kids[p] \cap Loose(l) = {}
  BY <1>3 DEF Linked
<1>7. \A p \in live : node[p].type = "internal" =>
         /\ Range(node[p].children) \subseteq live
         /\ Top(root, l) \notin Range(node[p].children)
         /\ Promoting(l) => l.right \notin Range(node[p].children)
  BY <1>4, <1>5, <1>6
<1>8. \A p, q \in live : \A c : c \in kids[p] /\ c \in kids[q] => p = q
  BY <1>3 DEF Linked
<1>9. live \subseteq Page /\ Top(root, l) \in live
  BY <1>3 DEF Linked
<1> QED BY <1>4, <1>7, <1>8, <1>9

(* The new root. *)
LEMMA OneKeyFence ==
    ASSUME NEW s \in Key, NEW p, NEW r, NEW a \in Bound, NEW b \in Bound, a < s, s < b,
           NEW from, NEW upto, from[p] = a, upto[p] = s, from[r] = s, upto[r] = b
    PROVE  Fence(<< s >>, << p, r >>, a, b, from, upto)
<1>1. PICK k, c : k = << s >> /\ c = << p, r >>
  OBVIOUS
<1>2. Len(k) = 1 /\ k[1] = s /\ c[1] = p /\ c[2] = r
  BY <1>1
<1>3. Edge(k, a, b, 0) = a /\ Edge(k, a, b, 1) = s /\ Edge(k, a, b, 2) = b
  BY <1>2 DEF Edge
<1>4. \A i \in 1 .. 2 : from[c[i]] = Edge(k, a, b, i - 1) /\ upto[c[i]] = Edge(k, a, b, i)
  <2>1. TAKE i \in 1 .. 2
  <2>2. CASE i = 1
    <3>1. i - 1 = 0
      BY <2>2
    <3> QED BY <1>2, <1>3, <2>2, <3>1
  <2>3. CASE i = 2
    <3>1. i - 1 = 1
      BY <2>3
    <3> QED BY <1>2, <1>3, <2>3, <3>1
  <2> QED BY <2>2, <2>3
<1>5. \A i, j \in 0 .. 2 : i < j => Edge(k, a, b, i) < Edge(k, a, b, j)
  <2>1. a \in Int /\ b \in Int /\ s \in Int /\ a < b
    BY BoundParts
  <2>2. TAKE i, j \in 0 .. 2
  <2>3. HAVE i < j
  <2>4. (i = 0 /\ j = 1) \/ (i = 0 /\ j = 2) \/ (i = 1 /\ j = 2)
    BY <2>3
  <2> QED BY <1>3, <2>1, <2>4
<1>6. Len(k) + 1 = 2
  BY <1>2
<1> QED BY <1>1, <1>4, <1>5, <1>6 DEF Fence

LEMMA GrowRootGoes ==
    ASSUME OneWriter, Inv, NeverOverrun', NEW l, l = run[TheWriter],
           NEW lo, NEW hi, NEW from, NEW upto,
           Order(node, root, l, lo, hi, from, upto), GrowRoot(TheWriter)
    PROVE  Goes(run'[TheWriter])
<1>1. /\ l.pc = "promote" /\ root' = root /\ FreePages # {}
      /\ l.page = root \/ node[l.page].parent = 0
  BY DEF GrowRoot, At, IsRoot
<1>2. /\ Splitting(l) /\ Promoting(l) /\ ~ Merging(l) /\ ~ Collapsing(l) /\ ~ NewTop(l)
  BY <1>1 DEF Promoting, Splitting, Merging, Collapsing, NewTop
<1>3. PICK p, r, s, live : p = l.page /\ r = l.right /\ s = l.sep /\ live = Live(node, l)
  OBVIOUS
<1>4. l \in Locals /\ node \in [Page -> Node] /\ s \in Key
  BY <1>1, <1>2, <1>3, AtWork DEF Asked
<1>5. from = lo /\ Splits(node, l, lo, hi, upto, p) /\ p \in live
  BY <1>1, <1>2, <1>3 DEF Order, Sight, Splits
<1>6. p # r /\ r \in Page /\ lo[r] = s /\ hi[p] = s /\ upto = [hi EXCEPT ![p] = hi[r]]
  BY <1>3, <1>5 DEF Splits
<1>7. live = {z \in Page : node[z].type # "freed"} /\ Top(root, l) = root
  BY <1>2, <1>3 DEF Live, Top
<1>8. PICK h : TreeOf(node, root, l, h)
  BY <1>1, AtWork
<1>9. p = root /\ r \in live
  <2>1. Loose(l) = {r} /\ Due(l) = {}
    BY <1>1, <1>2, <1>3 DEF Loose, Due
  <2>2. Tree(live, Kids(node, l), root, {r}, {}, Parents(node), h)
    BY <1>3, <1>7, <1>8, <2>1 DEF TreeOf
  <2>3. r \in live
    BY <2>2 DEF Tree, Linked
  <2>4. ASSUME p # root
        PROVE  FALSE
    <3>1. Parents(node)[p] # 0
      BY <1>5, <1>6, <2>2, <2>4, ParentIsLive
    <3>2. Parents(node)[p] = 0
      BY <1>1, <1>3, <1>5, <1>7, <2>4 DEF Parents
    <3> QED BY <3>1, <3>2
  <2> QED BY <2>3, <2>4
<1>10. PICK q : q = NewPage
  OBVIOUS
<1>11. q \in Page /\ node[q].type = "freed" /\ q \notin live /\ q # p /\ q # r
  <2>1. q \in Page /\ node[q].type = "freed"
    BY <1>1, <1>10, NewPageIsFree
  <2> QED BY <1>5, <1>7, <1>9, <2>1
<1>12. PICK a : a = << << p, q >>, << r, q >> >>
  OBVIOUS
<1>13. PICK l2 : l2 = [l EXCEPT !.pc = "adopt", !.then = "root", !.right = q, !.adopt = a]
  OBVIOUS
<1>14. run'[TheWriter] = l2
  BY <1>3, <1>10, <1>12, <1>13, LocalsNow DEF GrowRoot
<1>15. l2.pc = "adopt" /\ l2.then = "root" /\ l2.right = q
  BY <1>4, <1>13 DEF Locals
<1>16. ~ Promoting(l2) /\ ~ Merging(l2) /\ ~ Collapsing(l2) /\ NewTop(l2)
  BY <1>15 DEF Promoting, Splitting, Merging, Collapsing, NewTop
<1>17. PICK n2 : n2 = node'
  OBVIOUS
<1>18. /\ n2[q].type = "internal" /\ n2[q].keys = << s >> /\ n2[q].children = << p, r >>
       /\ \A z \in Page : z # q => n2[z] = node[z]
  <2>1. PICK x : x = Internal(<< s >>, << p, r >>, 0)
    OBVIOUS
  <2>2. node' = [node EXCEPT ![q] = x]
    BY <1>3, <1>10, <2>1 DEF GrowRoot
  <2>3. n2[q] = x /\ \A z \in Page : z # q => n2[z] = node[z]
    BY <1>4, <1>11, <1>17, <2>2
  <2>4. x.type # "overrun"
    BY <1>11, <1>17, <2>3 DEF NeverOverrun
  <2>5. x.type = "internal" /\ x.keys = << s >> /\ x.children = << p, r >>
    BY <2>1, <2>4 DEF Internal, Overrun
  <2> QED BY <2>3, <2>5
<1>19. PICK live2 : live2 = live \cup {q}
  OBVIOUS
<1>20. Live(n2, l2) = live2 /\ Top(root', l2) = q
  <2>1. Live(n2, l2) = {z \in Page : n2[z].type # "freed"}
    BY <1>16 DEF Live
  <2>2. \A z \in Page : n2[z].type # "freed" <=> z \in live2
    BY <1>7, <1>11, <1>18, <1>19
  <2>3. live2 \subseteq Page
    BY <1>7, <1>11, <1>19
  <2> QED BY <1>15, <1>16, <2>1, <2>2, <2>3 DEF Top
<1>21. PICK lo2, hi2 : lo2 = [lo EXCEPT ![q] = 0] /\ hi2 = [hi EXCEPT ![q] = MaxKey + 1]
  OBVIOUS
<1>22. Pages(node, live, root, lo, hi, lo, upto)
  BY <1>3, <1>5, <1>7, OrderParts
<1>23. lo \in [Page -> Bound] /\ hi \in [Page -> Bound] /\ live \subseteq Page
  BY <1>22 DEF Pages
<1>24. /\ lo2 \in [Page -> Bound] /\ hi2 \in [Page -> Bound]
       /\ lo2[q] = 0 /\ hi2[q] = MaxKey + 1
       /\ \A z \in Page : z # q => lo2[z] = lo[z] /\ hi2[z] = hi[z]
  BY <1>11, <1>21, <1>23, BoundParts
<1>25. lo[p] = 0 /\ hi[r] = MaxKey + 1
  <2>1. lo[p] = 0 /\ upto[p] = MaxKey + 1
    BY <1>9, <1>22 DEF Pages
  <2>2. upto[p] = hi[r]
    BY <1>5, <1>6, <1>23
  <2> QED BY <2>1, <2>2
<1>26. Fenced(n2, live2, lo2, hi2, lo2, hi2)
  <2>1. SUFFICES ASSUME NEW z \in live2, n2[z].type = "internal"
                 PROVE  Fence(n2[z].keys, n2[z].children, lo2[z], hi2[z], lo2, hi2)
    BY DEF Fenced
  <2>2. CASE z = q
    <3>1. p \in Page /\ lo2[p] = 0 /\ hi2[p] = s /\ lo2[r] = s /\ hi2[r] = MaxKey + 1
      BY <1>5, <1>6, <1>11, <1>23, <1>24, <1>25
    <3>2. 0 \in Bound /\ MaxKey + 1 \in Bound /\ 0 < s /\ s < MaxKey + 1
      BY <1>4, BoundParts
    <3>3. Fence(<< s >>, << p, r >>, 0, MaxKey + 1, lo2, hi2)
      BY <1>4, <3>1, <3>2, OneKeyFence
    <3> QED BY <1>18, <1>24, <2>2, <3>3
  <2>3. CASE z # q
    <3>1. z \in live /\ z \in Page /\ n2[z] = node[z]
      BY <1>18, <1>19, <1>23, <2>3
    <3>2. Fence(node[z].keys, node[z].children, lo[z], hi[z], lo, upto)
      BY <1>22, <2>1, <3>1 DEF Pages, Fenced
    <3>3. Slots(node[z].keys, node[z].children)
      BY <1>4, <2>1, <3>1, NodeSlots DEF Shaped
    <3>4. Range(node[z].children) \subseteq live /\ p \notin Range(node[z].children)
      <4>1. /\ \A g \in live : node[g].type = "internal" =>
                  Range(node[g].children) \subseteq live /\ Top(root, l) \notin Range(node[g].children)
        <5>1. PICK d : d = Live(node, l)
          OBVIOUS
        <5>2. d = live
          BY <1>3, <5>1
        <5>3. l.pc # "failed" /\ ~ Merging(l)
          BY <1>2, <1>3 DEF Merging, At, GrowRoot
        <5>4. /\ \A g \in d : node[g].type = "internal" =>
                    Range(node[g].children) \subseteq d /\ Top(root, l) \notin Range(node[g].children)
          BY <1>1, <1>2, <5>1, <5>3, ChildrenApart
        <5> QED BY <5>2, <5>4
      <4>2. node[z].type = "internal"
        BY <2>1, <3>1
      <4> QED BY <1>7, <1>9, <3>1, <4>1, <4>2
    <3>5. \A c \in Range(node[z].children) : lo2[c] = lo[c] /\ hi2[c] = upto[c]
      <4>1. TAKE c \in Range(node[z].children)
      <4>2. c \in Page /\ c # q /\ c # p
        BY <1>11, <1>23, <3>4
      <4>3. upto[c] = hi[c]
        BY <1>6, <1>23, <4>2
      <4> QED BY <1>24, <4>2, <4>3
    <3>6. lo2[z] = lo[z] /\ hi2[z] = hi[z]
      BY <1>24, <2>3, <3>1
    <3> QED BY <3>1, <3>2, <3>3, <3>5, <3>6, FenceKept
  <2> QED BY <2>2, <2>3
<1>27. Leaves(n2, live2) = Leaves(node, live)
  BY <1>11, <1>18, <1>19, <1>23 DEF Leaves
<1>28. \A z \in Leaves(node, live) :
          SameLeaf(node[z], n2[z]) /\ lo2[z] = lo[z] /\ hi2[z] = hi[z]
  BY <1>11, <1>18, <1>23, <1>24 DEF Leaves, SameLeaf
<1>29. \A z \in live2 : lo2[z] < hi2[z]
  <2>1. 0 < MaxKey + 1
    BY BoundParts
  <2>2. \A z \in live : lo[z] < hi[z]
    BY <1>22 DEF Pages
  <2> QED BY <1>11, <1>19, <1>23, <1>24, <2>1, <2>2
<1>30. /\ Pages(n2, live2, q, lo2, hi2, lo2, hi2)
       /\ Stock(n2, Leaves(n2, live2)) = Stock(node, Leaves(node, live))
  <2>1. live2 \subseteq Page /\ q \in live2
    BY <1>11, <1>19, <1>23
  <2> QED BY <1>22, <1>24, <1>26, <1>27, <1>28, <1>29, <2>1, UpperChange
<1>31. Order(n2, root', l2, lo2, hi2, lo2, hi2)
  <2>1. Sight(n2, l2, lo2, hi2, lo2, hi2)
    BY <1>15, <1>16 DEF Sight
  <2>2. Seek(n2, l2, lo2, hi2) /\ Emptied(n2, l2)
    BY <1>15, <1>16, PlainEmptied DEF Seek
  <2> QED BY <1>20, <1>30, <2>1, <2>2 DEF Order
<1>32. Book(n2, l2) = Book(node, l)
  BY <1>3, <1>20, <1>30 DEF Book
<1> QED BY <1>14, <1>17, <1>31, <1>32 DEF Goes, InOrder
(* insert_into_parent: the node above the one that was split gets to know. *)
Placed(l, lo, hi, upto, left, k2, c2) ==
    /\ l \in Locals /\ node \in [Page -> Node]
    /\ l.page \in Page /\ l.page \in Live(node, l) /\ l.right \in Page /\ l.right \in Live(node, l)
    /\ l.sep \in Key
    /\ Live(node, l) = {p \in Page : node[p].type # "freed"} /\ Top(root, l) = root
    /\ Pages(node, Live(node, l), root, lo, hi, lo, upto)
    /\ left \in Live(node, l) /\ left \in Page /\ left # root /\ left # l.right
    /\ hi[left] = l.sep /\ lo[l.right] = l.sep /\ upto = [hi EXCEPT ![left] = hi[l.right]]
    /\ Slots(k2, c2) /\ Len(k2) = Len(node[l.page].keys) + 1
    /\ Range(c2) = Range(node[l.page].children) \cup {l.right}
    /\ Fence(k2, c2, lo[l.page], hi[l.page], lo, hi)
    /\ \A z \in Live(node, l) : z # l.page /\ node[z].type = "internal" =>
          Fence(node[z].keys, node[z].children, lo[z], hi[z], lo, hi)
    /\ lo[root] = 0 /\ hi[root] = MaxKey + 1

LEMMA PlacedNow ==
    ASSUME Inv, NEW l, l = run[TheWriter], NEW lo, NEW hi, NEW from, NEW upto,
           Order(node, root, l, lo, hi, from, upto), l.pc = "parent",
           l.page \in Page, node[l.page].type = "internal"
    PROVE  from = lo /\ \E left : Placed(l, lo, hi, upto, left, NewKeys(TheWriter), NewChildren(TheWriter))
<1>1. Promoting(l) /\ ~ Splitting(l) /\ ~ Merging(l) /\ ~ Collapsing(l) /\ ~ NewTop(l)
  BY DEF Promoting, Splitting, Merging, Collapsing, NewTop
<1>2. PICK g, r, s, live : g = l.page /\ r = l.right /\ s = l.sep /\ live = Live(node, l)
  OBVIOUS
<1>3. l \in Locals /\ node \in [Page -> Node] /\ Shaped(node)
  BY AtWork
<1>4. from = lo /\ \E left \in live : Splits(node, l, lo, hi, upto, left)
  BY <1>1, <1>2 DEF Order, Sight
<1>5. PICK left \in live : Splits(node, l, lo, hi, upto, left)
  BY <1>4
<1>6. PICK h : TreeOf(node, root, l, h) /\ Local(node, l, h)
  BY AtWork
<1>7. /\ live = {p \in Page : node[p].type # "freed"}
      /\ g \in live /\ r \in live /\ g # r /\ r \in Page /\ s \in Key /\ g \in Page
      /\ r \notin Range(node[g].children)
  BY <1>2, <1>3, <1>6, PromotingParts
<1>8. Top(root, l) = root
  BY <1>1 DEF Top
<1>9. Pages(node, live, root, lo, hi, lo, upto)
  BY <1>2, <1>4, <1>8, OrderParts
<1>10. /\ lo \in [Page -> Bound] /\ hi \in [Page -> Bound] /\ live \subseteq Page
       /\ \A z \in live : lo[z] < hi[z]
  BY <1>9 DEF Pages
<1>11. /\ left # r /\ left \in Range(node[g].children) /\ left \in Page
       /\ lo[r] = s /\ hi[left] = s /\ upto = [hi EXCEPT ![left] = hi[r]]
  BY <1>2, <1>5, <1>10 DEF Splits
<1>12. upto[left] = hi[r] /\ \A z \in Page : z # left => upto[z] = hi[z]
  BY <1>10, <1>11
<1>13. PICK k, c : k = node[g].keys /\ c = node[g].children
  OBVIOUS
<1>14. Slots(k, c)
  BY <1>2, <1>3, <1>13, NodeSlots
<1>15. Fence(k, c, lo[g], hi[g], lo, upto)
  BY <1>2, <1>7, <1>9, <1>13 DEF Pages, Fenced
<1>16. PICK m \in 1 .. Len(k) + 1 : c[m] = left
  BY <1>11, <1>13, <1>14, SlotParts
<1>17. lo[c[m]] < s /\ s < upto[c[m]]
  <2>1. lo[left] < hi[left] /\ lo[r] < hi[r]
    BY <1>7, <1>10
  <2> QED BY <1>11, <1>12, <1>16, <2>1
<1>18. lo[g] \in Bound /\ hi[g] \in Bound
  BY <1>7, <1>10
<1>19. Cardinality({i \in DOMAIN k : k[i] < s}) = m - 1
  BY <1>7, <1>14, <1>15, <1>16, <1>17, <1>18, PlaceOfKey
<1>20. PICK n \in Nat : n = Len(k)
  BY <1>14, SlotParts
<1>21. m - 1 + 1 = m /\ m - 1 + 2 = m + 1 /\ m \in 1 .. n + 1 /\ m + 1 \in 1 .. n + 2
  BY <1>16, <1>20
<1>22. PICK k2, c2 : k2 = NewKeys(TheWriter) /\ c2 = NewChildren(TheWriter)
  OBVIOUS
<1>23. k2 = InsertAt(k, m, s) /\ c2 = InsertAt(c, m + 1, r)
  <2>1. k2 = InsertAt(k, Cardinality({i \in DOMAIN k : k[i] < s}) + 1, s)
    BY <1>2, <1>13, <1>22 DEF NewKeys
  <2>2. c2 = InsertAt(c, Cardinality({i \in DOMAIN k : k[i] < s}) + 2, r)
    BY <1>2, <1>13, <1>22 DEF NewChildren
  <2> QED BY <1>19, <1>21, <2>1, <2>2
<1>24. Widens(k, c, m, s, r, k2, c2)
  <2>1. k \in Seq(Key) /\ c \in Seq(Page) /\ Len(c) = n + 1
    BY <1>14, <1>20 DEF Slots
  <2>2. InsertedAt(Key, k, m, s, k2)
    BY <1>7, <1>20, <1>21, <1>23, <2>1, InsertPlaces
  <2>3. m + 1 \in 1 .. Len(c) + 1
    BY <1>21, <2>1
  <2>4. InsertedAt(Page, c, m + 1, r, c2)
    BY <1>7, <1>23, <2>1, <2>3, InsertPlaces
  <2> QED BY <1>16, <2>2, <2>4 DEF Widens
<1>25. Fence(k2, c2, lo[g], hi[g], lo, hi)
  <2>1. hi[r] = upto[c[m]]
    BY <1>12, <1>16
  <2>2. \A y \in Range(c) : lo[y] = lo[y] /\ hi[y] = IF y = c[m] THEN s ELSE upto[y]
    <3>1. \A y \in Range(c) : y \in Page
      BY <1>14, SlotParts
    <3> QED BY <1>11, <1>12, <1>16, <3>1
  <2>3. lo[r] = s
    BY <1>11
  <2> QED BY <1>7, <1>14, <1>15, <1>17, <1>18, <1>24, <2>1, <2>2, <2>3, FenceWidens
<1>26. Slots(k2, c2) /\ Len(k2) = Len(k) + 1 /\ Range(c2) = Range(c) \cup {r}
  <2>1. PICK x \in Node : x = node[g]
    BY <1>3, <1>7
  <2>2. /\ NewKeys(TheWriter) \in Seq(Key) /\ Len(NewKeys(TheWriter)) = Len(x.keys) + 1
        /\ NewChildren(TheWriter) \in Seq(Page) /\ Len(NewChildren(TheWriter)) = Len(x.keys) + 2
        /\ IsInjective(NewChildren(TheWriter))
        /\ Range(NewChildren(TheWriter)) = Range(x.children) \cup {run[TheWriter].right}
    BY <1>2, <1>7, <2>1, NewEntryParts
  <2>3. x.keys = k /\ x.children = c
    BY <1>13, <2>1
  <2>4. Len(k2) = n + 1 /\ Len(c2) = n + 2
    BY <1>20, <1>22, <2>2, <2>3
  <2>5. Len(c2) = Len(k2) + 1
    BY <2>4
  <2> QED BY <1>2, <1>22, <2>2, <2>3, <2>5 DEF Slots
<1>27. left # root
  <2>1. ~ Merging(l) /\ l.pc # "failed"
    BY <1>1
  <2>2. \A z \in live : node[z].type = "internal" => Top(root, l) \notin Range(node[z].children)
    BY <1>2, <2>1, ChildrenApart
  <2> QED BY <1>2, <1>7, <1>8, <1>11, <2>2
<1>28. \A z \in live : z # g /\ node[z].type = "internal" =>
          Fence(node[z].keys, node[z].children, lo[z], hi[z], lo, hi)
  <2>1. TAKE z \in live
  <2>2. HAVE z # g /\ node[z].type = "internal"
  <2>3. Fence(node[z].keys, node[z].children, lo[z], hi[z], lo, upto)
    BY <1>9, <2>2 DEF Pages, Fenced
  <2>4. Slots(node[z].keys, node[z].children)
    BY <1>3, <1>10, <2>2, NodeSlots
  <2>5. left \notin Range(node[z].children)
    <3>1. ~ Merging(l) /\ l.pc # "failed"
      BY <1>1
    <3>2. \A p \in live, q \in live : \A y :
                 /\ node[p].type = "internal" /\ node[q].type = "internal"
                 /\ y \in Range(node[p].children) /\ y \in Range(node[q].children)
                 => p = q
      BY <1>2, <3>1, ChildrenApart
    <3> QED BY <1>2, <1>7, <1>11, <2>2, <3>2
  <2>6. \A y \in Range(node[z].children) : y \in Page
    BY <2>4, SlotParts
  <2>7. \A y \in Range(node[z].children) : lo[y] = lo[y] /\ hi[y] = upto[y]
    BY <1>12, <2>5, <2>6
  <2> QED BY <2>3, <2>4, <2>7, FenceKept
<1>29. lo[root] = 0 /\ hi[root] = MaxKey + 1
  <2>1. lo[root] = 0 /\ upto[root] = MaxKey + 1 /\ root \in Page
    BY <1>9 DEF Pages
  <2> QED BY <1>12, <1>27, <2>1
<1>30. Placed(l, lo, hi, upto, left, k2, c2)
  BY <1>2, <1>3, <1>7, <1>8, <1>9, <1>11, <1>13, <1>25, <1>26, <1>27, <1>28, <1>29 DEF Placed
<1> QED BY <1>4, <1>22, <1>30
(* A step that changes what is above the leaves. *)
LEMMA UpperGoes ==
    ASSUME NEW l, l = run[TheWriter], NEW lo, NEW hi, NEW from, NEW upto,
           Order(node, root, l, lo, hi, from, upto),
           NEW l2, run'[TheWriter] = l2,
           NEW n2, n2 = node', NEW live2, Live(n2, l2) = live2,
           NEW lo2, NEW hi2, NEW from2, NEW upto2,
           live2 \subseteq Page, Top(root', l2) \in live2,
           lo2 \in [Page -> Bound], hi2 \in [Page -> Bound],
           from2 \in [Page -> Bound], upto2 \in [Page -> Bound],
           \A p \in live2 : lo2[p] < hi2[p],
           Leaves(n2, live2) = Leaves(node, Live(node, l)),
           \A p \in Leaves(node, Live(node, l)) :
              SameLeaf(node[p], n2[p]) /\ lo2[p] = lo[p] /\ hi2[p] = hi[p],
           Fenced(n2, live2, lo2, hi2, from2, upto2),
           from2[Top(root', l2)] = 0, upto2[Top(root', l2)] = MaxKey + 1,
           Sight(n2, l2, lo2, hi2, from2, upto2), Seek(n2, l2, lo2, hi2), Emptied(n2, l2)
    PROVE  Goes(run'[TheWriter])
<1>1. PICK live, top, top2 : live = Live(node, l) /\ top = Top(root, l) /\ top2 = Top(root', l2)
  OBVIOUS
<1>2. Pages(node, live, top, lo, hi, from, upto)
  BY <1>1, OrderParts
<1>3. /\ Pages(n2, live2, top2, lo2, hi2, from2, upto2)
      /\ Stock(n2, Leaves(n2, live2)) = Stock(node, Leaves(node, live))
  <2>1. top2 \in live2 /\ from2[top2] = 0 /\ upto2[top2] = MaxKey + 1
    BY <1>1
  <2>2. Leaves(n2, live2) = Leaves(node, live)
    BY <1>1
  <2>3. \A p \in Leaves(node, live) :
           SameLeaf(node[p], n2[p]) /\ lo2[p] = lo[p] /\ hi2[p] = hi[p]
    BY <1>1
  <2> QED BY <1>2, <2>1, <2>2, <2>3, UpperChange
<1>4. Order(n2, root', l2, lo2, hi2, from2, upto2)
  BY <1>1, <1>3 DEF Order
<1>5. Book(n2, l2) = Book(node, l)
  BY <1>1, <1>3 DEF Book
<1> QED BY <1>4, <1>5 DEF Goes, InOrder

LEMMA InsertEntryGoes ==
    ASSUME OneWriter, Inv, NEW l, l = run[TheWriter],
           NEW lo, NEW hi, NEW from, NEW upto,
           Order(node, root, l, lo, hi, from, upto), InsertEntry(TheWriter)
    PROVE  Goes(run'[TheWriter])
<1>1. PICK k2, c2, a : /\ k2 = NewKeys(TheWriter) /\ c2 = NewChildren(TheWriter)
                       /\ a = << << l.right, l.page >> >>
  OBVIOUS
<1>2. /\ l.pc = "parent" /\ root' = root /\ l.page \in Page /\ node[l.page].type = "internal"
      /\ node' = [node EXCEPT ![l.page].keys = k2, ![l.page].children = c2]
      /\ Continue(TheWriter, [l EXCEPT !.pc = "adopt", !.then = "return", !.adopt = a])
  BY <1>1 DEF InsertEntry, At, IsInternal
<1>3. from = lo /\ \E left : Placed(l, lo, hi, upto, left, k2, c2)
  BY <1>1, <1>2, PlacedNow
<1>4. PICK left : Placed(l, lo, hi, upto, left, k2, c2)
  BY <1>3
<1>5. PICK l2 : l2 = [l EXCEPT !.pc = "adopt", !.then = "return", !.adopt = a]
  OBVIOUS
<1>6. run'[TheWriter] = l2
  BY <1>2, <1>5, LocalsNow
<1>7. PICK g, live : g = l.page /\ live = Live(node, l)
  OBVIOUS
<1>8. /\ l \in Locals /\ node \in [Page -> Node] /\ g \in Page /\ g \in live
      /\ live = {p \in Page : node[p].type # "freed"}
      /\ Pages(node, live, root, lo, hi, lo, upto)
      /\ Slots(k2, c2) /\ Fence(k2, c2, lo[g], hi[g], lo, hi)
      /\ \A z \in live : z # g /\ node[z].type = "internal" =>
            Fence(node[z].keys, node[z].children, lo[z], hi[z], lo, hi)
      /\ lo[root] = 0 /\ hi[root] = MaxKey + 1
  BY <1>4, <1>7 DEF Placed
<1>9. l2.pc = "adopt" /\ l2.then = "return"
  BY <1>5, <1>8 DEF Locals
<1>10. /\ ~ Promoting(l2) /\ ~ Merging(l2) /\ ~ Collapsing(l2) /\ ~ NewTop(l2)
  BY <1>9 DEF Promoting, Splitting, Merging, Collapsing, NewTop
<1>11. PICK n2 : n2 = node'
  OBVIOUS
<1>12. /\ n2[g].type = "internal" /\ n2[g].keys = k2 /\ n2[g].children = c2
       /\ \A z \in Page : z # g => n2[z] = node[z]
  <2>1. PICK x : x = node[g]
    OBVIOUS
  <2>2. x \in Node /\ x.type = "internal"
    BY <1>2, <1>7, <1>8, <2>1
  <2>3. x \in InternalNodes
    BY <2>2, InternalParts
  <2>4. PICK y : y = [x EXCEPT !.keys = k2, !.children = c2]
    OBVIOUS
  <2>5. y.type = "internal" /\ y.keys = k2 /\ y.children = c2
    BY <2>2, <2>3, <2>4 DEF InternalNodes
  <2>6. n2 = [node EXCEPT ![g] = y]
    BY <1>2, <1>7, <1>8, <1>11, <2>1, <2>4
  <2> QED BY <1>8, <2>5, <2>6
<1>13. Live(n2, l2) = live
  <2>1. Live(n2, l2) = {z \in Page : n2[z].type # "freed"}
    BY <1>10 DEF Live
  <2>2. \A z \in Page : n2[z].type # "freed" <=> z \in live
    BY <1>8, <1>12
  <2> QED BY <1>8, <2>1, <2>2
<1>14. Top(root', l2) = root /\ root \in live
  BY <1>2, <1>8, <1>10 DEF Top, Pages
<1>15. /\ lo \in [Page -> Bound] /\ hi \in [Page -> Bound] /\ live \subseteq Page
       /\ \A z \in live : lo[z] < hi[z]
  BY <1>8 DEF Pages
<1>16. Fenced(n2, live, lo, hi, lo, hi)
  <2>1. SUFFICES ASSUME NEW z \in live, n2[z].type = "internal"
                 PROVE  Fence(n2[z].keys, n2[z].children, lo[z], hi[z], lo, hi)
    BY DEF Fenced
  <2>2. CASE z = g
    BY <1>8, <1>12, <2>2
  <2>3. CASE z # g
    <3>1. n2[z] = node[z]
      BY <1>12, <1>15, <2>3
    <3> QED BY <1>8, <2>1, <2>3, <3>1
  <2> QED BY <2>2, <2>3
<1>17. node[g].type = "internal"
  BY <1>2, <1>7
<1>18. Leaves(n2, live) = Leaves(node, live)
  BY <1>12, <1>15, <1>17 DEF Leaves
<1>19. \A z \in Leaves(node, live) : SameLeaf(node[z], n2[z])
  BY <1>12, <1>15, <1>17 DEF Leaves, SameLeaf
<1>20. Sight(n2, l2, lo, hi, lo, hi)
  BY <1>9, <1>10 DEF Sight
<1>21. Seek(n2, l2, lo, hi) /\ Emptied(n2, l2)
  BY <1>9, <1>10, PlainEmptied DEF Seek
<1>22. \A z \in Leaves(node, Live(node, l)) :
          SameLeaf(node[z], n2[z]) /\ lo[z] = lo[z] /\ hi[z] = hi[z]
  BY <1>7, <1>19
<1>23. Leaves(n2, live) = Leaves(node, Live(node, l))
  BY <1>7, <1>18
<1>24. Top(root', l2) \in live /\ lo[Top(root', l2)] = 0 /\ hi[Top(root', l2)] = MaxKey + 1
  BY <1>8, <1>14
<1> QED BY <1>6, <1>11, <1>13, <1>15, <1>16, <1>20, <1>21, <1>22, <1>23, <1>24, UpperGoes
(* split_internal *)
LEMMA MadeAs ==
    ASSUME NEW k, NEW c, NEW q, NEW x, x = Internal(k, c, q), x.type # "overrun"
    PROVE  x.type = "internal" /\ x.keys = k /\ x.children = c /\ x.parent = q
BY DEF Internal, Overrun

LEMMA SplitInternalGoes ==
    ASSUME OneWriter, Inv, NeverOverrun', NEW l, l = run[TheWriter],
           NEW lo, NEW hi, NEW from, NEW upto,
           Order(node, root, l, lo, hi, from, upto), SplitInternal(TheWriter)
    PROVE  Goes(run'[TheWriter])
<1>1. PICK k2, c2, mid, q, p :
         /\ k2 = NewKeys(TheWriter) /\ c2 = NewChildren(TheWriter) /\ mid = Half(k2)
         /\ q = NewPage /\ p = node[l.page].parent
  OBVIOUS
<1>2. PICK ka, kb, ca, cb : /\ ka = SubSeq(k2, 1, mid) /\ kb = SubSeq(k2, mid + 2, Len(k2))
                            /\ ca = SubSeq(c2, 1, mid + 1) /\ cb = SubSeq(c2, mid + 2, Len(c2))
  OBVIOUS
<1>3. PICK x, y, a, s : /\ y = Internal(kb, cb, p) /\ x = Internal(ka, ca, p)
                        /\ a = Orphans(cb, q) /\ s = k2[mid + 1]
  OBVIOUS
<1>4. PICK l2 : l2 = [l EXCEPT !.pc = "adopt", !.then = "promote", !.right = q,
                               !.sep = s, !.adopt = a]
  OBVIOUS
<1>5. PICK g, live : g = l.page /\ live = Live(node, l)
  OBVIOUS
<1>6. /\ l.pc = "parent" /\ root' = root
      /\ g \in Page /\ node[g].type = "internal"
      /\ q \in Page /\ node[q].type = "freed"
      /\ node' = [node EXCEPT ![q] = y, ![g] = x]
      /\ Continue(TheWriter, l2)
  BY <1>1, <1>2, <1>3, <1>4, <1>5, NewPageIsFree DEF SplitInternal, At, IsInternal
<1>7. from = lo /\ \E left : Placed(l, lo, hi, upto, left, k2, c2)
  BY <1>1, <1>5, <1>6, PlacedNow
<1>8. PICK left : Placed(l, lo, hi, upto, left, k2, c2)
  BY <1>7
<1>9. run'[TheWriter] = l2
  BY <1>6, LocalsNow
<1>10. /\ l \in Locals /\ node \in [Page -> Node] /\ g \in live
       /\ live = {z \in Page : node[z].type # "freed"}
       /\ l.right \in live
       /\ Pages(node, live, root, lo, hi, lo, upto)
       /\ Slots(k2, c2) /\ Fence(k2, c2, lo[g], hi[g], lo, hi)
       /\ Len(k2) = Len(node[g].keys) + 1
       /\ Range(c2) = Range(node[g].children) \cup {l.right}
       /\ \A z \in live : z # g /\ node[z].type = "internal" =>
             Fence(node[z].keys, node[z].children, lo[z], hi[z], lo, hi)
       /\ lo[root] = 0 /\ hi[root] = MaxKey + 1
  BY <1>5, <1>8 DEF Placed
<1>11. /\ lo \in [Page -> Bound] /\ hi \in [Page -> Bound] /\ live \subseteq Page
       /\ root \in live /\ \A z \in live : lo[z] < hi[z]
  BY <1>10 DEF Pages
<1>12. q \notin live /\ q # g /\ q # root
  BY <1>6, <1>10, <1>11
<1>13. Len(k2) \in Nat /\ Len(k2) >= 1 /\ mid \in 0 .. Len(k2) - 1
  <2>1. Slots(node[g].keys, node[g].children)
    <3>1. Shaped(node)
      BY <1>6, AtWork
    <3> QED BY <1>6, <3>1, NodeSlots
  <2>2. PICK n \in Nat : n = Len(node[g].keys)
    BY <2>1, SlotParts
  <2>3. Len(k2) = n + 1
    BY <1>10, <2>2
  <2> QED BY <1>1, <2>3 DEF Half
<1>14. Spliced(k2, c2, ka, ca, s, kb, cb)
  BY <1>2, <1>3, <1>10, <1>13, CutIsSpliced DEF Slots
<1>15. /\ Fence(ka, ca, lo[g], s, lo, hi) /\ Fence(kb, cb, s, hi[g], lo, hi)
       /\ lo[g] < s /\ s < hi[g]
  <2>1. lo[g] \in Bound /\ hi[g] \in Bound
    BY <1>10, <1>11
  <2> QED BY <1>10, <1>14, <2>1, FenceCut
<1>16. /\ Slots(ka, ca) /\ Slots(kb, cb) /\ s \in Key
       /\ Range(ca) \cup Range(cb) = Range(c2)
  <2>1. Halved(k2, c2, ka, kb, s, ca, cb)
    BY <1>1, <1>2, <1>3, <1>10, <1>13, Halves DEF Slots
  <2> QED BY <2>1 DEF Halved, Slots
<1>17. PICK n2 : n2 = node'
  OBVIOUS
<1>18. /\ n2[g] = x /\ n2[q] = y
       /\ \A z \in Page : z # g /\ z # q => n2[z] = node[z]
  BY <1>6, <1>10, <1>12, <1>17
<1>19. /\ n2[g].type = "internal" /\ n2[g].keys = ka /\ n2[g].children = ca
       /\ n2[q].type = "internal" /\ n2[q].keys = kb /\ n2[q].children = cb
  <2>1. x.type # "overrun" /\ y.type # "overrun"
    BY <1>6, <1>17, <1>18 DEF NeverOverrun
  <2> QED BY <1>3, <1>18, <2>1, MadeAs
<1>20. l2.pc = "adopt" /\ l2.then = "promote" /\ l2.page = g /\ l2.right = q /\ l2.sep = s
  BY <1>4, <1>5, <1>10 DEF Locals
<1>21. Splitting(l2) /\ Promoting(l2) /\ ~ Merging(l2) /\ ~ Collapsing(l2) /\ ~ NewTop(l2)
  BY <1>20 DEF Promoting, Splitting, Merging, Collapsing, NewTop
<1>22. PICK live2 : live2 = live \cup {q}
  OBVIOUS
<1>23. Live(n2, l2) = live2 /\ live2 \subseteq Page /\ q \in live2 /\ g \in live2
  <2>1. Live(n2, l2) = {z \in Page : n2[z].type # "freed"}
    BY <1>21 DEF Live
  <2>2. \A z \in Page : n2[z].type # "freed" <=> z \in live2
    BY <1>6, <1>10, <1>18, <1>19, <1>22
  <2>3. live2 \subseteq Page
    BY <1>6, <1>11, <1>22
  <2> QED BY <1>10, <1>22, <2>1, <2>2, <2>3
<1>24. Top(root', l2) = root /\ root \in live2
  BY <1>6, <1>11, <1>21, <1>22 DEF Top
<1>25. PICK lo2, hi2 : lo2 = [lo EXCEPT ![q] = s] /\ hi2 = [hi EXCEPT ![g] = s, ![q] = hi[g]]
  OBVIOUS
<1>26. PICK upto2 : upto2 = [hi2 EXCEPT ![g] = hi2[q]]
  OBVIOUS
<1>27. s \in Bound /\ hi[g] \in Bound
  BY <1>10, <1>11, <1>16, BoundParts
<1>28. /\ lo2 \in [Page -> Bound] /\ hi2 \in [Page -> Bound]
       /\ lo2[q] = s /\ (\A z \in Page : z # q => lo2[z] = lo[z])
       /\ hi2[g] = s /\ hi2[q] = hi[g] /\ (\A z \in Page : z # q /\ z # g => hi2[z] = hi[z])
  BY <1>6, <1>11, <1>12, <1>25, <1>27
<1>29. upto2 \in [Page -> Bound] /\ \A z \in Page : z # q => upto2[z] = hi[z]
  BY <1>6, <1>12, <1>26, <1>27, <1>28
<1>30. \A z \in live2 : lo2[z] < hi2[z]
  <2>1. TAKE z \in live2
  <2>2. CASE z = q
    BY <1>15, <1>28, <2>2
  <2>3. CASE z = g
    BY <1>6, <1>12, <1>15, <1>28, <2>3
  <2>4. CASE z # q /\ z # g
    BY <1>11, <1>22, <1>28, <2>4
  <2> QED BY <2>2, <2>3, <2>4
<1>31. /\ \A z \in live : node[z].type = "internal" => Range(node[z].children) \subseteq live
       /\ Range(c2) \subseteq live
  <2>1. ~ Merging(l) /\ l.pc # "failed"
    BY <1>6 DEF Merging
  <2>2. \A z \in live : node[z].type = "internal" => Range(node[z].children) \subseteq live
    BY <1>5, <2>1, ChildrenApart
  <2> QED BY <1>6, <1>10, <2>2
<1>32. \A c, k : Slots(k, c) /\ Range(c) \subseteq live =>
          \A z \in Range(c) : lo2[z] = lo[z] /\ upto2[z] = hi[z]
  BY <1>11, <1>12, <1>28, <1>29
<1>33. Fenced(n2, live2, lo2, hi2, lo2, upto2)
  <2>1. SUFFICES ASSUME NEW z \in live2, n2[z].type = "internal"
                 PROVE  Fence(n2[z].keys, n2[z].children, lo2[z], hi2[z], lo2, upto2)
    BY DEF Fenced
  <2>2. CASE z = q
    <3>1. \A c \in Range(cb) : lo2[c] = lo[c] /\ upto2[c] = hi[c]
      BY <1>16, <1>31, <1>32
    <3>2. Fence(kb, cb, s, hi[g], lo2, upto2)
      BY <1>15, <1>16, <3>1, FenceKept
    <3> QED BY <1>19, <1>28, <2>2, <3>2
  <2>3. CASE z = g
    <3>1. \A c \in Range(ca) : lo2[c] = lo[c] /\ upto2[c] = hi[c]
      BY <1>16, <1>31, <1>32
    <3>2. Fence(ka, ca, lo[g], s, lo2, upto2)
      BY <1>15, <1>16, <3>1, FenceKept
    <3> QED BY <1>6, <1>12, <1>19, <1>28, <2>3, <3>2
  <2>4. CASE z # q /\ z # g
    <3>1. z \in live /\ z \in Page /\ n2[z] = node[z]
      BY <1>11, <1>18, <1>22, <2>4
    <3>2. Fence(node[z].keys, node[z].children, lo[z], hi[z], lo, hi)
      BY <1>10, <2>1, <2>4, <3>1
    <3>3. Slots(node[z].keys, node[z].children)
      BY <1>10, <2>1, <3>1, NodeSlots DEF Shaped
    <3>4. \A c \in Range(node[z].children) : lo2[c] = lo[c] /\ upto2[c] = hi[c]
      BY <1>31, <1>32, <2>1, <3>1, <3>3
    <3>5. Fence(node[z].keys, node[z].children, lo[z], hi[z], lo2, upto2)
      BY <3>2, <3>3, <3>4, FenceKept
    <3> QED BY <1>28, <2>4, <3>1, <3>5
  <2> QED BY <2>2, <2>3, <2>4
<1>34. Leaves(n2, live2) = Leaves(node, live)
  BY <1>6, <1>11, <1>18, <1>19, <1>22 DEF Leaves
<1>35. \A z \in Leaves(node, live) :
          SameLeaf(node[z], n2[z]) /\ lo2[z] = lo[z] /\ hi2[z] = hi[z]
  BY <1>6, <1>11, <1>12, <1>18, <1>28 DEF Leaves, SameLeaf
<1>36. Splits(n2, l2, lo2, hi2, upto2, g)
  BY <1>6, <1>12, <1>20, <1>26, <1>28 DEF Splits
<1>37. Sight(n2, l2, lo2, hi2, lo2, upto2)
  BY <1>20, <1>21, <1>23, <1>36 DEF Sight
<1>38. Seek(n2, l2, lo2, hi2) /\ Emptied(n2, l2)
  BY <1>20, <1>21, PlainEmptied DEF Seek
<1>39. Leaves(n2, live2) = Leaves(node, Live(node, l))
  BY <1>5, <1>34
<1>40. \A z \in Leaves(node, Live(node, l)) :
          SameLeaf(node[z], n2[z]) /\ lo2[z] = lo[z] /\ hi2[z] = hi[z]
  BY <1>5, <1>35
<1>41. Top(root', l2) \in live2 /\ lo2[Top(root', l2)] = 0 /\ upto2[Top(root', l2)] = MaxKey + 1
  BY <1>10, <1>11, <1>12, <1>24, <1>28, <1>29
<1> QED BY <1>9, <1>17, <1>23, <1>28, <1>29, <1>30, <1>33, <1>37, <1>38, <1>39, <1>40, <1>41, UpperGoes

-----------------------------------------------------------------------------
(* The separator of two siblings moves. *)
LEMMA SetSeparatorGoes ==
    ASSUME OneWriter, Inv, NeverOverrun', NEW l, l = run[TheWriter],
           NEW lo, NEW hi, NEW from, NEW upto,
           Order(node, root, l, lo, hi, from, upto), SetSeparator(TheWriter)
    PROVE  Goes(run'[TheWriter])
<1>1. PICK g, p, r, s, live : /\ g = l.parent /\ p = l.page /\ r = l.right /\ s = l.sep
                              /\ live = Live(node, l)
  OBVIOUS
<1>2. /\ l.pc = "separator" /\ root' = root /\ g \in Page /\ node[g].type = "internal"
      /\ Continue(TheWriter, Idle)
  BY <1>1 DEF SetSeparator, At, IsInternal, Return
<1>3. /\ ~ Promoting(l) /\ ~ Merging(l) /\ ~ Collapsing(l) /\ ~ NewTop(l)
  BY <1>2 DEF Promoting, Splitting, Merging, Collapsing, NewTop
<1>4. l \in Locals /\ node \in [Page -> Node] /\ Shaped(node) /\ s \in Key
  BY <1>1, <1>2, AtWork DEF Asked
<1>5. Shifted(node, l, lo, hi, from, upto)
  BY <1>2 DEF Order, Sight
<1>6. PICK k, c : k = node[g].keys /\ c = node[g].children
  OBVIOUS
<1>7. PICK m : m = l.slot
  OBVIOUS
<1>8. /\ g \in live /\ p \in Page /\ r \in Page /\ p # r
      /\ m \in 1 .. Len(k) /\ c[m] = p /\ c[m + 1] = r /\ Slots(k, c)
      /\ p \in Range(c) /\ r \in Range(c)
  <2>1. Neighbours(node, l)
    BY <1>5 DEF Shifted
  <2>2. g \in live
    BY <1>1, <2>1 DEF Neighbours
  <2> QED BY <1>1, <1>4, <1>6, <1>7, <2>1, <2>2, PairParts
<1>9. /\ node[p].type = "leaf" /\ node[r].type = "leaf" /\ lo[r] = s /\ hi[p] = s
      /\ from = [lo EXCEPT ![r] = k[m]] /\ upto = [hi EXCEPT ![p] = k[m]]
  BY <1>1, <1>5, <1>6, <1>7 DEF Shifted
<1>10. live = {z \in Page : node[z].type # "freed"} /\ Top(root, l) = root
  BY <1>1, <1>3 DEF Live, Top
<1>11. Pages(node, live, root, lo, hi, from, upto)
  BY <1>1, <1>10, OrderParts
<1>12. /\ lo \in [Page -> Bound] /\ hi \in [Page -> Bound] /\ live \subseteq Page
       /\ root \in live /\ \A z \in live : lo[z] < hi[z]
  BY <1>11 DEF Pages
<1>13. /\ \A z \in live : node[z].type = "internal" =>
             Range(node[z].children) \subseteq live /\ root \notin Range(node[z].children)
       /\ \A z \in live, y \in live : \A d :
             /\ node[z].type = "internal" /\ node[y].type = "internal"
             /\ d \in Range(node[z].children) /\ d \in Range(node[y].children)
             => z = y
  <2>1. l.pc # "failed"
    BY <1>2
  <2>2. \A z \in live : node[z].type = "internal" =>
             Range(node[z].children) \subseteq live /\ Top(root, l) \notin Range(node[z].children)
    BY <1>1, <1>3, <2>1, ChildrenApart
  <2>3. \A z \in live, y \in live : \A d :
             /\ node[z].type = "internal" /\ node[y].type = "internal"
             /\ d \in Range(node[z].children) /\ d \in Range(node[y].children)
             => z = y
    BY <1>1, <1>3, <2>1, ChildrenApart
  <2> QED BY <1>10, <2>2, <2>3
<1>14. p \in live /\ r \in live /\ p # root /\ r # root /\ p # g /\ r # g
  BY <1>2, <1>6, <1>8, <1>9, <1>13
<1>15. /\ \A z \in Page : z # r => from[z] = lo[z]
       /\ \A z \in Page : z # p => upto[z] = hi[z]
  BY <1>9, <1>12
<1>16. PICK k2 : k2 = ReplaceAt(k, m, s)
  OBVIOUS
<1>17. ReplacedAt(Key, k, m, s, k2)
  <2>1. k \in Seq(Key)
    BY <1>8 DEF Slots
  <2> QED BY <1>4, <1>8, <1>16, <2>1, ReplacePlaces
<1>18. Fence(k, c, lo[g], hi[g], from, upto)
  BY <1>2, <1>6, <1>8, <1>11 DEF Pages, Fenced
<1>19. Fence(k2, c, lo[g], hi[g], lo, hi)
  <2>1. from[c[m]] < s
    BY <1>8, <1>9, <1>12, <1>14, <1>15
  <2>2. s < upto[c[m + 1]]
    BY <1>8, <1>9, <1>12, <1>14, <1>15
  <2>3. \A y \in Range(c) : /\ lo[y] = IF y = c[m + 1] THEN s ELSE from[y]
                            /\ hi[y] = IF y = c[m] THEN s ELSE upto[y]
    <3>1. \A y \in Range(c) : y \in Page
      BY <1>8, SlotParts
    <3> QED BY <1>8, <1>9, <1>15, <3>1
  <2>4. lo[g] \in Bound /\ hi[g] \in Bound
    BY <1>8, <1>12
  <2> QED BY <1>4, <1>8, <1>17, <1>18, <2>1, <2>2, <2>3, <2>4, FenceMoves
<1>20. PICK n2 : n2 = node'
  OBVIOUS
<1>21. /\ n2[g].type = "internal" /\ n2[g].keys = k2 /\ n2[g].children = c
       /\ \A z \in Page : z # g => n2[z] = node[z]
  <2>1. PICK q, x : q = node[g].parent /\ x = Internal(k2, c, q)
    OBVIOUS
  <2>2. node' = [node EXCEPT ![g] = x]
    BY <1>1, <1>6, <1>7, <1>16, <2>1 DEF SetSeparator
  <2>3. n2[g] = x /\ \A z \in Page : z # g => n2[z] = node[z]
    BY <1>2, <1>4, <1>20, <2>2
  <2>4. x.type # "overrun"
    BY <1>2, <1>20, <2>3 DEF NeverOverrun
  <2> QED BY <2>1, <2>3, <2>4, MadeAs
<1>22. PICK l2 : l2 = Idle
  OBVIOUS
<1>23. run'[TheWriter] = l2
  BY <1>2, <1>22, LocalsNow
<1>24. l2.pc = "idle"
  BY <1>22 DEF Idle
<1>25. /\ ~ Promoting(l2) /\ ~ Merging(l2) /\ ~ Collapsing(l2) /\ ~ NewTop(l2)
  BY <1>24 DEF Promoting, Splitting, Merging, Collapsing, NewTop
<1>26. Live(n2, l2) = live
  <2>1. Live(n2, l2) = {z \in Page : n2[z].type # "freed"}
    BY <1>25 DEF Live
  <2>2. \A z \in Page : n2[z].type # "freed" <=> z \in live
    BY <1>8, <1>10, <1>21
  <2> QED BY <1>10, <2>1, <2>2
<1>27. Fenced(n2, live, lo, hi, lo, hi)
  <2>1. SUFFICES ASSUME NEW z \in live, n2[z].type = "internal"
                 PROVE  Fence(n2[z].keys, n2[z].children, lo[z], hi[z], lo, hi)
    BY DEF Fenced
  <2>2. CASE z = g
    BY <1>19, <1>21, <2>2
  <2>3. CASE z # g
    <3>1. n2[z] = node[z] /\ z \in Page
      BY <1>12, <1>21, <2>3
    <3>2. Fence(node[z].keys, node[z].children, lo[z], hi[z], from, upto)
      BY <1>11, <2>1, <3>1 DEF Pages, Fenced
    <3>3. Slots(node[z].keys, node[z].children)
      BY <1>4, <2>1, <3>1, NodeSlots
    <3>4. p \notin Range(node[z].children) /\ r \notin Range(node[z].children)
      BY <1>2, <1>6, <1>8, <1>13, <2>1, <2>3, <3>1
    <3>5. \A y \in Range(node[z].children) : lo[y] = from[y] /\ hi[y] = upto[y]
      <4>1. \A y \in Range(node[z].children) : y \in Page
        BY <3>3, SlotParts
      <4> QED BY <1>15, <3>4, <4>1
    <3>6. Fence(node[z].keys, node[z].children, lo[z], hi[z], lo, hi)
      BY <3>2, <3>3, <3>5, FenceKept
    <3> QED BY <3>1, <3>6
  <2> QED BY <2>2, <2>3
<1>28. Leaves(n2, live) = Leaves(node, Live(node, l))
  BY <1>1, <1>2, <1>12, <1>21 DEF Leaves
<1>29. \A z \in Leaves(node, Live(node, l)) :
          SameLeaf(node[z], n2[z]) /\ lo[z] = lo[z] /\ hi[z] = hi[z]
  BY <1>1, <1>2, <1>12, <1>21 DEF Leaves, SameLeaf
<1>30. Top(root', l2) \in live /\ lo[Top(root', l2)] = 0 /\ hi[Top(root', l2)] = MaxKey + 1
  <2>1. Top(root', l2) = root
    BY <1>2, <1>25 DEF Top
  <2>2. from[root] = 0 /\ upto[root] = MaxKey + 1
    BY <1>11 DEF Pages
  <2> QED BY <1>12, <1>14, <1>15, <2>1, <2>2
<1>31. Sight(n2, l2, lo, hi, lo, hi)
  BY <1>24, <1>25 DEF Sight
<1>32. Seek(n2, l2, lo, hi) /\ Emptied(n2, l2)
  BY <1>24, <1>25, PlainEmptied DEF Seek
<1> QED BY <1>12, <1>20, <1>23, <1>26, <1>27, <1>28, <1>29, <1>30, <1>31, <1>32, UpperGoes
(* A child changes sides.  k1, c1 and k2, c2: what the siblings hold now, with s
   between them. *)
Resplit(l, lo, hi, k1, c1, s, k2, c2) ==
    /\ s \in Key /\ lo[l.page] < s /\ s < hi[l.right]
    /\ Slots(k1, c1) /\ Fence(k1, c1, lo[l.page], s, lo, hi)
    /\ Slots(k2, c2) /\ Fence(k2, c2, s, hi[l.right], lo, hi)
    /\ Range(c1) \cup Range(c2) \subseteq
          Range(node[l.page].children) \cup Range(node[l.right].children)

Rewritten(l, n2, k1, c1, s, k2, c2) ==
    /\ n2[l.page].type = "internal" /\ n2[l.page].keys = k1 /\ n2[l.page].children = c1
    /\ n2[l.right].type = "internal" /\ n2[l.right].keys = k2 /\ n2[l.right].children = c2
    /\ n2[l.parent].type = "internal"
    /\ n2[l.parent].keys = ReplaceAt(node[l.parent].keys, l.slot, s)
    /\ n2[l.parent].children = node[l.parent].children
    /\ \A z \in Page : z \notin {l.page, l.right, l.parent} => n2[z] = node[z]

LEMMA ResplitGoes ==
    ASSUME Inv, NEW l, l = run[TheWriter],
           NEW lo, NEW hi, NEW from, NEW upto,
           Order(node, root, l, lo, hi, from, upto), l.pc = "share", root' = root,
           node[l.page].type = "internal", node[l.right].type = "internal",
           NEW k1, NEW c1, NEW s, NEW k2, NEW c2, Resplit(l, lo, hi, k1, c1, s, k2, c2),
           NEW n2, n2 = node', Rewritten(l, n2, k1, c1, s, k2, c2),
           NEW l2, run'[TheWriter] = l2, l2.pc = "adopt", l2.then = "return"
    PROVE  Goes(run'[TheWriter])
<1>1. PICK g, p, r, live, m : /\ g = l.parent /\ p = l.page /\ r = l.right
                              /\ live = Live(node, l) /\ m = l.slot
  OBVIOUS
<1>2. PICK k, c : k = node[g].keys /\ c = node[g].children
  OBVIOUS
<1>3. SharingAt(l, lo, hi, from, upto)
  BY SharingNow
<1>4. /\ node \in [Page -> Node] /\ live = {z \in Page : node[z].type # "freed"}
      /\ Pages(node, live, root, lo, hi, lo, hi)
      /\ p \in live /\ r \in live /\ g \in live /\ p # r /\ g # p /\ g # r
      /\ p \in Page /\ r \in Page /\ g \in Page /\ node[g].type = "internal"
      /\ m \in 1 .. Len(k) /\ Slots(k, c) /\ Fence(k, c, lo[g], hi[g], lo, hi)
      /\ hi[p] = lo[r] /\ c[m] = p /\ c[m + 1] = r /\ p \in Range(c) /\ r \in Range(c)
  <2>1. Neighbours(node, l) /\ node \in [Page -> Node]
    BY <1>3 DEF SharingAt
  <2>2. c[m] = p /\ c[m + 1] = r /\ p \in Range(c) /\ r \in Range(c)
    BY <1>1, <1>2, <2>1, PairParts
  <2> QED BY <1>1, <1>2, <1>3, <2>2 DEF SharingAt
<1>5. /\ lo \in [Page -> Bound] /\ hi \in [Page -> Bound] /\ live \subseteq Page
      /\ root \in live /\ \A z \in live : lo[z] < hi[z]
      /\ lo[root] = 0 /\ hi[root] = MaxKey + 1
  BY <1>4 DEF Pages
<1>6. /\ \A z \in live : node[z].type = "internal" =>
             Range(node[z].children) \subseteq live /\ root \notin Range(node[z].children)
      /\ \A z \in live, y \in live : \A d :
             /\ node[z].type = "internal" /\ node[y].type = "internal"
             /\ d \in Range(node[z].children) /\ d \in Range(node[y].children)
             => z = y
  <2>1. l.pc # "failed" /\ ~ Merging(l) /\ Top(root, l) = root
    BY <1>3 DEF Merging, SharingAt
  <2>2. \A z \in live : node[z].type = "internal" =>
             Range(node[z].children) \subseteq live /\ Top(root, l) \notin Range(node[z].children)
    BY <1>1, <2>1, ChildrenApart
  <2>3. \A z \in live, y \in live : \A d :
             /\ node[z].type = "internal" /\ node[y].type = "internal"
             /\ d \in Range(node[z].children) /\ d \in Range(node[y].children)
             => z = y
    BY <1>1, <2>1, ChildrenApart
  <2> QED BY <2>1, <2>2, <2>3
<1>7. /\ p # root /\ r # root
      /\ \A z \in live : node[z].type = "internal" /\ z # g =>
            p \notin Range(node[z].children) /\ r \notin Range(node[z].children)
  BY <1>2, <1>4, <1>6
<1>8. /\ s \in Key /\ lo[p] < s /\ s < hi[r] /\ s \in Bound
      /\ Slots(k1, c1) /\ Fence(k1, c1, lo[p], s, lo, hi)
      /\ Slots(k2, c2) /\ Fence(k2, c2, s, hi[r], lo, hi)
      /\ p \notin Range(c1) /\ r \notin Range(c1) /\ p \notin Range(c2) /\ r \notin Range(c2)
  <2>1. /\ s \in Key /\ lo[p] < s /\ s < hi[r]
        /\ Slots(k1, c1) /\ Fence(k1, c1, lo[p], s, lo, hi)
        /\ Slots(k2, c2) /\ Fence(k2, c2, s, hi[r], lo, hi)
        /\ Range(c1) \cup Range(c2) \subseteq Range(node[p].children) \cup Range(node[r].children)
    BY <1>1 DEF Resplit
  <2>2. /\ p \notin Range(node[p].children) /\ r \notin Range(node[p].children)
        /\ p \notin Range(node[r].children) /\ r \notin Range(node[r].children)
    BY <1>1, <1>4, <1>7
  <2> QED BY <2>1, <2>2, BoundParts
<1>9. PICK lo2, hi2 : lo2 = [lo EXCEPT ![r] = s] /\ hi2 = [hi EXCEPT ![p] = s]
  OBVIOUS
<1>10. /\ lo2 \in [Page -> Bound] /\ hi2 \in [Page -> Bound]
       /\ lo2[r] = s /\ (\A z \in Page : z # r => lo2[z] = lo[z])
       /\ hi2[p] = s /\ (\A z \in Page : z # p => hi2[z] = hi[z])
  BY <1>4, <1>5, <1>8, <1>9
<1>11. \A z \in live : lo2[z] < hi2[z]
  BY <1>4, <1>5, <1>8, <1>10
<1>12. PICK kg : kg = ReplaceAt(k, m, s)
  OBVIOUS
<1>13. Fence(kg, c, lo[g], hi[g], lo2, hi2)
  <2>1. ReplacedAt(Key, k, m, s, kg)
    BY <1>4, <1>8, <1>12, ReplacePlaces DEF Slots
  <2>2. lo[c[m]] < s /\ s < hi[c[m + 1]]
    BY <1>4, <1>8
  <2>3. \A y \in Range(c) : /\ lo2[y] = IF y = c[m + 1] THEN s ELSE lo[y]
                            /\ hi2[y] = IF y = c[m] THEN s ELSE hi[y]
    <3>1. \A y \in Range(c) : y \in Page
      BY <1>4, SlotParts
    <3> QED BY <1>4, <1>10, <3>1
  <2>4. lo[g] \in Bound /\ hi[g] \in Bound
    BY <1>4, <1>5
  <2> QED BY <1>4, <1>8, <2>1, <2>2, <2>3, <2>4, FenceMoves
<1>14. /\ n2[p].type = "internal" /\ n2[p].keys = k1 /\ n2[p].children = c1
       /\ n2[r].type = "internal" /\ n2[r].keys = k2 /\ n2[r].children = c2
       /\ n2[g].type = "internal" /\ n2[g].keys = kg /\ n2[g].children = c
       /\ \A z \in Page : z # p /\ z # r /\ z # g => n2[z] = node[z]
  BY <1>1, <1>2, <1>12 DEF Rewritten
<1>15. \A d, y : Slots(y, d) /\ p \notin Range(d) /\ r \notin Range(d) =>
          \A z \in Range(d) : lo2[z] = lo[z] /\ hi2[z] = hi[z]
  <2>1. TAKE d, y
  <2>2. HAVE Slots(y, d) /\ p \notin Range(d) /\ r \notin Range(d)
  <2>3. \A z \in Range(d) : z \in Page
    BY <2>2, SlotParts
  <2> QED BY <1>10, <2>2, <2>3
<1>16. Fenced(n2, live, lo2, hi2, lo2, hi2)
  <2>1. SUFFICES ASSUME NEW z \in live, n2[z].type = "internal"
                 PROVE  Fence(n2[z].keys, n2[z].children, lo2[z], hi2[z], lo2, hi2)
    BY DEF Fenced
  <2>2. CASE z = p
    <3>1. \A y \in Range(c1) : lo2[y] = lo[y] /\ hi2[y] = hi[y]
      BY <1>8, <1>15
    <3>2. Fence(k1, c1, lo[p], s, lo2, hi2)
      BY <1>8, <3>1, FenceKept
    <3> QED BY <1>4, <1>10, <1>14, <2>2, <3>2
  <2>3. CASE z = r
    <3>1. \A y \in Range(c2) : lo2[y] = lo[y] /\ hi2[y] = hi[y]
      BY <1>8, <1>15
    <3>2. Fence(k2, c2, s, hi[r], lo2, hi2)
      BY <1>8, <3>1, FenceKept
    <3> QED BY <1>4, <1>10, <1>14, <2>3, <3>2
  <2>4. CASE z = g
    BY <1>4, <1>10, <1>13, <1>14, <2>4
  <2>5. CASE z # p /\ z # r /\ z # g
    <3>1. n2[z] = node[z] /\ z \in Page
      BY <1>5, <1>14, <2>5
    <3>2. Fence(node[z].keys, node[z].children, lo[z], hi[z], lo, hi)
      BY <1>4, <2>1, <3>1 DEF Pages, Fenced
    <3>3. Slots(node[z].keys, node[z].children)
      BY <1>4, <2>1, <3>1, NodeSlots DEF Shaped
    <3>4. \A y \in Range(node[z].children) : lo2[y] = lo[y] /\ hi2[y] = hi[y]
      BY <1>7, <1>15, <2>1, <2>5, <3>1, <3>3
    <3>5. Fence(node[z].keys, node[z].children, lo[z], hi[z], lo2, hi2)
      BY <3>2, <3>3, <3>4, FenceKept
    <3> QED BY <1>10, <2>5, <3>1, <3>5
  <2> QED BY <2>2, <2>3, <2>4, <2>5
<1>17. /\ ~ Promoting(l2) /\ ~ Merging(l2) /\ ~ Collapsing(l2) /\ ~ NewTop(l2)
  BY DEF Promoting, Splitting, Merging, Collapsing, NewTop
<1>18. Live(n2, l2) = live
  <2>1. Live(n2, l2) = {z \in Page : n2[z].type # "freed"}
    BY <1>17 DEF Live
  <2>2. \A z \in Page : n2[z].type # "freed" <=> z \in live
    BY <1>4, <1>14
  <2> QED BY <1>4, <2>1, <2>2
<1>19. node[p].type = "internal" /\ node[r].type = "internal"
  BY <1>1
<1>20. Leaves(n2, live) = Leaves(node, Live(node, l))
  BY <1>1, <1>4, <1>5, <1>14, <1>19 DEF Leaves
<1>21. \A z \in Leaves(node, Live(node, l)) :
          SameLeaf(node[z], n2[z]) /\ lo2[z] = lo[z] /\ hi2[z] = hi[z]
  BY <1>1, <1>4, <1>5, <1>10, <1>14, <1>19 DEF Leaves, SameLeaf
<1>22. Top(root', l2) \in live /\ lo2[Top(root', l2)] = 0 /\ hi2[Top(root', l2)] = MaxKey + 1
  <2>1. Top(root', l2) = root
    BY <1>17 DEF Top
  <2> QED BY <1>5, <1>7, <1>10, <2>1
<1>23. Sight(n2, l2, lo2, hi2, lo2, hi2)
  BY <1>17 DEF Sight
<1>24. Seek(n2, l2, lo2, hi2) /\ Emptied(n2, l2)
  BY <1>17, PlainEmptied DEF Seek
<1> QED BY <1>5, <1>10, <1>11, <1>16, <1>18, <1>20, <1>21, <1>22, <1>23, <1>24, UpperGoes

(* The nodes that share or merge, each between its bounds. *)
NodesBeside(l, lo, hi, lk, lc, s, rk, rc) ==
    /\ lk = node[l.page].keys /\ lc = node[l.page].children
    /\ rk = node[l.right].keys /\ rc = node[l.right].children
    /\ node \in [Page -> Node] /\ l.page \in Page /\ l.right \in Page /\ l.parent \in Page
    /\ l.page # l.right /\ l.parent # l.page /\ l.parent # l.right
    /\ node[l.parent].type = "internal"
    /\ s = Separator(TheWriter) /\ s \in Key /\ s = hi[l.page] /\ s = lo[l.right]
    /\ lo[l.page] \in Bound /\ hi[l.right] \in Bound /\ s \in Bound
    /\ lo[l.page] < s /\ s < hi[l.right]
    /\ Slots(lk, lc) /\ Fence(lk, lc, lo[l.page], s, lo, hi)
    /\ Slots(rk, rc) /\ Fence(rk, rc, s, hi[l.right], lo, hi)

LEMMA NodesBesideNow ==
    ASSUME Inv, NEW l, l = run[TheWriter],
           NEW lo, NEW hi, NEW from, NEW upto,
           Order(node, root, l, lo, hi, from, upto), l.pc = "share",
           node[l.page].type = "internal", node[l.right].type = "internal",
           NEW lk, NEW lc, lk = node[l.page].keys, lc = node[l.page].children,
           NEW rk, NEW rc, rk = node[l.right].keys, rc = node[l.right].children,
           NEW s, s = Separator(TheWriter)
    PROVE  NodesBeside(l, lo, hi, lk, lc, s, rk, rc)
<1>1. SharingAt(l, lo, hi, from, upto)
  BY SharingNow
<1>2. PICK p, r, live : p = l.page /\ r = l.right /\ live = Live(node, l)
  OBVIOUS
<1>3. /\ node \in [Page -> Node] /\ Pages(node, live, root, lo, hi, lo, hi)
      /\ p \in live /\ r \in live /\ p # r /\ p \in Page /\ r \in Page
      /\ hi[p] = lo[r] /\ s = hi[p] /\ s \in Key
  BY <1>1, <1>2 DEF SharingAt
<1>4. /\ lo \in [Page -> Bound] /\ hi \in [Page -> Bound] /\ \A z \in live : lo[z] < hi[z]
      /\ Fenced(node, live, lo, hi, lo, hi)
  BY <1>3 DEF Pages
<1>5. node[p].type = "internal" /\ node[r].type = "internal"
  BY <1>2
<1>6. Fence(lk, lc, lo[p], s, lo, hi) /\ Fence(rk, rc, s, hi[r], lo, hi)
  BY <1>2, <1>3, <1>4, <1>5 DEF Fenced
<1>7. Slots(lk, lc) /\ Slots(rk, rc)
  BY <1>2, <1>3, <1>5, NodeSlots DEF Shaped
<1>8. lo[p] \in Bound /\ hi[r] \in Bound /\ s \in Bound /\ lo[p] < s /\ s < hi[r]
  BY <1>3, <1>4
<1>9. /\ l.parent \in Page /\ l.parent # p /\ l.parent # r /\ node[l.parent].type = "internal"
  BY <1>1, <1>2 DEF SharingAt
<1> QED BY <1>2, <1>3, <1>6, <1>7, <1>8, <1>9 DEF NodesBeside

LEMMA ShareChildFromLeftGoes ==
    ASSUME OneWriter, Inv, NeverOverrun', NEW l, l = run[TheWriter],
           NEW lo, NEW hi, NEW from, NEW upto,
           Order(node, root, l, lo, hi, from, upto), l.pc = "share",
           node[l.page].type = "internal", node[l.right].type = "internal",
           ShareChildFromLeft(TheWriter), root' = root
    PROVE  Goes(run'[TheWriter])
<1>1. PICK lk, lc, rk, rc, s, p, r, g :
         /\ lk = node[l.page].keys /\ lc = node[l.page].children
         /\ rk = node[l.right].keys /\ rc = node[l.right].children
         /\ s = Separator(TheWriter) /\ p = l.page /\ r = l.right /\ g = l.parent
  OBVIOUS
<1>2. NodesBeside(l, lo, hi, lk, lc, s, rk, rc)
  BY <1>1, NodesBesideNow
<1>3. /\ node \in [Page -> Node] /\ p \in Page /\ r \in Page /\ g \in Page
      /\ p # r /\ g # p /\ g # r /\ s \in Key /\ s \in Bound
      /\ lo[p] \in Bound /\ hi[r] \in Bound /\ lo[p] < s /\ s < hi[r]
      /\ Slots(lk, lc) /\ Fence(lk, lc, lo[p], s, lo, hi)
      /\ Slots(rk, rc) /\ Fence(rk, rc, s, hi[r], lo, hi)
  BY <1>1, <1>2 DEF NodesBeside
<1>4. lk # << >>
  BY <1>1 DEF ShareChildFromLeft, L
<1>5. PICK m, t, fk, fc, k2, c2 : /\ m = Last(lc) /\ t = Last(lk) /\ fk = Front(lk) /\ fc = Front(lc)
                                  /\ k2 = << s >> \o rk /\ c2 = << m >> \o rc
  OBVIOUS
<1>6. PICK x, y, z, a : /\ x = Internal(fk, fc, g) /\ y = Internal(k2, c2, g)
                        /\ z = Internal(ReplaceAt(node[g].keys, l.slot, t), node[g].children,
                                        node[g].parent)
                        /\ a = << << m, r >> >>
  OBVIOUS
<1>7. /\ node' = [node EXCEPT ![p] = x, ![r] = y, ![g] = z]
      /\ Continue(TheWriter, [l EXCEPT !.pc = "adopt", !.then = "return", !.adopt = a])
  <2>1. node' = [node EXCEPT
          ![p] = Internal(Front(@.keys), Front(@.children), g),
          ![r] = Internal(<< s >> \o @.keys, << m >> \o @.children, g),
          ![g] = Internal(ReplaceAt(@.keys, l.slot, t), @.children, @.parent)]
    BY <1>1, <1>5 DEF ShareChildFromLeft, L
  <2>2. node' = [node EXCEPT ![p] = x, ![r] = y, ![g] = z]
    BY <1>1, <1>3, <1>5, <1>6, <2>1
  <2> QED BY <1>1, <1>5, <1>6, <2>2 DEF ShareChildFromLeft, L
<1>8. Spliced(lk, lc, fk, fc, t, << >>, << m >>)
  BY <1>3, <1>4, <1>5, FrontIsSpliced
<1>9. /\ Fence(fk, fc, lo[p], t, lo, hi) /\ Fence(<< >>, << m >>, t, s, lo, hi)
      /\ lo[p] < t /\ t < s /\ t \in Key
  <2>1. t \in Key
    BY <1>8 DEF Spliced
  <2> QED BY <1>3, <1>8, <2>1, FenceCut
<1>10. /\ lc \in Seq(Page) /\ lc # << >> /\ IsInjective(lc) /\ lk \in Seq(Key)
       /\ Len(lc) = Len(lk) + 1 /\ Len(lk) \in Nat
  <2>1. lk \in Seq(Key) /\ lc \in Seq(Page) /\ Len(lc) = Len(lk) + 1 /\ IsInjective(lc)
    BY <1>3 DEF Slots
  <2>2. Len(lk) \in Nat
    BY <2>1
  <2>3. lc # << >>
    BY <2>1, <2>2
  <2> QED BY <2>1, <2>2, <2>3
<1>11. m \in Page /\ m \in Range(lc) /\ Slots(fk, fc) /\ Range(fc) = Range(lc) \ {m}
  <2>1. /\ fc \in Seq(Page) /\ Len(fc) = Len(lc) - 1 /\ m \in Page /\ m \in Range(lc)
        /\ IsInjective(fc) /\ Range(fc) = Range(lc) \ {m}
    BY <1>5, <1>10, FrontParts
  <2>2. fk \in Seq(Key) /\ Len(fk) = Len(lk) - 1
    BY <1>4, <1>5, <1>10, FrontParts
  <2>3. Len(fc) = Len(fk) + 1
    BY <1>10, <2>1, <2>2
  <2> QED BY <2>1, <2>2, <2>3 DEF Slots
<1>12. Spliced(k2, c2, << >>, << m >>, s, rk, rc)
  BY <1>3, <1>5, <1>11, FirstIsSpliced
<1>13. Fence(k2, c2, t, hi[r], lo, hi)
  <2>1. t \in Bound
    BY <1>9, BoundParts
  <2> QED BY <1>3, <1>9, <1>12, <2>1, FenceJoined
<1>14. Slots(k2, c2) /\ Range(c2) = Range(rc) \cup {m}
  <2>1. rk \in Seq(Key) /\ rc \in Seq(Page) /\ Len(rc) = Len(rk) + 1 /\ IsInjective(rc) /\ Len(rk) \in Nat
    BY <1>3 DEF Slots
  <2>2. Range(lc) \cap Range(rc) = {}
    <3>1. \E h : Paired(l, h)
      BY SharingParts
    <3> QED BY <1>1, <3>1, ApartKids
  <2>3. << m >> \in Seq(Page) /\ Len(<< m >>) = 1 /\ Range(<< m >>) = {m} /\ IsInjective(<< m >>)
    BY <1>11, SingleParts
  <2>4. << s >> \in Seq(Key) /\ Len(<< s >>) = 1
    BY <1>3
  <2>5. k2 \in Seq(Key) /\ Len(k2) = 1 + Len(rk)
    BY <1>5, <2>1, <2>4
  <2>6. PICK o : o = << m >>
    OBVIOUS
  <2>7. c2 \in Seq(Page) /\ Len(c2) = 1 + Len(rc) /\ Range(c2) = {m} \cup Range(rc)
        /\ (Range(o) \cap Range(rc) = {} => IsInjective(c2))
    <3>1. Joined(Page, o, rc, c2)
      BY <1>5, <2>1, <2>3, <2>6, JoinedSeq
    <3> QED BY <2>1, <2>3, <2>6, <3>1 DEF Joined
  <2>8. Range(o) \cap Range(rc) = {}
    BY <1>11, <2>2, <2>3, <2>6
  <2>9. Len(c2) = Len(k2) + 1
    BY <2>1, <2>5, <2>7
  <2> QED BY <2>5, <2>7, <2>8, <2>9 DEF Slots
<1>15. Resplit(l, lo, hi, fk, fc, t, k2, c2)
  <2>1. t < hi[r]
    <3>1. t \in Int /\ s \in Int /\ hi[r] \in Int
      BY <1>3, <1>9, BoundParts
    <3> QED BY <1>3, <1>9, <3>1
  <2>2. Range(fc) \cup Range(c2) \subseteq Range(lc) \cup Range(rc)
    BY <1>11, <1>14
  <2> QED BY <1>1, <1>9, <1>11, <1>13, <1>14, <2>1, <2>2 DEF Resplit
<1>16. PICK n2 : n2 = node'
  OBVIOUS
<1>17. /\ n2[p] = x /\ n2[r] = y /\ n2[g] = z
       /\ \A w \in Page : w # p /\ w # r /\ w # g => n2[w] = node[w]
  BY <1>3, <1>7, <1>16
<1>18. Rewritten(l, n2, fk, fc, t, k2, c2)
  <2>1. x.type # "overrun" /\ y.type # "overrun" /\ z.type # "overrun"
    BY <1>3, <1>16, <1>17 DEF NeverOverrun
  <2>2. /\ x.type = "internal" /\ x.keys = fk /\ x.children = fc
        /\ y.type = "internal" /\ y.keys = k2 /\ y.children = c2
        /\ z.type = "internal" /\ z.keys = ReplaceAt(node[g].keys, l.slot, t)
        /\ z.children = node[g].children
    BY <1>6, <2>1, MadeAs
  <2> QED BY <1>1, <1>17, <2>2 DEF Rewritten
<1>19. PICK l2 : l2 = [l EXCEPT !.pc = "adopt", !.then = "return", !.adopt = a]
  OBVIOUS
<1>20. run'[TheWriter] = l2
  BY <1>7, <1>19, LocalsNow
<1>21. l2.pc = "adopt" /\ l2.then = "return"
  <2>1. l \in Locals
    BY AtWork
  <2> QED BY <1>19, <2>1 DEF Locals
<1> QED BY <1>15, <1>16, <1>18, <1>20, <1>21, ResplitGoes

LEMMA ShareChildFromRightGoes ==
    ASSUME OneWriter, Inv, NeverOverrun', NEW l, l = run[TheWriter],
           NEW lo, NEW hi, NEW from, NEW upto,
           Order(node, root, l, lo, hi, from, upto), l.pc = "share",
           node[l.page].type = "internal", node[l.right].type = "internal",
           ShareChildFromRight(TheWriter), root' = root
    PROVE  Goes(run'[TheWriter])
<1>1. PICK lk, lc, rk, rc, s, p, r, g :
         /\ lk = node[l.page].keys /\ lc = node[l.page].children
         /\ rk = node[l.right].keys /\ rc = node[l.right].children
         /\ s = Separator(TheWriter) /\ p = l.page /\ r = l.right /\ g = l.parent
  OBVIOUS
<1>2. NodesBeside(l, lo, hi, lk, lc, s, rk, rc)
  BY <1>1, NodesBesideNow
<1>3. /\ node \in [Page -> Node] /\ p \in Page /\ r \in Page /\ g \in Page
      /\ p # r /\ g # p /\ g # r /\ s \in Key /\ s \in Bound
      /\ lo[p] \in Bound /\ hi[r] \in Bound /\ lo[p] < s /\ s < hi[r]
      /\ Slots(lk, lc) /\ Fence(lk, lc, lo[p], s, lo, hi)
      /\ Slots(rk, rc) /\ Fence(rk, rc, s, hi[r], lo, hi)
  BY <1>1, <1>2 DEF NodesBeside
<1>4. rk # << >>
  BY <1>1 DEF ShareChildFromRight, R
<1>5. PICK m, t, k1, c1, tk, tc : /\ m = Head(rc) /\ t = Head(rk) /\ tk = Tail(rk) /\ tc = Tail(rc)
                                  /\ k1 = Append(lk, s) /\ c1 = Append(lc, m)
  OBVIOUS
<1>6. PICK x, y, z, a : /\ x = Internal(k1, c1, g) /\ y = Internal(tk, tc, g)
                        /\ z = Internal(ReplaceAt(node[g].keys, l.slot, t), node[g].children,
                                        node[g].parent)
                        /\ a = << << m, p >> >>
  OBVIOUS
<1>7. /\ node' = [node EXCEPT ![p] = x, ![r] = y, ![g] = z]
      /\ Continue(TheWriter, [l EXCEPT !.pc = "adopt", !.then = "return", !.adopt = a])
  <2>1. node' = [node EXCEPT
          ![p] = Internal(Append(@.keys, s), Append(@.children, m), g),
          ![r] = Internal(Tail(@.keys), Tail(@.children), g),
          ![g] = Internal(ReplaceAt(@.keys, l.slot, t), @.children, @.parent)]
    BY <1>1, <1>5 DEF ShareChildFromRight, R
  <2>2. node' = [node EXCEPT ![p] = x, ![r] = y, ![g] = z]
    BY <1>1, <1>3, <1>5, <1>6, <2>1
  <2> QED BY <1>1, <1>5, <1>6, <2>2 DEF ShareChildFromRight, R
<1>8. Spliced(rk, rc, << >>, << m >>, t, tk, tc)
  BY <1>3, <1>4, <1>5, TailIsSpliced
<1>9. /\ Fence(<< >>, << m >>, s, t, lo, hi) /\ Fence(tk, tc, t, hi[r], lo, hi)
      /\ s < t /\ t < hi[r] /\ t \in Key
  <2>1. t \in Key
    BY <1>8 DEF Spliced
  <2> QED BY <1>3, <1>8, <2>1, FenceCut
<1>10. /\ rc \in Seq(Page) /\ rc # << >> /\ IsInjective(rc) /\ rk \in Seq(Key)
       /\ Len(rc) = Len(rk) + 1 /\ Len(rk) \in Nat
  <2>1. rk \in Seq(Key) /\ rc \in Seq(Page) /\ Len(rc) = Len(rk) + 1 /\ IsInjective(rc)
    BY <1>3 DEF Slots
  <2>2. Len(rk) \in Nat
    BY <2>1
  <2>3. rc # << >>
    BY <2>1, <2>2
  <2> QED BY <2>1, <2>2, <2>3
<1>11. m \in Page /\ m \in Range(rc) /\ Slots(tk, tc) /\ Range(tc) = Range(rc) \ {m}
  <2>1. /\ tc \in Seq(Page) /\ Len(tc) = Len(rc) - 1 /\ m \in Page /\ m \in Range(rc)
        /\ IsInjective(tc) /\ Range(tc) = Range(rc) \ {m}
    BY <1>5, <1>10, TailParts
  <2>2. tk \in Seq(Key) /\ Len(tk) = Len(rk) - 1
    BY <1>4, <1>5, <1>10, TailParts
  <2>3. Len(tc) = Len(tk) + 1
    BY <1>10, <2>1, <2>2
  <2> QED BY <2>1, <2>2, <2>3 DEF Slots
<1>12. Spliced(k1, c1, lk, lc, s, << >>, << m >>)
  BY <1>3, <1>5, <1>11, LastIsSpliced
<1>13. Fence(k1, c1, lo[p], t, lo, hi)
  <2>1. t \in Bound
    BY <1>9, BoundParts
  <2> QED BY <1>3, <1>9, <1>12, <2>1, FenceJoined
<1>14. Slots(k1, c1) /\ Range(c1) = Range(lc) \cup {m}
  <2>1. lk \in Seq(Key) /\ lc \in Seq(Page) /\ Len(lc) = Len(lk) + 1 /\ IsInjective(lc) /\ Len(lk) \in Nat
    BY <1>3 DEF Slots
  <2>2. Range(lc) \cap Range(rc) = {}
    <3>1. \E h : Paired(l, h)
      BY SharingParts
    <3> QED BY <1>1, <3>1, ApartKids
  <2>3. << m >> \in Seq(Page) /\ Len(<< m >>) = 1 /\ Range(<< m >>) = {m} /\ IsInjective(<< m >>)
    BY <1>11, SingleParts
  <2>4. k1 \in Seq(Key) /\ Len(k1) = Len(lk) + 1
    BY <1>3, <1>5, <2>1
  <2>5. PICK o : o = << m >>
    OBVIOUS
  <2>6. c1 = lc \o o
    BY <1>5, <1>11, <2>1, <2>5
  <2>7. c1 \in Seq(Page) /\ Len(c1) = Len(lc) + 1 /\ Range(c1) = Range(lc) \cup {m}
        /\ (Range(lc) \cap Range(o) = {} => IsInjective(c1))
    <3>1. Joined(Page, lc, o, c1)
      BY <2>1, <2>3, <2>5, <2>6, JoinedSeq
    <3> QED BY <2>1, <2>3, <2>5, <3>1 DEF Joined
  <2>8. Range(lc) \cap Range(o) = {}
    BY <1>11, <2>2, <2>3, <2>5
  <2>9. Len(c1) = Len(k1) + 1
    BY <2>1, <2>4, <2>7
  <2> QED BY <2>4, <2>7, <2>8, <2>9 DEF Slots
<1>15. Resplit(l, lo, hi, k1, c1, t, tk, tc)
  <2>1. lo[p] < t
    <3>1. t \in Int /\ s \in Int /\ lo[p] \in Int
      BY <1>3, <1>9, BoundParts
    <3> QED BY <1>3, <1>9, <3>1
  <2>2. Range(c1) \cup Range(tc) \subseteq Range(lc) \cup Range(rc)
    BY <1>11, <1>14
  <2> QED BY <1>1, <1>9, <1>11, <1>13, <1>14, <2>1, <2>2 DEF Resplit
<1>16. PICK n2 : n2 = node'
  OBVIOUS
<1>17. /\ n2[p] = x /\ n2[r] = y /\ n2[g] = z
       /\ \A w \in Page : w # p /\ w # r /\ w # g => n2[w] = node[w]
  BY <1>3, <1>7, <1>16
<1>18. Rewritten(l, n2, k1, c1, t, tk, tc)
  <2>1. x.type # "overrun" /\ y.type # "overrun" /\ z.type # "overrun"
    BY <1>3, <1>16, <1>17 DEF NeverOverrun
  <2>2. /\ x.type = "internal" /\ x.keys = k1 /\ x.children = c1
        /\ y.type = "internal" /\ y.keys = tk /\ y.children = tc
        /\ z.type = "internal" /\ z.keys = ReplaceAt(node[g].keys, l.slot, t)
        /\ z.children = node[g].children
    BY <1>6, <2>1, MadeAs
  <2> QED BY <1>1, <1>17, <2>2 DEF Rewritten
<1>19. PICK l2 : l2 = [l EXCEPT !.pc = "adopt", !.then = "return", !.adopt = a]
  OBVIOUS
<1>20. run'[TheWriter] = l2
  BY <1>7, <1>19, LocalsNow
<1>21. l2.pc = "adopt" /\ l2.then = "return"
  <2>1. l \in Locals
    BY AtWork
  <2> QED BY <1>19, <2>1 DEF Locals
<1> QED BY <1>15, <1>16, <1>18, <1>20, <1>21, ResplitGoes

LEMMA ShareChildrenGoes ==
    ASSUME OneWriter, Inv, NeverOverrun', NEW l, l = run[TheWriter],
           NEW lo, NEW hi, NEW from, NEW upto,
           Order(node, root, l, lo, hi, from, upto), ShareChildren(TheWriter)
    PROVE  Goes(run'[TheWriter])
<1>1. /\ l.pc = "share" /\ root' = root
      /\ node[l.page].type = "internal" /\ node[l.right].type = "internal"
      /\ ShareChildFromLeft(TheWriter) \/ ShareChildFromRight(TheWriter)
  BY DEF ShareChildren, At, IsInternal
<1>2. CASE ShareChildFromLeft(TheWriter)
  BY <1>1, <1>2, ShareChildFromLeftGoes
<1>3. CASE ShareChildFromRight(TheWriter)
  BY <1>1, <1>3, ShareChildFromRightGoes
<1> QED BY <1>1, <1>2, <1>3

-----------------------------------------------------------------------------
(* merge_internal *)
LEMMA MergeInternalsGoes ==
    ASSUME OneWriter, Inv, NeverOverrun', NEW l, l = run[TheWriter],
           NEW lo, NEW hi, NEW from, NEW upto,
           Order(node, root, l, lo, hi, from, upto), MergeInternals(TheWriter)
    PROVE  Goes(run'[TheWriter])
<1>1. /\ l.pc = "share" /\ root' = root
      /\ node[l.page].type = "internal" /\ node[l.right].type = "internal"
  BY DEF MergeInternals, At, IsInternal
<1>2. PICK lk, lc, rk, rc, s, p, r, g, live :
         /\ lk = node[l.page].keys /\ lc = node[l.page].children
         /\ rk = node[l.right].keys /\ rc = node[l.right].children
         /\ s = Separator(TheWriter) /\ p = l.page /\ r = l.right /\ g = l.parent
         /\ live = Live(node, l)
  OBVIOUS
<1>3. NodesBeside(l, lo, hi, lk, lc, s, rk, rc)
  BY <1>1, <1>2, NodesBesideNow
<1>4. /\ node \in [Page -> Node] /\ p \in Page /\ r \in Page /\ g \in Page
      /\ p # r /\ g # p /\ g # r /\ s \in Key /\ s \in Bound /\ hi[p] = s /\ lo[r] = s
      /\ lo[p] \in Bound /\ hi[r] \in Bound /\ lo[p] < s /\ s < hi[r]
      /\ Slots(lk, lc) /\ Fence(lk, lc, lo[p], s, lo, hi)
      /\ Slots(rk, rc) /\ Fence(rk, rc, s, hi[r], lo, hi)
  BY <1>2, <1>3 DEF NodesBeside
<1>5. SharingAt(l, lo, hi, from, upto)
  BY <1>1, SharingNow
<1>6. /\ l \in Locals /\ live = {z \in Page : node[z].type # "freed"}
      /\ Pages(node, live, root, lo, hi, lo, hi) /\ p \in live /\ r \in live
  BY <1>2, <1>5 DEF SharingAt
<1>7. /\ lo \in [Page -> Bound] /\ hi \in [Page -> Bound] /\ live \subseteq Page
      /\ root \in live /\ \A z \in live : lo[z] < hi[z]
      /\ lo[root] = 0 /\ hi[root] = MaxKey + 1
  BY <1>6 DEF Pages
<1>8. r # root
  <2>1. l.pc # "failed" /\ ~ Merging(l) /\ Top(root, l) = root
    BY <1>1, <1>5 DEF Merging, SharingAt
  <2>2. \A z \in live : node[z].type = "internal" => Top(root, l) \notin Range(node[z].children)
    BY <1>2, <2>1, ChildrenApart
  <2>3. Neighbours(node, l) /\ g \in live /\ node[g].type = "internal"
    BY <1>2, <1>5 DEF SharingAt
  <2>4. r \in Range(node[g].children)
    BY <1>2, <1>4, <2>3, PairParts
  <2> QED BY <2>1, <2>2, <2>3, <2>4
<1>9. PICK k, c, x : k = lk \o << s >> \o rk /\ c = lc \o rc /\ x = Internal(k, c, g)
  OBVIOUS
<1>10. PICK a : a = Orphans(rc, p)
  OBVIOUS
<1>11. PICK l2 : l2 = [l EXCEPT !.pc = "adopt", !.then = "free", !.adopt = a]
  OBVIOUS
<1>12. run'[TheWriter] = l2
  <2>1. Continue(TheWriter, l2)
    BY <1>2, <1>10, <1>11 DEF MergeInternals, R
  <2> QED BY <2>1, LocalsNow
<1>13. /\ l2.pc = "adopt" /\ l2.then = "free" /\ l2.page = p /\ l2.right = r /\ l2.parent = g
  BY <1>2, <1>6, <1>11 DEF Locals
<1>14. /\ ~ Promoting(l2) /\ Merging(l2) /\ ~ Collapsing(l2) /\ ~ NewTop(l2)
  BY <1>13 DEF Promoting, Splitting, Merging, Collapsing, NewTop
<1>15. PICK n2 : n2 = node'
  OBVIOUS
<1>16. /\ n2[p].type = "internal" /\ n2[p].keys = k /\ n2[p].children = c
       /\ \A z \in Page : z # p => n2[z] = node[z]
  <2>1. node' = [node EXCEPT ![p] = Internal(@.keys \o << s >> \o rk, @.children \o rc, g)]
    BY <1>2 DEF MergeInternals, R
  <2>2. node' = [node EXCEPT ![p] = x]
    BY <1>2, <1>4, <1>9, <2>1
  <2>3. n2[p] = x /\ \A z \in Page : z # p => n2[z] = node[z]
    BY <1>4, <1>15, <2>2
  <2>4. x.type # "overrun"
    BY <1>4, <1>15, <2>3 DEF NeverOverrun
  <2>5. x = Internal(k, c, g)
    BY <1>9
  <2>6. x.type = "internal" /\ x.keys = k /\ x.children = c
    BY <2>4, <2>5, MadeAs
  <2> QED BY <2>3, <2>6
<1>17. Fence(k, c, lo[p], hi[r], lo, hi)
  <2>1. Spliced(k, c, lk, lc, s, rk, rc)
    BY <1>4, <1>9, JoinIsSpliced
  <2> QED BY <1>4, <2>1, FenceJoined
<1>18. PICK live2 : live2 = live \ {r}
  OBVIOUS
<1>19. Live(n2, l2) = live2 /\ live2 \subseteq Page /\ root \in live2 /\ p \in live2
  <2>1. Live(n2, l2) = {z \in Page : n2[z].type # "freed" /\ z # r}
    BY <1>13, <1>14 DEF Live
  <2>2. \A z \in Page : n2[z].type # "freed" /\ z # r <=> z \in live2
    BY <1>1, <1>2, <1>4, <1>6, <1>16, <1>18
  <2> QED BY <1>4, <1>6, <1>7, <1>8, <1>18, <2>1, <2>2
<1>20. PICK hi2 : hi2 = [hi EXCEPT ![p] = hi[r]]
  OBVIOUS
<1>21. /\ hi2 \in [Page -> Bound] /\ hi2[p] = hi[r] /\ (\A z \in Page : z # p => hi2[z] = hi[z])
  BY <1>4, <1>7, <1>20
<1>22. hi = [hi2 EXCEPT ![p] = lo[r]]
  BY <1>4, <1>7, <1>20
<1>23. \A z \in live2 : lo[z] < hi2[z]
  <2>1. TAKE z \in live2
  <2>2. CASE z = p
    <3>1. lo[p] \in Int /\ s \in Int /\ hi[r] \in Int
      BY <1>4, BoundParts
    <3> QED BY <1>4, <1>21, <2>2, <3>1
  <2>3. CASE z # p
    BY <1>7, <1>18, <1>21, <2>3
  <2> QED BY <2>2, <2>3
<1>24. Fenced(n2, live2, lo, hi2, lo, hi)
  <2>1. SUFFICES ASSUME NEW z \in live2, n2[z].type = "internal"
                 PROVE  Fence(n2[z].keys, n2[z].children, lo[z], hi2[z], lo, hi)
    BY DEF Fenced
  <2>2. CASE z = p
    BY <1>16, <1>17, <1>21, <2>2
  <2>3. CASE z # p
    <3>1. n2[z] = node[z] /\ z \in Page /\ z \in live
      BY <1>7, <1>16, <1>18, <2>3
    <3>2. Fence(node[z].keys, node[z].children, lo[z], hi[z], lo, hi)
      BY <1>6, <2>1, <3>1 DEF Pages, Fenced
    <3> QED BY <1>21, <2>3, <3>1, <3>2
  <2> QED BY <2>2, <2>3
<1>25. node[p].type = "internal" /\ node[r].type = "internal"
  BY <1>1, <1>2
<1>26. Leaves(n2, live2) = Leaves(node, Live(node, l))
  BY <1>2, <1>4, <1>7, <1>16, <1>18, <1>25 DEF Leaves
<1>27. \A z \in Leaves(node, Live(node, l)) :
          SameLeaf(node[z], n2[z]) /\ lo[z] = lo[z] /\ hi2[z] = hi[z]
  BY <1>2, <1>4, <1>7, <1>16, <1>21, <1>25 DEF Leaves, SameLeaf
<1>28. Top(root', l2) \in live2 /\ lo[Top(root', l2)] = 0 /\ hi[Top(root', l2)] = MaxKey + 1
  BY <1>1, <1>7, <1>14, <1>19 DEF Top
<1>29. Sight(n2, l2, lo, hi2, lo, hi)
  <2>1. hi = [hi2 EXCEPT ![l2.page] = lo[l2.right]] /\ hi2[l2.page] = hi2[l2.right]
    BY <1>4, <1>13, <1>21, <1>22
  <2> QED BY <1>13, <1>14, <2>1 DEF Sight
<1>30. Seek(n2, l2, lo, hi2) /\ Emptied(n2, l2)
  BY <1>4, <1>13, <1>14, <1>16, <1>25 DEF Seek, Emptied
<1> QED BY <1>7, <1>12, <1>15, <1>19, <1>21, <1>23, <1>24, <1>26, <1>27, <1>28, <1>29, <1>30, UpperGoes

-----------------------------------------------------------------------------
(* remove_parent_entry: what is left of two siblings takes their place. *)
Removing(l, live, k, c, m, lo, hi, upto) ==
    /\ k = node[l.parent].keys /\ c = node[l.parent].children /\ m = l.slot
    /\ live = Live(node, l)
    /\ l \in Locals /\ node \in [Page -> Node] /\ live = {z \in Page : node[z].type # "freed"}
    /\ lo \in [Page -> Bound] /\ hi \in [Page -> Bound]
    /\ l.parent \in live /\ l.page \in live /\ l.parent # l.page /\ l.page # l.right
    /\ l.parent \in Page /\ l.page \in Page /\ l.right \in Page
    /\ node[l.parent].type = "internal"
    /\ Slots(k, c) /\ m \in 1 .. Len(k) /\ c[m] = l.page /\ c[m + 1] = l.right
    /\ Fence(k, c, lo[l.parent], hi[l.parent], lo, upto)
    /\ \A z \in live : lo[z] < hi[z]
    /\ hi[l.page] = hi[l.right] /\ \A z \in Page : z # l.page => upto[z] = hi[z]
    /\ root \in live /\ root # l.page /\ lo[root] = 0 /\ hi[root] = MaxKey + 1
    /\ \A z \in live : z # l.parent /\ node[z].type = "internal" =>
          Fence(node[z].keys, node[z].children, lo[z], hi[z], lo, hi)

LEMMA RemovingNow ==
    ASSUME Inv, NEW l, l = run[TheWriter],
           NEW lo, NEW hi, NEW from, NEW upto,
           Order(node, root, l, lo, hi, from, upto), l.pc = "remove"
    PROVE  \E live, k, c, m : Removing(l, live, k, c, m, lo, hi, upto)
<1>1. Merging(l) /\ ~ Collapsing(l) /\ ~ Promoting(l) /\ ~ NewTop(l)
  BY DEF Merging, Collapsing, Promoting, Splitting, NewTop
<1>2. PICK g, p, r, live, m, k, c :
         /\ g = l.parent /\ p = l.page /\ r = l.right /\ live = Live(node, l) /\ m = l.slot
         /\ k = node[g].keys /\ c = node[g].children
  OBVIOUS
<1>3. l \in Locals /\ node \in [Page -> Node] /\ Shaped(node) /\ Neighbours(node, l)
  BY <1>1, AtWork
<1>4. PICK h : TreeOf(node, root, l, h) /\ Local(node, l, h)
  BY AtWork
<1>5. /\ g \in Page /\ p \in Page /\ r \in Page /\ p # r /\ node[g].type = "internal"
      /\ m \in 1 .. Len(k) /\ c[m] = p /\ c[m + 1] = r /\ p \in Range(c) /\ r \in Range(c)
      /\ Slots(k, c)
  BY <1>2, <1>3, PairParts
<1>6. g \in live /\ node[r].type = "freed"
  BY <1>2, <1>3, <1>4 DEF Neighbours, Local
<1>7. live = {z \in Page : node[z].type # "freed"} /\ Top(root, l) = root
  BY <1>1, <1>2, <1>6 DEF Live, Top
<1>8. /\ from = lo /\ upto = [hi EXCEPT ![p] = lo[r]] /\ hi[p] = hi[r]
  BY <1>1, <1>2 DEF Order, Sight
<1>9. Pages(node, live, root, lo, hi, lo, upto)
  <2>1. Pages(node, live, root, lo, hi, from, upto)
    BY <1>2, <1>7, OrderParts
  <2>2. from = lo
    BY <1>8
  <2> QED BY <2>1, <2>2
<1>10. /\ lo \in [Page -> Bound] /\ hi \in [Page -> Bound] /\ live \subseteq Page
       /\ root \in live /\ (\A z \in live : lo[z] < hi[z])
       /\ Fenced(node, live, lo, hi, lo, upto)
       /\ lo[root] = 0 /\ upto[root] = MaxKey + 1
  BY <1>9 DEF Pages
<1>11. \A z \in Page : z # p => upto[z] = hi[z]
  BY <1>8, <1>10
<1>12. PICK kids : kids = Kids(node, l)
  OBVIOUS
<1>13. Tree(live, kids, root, {}, {}, Parents(node), h)
  <2>1. Loose(l) = {} /\ Due(l) = {}
    BY <1>1 DEF Loose, Due
  <2> QED BY <1>2, <1>4, <1>7, <1>12, <2>1 DEF TreeOf
<1>14. /\ kids[g] = Range(c) \ {r}
       /\ \A z \in Page : z # g /\ node[z].type = "internal" => kids[z] = Range(node[z].children)
  BY <1>1, <1>2, <1>5, <1>12 DEF Kids
<1>15. /\ \A z \in live : kids[z] \subseteq live /\ root \notin kids[z]
       /\ \A z, y \in live : \A d : d \in kids[z] /\ d \in kids[y] => z = y
  BY <1>13 DEF Tree, Linked
<1>16. p \in kids[g] /\ p \in live /\ p # root
  BY <1>5, <1>6, <1>14, <1>15
<1>17. g # p
  BY <1>6, <1>13, <1>16, NotOwnKid
<1>18. \A z \in live : z # g /\ node[z].type = "internal" =>
          Fence(node[z].keys, node[z].children, lo[z], hi[z], lo, hi)
  <2>1. TAKE z \in live
  <2>2. HAVE z # g /\ node[z].type = "internal"
  <2>3. z \in Page /\ kids[z] = Range(node[z].children)
    BY <1>10, <1>14, <2>2
  <2>4. p \notin Range(node[z].children)
    BY <1>6, <1>15, <1>16, <2>2, <2>3
  <2>5. Fence(node[z].keys, node[z].children, lo[z], hi[z], lo, upto)
    BY <1>10, <2>2 DEF Fenced
  <2>6. Slots(node[z].keys, node[z].children)
    BY <1>3, <2>2, <2>3, NodeSlots
  <2>7. \A y \in Range(node[z].children) : lo[y] = lo[y] /\ hi[y] = upto[y]
    <3>1. \A y \in Range(node[z].children) : y \in Page
      BY <2>6, SlotParts
    <3> QED BY <1>11, <2>4, <3>1
  <2> QED BY <2>5, <2>6, <2>7, FenceKept
<1>19. hi[root] = MaxKey + 1
  BY <1>10, <1>11, <1>16
<1>20. Fence(k, c, lo[g], hi[g], lo, upto)
  BY <1>2, <1>5, <1>6, <1>10 DEF Fenced
<1>21. Removing(l, live, k, c, m, lo, hi, upto)
  BY <1>2, <1>3, <1>5, <1>6, <1>7, <1>8, <1>10, <1>11, <1>16, <1>17, <1>18, <1>19,
      <1>20 DEF Removing
<1> QED BY <1>21

LEMMA ShrinkGoes ==
    ASSUME Inv, NEW l, l = run[TheWriter],
           NEW lo, NEW hi, NEW from, NEW upto,
           Order(node, root, l, lo, hi, from, upto), l.pc = "remove", root' = root,
           NEW k2, k2 = RemoveAt(node[l.parent].keys, l.slot),
           NEW c2, c2 = RemoveAt(node[l.parent].children, l.slot + 1),
           node' = [node EXCEPT ![l.parent].keys = k2, ![l.parent].children = c2],
           NEW l2, run'[TheWriter] = l2, l2.pc \in {"rebalance", "return"}
    PROVE  Goes(run'[TheWriter])
<1>1. PICK live, k, c, m : Removing(l, live, k, c, m, lo, hi, upto)
  BY RemovingNow
<1>2. PICK g, p, r : g = l.parent /\ p = l.page /\ r = l.right
  OBVIOUS
<1>3. /\ k = node[g].keys /\ c = node[g].children /\ m = l.slot /\ live = Live(node, l)
      /\ node \in [Page -> Node] /\ live = {z \in Page : node[z].type # "freed"}
      /\ lo \in [Page -> Bound] /\ hi \in [Page -> Bound]
      /\ g \in live /\ p \in live /\ g # p /\ p # r /\ g \in Page /\ p \in Page /\ r \in Page
      /\ node[g].type = "internal"
      /\ Slots(k, c) /\ m \in 1 .. Len(k) /\ c[m] = p /\ c[m + 1] = r
      /\ Fence(k, c, lo[g], hi[g], lo, upto)
      /\ (\A z \in live : lo[z] < hi[z])
      /\ hi[p] = hi[r] /\ (\A z \in Page : z # p => upto[z] = hi[z])
      /\ root \in live /\ lo[root] = 0 /\ hi[root] = MaxKey + 1
      /\ \A z \in live : z # g /\ node[z].type = "internal" =>
            Fence(node[z].keys, node[z].children, lo[z], hi[z], lo, hi)
  BY <1>1, <1>2 DEF Removing
<1>4. Fence(k2, c2, lo[g], hi[g], lo, hi)
  <2>1. PICK n \in Nat : n = Len(k) /\ Len(c) = n + 1 /\ k \in Seq(Key) /\ c \in Seq(Page)
    <3>1. Slots(k, c)
      BY <1>3
    <3> QED BY <3>1, SlotParts DEF Slots
  <2>2. m \in 1 .. n /\ m + 1 \in 1 .. n + 1
    BY <1>3, <2>1
  <2>3. RemovedAt(Key, k, m, k2)
    BY <1>2, <1>3, <2>1, RemovePlaces
  <2>4. RemovedAt(Page, c, m + 1, c2)
    BY <1>2, <1>3, <2>1, <2>2, RemovePlaces
  <2>5. \A y \in Range(c) : hi[y] = IF y = c[m] THEN upto[c[m + 1]] ELSE upto[y]
    <3>1. \A y \in Range(c) : y \in Page
      BY <1>3, SlotParts
    <3> QED BY <1>3, <3>1
  <2>6. lo[g] \in Bound /\ hi[g] \in Bound
    BY <1>3
  <2>7. PICK a \in Bound, b \in Bound : a = lo[g] /\ b = hi[g]
    BY <2>6
  <2>8. Slots(k, c) /\ Fence(k, c, a, b, lo, upto)
    BY <1>3, <2>7
  <2>9. m \in 1 .. Len(k)
    BY <1>3
  <2>10. Fence(k2, c2, a, b, lo, hi)
    BY <2>3, <2>4, <2>5, <2>8, <2>9, FenceNarrows
  <2> QED BY <2>7, <2>10
<1>5. PICK n2 : n2 = node'
  OBVIOUS
<1>6. /\ n2[g].type = "internal" /\ n2[g].keys = k2 /\ n2[g].children = c2
      /\ \A z \in Page : z # g => n2[z] = node[z]
  <2>1. PICK x : x = node[g]
    OBVIOUS
  <2>2. x \in Node /\ x.type = "internal"
    BY <1>3, <2>1
  <2>3. x \in InternalNodes
    BY <2>2, InternalParts
  <2>4. PICK y : y = [x EXCEPT !.keys = k2, !.children = c2]
    OBVIOUS
  <2>5. y.type = "internal" /\ y.keys = k2 /\ y.children = c2
    BY <2>2, <2>3, <2>4 DEF InternalNodes
  <2>6. n2 = [node EXCEPT ![g] = y]
    BY <1>2, <1>3, <1>5, <2>1, <2>4
  <2> QED BY <1>3, <2>5, <2>6
<1>7. /\ ~ Promoting(l2) /\ ~ Merging(l2) /\ ~ Collapsing(l2) /\ ~ NewTop(l2)
  BY DEF Promoting, Splitting, Merging, Collapsing, NewTop
<1>8. Live(n2, l2) = live
  <2>1. Live(n2, l2) = {z \in Page : n2[z].type # "freed"}
    BY <1>7 DEF Live
  <2>2. \A z \in Page : n2[z].type # "freed" <=> z \in live
    BY <1>3, <1>6
  <2> QED BY <1>3, <2>1, <2>2
<1>9. Fenced(n2, live, lo, hi, lo, hi)
  <2>1. SUFFICES ASSUME NEW z \in live, n2[z].type = "internal"
                 PROVE  Fence(n2[z].keys, n2[z].children, lo[z], hi[z], lo, hi)
    BY DEF Fenced
  <2>2. CASE z = g
    BY <1>4, <1>6, <2>2
  <2>3. CASE z # g
    BY <1>3, <1>6, <2>1, <2>3
  <2> QED BY <2>2, <2>3
<1>10. Leaves(n2, live) = Leaves(node, Live(node, l))
  BY <1>3, <1>6 DEF Leaves
<1>11. \A z \in Leaves(node, Live(node, l)) :
          SameLeaf(node[z], n2[z]) /\ lo[z] = lo[z] /\ hi[z] = hi[z]
  BY <1>3, <1>6 DEF Leaves, SameLeaf
<1>12. Top(root', l2) \in live /\ lo[Top(root', l2)] = 0 /\ hi[Top(root', l2)] = MaxKey + 1
  BY <1>3, <1>7 DEF Top
<1>13. Sight(n2, l2, lo, hi, lo, hi)
  BY <1>7 DEF Sight
<1>14. Seek(n2, l2, lo, hi) /\ Emptied(n2, l2)
  BY <1>7, PlainEmptied DEF Seek
<1>15. /\ live \subseteq Page /\ lo \in [Page -> Bound] /\ hi \in [Page -> Bound]
       /\ \A z \in live : lo[z] < hi[z]
  BY <1>3
<1>16. run'[TheWriter] = l2 /\ l = run[TheWriter]
  OBVIOUS
<1>17. Order(node, root, l, lo, hi, from, upto)
  OBVIOUS
<1>18. Goes(run'[TheWriter])
  BY ONLY <1>5, <1>8, <1>9, <1>10, <1>11, <1>12, <1>13, <1>14, <1>15, <1>16, <1>17, UpperGoes
<1> QED BY <1>18

(* The root has lost its last key. *)
LEMMA CollapseGoes ==
    ASSUME Inv, NEW l, l = run[TheWriter],
           NEW lo, NEW hi, NEW from, NEW upto,
           Order(node, root, l, lo, hi, from, upto), l.pc = "remove",
           root' = root, node' = node, l.parent = root, Len(node[l.parent].keys) = 1,
           NEW l2, run'[TheWriter] = l2, l2.pc = "adopt", l2.then = "collapse",
           l2.right = l.page, l2.parent = l.parent
    PROVE  Goes(run'[TheWriter])
<1>1. PICK live, k, c, m : Removing(l, live, k, c, m, lo, hi, upto)
  BY RemovingNow
<1>2. PICK g, p, r : g = l.parent /\ p = l.page /\ r = l.right
  OBVIOUS
<1>3. /\ k = node[g].keys /\ c = node[g].children /\ live = Live(node, l)
      /\ node \in [Page -> Node] /\ live = {z \in Page : node[z].type # "freed"}
      /\ lo \in [Page -> Bound] /\ hi \in [Page -> Bound]
      /\ g \in live /\ p \in live /\ g # p /\ p # r /\ g \in Page /\ p \in Page /\ r \in Page
      /\ node[g].type = "internal"
      /\ Slots(k, c) /\ m \in 1 .. Len(k) /\ c[m] = p /\ c[m + 1] = r
      /\ Fence(k, c, lo[g], hi[g], lo, upto)
      /\ (\A z \in live : lo[z] < hi[z])
      /\ hi[p] = hi[r] /\ (\A z \in Page : z # p => upto[z] = hi[z])
      /\ lo[root] = 0 /\ hi[root] = MaxKey + 1
      /\ \A z \in live : z # g /\ node[z].type = "internal" =>
            Fence(node[z].keys, node[z].children, lo[z], hi[z], lo, hi)
  BY <1>1, <1>2 DEF Removing
<1>4. g = root /\ Len(k) = 1 /\ m = 1
  <2>1. g = root /\ Len(k) = 1
    BY <1>2, <1>3
  <2>2. m \in 1 .. Len(k)
    BY <1>3
  <2> QED BY <2>1, <2>2
<1>5. lo[p] = 0 /\ hi[p] = MaxKey + 1
  <2>1. \A i \in 1 .. 2 : lo[c[i]] = Edge(k, lo[g], hi[g], i - 1) /\ upto[c[i]] = Edge(k, lo[g], hi[g], i)
    <3>1. \A i \in 1 .. Len(k) + 1 :
             lo[c[i]] = Edge(k, lo[g], hi[g], i - 1) /\ upto[c[i]] = Edge(k, lo[g], hi[g], i)
      BY <1>3 DEF Fence
    <3>2. Len(k) + 1 = 2
      BY <1>4
    <3> QED BY <3>1, <3>2
  <2>2. Edge(k, lo[g], hi[g], 0) = lo[g] /\ Edge(k, lo[g], hi[g], 2) = hi[g]
    <3>1. Len(k) + 1 = 2
      BY <1>4
    <3> QED BY <3>1 DEF Edge
  <2>3. c[1] = p /\ c[2] = r
    BY <1>3, <1>4
  <2>4. lo[p] = lo[g] /\ upto[r] = hi[g]
    <3>1. lo[c[1]] = Edge(k, lo[g], hi[g], 0) /\ upto[c[2]] = Edge(k, lo[g], hi[g], 2)
      BY <2>1
    <3> QED BY <2>2, <2>3, <3>1
  <2> QED BY <1>3, <1>4, <2>4
<1>6. PICK live2 : live2 = live \ {g}
  OBVIOUS
<1>7. /\ ~ Promoting(l2) /\ ~ Merging(l2) /\ Collapsing(l2) /\ NewTop(l2) /\ l2.pc # "separator"
  BY DEF Promoting, Splitting, Merging, Collapsing, NewTop
<1>8. Live(node, l2) = live2 /\ live2 \subseteq Page /\ p \in live2
  <2>1. Live(node, l2) = {z \in Page : node[z].type # "freed" /\ z # g}
    BY <1>2, <1>7 DEF Live
  <2> QED BY <1>3, <1>6, <2>1
<1>9. Top(root', l2) = p
  BY <1>2, <1>7 DEF Top
<1>10. \A z \in live2 : lo[z] < hi[z]
  BY <1>3, <1>6
<1>11. Fenced(node, live2, lo, hi, lo, hi)
  BY <1>3, <1>6 DEF Fenced
<1>12. Leaves(node, live2) = Leaves(node, Live(node, l))
  BY <1>3, <1>6 DEF Leaves
<1>13. \A z \in Leaves(node, Live(node, l)) :
          SameLeaf(node[z], node[z]) /\ lo[z] = lo[z] /\ hi[z] = hi[z]
  BY DEF SameLeaf
<1>14. Sight(node, l2, lo, hi, lo, hi)
  BY <1>7 DEF Sight
<1>15. Seek(node, l2, lo, hi) /\ Emptied(node, l2)
  <2>1. l2.parent \in Page /\ node[l2.parent].type = "internal"
    BY <1>2, <1>3
  <2> QED BY <1>7, <2>1 DEF Seek, Emptied
<1>16. Top(root', l2) \in live2 /\ lo[Top(root', l2)] = 0 /\ hi[Top(root', l2)] = MaxKey + 1
  BY <1>5, <1>8, <1>9
<1>17. lo \in [Page -> Bound] /\ hi \in [Page -> Bound] /\ live2 \subseteq Page
  BY <1>3, <1>8
<1>18. PICK n2 : n2 = node
  OBVIOUS
<1>19. n2 = node' /\ Live(n2, l2) = live2
  BY <1>8, <1>18
<1>20. /\ Leaves(n2, live2) = Leaves(node, Live(node, l))
       /\ \A z \in Leaves(node, Live(node, l)) :
             SameLeaf(node[z], n2[z]) /\ lo[z] = lo[z] /\ hi[z] = hi[z]
       /\ Fenced(n2, live2, lo, hi, lo, hi) /\ Sight(n2, l2, lo, hi, lo, hi)
       /\ Seek(n2, l2, lo, hi) /\ Emptied(n2, l2)
  BY <1>11, <1>12, <1>13, <1>14, <1>15, <1>18
<1> QED BY <1>10, <1>16, <1>17, <1>19, <1>20, UpperGoes

LEMMA RemoveEntryGoes ==
    ASSUME OneWriter, Inv, NEW l, l = run[TheWriter],
           NEW lo, NEW hi, NEW from, NEW upto,
           Order(node, root, l, lo, hi, from, upto), RemoveEntry(TheWriter)
    PROVE  Goes(run'[TheWriter])
<1>1. PICK k2, c2 : /\ k2 = RemoveAt(node[l.parent].keys, l.slot)
                    /\ c2 = RemoveAt(node[l.parent].children, l.slot + 1)
  OBVIOUS
<1>2. l.pc = "remove" /\ root' = root
  BY DEF RemoveEntry, At
<1>3. l \in Locals
  BY <1>2, AtWork
<1>4. \/ /\ l.parent = root /\ k2 = << >> /\ node' = node
         /\ Continue(TheWriter, [l EXCEPT !.pc = "adopt", !.then = "collapse",
                                          !.right = c2[1], !.adopt = << << c2[1], 0 >> >>])
      \/ /\ node' = [node EXCEPT ![l.parent].keys = k2, ![l.parent].children = c2]
         /\ \/ Continue(TheWriter, [l EXCEPT !.pc = "rebalance", !.page = l.parent])
            \/ Continue(TheWriter, [l EXCEPT !.pc = "return"])
  BY <1>1 DEF RemoveEntry
<1>5. CASE /\ l.parent = root /\ k2 = << >> /\ node' = node
           /\ Continue(TheWriter, [l EXCEPT !.pc = "adopt", !.then = "collapse",
                                            !.right = c2[1], !.adopt = << << c2[1], 0 >> >>])
  <2>1. PICK live, k, c, m : Removing(l, live, k, c, m, lo, hi, upto)
    BY <1>2, RemovingNow
  <2>2. /\ k = node[l.parent].keys /\ c = node[l.parent].children /\ m = l.slot
        /\ Slots(k, c) /\ m \in 1 .. Len(k) /\ c[m] = l.page
    BY <2>1 DEF Removing
  <2>3. PICK n \in Nat : n = Len(k) /\ k \in Seq(Key) /\ c \in Seq(Page) /\ Len(c) = n + 1
    BY <2>2, SlotParts DEF Slots
  <2>4. Len(k2) = n - 1
    <3>1. RemovedAt(Key, k, m, k2)
      BY <1>1, <2>2, <2>3, RemovePlaces
    <3> QED BY <2>3, <3>1 DEF RemovedAt
  <2>5. n = 1 /\ m = 1
    <3>1. Len(k2) = 0
      BY <1>5, EmptyParts
    <3>2. n = 1
      <4>1. n \in Nat /\ n - 1 = 0
        BY <2>4, <3>1
      <4> QED BY <4>1
    <3>3. m \in 1 .. n
      BY <2>2, <2>3
    <3> QED BY <3>2, <3>3
  <2>6. c2[1] = l.page
    <3>1. PICK two \in 1 .. Len(c) : two = 2 /\ c2 = RemoveAt(c, two)
      BY <1>1, <2>2, <2>3, <2>5
    <3>2. RemovedAt(Page, c, two, c2)
      BY <2>3, <3>1, RemovePlaces
    <3>3. \A j \in 1 .. 1 : c2[j] = IF j < two THEN c[j] ELSE c[j + 1]
      BY <2>3, <2>5, <3>2 DEF RemovedAt
    <3>4. c2[1] = c[1]
      BY <3>1, <3>3
    <3> QED BY <2>2, <2>5, <3>4
  <2>7. PICK l2 : l2 = [l EXCEPT !.pc = "adopt", !.then = "collapse",
                                 !.right = c2[1], !.adopt = << << c2[1], 0 >> >>]
    OBVIOUS
  <2>8. run'[TheWriter] = l2
    BY <1>5, <2>7, LocalsNow
  <2>9. l2.pc = "adopt" /\ l2.then = "collapse" /\ l2.right = l.page /\ l2.parent = l.parent
    BY <1>3, <2>6, <2>7 DEF Locals
  <2>10. Len(node[l.parent].keys) = 1
    BY <2>2, <2>3, <2>5
  <2>11. node' = node /\ l.parent = root
    BY <1>5
  <2> QED BY <1>2, <2>8, <2>9, <2>10, <2>11, CollapseGoes
<1>6. ASSUME NEW l2, l2.pc \in {"rebalance", "return"}, Continue(TheWriter, l2),
             node' = [node EXCEPT ![l.parent].keys = k2, ![l.parent].children = c2]
      PROVE  Goes(run'[TheWriter])
  <2>1. run'[TheWriter] = l2
    BY <1>6, LocalsNow
  <2> QED BY <1>1, <1>2, <1>6, <2>1, ShrinkGoes
<1>7. PICK l3, l4 : /\ l3 = [l EXCEPT !.pc = "rebalance", !.page = l.parent]
                    /\ l4 = [l EXCEPT !.pc = "return"]
  OBVIOUS
<1>8. l3.pc = "rebalance" /\ l4.pc = "return"
  BY <1>3, <1>7 DEF Locals
<1>9. ASSUME node' = [node EXCEPT ![l.parent].keys = k2, ![l.parent].children = c2],
             Continue(TheWriter, l3) \/ Continue(TheWriter, l4)
      PROVE  Goes(run'[TheWriter])
  BY <1>6, <1>8, <1>9
<1> QED BY <1>4, <1>5, <1>7, <1>9

-----------------------------------------------------------------------------
(* Every step. *)
LEMMA FailedStops ==
    ASSUME Step(TheWriter)
    PROVE  run[TheWriter].pc # "failed"
BY DEF Step, Call, Find, Adopt, Adopted, StoreRoot, InsertInPlace, SplitLeaf, FixNext, GrowRoot,
       ToParent, InsertEntry, SplitInternal, RemoveKey, Rebalance, Siblings, ShareLeaves,
       SetSeparator, MergeLeaves, ShareChildren, MergeInternals, FreeRight, RemoveEntry,
           FreeRoot,
       Done, Fail, At

(* What is neither the effect of the call nor a failure. *)
Tends(w) ==
    \/ \E k \in Key :
          \/ \E v \in Value : Call(w, "insert", k, v)
          \/ Call(w, "delete", k, NoValue)
    \/ Find(w) \/ Adopt(w) \/ Adopted(w) \/ StoreRoot(w) \/ FixNext(w)
    \/ GrowRoot(w) \/ ToParent(w) \/ InsertEntry(w) \/ SplitInternal(w)
    \/ Rebalance(w) \/ Siblings(w)
    \/ ShareLeaves(w) \/ SetSeparator(w) \/ MergeLeaves(w)
    \/ ShareChildren(w) \/ MergeInternals(w)
    \/ FreeRight(w) \/ RemoveEntry(w) \/ FreeRoot(w) \/ Done(w)

LEMMA StepIs ==
    ASSUME Step(TheWriter)
    PROVE  \/ Tends(TheWriter)
           \/ InsertInPlace(TheWriter) \/ SplitLeaf(TheWriter) \/ RemoveKey(TheWriter)
           \/ Fail(TheWriter)
BY DEF Step, Tends

LEMMA TendingGoes ==
    ASSUME OneWriter, Inv, NeverOverrun', NEW l, l = run[TheWriter],
           NEW lo, NEW hi, NEW from, NEW upto,
           Order(node, root, l, lo, hi, from, upto), Tends(TheWriter),
           run'[TheWriter].pc # "failed"
    PROVE  Goes(run'[TheWriter])
<1>1. ASSUME NEW k \in Key, NEW v \in Value, Call(TheWriter, "insert", k, v)
      PROVE  Goes(run'[TheWriter])
  BY <1>1, CallGoes
<1>2. ASSUME NEW k \in Key, Call(TheWriter, "delete", k, NoValue)
      PROVE  Goes(run'[TheWriter])
  BY <1>2, CallGoes
<1>3. CASE Find(TheWriter) \/ Adopt(TheWriter) \/ Adopted(TheWriter) \/ StoreRoot(TheWriter)
           \/ FixNext(TheWriter)
  BY <1>3, FindGoes, AdoptGoes, AdoptedGoes, StoreRootGoes, FixNextGoes
<1>4. CASE GrowRoot(TheWriter) \/ ToParent(TheWriter) \/ InsertEntry(TheWriter)
           \/ SplitInternal(TheWriter)
  BY <1>4, GrowRootGoes, ToParentGoes, InsertEntryGoes, SplitInternalGoes
<1>5. CASE Rebalance(TheWriter) \/ Siblings(TheWriter) \/ ShareLeaves(TheWriter)
           \/ SetSeparator(TheWriter)
  BY <1>5, RebalanceGoes, SiblingsGoes, ShareLeavesGoes, SetSeparatorGoes
<1>6. CASE MergeLeaves(TheWriter) \/ ShareChildren(TheWriter) \/ MergeInternals(TheWriter)
  BY <1>6, MergeLeavesGoes, ShareChildrenGoes, MergeInternalsGoes
<1>7. CASE FreeRight(TheWriter) \/ FreeRoot(TheWriter)
  BY <1>7, FreeGoes
<1>8. CASE RemoveEntry(TheWriter) \/ Done(TheWriter)
  BY <1>8, RemoveEntryGoes, DoneGoes
<1> QED BY <1>1, <1>2, <1>3, <1>4, <1>5, <1>6, <1>7, <1>8 DEF Tends

LEMMA StepOrder ==
    ASSUME OneWriter, Inv, NeverOverrun', Ordered, Step(TheWriter)
    PROVE  Ordered'
<1>1. SUFFICES ASSUME run'[TheWriter].pc # "failed"
               PROVE  InOrder(node', root', run'[TheWriter])
  BY DEF Ordered
<1>2. PICK l : l = run[TheWriter]
  OBVIOUS
<1>3. l.pc # "failed"
  BY <1>2, FailedStops
<1>4. InOrder(node, root, l)
  BY <1>2, <1>3 DEF Ordered
<1>5. PICK lo, hi, from, upto : Order(node, root, l, lo, hi, from, upto)
  BY <1>4 DEF InOrder
<1>6. CASE Tends(TheWriter)
  BY <1>1, <1>2, <1>5, <1>6, TendingGoes DEF Goes
<1>7. CASE InsertInPlace(TheWriter)
  BY <1>2, <1>5, <1>7, InsertInPlacePuts DEF Puts
<1>8. CASE SplitLeaf(TheWriter)
  BY <1>2, <1>5, <1>8, SplitLeafPuts DEF Puts
<1>9. CASE RemoveKey(TheWriter)
  BY <1>2, <1>5, <1>9, RemoveKeyPuts DEF Puts
<1>10. CASE Fail(TheWriter)
  <2>1. run'[TheWriter] = [Idle EXCEPT !.pc = "failed"]
    BY <1>10, LocalsNow DEF Fail
  <2> QED BY <1>1, <2>1 DEF Idle
<1> QED BY <1>6, <1>7, <1>8, <1>9, <1>10, StepIs

LEMMA ReaderNextOrder ==
    ASSUME OneWriter, Inv, NeverOverrun', Ordered,
           [ReaderNext]_<< vars, reader, shared >>
    PROVE  Ordered'
<1>1. CASE Next
  BY <1>1, StepOrder DEF Next, OneWriter
<1>2. CASE UNCHANGED << node, root, run >>
  BY <1>2 DEF Ordered
<1> QED BY <1>1, <1>2, NextOrRead

LEMMA InitOrder ==
    ASSUME OneWriter, Init, NeverOverrun
    PROVE  Ordered
<1>1. PICK l, x : l = Idle /\ x = Leaf(<< >>, 0, 0, 0)
  OBVIOUS
<1>2. 1 \in Page
  BY BTreeConstants DEF Page
<1>3. node = [p \in Page |-> IF p = 1 THEN x ELSE Freed] /\ root = 1 /\ run[TheWriter] = l
  BY <1>1 DEF Init, OneWriter
<1>4. \A p \in Page : node[p] = IF p = 1 THEN x ELSE Freed
  BY <1>3
<1>5. x.type = "leaf" /\ x.entries = << >> /\ x.next = 0
  <2>1. x.type # "overrun"
    BY <1>2, <1>4 DEF NeverOverrun
  <2> QED BY <1>1, <2>1 DEF Leaf, Overrun
<1>6. l.pc = "idle"
  BY <1>1 DEF Idle
<1>7. /\ ~ Promoting(l) /\ ~ Merging(l) /\ ~ Collapsing(l) /\ ~ NewTop(l)
  BY <1>6 DEF Promoting, Splitting, Merging, Collapsing, NewTop
<1>8. Freed.type = "freed"
  BY DEF Freed
<1>9. PICK live : live = {1}
  OBVIOUS
<1>10. Live(node, l) = live /\ Top(root, l) = 1 /\ Leaves(node, live) = live
  <2>1. Live(node, l) = {p \in Page : node[p].type # "freed"} /\ Top(root, l) = 1
    BY <1>3, <1>7 DEF Live, Top
  <2>2. \A p \in Page : node[p].type # "freed" <=> p = 1
    BY <1>4, <1>5, <1>8
  <2>3. node[1].type = "leaf"
    BY <1>2, <1>4, <1>5
  <2> QED BY <1>2, <1>9, <2>1, <2>2, <2>3 DEF Leaves
<1>11. PICK lo, hi : lo = [p \in Page |-> 0] /\ hi = [p \in Page |-> MaxKey + 1]
  OBVIOUS
<1>12. /\ lo \in [Page -> Bound] /\ hi \in [Page -> Bound] /\ 0 < MaxKey + 1
       /\ lo[1] = 0 /\ hi[1] = MaxKey + 1
  BY <1>2, <1>11, BoundParts
<1>13. node[1].entries = << >> /\ node[1].next = 0 /\ node[1].type = "leaf"
  BY <1>2, <1>4, <1>5
<1>14. Row(node, live, lo, hi)
  <2>1. Places(live, lo, hi)
    BY <1>2, <1>9, <1>12 DEF Places
  <2>2. Shelf(<< >>, 0, MaxKey + 1)
    <3>1. << >> \in Seq(Entry) /\ Len(<< >>) = 0 /\ Range(<< >>) = {}
      BY EmptyParts
    <3> QED BY <3>1 DEF Shelf, Arranged
  <2>3. Follows(node, live, 1, lo, hi)
    BY <1>12, <1>13 DEF Follows
  <2> QED BY <1>9, <1>12, <1>13, <2>1, <2>2, <2>3 DEF Row, FirstLeaf
<1>15. Fenced(node, live, lo, hi, lo, hi)
  BY <1>9, <1>13 DEF Fenced
<1>16. Pages(node, live, 1, lo, hi, lo, hi)
  BY <1>2, <1>9, <1>10, <1>12, <1>14, <1>15 DEF Pages
<1>17. Sight(node, l, lo, hi, lo, hi) /\ Seek(node, l, lo, hi) /\ Emptied(node, l)
  BY <1>6, <1>7, PlainEmptied DEF Sight, Seek
<1>18. Order(node, root, l, lo, hi, lo, hi)
  BY <1>10, <1>16, <1>17 DEF Order
<1> QED BY <1>3, <1>18 DEF Ordered, InOrder

(* The tree and its order, together. *)
LEMMA ReaderNextKeeps ==
    ASSUME OneWriter, Inv, NeverOverrun', Ordered,
           [ReaderNext]_<< vars, reader, shared >>
    PROVE  Inv' /\ Ordered'
BY ReaderNextInv, ReaderNextOrder

LEMMA ReaderInitHolds ==
    ASSUME OneWriter, ReaderInit, NeverOverrun
    PROVE  Inv /\ Ordered
BY InitInv, InitOrder DEF ReaderInit

(* However a call splits nodes, shares between them and merges them, and in the
   middle of it too (btree.rs:35-41): each page is for the keys between two
   bounds, those of the children of a node lie end to end at its keys, what a
   leaf holds is sorted and within its bounds, the next leaf begins where it
   ends, and the page that a descent has come to is the one for the key.  As
   long as no call has failed and no rebuild was given more than fits. *)
THEOREM KeysStayInOrder ==
    ASSUME OneWriter
    PROVE  ReaderSpec /\ []NeverOverrun => []Ordered
<1>1. ReaderInit /\ NeverOverrun => Inv /\ Ordered
  BY ReaderInitHolds
<1>2. Inv /\ NeverOverrun' /\ Ordered /\ [ReaderNext]_<< vars, reader, shared >>
      => Inv' /\ Ordered'
  BY ReaderNextKeeps
<1> QED BY <1>1, <1>2, PTL DEF ReaderSpec

(* The chain of leaves lists what the tree holds. *)
LEMMA TreeReached ==
    ASSUME Inv, NEW l, l = run[TheWriter], l.pc # "failed",
           NEW lo, NEW hi, NEW from, NEW upto, Order(node, root, l, lo, hi, from, upto)
    PROVE  /\ Row(node, Leaves(node, Live(node, l)), lo, hi)
           /\ RowReached(node, Leaves(node, Live(node, l)))
<1>1. PICK S : S = Leaves(node, Live(node, l))
  OBVIOUS
<1>2. Row(node, S, lo, hi) /\ Emptied(node, l) /\ Live(node, l) \subseteq Page
  BY <1>1, OrderParts DEF Pages
<1>3. \A p \in S : p \in Live(node, l) /\ node[p].type = "leaf"
  BY <1>1 DEF Leaves
<1>4. ASSUME NEW p \in Page, node[p].type = "leaf", p \notin S
      PROVE  node[p].next \in S \cup {0}
  <2>1. p \notin Live(node, l)
    BY <1>1, <1>4 DEF Leaves
  <2>2. ~ (Collapsing(l) /\ p = l.parent)
    BY <1>2, <1>4 DEF Emptied
  <2>3. Merging(l) /\ p = l.right
    BY <1>4, <2>1, <2>2 DEF Live
  <2>4. node[l.page].type = "leaf" /\ node[p].next = node[l.page].next
    BY <1>2, <1>4, <2>3 DEF Emptied
  <2>5. Neighbours(node, l) /\ node \in [Page -> Node]
    BY <2>3, AtWork
  <2>6. /\ l.parent \in Live(node, l) /\ l.parent \in Page /\ node[l.parent].type = "internal"
        /\ l.page \in Range(node[l.parent].children) /\ l.page # l.right
    BY <2>5, PairParts DEF Neighbours
  <2>7. l.page \in Kids(node, l)[l.parent]
    BY <2>3, <2>6 DEF Kids
  <2>8. l.page \in Live(node, l)
    BY <2>6, <2>7, ChildrenLive
  <2>9. l.page \in S
    BY <1>1, <2>4, <2>8 DEF Leaves
  <2> QED BY <1>2, <2>4, <2>9, NextInRow
<1>5. RowReached(node, S)
  BY <1>3, <1>4 DEF RowReached
<1> QED BY <1>1, <1>2, <1>5

LEMMA BookListed ==
    ASSUME Inv, Ordered, NEW l, l = run[TheWriter], l.pc # "failed"
    PROVE  Contents \in Seq(Entry) /\ Arranged(Contents) /\ Range(Contents) = Book(node, l)
<1>1. PICK lo, hi, from, upto : Order(node, root, l, lo, hi, from, upto)
  BY DEF Ordered, InOrder
<1>2. PICK S : S = Leaves(node, Live(node, l))
  OBVIOUS
<1>3. Row(node, S, lo, hi) /\ RowReached(node, S)
  BY <1>1, <1>2, TreeReached
<1>4. Contents \in Seq(Entry) /\ Arranged(Contents) /\ Range(Contents) = Stock(node, S)
  BY <1>3, RowListed
<1> QED BY <1>2, <1>4 DEF Book

(* A map of the keys of B to their values, whoever computes it. *)
Charts(m, B) ==
    /\ m = [k \in {x.key : x \in B} |-> m[k]]
    /\ \A x \in B : m[x.key] = x.value

(* OrderedMap's map, from the chain of leaves, and its pending call. *)
Chart(all) == [k \in {all[i].key : i \in DOMAIN all} |-> all[Before(all, k) + 1].value]

LEMMA ChartOf ==
    ASSUME NEW all \in Seq(Entry), Arranged(all)
    PROVE  Charts(Chart(all), Range(all))
<1>1. PICK n \in Nat : n = Len(all) /\ DOMAIN all = 1 .. n
  BY EntryParts
<1>2. \A i \in 1 .. n : all[i] \in Range(all) /\ all[i].key \in Key /\ all[i].key \in Int
  BY <1>1, EntryParts
<1>3. \A x \in Range(all) : \E i \in 1 .. n : all[i] = x
  BY <1>1, EntryParts
<1>4. {all[i].key : i \in DOMAIN all} = {x.key : x \in Range(all)}
  BY <1>1, <1>2, <1>3
<1>5. ASSUME NEW x \in Range(all)
      PROVE  Chart(all)[x.key] = x.value
  <2>1. PICK i \in 1 .. n : all[i] = x
    BY <1>3
  <2>2. PICK k \in Key : k = x.key
    BY <1>2, <2>1
  <2>3. Holds(all, k)
    BY <1>1, <2>1, <2>2 DEF Holds
  <2>4. PICK b : b = Before(all, k)
    OBVIOUS
  <2>5. b \in 0 .. n /\ b + 1 <= n /\ all[b + 1].key = k
    BY <1>1, <2>3, <2>4, BeforeIs
  <2>6. PICK j \in 1 .. n : j = b + 1
    BY <2>5
  <2>7. all[j].key = all[i].key
    BY <2>1, <2>2, <2>5, <2>6
  <2>8. i = j
    <3>1. ~ (i < j)
      BY <1>1, <1>2, <2>7 DEF Arranged
    <3>2. ~ (j < i)
      BY <1>1, <1>2, <2>7 DEF Arranged
    <3> QED BY <3>1, <3>2
  <2>9. k \in {all[q].key : q \in DOMAIN all}
    BY <1>1, <2>1, <2>2
  <2>10. Chart(all)[k] = all[b + 1].value
    BY <2>4, <2>9 DEF Chart
  <2> QED BY <2>1, <2>2, <2>6, <2>8, <2>10
<1>6. Chart(all) = [k \in {x.key : x \in Range(all)} |-> Chart(all)[k]]
  BY <1>4 DEF Chart
<1> QED BY <1>5, <1>6 DEF Charts

LEMMA OneChart ==
    ASSUME NEW m, NEW m2, NEW B, Charts(m, B), Charts(m2, B)
    PROVE  m = m2
<1>1. PICK D : D = {x.key : x \in B}
  OBVIOUS
<1>2. m = [k \in D |-> m[k]] /\ m2 = [k \in D |-> m2[k]]
  BY <1>1 DEF Charts
<1>3. \A k \in D : m[k] = m2[k]
  BY <1>1 DEF Charts
<1> QED BY <1>2, <1>3

(* m with v for k. *)
PutIn(m, k, v) == [j \in DOMAIN m \cup {k} |-> IF j = k THEN v ELSE m[j]]

LEMMA ChartPut ==
    ASSUME NEW m, NEW m2, NEW B, NEW k, NEW v, Charts(m, B),
           Charts(m2, Apart(B, k) \cup {[key |-> k, value |-> v]})
    PROVE  m2 = PutIn(m, k, v)
<1>1. PICK D, C, e : /\ D = {x.key : x \in B} /\ e = [key |-> k, value |-> v]
                     /\ C = Apart(B, k) \cup {e}
  OBVIOUS
<1>2. e.key = k /\ e.value = v /\ e \in C
  BY <1>1
<1>3. m = [j \in D |-> m[j]] /\ DOMAIN m = D
  BY <1>1 DEF Charts
<1>4. m2 = [j \in {x.key : x \in C} |-> m2[j]] /\ \A x \in C : m2[x.key] = x.value
  BY <1>1 DEF Charts
<1>5. \A x : x \in C <=> x = e \/ (x \in B /\ x.key # k)
  BY <1>1 DEF Apart
<1>6. {x.key : x \in C} = D \cup {k}
  <2>1. ASSUME NEW j PROVE j \in {x.key : x \in C} <=> j \in D \/ j = k
    BY <1>1, <1>2, <1>5
  <2> QED BY <2>1
<1>7. ASSUME NEW j \in D \cup {k} PROVE m2[j] = IF j = k THEN v ELSE m[j]
  <2>1. CASE j = k
    BY <1>2, <1>4, <2>1
  <2>2. CASE j # k
    <3>1. PICK x \in B : x.key = j
      BY <1>1, <1>7, <2>2
    <3>2. m[j] = x.value
      BY <3>1 DEF Charts
    <3>3. x \in C
      BY <1>5, <2>2, <3>1
    <3> QED BY <1>4, <2>2, <3>1, <3>2, <3>3
  <2> QED BY <2>1, <2>2
<1>8. m2 = [j \in D \cup {k} |-> m2[j]]
  BY <1>4, <1>6
<1> QED BY <1>3, <1>7, <1>8 DEF PutIn

LEMMA ChartCut ==
    ASSUME NEW m, NEW m2, NEW B, NEW k, Charts(m, B), Charts(m2, Apart(B, k))
    PROVE  m2 = Restrict(m, DOMAIN m \ {k})
<1>1. PICK D, C : D = {x.key : x \in B} /\ C = Apart(B, k)
  OBVIOUS
<1>3. m = [j \in D |-> m[j]] /\ DOMAIN m = D
  BY <1>1 DEF Charts
<1>4. m2 = [j \in {x.key : x \in C} |-> m2[j]] /\ \A x \in C : m2[x.key] = x.value
  BY <1>1 DEF Charts
<1>5. \A x : x \in C <=> x \in B /\ x.key # k
  BY <1>1 DEF Apart
<1>6. {x.key : x \in C} = D \ {k}
  <2>1. ASSUME NEW j PROVE j \in {x.key : x \in C} <=> j \in D /\ j # k
    BY <1>1, <1>5
  <2> QED BY <2>1
<1>7. ASSUME NEW j \in D \ {k} PROVE m2[j] = m[j]
  <2>1. PICK x \in B : x.key = j
    BY <1>1, <1>7
  <2>2. m[j] = x.value /\ x \in C
    BY <1>5, <1>7, <2>1 DEF Charts
  <2> QED BY <1>4, <2>1, <2>2
<1>8. m2 = [j \in D \ {k} |-> m2[j]]
  BY <1>4, <1>6
<1> QED BY <1>3, <1>7, <1>8 DEF Restrict

(* What a step makes of the call: it starts, looks for its leaf, takes effect
   there, tidies up, ends or breaks off. *)
Working ==
    {"return", "next", "promote", "adopt", "root", "parent", "rebalance", "siblings",
     "share", "separator", "free", "remove", "collapse"}

SameCall(l, l2) == l2.op = l.op /\ l2.key = l.key /\ l2.value = l.value

Starts(l, l2) ==
    /\ l.pc = "idle" /\ l2.pc = "find" /\ l2.op \in {"insert", "delete"} /\ l2.key \in Key
    /\ l2.value \in Value \cup {NoValue} /\ l2.done = FALSE
Seeks(l, l2) ==
    l.pc = "find" /\ l2.pc \in {"find", l.op} /\ SameCall(l, l2) /\ l2.done = l.done
Works(l, l2) ==
    l.pc \in {"insert", "delete"} /\ l2.pc \in Working /\ SameCall(l, l2) /\ l2.done = TRUE
Tidies(l, l2) ==
    l.pc \in Working /\ l2.pc \in Working /\ SameCall(l, l2) /\ l2.done = l.done
Ends(l, l2) == l.pc \in Working /\ l2 = Idle
Breaks(l, l2) == l.pc \notin {"idle", "failed"} /\ l2 = [Idle EXCEPT !.pc = "failed"]

(* The call that the writer has in hand, and whether it has taken effect. *)
Tells(l) ==
    /\ l.pc \in {"idle", "failed"} => l.op = "none" /\ l.done = FALSE
    /\ l.pc \notin {"idle", "failed"} =>
          /\ l.op \in {"insert", "delete"} /\ l.key \in Key
          /\ l.value \in Value \cup {NoValue}
    /\ l.pc \in {"find", "insert", "delete"} => l.done = FALSE
    /\ l.pc \in Working => l.done = TRUE
    /\ l.pc \in {"insert", "delete"} => l.op = l.pc

Told == Tells(run[TheWriter])

LEMMA TellsOn ==
    ASSUME NEW l, NEW l2, Tells(l),
           \/ Starts(l, l2) \/ Seeks(l, l2) \/ Works(l, l2) \/ Tidies(l, l2) \/ Ends(l, l2)
           \/ Breaks(l, l2)
    PROVE  Tells(l2)
<1>1. CASE Starts(l, l2)
  BY <1>1 DEF Starts, Tells, Working
<1>2. CASE Seeks(l, l2)
  BY <1>2 DEF Seeks, Tells, Working, SameCall
<1>3. CASE Works(l, l2)
  BY <1>3 DEF Works, Tells, Working, SameCall
<1>4. CASE Tidies(l, l2)
  BY <1>4 DEF Tidies, Tells, Working, SameCall
<1>5. CASE Ends(l, l2)
  BY <1>5 DEF Ends, Tells, Working, Idle
<1>6. CASE Breaks(l, l2)
  BY <1>6 DEF Breaks, Tells, Working, Idle
<1> QED BY <1>1, <1>2, <1>3, <1>4, <1>5, <1>6

(* Fields that a step leaves alone. *)
LEMMA LaterStage ==
    ASSUME NEW l \in Locals, NEW l2, NEW x \in Locals, l2 = x, l.pc \in Working,
        x.pc \in Working,
           x.op = l.op, x.key = l.key, x.value = l.value, x.done = l.done
    PROVE  Tidies(l, l2)
BY DEF Tidies, SameCall

LEMMA TidyingMoves ==
    ASSUME OneWriter, Inv, NEW l, l = run[TheWriter], NEW l2, l2 = run'[TheWriter],
           \/ Adopt(TheWriter) \/ Adopted(TheWriter) \/ StoreRoot(TheWriter)
           \/ FixNext(TheWriter) \/ GrowRoot(TheWriter) \/ ToParent(TheWriter)
           \/ InsertEntry(TheWriter) \/ SplitInternal(TheWriter)
    PROVE  Tidies(l, l2) \/ Ends(l, l2)
<1>1. l \in Locals
  BY DEF Inv, Good, Typed
<1>2. CASE Adopt(TheWriter)
  <2>1. l.pc = "adopt" /\ l2 = [l EXCEPT !.adopt = Tail(@)]
    BY <1>2, LocalsNow DEF Adopt, At
  <2> QED BY <1>1, <2>1 DEF Tidies, SameCall, Working, Locals
<1>3. CASE Adopted(TheWriter)
  <2>1. l.pc = "adopt" /\ (l2 = Idle \/ l2 = [l EXCEPT !.pc = l.then])
    BY <1>3, LocalsNow DEF Adopted, At, Return
  <2>2. l.then \in {"root", "return", "promote", "free", "collapse"}
    BY <2>1, AtWork DEF Asked
  <2> QED BY <1>1, <2>1, <2>2 DEF Tidies, Ends, SameCall, Working, Locals
<1>4. CASE StoreRoot(TheWriter)
  <2>1. l.pc = "root" /\ l2 = Idle
    BY <1>4, LocalsNow DEF StoreRoot, At, Return
  <2> QED BY <2>1 DEF Ends, Working
<1>5. CASE FixNext(TheWriter)
  <2>1. l.pc = "next" /\ l2 = [l EXCEPT !.next = 0, !.pc = l.then]
    BY <1>5, LocalsNow DEF FixNext, At
  <2>2. l.then \in {"promote", "free"}
    BY <2>1, AtWork DEF Asked
  <2> QED BY <1>1, <2>1, <2>2 DEF Tidies, SameCall, Working, Locals
<1>6. CASE GrowRoot(TheWriter)
  <2>1. PICK q, a : l.pc = "promote"
                    /\ l2 = [l EXCEPT !.pc = "adopt", !.then = "root", !.right = q, !.adopt = a]
    BY <1>6, LocalsNow DEF GrowRoot, At
  <2> QED BY <1>1, <2>1 DEF Tidies, SameCall, Working, Locals
<1>7. CASE ToParent(TheWriter)
  <2>1. PICK p : l.pc = "promote" /\ l2 = [l EXCEPT !.pc = "parent", !.page = p]
    BY <1>7, LocalsNow DEF ToParent, At
  <2> QED BY <1>1, <2>1 DEF Tidies, SameCall, Working, Locals
<1>8. CASE InsertEntry(TheWriter)
  <2>1. PICK a : l.pc = "parent"
                 /\ l2 = [l EXCEPT !.pc = "adopt", !.then = "return", !.adopt = a]
    BY <1>8, LocalsNow DEF InsertEntry, At
  <2> QED BY <1>1, <2>1 DEF Tidies, SameCall, Working, Locals
<1>9. CASE SplitInternal(TheWriter)
  <2>1. PICK q, s, a :
           Continue(TheWriter, [run[TheWriter] EXCEPT !.pc = "adopt", !.then = "promote",
                                                      !.right = q, !.sep = s, !.adopt = a])
    BY <1>9 DEF SplitInternal
  <2>2. l.pc = "parent"
    BY <1>9 DEF SplitInternal, At
  <2>3. l2 = [l EXCEPT !.pc = "adopt", !.then = "promote", !.right = q, !.sep = s, !.adopt = a]
    BY <2>1, LocalsNow
  <2> QED BY <1>1, <2>2, <2>3 DEF Tidies, SameCall, Working, Locals
<1> QED BY <1>2, <1>3, <1>4, <1>5, <1>6, <1>7, <1>8, <1>9

LEMMA FreeingMoves ==
    ASSUME OneWriter, Inv, NEW l, l = run[TheWriter], NEW l2, l2 = run'[TheWriter],
           FreeRight(TheWriter) \/ FreeRoot(TheWriter)
    PROVE  Tidies(l, l2) \/ (Breaks(l, l2) /\ node' = node)
<1>1. l \in Locals
  BY DEF Inv, Good, Typed
<1>2. PICK p : FreePage(TheWriter, p) /\ l.pc \in {"free", "collapse"}
  BY DEF FreeRight, FreeRoot, At
<1>3. CASE p \in held
  <2>1. l2 = [Idle EXCEPT !.pc = "failed"] /\ node' = node
    BY <1>2, <1>3, LocalsNow DEF FreePage
  <2> QED BY <1>2, <2>1 DEF Breaks
<1>4. CASE p \notin held
  <2>1. l2 = [l EXCEPT !.pc = IF l.pc = "free" THEN "remove" ELSE "root"]
    BY <1>2, <1>4, LocalsNow DEF FreePage
  <2> QED BY <1>1, <1>2, <2>1 DEF Tidies, SameCall, Working, Locals
<1> QED BY <1>3, <1>4

LEMMA BalancingMoves ==
    ASSUME OneWriter, Inv, NEW l, l = run[TheWriter], NEW l2, l2 = run'[TheWriter],
           \/ Rebalance(TheWriter) \/ Siblings(TheWriter)
           \/ ShareLeaves(TheWriter) \/ SetSeparator(TheWriter) \/ MergeLeaves(TheWriter)
           \/ ShareChildren(TheWriter) \/ MergeInternals(TheWriter)
           \/ RemoveEntry(TheWriter) \/ Done(TheWriter)
    PROVE  Tidies(l, l2) \/ Ends(l, l2)
<1>1. l \in Locals
  BY DEF Inv, Good, Typed
<1>2. CASE Rebalance(TheWriter)
  <2>1. l.pc = "rebalance" /\ (l2 = Idle \/ \E p : l2 = [l EXCEPT !.pc = "siblings", !.parent = p])
    BY <1>2, LocalsNow DEF Rebalance, At, Return
  <2> QED BY <1>1, <2>1 DEF Tidies, Ends, SameCall, Working, Locals
<1>3. CASE Siblings(TheWriter)
  <2>1. PICK c, i : IF i > 1
               THEN Continue(TheWriter, [l EXCEPT !.pc = "share", !.then = "left",
                                   !.page = c[i - 1], !.right = c[i], !.slot = i - 1])
               ELSE IF Len(c) > 1
               THEN Continue(TheWriter, [l EXCEPT !.pc = "share", !.then = "right",
                                   !.right = c[2], !.slot = 1])
               ELSE Continue(TheWriter, Idle)
    BY <1>3 DEF Siblings, Return
  <2>2. l.pc = "siblings"
    BY <1>3 DEF Siblings, At
  <2>3. CASE i > 1
    <3>1. l2 = [l EXCEPT !.pc = "share", !.then = "left", !.page = c[i - 1], !.right = c[i],
                         !.slot = i - 1]
      BY <2>1, <2>3, LocalsNow
    <3> QED BY <1>1, <2>2, <3>1 DEF Tidies, SameCall, Working, Locals
  <2>4. CASE ~ (i > 1) /\ Len(c) > 1
    <3>1. l2 = [l EXCEPT !.pc = "share", !.then = "right", !.right = c[2], !.slot = 1]
      BY <2>1, <2>4, LocalsNow
    <3> QED BY <1>1, <2>2, <3>1 DEF Tidies, SameCall, Working, Locals
  <2>5. CASE ~ (i > 1) /\ ~ (Len(c) > 1)
    <3>1. l2 = Idle
      BY <2>1, <2>5, LocalsNow
    <3> QED BY <2>2, <3>1 DEF Ends, Working
  <2> QED BY <2>3, <2>4, <2>5
<1>4. CASE ShareLeaves(TheWriter)
  <2>1. PICK s : l.pc = "share" /\ l2 = [l EXCEPT !.pc = "separator", !.sep = s]
    BY <1>4, LocalsNow DEF ShareLeaves, At
  <2> QED BY <1>1, <2>1 DEF Tidies, SameCall, Working, Locals
<1>5. CASE SetSeparator(TheWriter)
  <2>1. l.pc = "separator" /\ l2 = Idle
    BY <1>5, LocalsNow DEF SetSeparator, At, Return
  <2> QED BY <2>1 DEF Ends, Working
<1>6. CASE MergeLeaves(TheWriter)
  <2>1. PICK x : l.pc = "share" /\ l2 = [l EXCEPT !.pc = "next", !.then = "free", !.next = x]
    BY <1>6, LocalsNow DEF MergeLeaves, At
  <2> QED BY <1>1, <2>1 DEF Tidies, SameCall, Working, Locals
<1>7. CASE ShareChildren(TheWriter)
  <2>1. PICK a : l.pc = "share"
                 /\ l2 = [l EXCEPT !.pc = "adopt", !.then = "return", !.adopt = a]
    BY <1>7, LocalsNow DEF ShareChildren, ShareChildFromLeft, ShareChildFromRight, At
  <2> QED BY <1>1, <2>1 DEF Tidies, SameCall, Working, Locals
<1>8. CASE MergeInternals(TheWriter)
  <2>1. PICK a : l.pc = "share"
                 /\ l2 = [l EXCEPT !.pc = "adopt", !.then = "free", !.adopt = a]
    BY <1>8, LocalsNow DEF MergeInternals, At
  <2> QED BY <1>1, <2>1 DEF Tidies, SameCall, Working, Locals
<1>9. CASE RemoveEntry(TheWriter)
  <2>1. /\ l.pc = "remove"
        /\ \/ \E r, a : l2 = [l EXCEPT !.pc = "adopt", !.then = "collapse", !.right = r, !.adopt = a]
           \/ \E p : l2 = [l EXCEPT !.pc = "rebalance", !.page = p]
           \/ l2 = [l EXCEPT !.pc = "return"]
    BY <1>9, LocalsNow DEF RemoveEntry, At
  <2> QED BY <1>1, <2>1 DEF Tidies, SameCall, Working, Locals
<1>10. CASE Done(TheWriter)
  <2>1. l.pc = "return" /\ l2 = Idle
    BY <1>10, LocalsNow DEF Done, At, Return
  <2> QED BY <2>1 DEF Ends, Working
<1> QED BY <1>2, <1>3, <1>4, <1>5, <1>6, <1>7, <1>8, <1>9, <1>10

LEMMA AskingMoves ==
    ASSUME OneWriter, Inv, NEW l, l = run[TheWriter], NEW l2, l2 = run'[TheWriter],
           \/ \E k \in Key :
                 \/ \E v \in Value : Call(TheWriter, "insert", k, v)
                 \/ Call(TheWriter, "delete", k, NoValue)
           \/ Find(TheWriter)
    PROVE  Starts(l, l2) \/ Seeks(l, l2)
<1>1. l \in Locals
  BY DEF Inv, Good, Typed
<1>2. ASSUME NEW op \in {"insert", "delete"}, NEW k \in Key, NEW v \in Value \cup {NoValue},
             Call(TheWriter, op, k, v)
      PROVE  Starts(l, l2)
  <2>1. l.pc = "idle" /\ l2 = [Idle EXCEPT !.pc = "find", !.op = op, !.key = k, !.value = v,
                                           !.page = root]
    BY <1>2, LocalsNow DEF Call, At
  <2> QED BY <2>1 DEF Starts, Idle
<1>3. CASE Find(TheWriter)
  <2>1. l.pc = "find" /\ (l2 = [l EXCEPT !.pc = l.op] \/ \E p : l2 = [l EXCEPT !.page = p])
    BY <1>3, LocalsNow DEF Find, At
  <2> QED BY <1>1, <2>1 DEF Seeks, SameCall, Locals
<1> QED BY <1>2, <1>3

LEMMA EffectMoves ==
    ASSUME OneWriter, Inv, NEW l, l = run[TheWriter], NEW l2, l2 = run'[TheWriter],
           InsertInPlace(TheWriter) \/ SplitLeaf(TheWriter) \/ RemoveKey(TheWriter)
    PROVE  Works(l, l2)
<1>1. l \in Locals
  BY DEF Inv, Good, Typed
<1>2. CASE InsertInPlace(TheWriter)
  <2>1. l.pc = "insert" /\ l2 = [l EXCEPT !.done = TRUE, !.pc = "return"]
    BY <1>2, LocalsNow DEF InsertInPlace, At
  <2> QED BY <1>1, <2>1 DEF Works, SameCall, Working, Locals
<1>3. CASE SplitLeaf(TheWriter)
  <2>1. PICK q, s, x :
           Continue(TheWriter, [run[TheWriter] EXCEPT !.done = TRUE, !.right = q, !.sep = s,
                                              !.next = x, !.pc = "next", !.then = "promote"])
    BY <1>3 DEF SplitLeaf
  <2>2. l.pc = "insert"
    BY <1>3 DEF SplitLeaf, At
  <2>3. l2 = [l EXCEPT !.done = TRUE, !.right = q, !.sep = s, !.next = x, !.pc = "next",
                       !.then = "promote"]
    BY <2>1, LocalsNow
  <2> QED BY <1>1, <2>2, <2>3 DEF Works, SameCall, Working, Locals
<1>4. CASE RemoveKey(TheWriter)
  <2>1. PICK pc \in {"rebalance", "return"} :
           l.pc = "delete" /\ l2 = [l EXCEPT !.done = TRUE, !.pc = pc]
    BY <1>4, LocalsNow DEF RemoveKey, At
  <2> QED BY <1>1, <2>1 DEF Works, SameCall, Working, Locals
<1> QED BY <1>2, <1>3, <1>4

(* The state that OrderedMap sees. *)
Pending(l) ==
    IF l.op = "none" THEN NoCall ELSE [op |-> l.op, key |-> l.key, value |-> l.value]
MapNow == Chart(Contents)
PendingNow == Pending(run[TheWriter])
DoneNow == run[TheWriter].done

(* Its steps, over that state. *)
MapStarts(m, p, d, m2, p2, d2) ==
    /\ m2 = m /\ p = NoCall /\ d2 = FALSE
    /\ \E op \in {"insert", "delete"}, k \in Key, v \in Value \cup {NoValue} :
          p2 = [op |-> op, key |-> k, value |-> v]
MapWorks(m, p, d, m2, p2, d2) ==
    /\ p # NoCall /\ d = FALSE /\ p2 = p /\ d2 = TRUE
    /\ m2 = IF p.op = "insert"
            THEN PutIn(m, p.key, p.value)
            ELSE Restrict(m, DOMAIN m \ {p.key})
MapEnds(m, p, d, m2, p2, d2) ==
    m2 = m /\ p # NoCall /\ d = TRUE /\ p2 = NoCall /\ d2 = FALSE
MapBreaks(m, p, d, m2, p2, d2) ==
    m2 = m /\ p # NoCall /\ p2 = NoCall /\ d2 = FALSE
MapSteps(m, p, d, m2, p2, d2) ==
    \/ m2 = m /\ p2 = p /\ d2 = d
    \/ MapStarts(m, p, d, m2, p2, d2) \/ MapWorks(m, p, d, m2, p2, d2)
    \/ MapEnds(m, p, d, m2, p2, d2) \/ MapBreaks(m, p, d, m2, p2, d2)

LEMMA MapStepIs ==
    ASSUME MapSteps(MapNow, PendingNow, DoneNow, MapNow', PendingNow', DoneNow')
    PROVE  [Map!Next]_(Map!vars)
<1>1. CASE MapNow' = MapNow /\ PendingNow' = PendingNow /\ DoneNow' = DoneNow
  <2>1. Map!vars' = Map!vars
    BY <1>1 DEF Map!vars, MapNow, PendingNow, DoneNow, Chart, Pending
  <2> QED BY <2>1
<1>2. CASE MapStarts(MapNow, PendingNow, DoneNow, MapNow', PendingNow', DoneNow')
  <2>1. PICK op \in {"insert", "delete"}, k \in Key, v \in Value \cup {NoValue} :
           PendingNow' = [op |-> op, key |-> k, value |-> v]
    BY <1>2 DEF MapStarts
  <2>2. Map!Call(op, k, v)
    BY <1>2, <2>1 DEF Map!Call, MapStarts, MapNow, PendingNow, DoneNow, Chart, Pending
  <2> QED BY <2>2 DEF Map!Next
<1>3. CASE MapWorks(MapNow, PendingNow, DoneNow, MapNow', PendingNow', DoneNow')
  <2>1. /\ PendingNow # NoCall /\ ~ DoneNow /\ PendingNow' = PendingNow /\ DoneNow' = TRUE
        /\ MapNow' = IF PendingNow.op = "insert"
                     THEN PutIn(MapNow, PendingNow.key, PendingNow.value)
                     ELSE Restrict(MapNow, DOMAIN MapNow \ {PendingNow.key})
    BY <1>3 DEF MapWorks
  <2>2. Map!Effect
    BY ONLY <2>1, Zenon DEF Map!Effect, Map!Restrict, Restrict, PutIn, MapNow, PendingNow,
        DoneNow, Chart, Pending
  <2> QED BY <2>2 DEF Map!Next
<1>4. CASE MapEnds(MapNow, PendingNow, DoneNow, MapNow', PendingNow', DoneNow')
  <2>1. Map!Return
    BY <1>4 DEF Map!Return, MapEnds, MapNow, PendingNow, DoneNow, Chart, Pending
  <2> QED BY <2>1 DEF Map!Next
<1>5. CASE MapBreaks(MapNow, PendingNow, DoneNow, MapNow', PendingNow', DoneNow')
  <2>1. Map!Abort
    BY <1>5 DEF Map!Abort, MapBreaks, MapNow, PendingNow, DoneNow, Chart, Pending
  <2> QED BY <2>1 DEF Map!Next
<1> QED BY <1>1, <1>2, <1>3, <1>4, <1>5 DEF MapSteps

MapIs == run[TheWriter].pc # "failed" => Charts(MapNow, Book(node, run[TheWriter]))

LEMMA ContentsChart ==
    ASSUME Inv, Ordered
    PROVE  MapIs
<1>1. ASSUME run[TheWriter].pc # "failed"
      PROVE  Charts(MapNow, Book(node, run[TheWriter]))
  <2>1. Contents \in Seq(Entry) /\ Arranged(Contents)
        /\ Range(Contents) = Book(node, run[TheWriter])
    BY <1>1, BookListed
  <2>2. Charts(Chart(Contents), Range(Contents))
    BY <2>1, ChartOf
  <2> QED BY <2>1, <2>2 DEF MapNow
<1> QED BY <1>1 DEF MapIs

LEMMA PendingIs ==
    ASSUME NEW l, Tells(l)
    PROVE  /\ l.pc \in {"idle", "failed"} => Pending(l) = NoCall
           /\ l.pc \notin {"idle", "failed"} =>
                 /\ Pending(l) = [op |-> l.op, key |-> l.key, value |-> l.value]
                 /\ Pending(l) # NoCall
BY BTreeConstants DEF Tells, Pending

(* What the writer's step makes of the map and of the call, step by step. *)
LEMMA MovesMap ==
    ASSUME NEW l, NEW l2, Tells(l), NEW m, NEW m2, m2 = m,
           \/ Starts(l, l2) \/ Seeks(l, l2) \/ Tidies(l, l2) \/ Ends(l, l2) \/ Breaks(l, l2)
    PROVE  MapSteps(m, Pending(l), l.done, m2, Pending(l2), l2.done)
<1>1. Tells(l2)
  BY TellsOn
<1>2. CASE Starts(l, l2)
  <2>1. /\ Pending(l) = NoCall /\ Pending(l2) = [op |-> l2.op, key |-> l2.key, value |-> l2.value]
        /\ l2.op \in {"insert", "delete"} /\ l2.key \in Key
        /\ l2.value \in Value \cup {NoValue} /\ l2.done = FALSE
    BY <1>1, <1>2, PendingIs DEF Starts
  <2>2. MapStarts(m, Pending(l), l.done, m2, Pending(l2), l2.done)
    BY <2>1 DEF MapStarts
  <2> QED BY <2>2 DEF MapSteps
<1>3. CASE Seeks(l, l2) \/ Tidies(l, l2)
  <2>1. Pending(l2) = Pending(l) /\ l2.done = l.done
    BY <1>3 DEF Seeks, Tidies, SameCall, Pending
  <2> QED BY <2>1 DEF MapSteps
<1>4. CASE Ends(l, l2)
  <2>1. l.done = TRUE /\ l.pc \notin {"idle", "failed"} /\ l2.pc = "idle" /\ l2.done = FALSE
    BY <1>4 DEF Ends, Tells, Working, Idle
  <2>2. MapEnds(m, Pending(l), l.done, m2, Pending(l2), l2.done)
    BY <1>1, <2>1, PendingIs DEF MapEnds
  <2> QED BY <2>2 DEF MapSteps
<1>5. CASE Breaks(l, l2)
  <2>1. l.pc \notin {"idle", "failed"} /\ l2.pc = "failed" /\ l2.done = FALSE
    BY <1>5 DEF Breaks, Idle
  <2>2. MapBreaks(m, Pending(l), l.done, m2, Pending(l2), l2.done)
    BY <1>1, <2>1, PendingIs DEF MapBreaks
  <2> QED BY <2>2 DEF MapSteps
<1> QED BY <1>2, <1>3, <1>4, <1>5

LEMMA WorksMap ==
    ASSUME NEW l, NEW l2, Tells(l), Works(l, l2), NEW B, NEW m, NEW m2, Charts(m, B),
           l.pc = "insert" =>
              Charts(m2, Apart(B, l.key) \cup {[key |-> l.key, value |-> l.value]}),
           l.pc = "delete" => Charts(m2, Apart(B, l.key))
    PROVE  MapSteps(m, Pending(l), l.done, m2, Pending(l2), l2.done)
<1>1. PICK p : p = Pending(l)
  OBVIOUS
<1>2. p = [op |-> l.op, key |-> l.key, value |-> l.value] /\ p # NoCall
  BY <1>1, PendingIs DEF Works
<1>3. p.op = l.pc /\ p.key = l.key /\ p.value = l.value /\ l.done = FALSE
  BY <1>2 DEF Tells, Works
<1>4. Pending(l2) = p /\ l2.done = TRUE
  BY <1>1 DEF Works, SameCall, Pending
<1>5. CASE l.pc = "insert"
  <2>1. m2 = PutIn(m, l.key, l.value)
    BY <1>5, ChartPut
  <2>2. MapWorks(m, p, l.done, m2, p, l2.done)
    BY <1>2, <1>3, <1>4, <1>5, <2>1 DEF MapWorks
  <2> QED BY <1>1, <1>4, <2>2 DEF MapSteps
<1>6. CASE l.pc = "delete"
  <2>1. m2 = Restrict(m, DOMAIN m \ {l.key})
    BY <1>6, ChartCut
  <2>2. MapWorks(m, p, l.done, m2, p, l2.done)
    BY <1>2, <1>3, <1>4, <1>6, <2>1 DEF MapWorks
  <2> QED BY <1>1, <1>4, <2>2 DEF MapSteps
<1> QED BY <1>5, <1>6 DEF Works

LEMMA TendingMoves ==
    ASSUME OneWriter, Inv, NEW l, l = run[TheWriter], NEW l2, l2 = run'[TheWriter],
           Tends(TheWriter)
    PROVE  \/ Starts(l, l2) \/ Seeks(l, l2) \/ Tidies(l, l2) \/ Ends(l, l2)
           \/ (Breaks(l, l2) /\ node' = node)
<1>1. CASE \/ \E k \in Key :
                 \/ \E v \in Value : Call(TheWriter, "insert", k, v)
                 \/ Call(TheWriter, "delete", k, NoValue)
           \/ Find(TheWriter)
  BY <1>1, AskingMoves
<1>2. CASE \/ Adopt(TheWriter) \/ Adopted(TheWriter) \/ StoreRoot(TheWriter)
           \/ FixNext(TheWriter) \/ GrowRoot(TheWriter) \/ ToParent(TheWriter)
           \/ InsertEntry(TheWriter) \/ SplitInternal(TheWriter)
  BY <1>2, TidyingMoves
<1>3. CASE FreeRight(TheWriter) \/ FreeRoot(TheWriter)
  BY <1>3, FreeingMoves
<1>4. CASE \/ Rebalance(TheWriter) \/ Siblings(TheWriter)
           \/ ShareLeaves(TheWriter) \/ SetSeparator(TheWriter) \/ MergeLeaves(TheWriter)
           \/ ShareChildren(TheWriter) \/ MergeInternals(TheWriter)
           \/ RemoveEntry(TheWriter) \/ Done(TheWriter)
  BY <1>4, BalancingMoves
<1> QED BY <1>1, <1>2, <1>3, <1>4 DEF Tends

LEMMA FailMoves ==
    ASSUME OneWriter, Inv, NEW l, l = run[TheWriter], NEW l2, l2 = run'[TheWriter],
           Fail(TheWriter)
    PROVE  Breaks(l, l2) /\ node' = node
<1>1. l2 = [Idle EXCEPT !.pc = "failed"] /\ l.pc \notin {"idle", "failed"} /\ node' = node
  BY LocalsNow DEF Fail
<1> QED BY <1>1 DEF Breaks

LEMMA StepTells ==
    ASSUME OneWriter, Inv, Told, Step(TheWriter)
    PROVE  Told'
<1>1. PICK l, l2 : l = run[TheWriter] /\ l2 = run'[TheWriter]
  OBVIOUS
<1>2. Tells(l)
  BY <1>1 DEF Told
<1>3. CASE Tends(TheWriter)
  <2>1. \/ Starts(l, l2) \/ Seeks(l, l2) \/ Tidies(l, l2) \/ Ends(l, l2) \/ Breaks(l, l2)
    BY <1>1, <1>3, TendingMoves
  <2> QED BY <1>1, <1>2, <2>1, TellsOn DEF Told
<1>4. CASE InsertInPlace(TheWriter) \/ SplitLeaf(TheWriter) \/ RemoveKey(TheWriter)
  <2>1. Works(l, l2)
    BY <1>1, <1>4, EffectMoves
  <2> QED BY <1>1, <1>2, <2>1, TellsOn DEF Told
<1>5. CASE Fail(TheWriter)
  <2>1. Breaks(l, l2)
    BY <1>1, <1>5, FailMoves
  <2> QED BY <1>1, <1>2, <2>1, TellsOn DEF Told
<1> QED BY <1>3, <1>4, <1>5, StepIs

(* The leaves as they are, so is what they list. *)
WalkOver(n) ==
    CHOOSE f : f = [p \in 0 .. MaxPage |->
                      IF ~ (p \in Page /\ n[p].type = "leaf") THEN << >>
                      ELSE n[p].entries \o f[n[p].next]]

LEMMA ContentsWalk == Contents = WalkOver(node)[FirstLeaf]
BY DEF Contents, WalkOver, EntriesFrom, IsLeaf

LEMMA ContentsStay ==
    ASSUME node' = node
    PROVE  MapNow' = MapNow
<1>1. Contents' = WalkOver(node')[FirstLeaf]
  BY DEF Contents, WalkOver, EntriesFrom, IsLeaf
<1>2. Contents' = Contents
  BY <1>1, ContentsWalk
<1> QED BY <1>2 DEF MapNow

(* The effect of a call. *)
LEMMA EffectPuts ==
    ASSUME OneWriter, Inv, NeverOverrun', Ordered,
           NEW l, l = run[TheWriter],
           InsertInPlace(TheWriter) \/ SplitLeaf(TheWriter) \/ RemoveKey(TheWriter)
    PROVE  /\ l.pc = "insert" =>
                 Puts(Apart(Book(node, l), l.key) \cup {[key |-> l.key, value |-> l.value]})
           /\ l.pc = "delete" => Puts(Apart(Book(node, l), l.key))
<1>1. l.pc \in {"insert", "delete"}
  BY DEF InsertInPlace, SplitLeaf, RemoveKey, At
<1>2. PICK lo, hi, from, upto : Order(node, root, l, lo, hi, from, upto)
  BY <1>1 DEF Ordered, InOrder
<1>3. CASE InsertInPlace(TheWriter)
  <2>1. l.pc = "insert"
    BY <1>3 DEF InsertInPlace, At
  <2> QED BY <1>2, <1>3, <2>1, InsertInPlacePuts
<1>4. CASE SplitLeaf(TheWriter)
  <2>1. l.pc = "insert"
    BY <1>4 DEF SplitLeaf, At
  <2> QED BY <1>2, <1>4, <2>1, SplitLeafPuts
<1>5. CASE RemoveKey(TheWriter)
  <2>1. l.pc = "delete"
    BY <1>5 DEF RemoveKey, At
  <2> QED BY <1>2, <1>5, <2>1, RemoveKeyPuts
<1> QED BY <1>3, <1>4, <1>5

(* Every step of the writer is a step of OrderedMap, or none. *)
LEMMA StepMaps ==
    ASSUME OneWriter, Inv, NeverOverrun', Ordered, MapIs, MapIs', Told,
           Step(TheWriter)
    PROVE  MapSteps(MapNow, PendingNow, DoneNow, MapNow', PendingNow', DoneNow')
<1>1. PICK l, l2 : l = run[TheWriter] /\ l2 = run'[TheWriter]
  OBVIOUS
<1>2. PICK m, m2 : m = MapNow /\ m2 = MapNow'
  OBVIOUS
<1>3. Tells(l) /\ l.pc # "failed"
  BY <1>1, FailedStops DEF Told
<1>4. Charts(m, Book(node, l))
  BY <1>1, <1>2, <1>3 DEF MapIs
<1>5. ASSUME l2.pc # "failed" PROVE Charts(m2, Book(node', l2))
  BY <1>1, <1>2, <1>5 DEF MapIs
<1>6. SUFFICES MapSteps(m, Pending(l), l.done, m2, Pending(l2), l2.done)
  BY <1>1, <1>2 DEF PendingNow, DoneNow
<1>7. CASE Tends(TheWriter)
  <2>1. \/ Starts(l, l2) \/ Seeks(l, l2) \/ Tidies(l, l2) \/ Ends(l, l2)
        \/ (Breaks(l, l2) /\ node' = node)
    BY <1>1, <1>7, TendingMoves
  <2>2. CASE Breaks(l, l2) /\ node' = node
    <3>1. m2 = m
      BY <1>2, <2>2, ContentsStay
    <3> QED BY <1>3, <2>2, <3>1, MovesMap
  <2>3. CASE Starts(l, l2) \/ Seeks(l, l2) \/ Tidies(l, l2) \/ Ends(l, l2)
    <3>1. l2.pc # "failed"
      BY <1>3, <2>3 DEF Starts, Seeks, Tidies, Ends, Working, Idle, Tells
    <3>2. PICK lo, hi, from, upto : Order(node, root, l, lo, hi, from, upto)
      BY <1>1, <1>3 DEF Ordered, InOrder
    <3>3. Book(node', l2) = Book(node, l)
      BY <1>1, <1>7, <3>1, <3>2, TendingGoes DEF Goes
    <3>4. Charts(m2, Book(node, l))
      BY <1>5, <3>1, <3>3
    <3>5. m2 = m
      BY <1>4, <3>4, OneChart
    <3> QED BY <1>3, <2>3, <3>5, MovesMap
  <2> QED BY <2>1, <2>2, <2>3
<1>8. CASE InsertInPlace(TheWriter) \/ SplitLeaf(TheWriter) \/ RemoveKey(TheWriter)
  <2>1. Works(l, l2)
    BY <1>1, <1>8, EffectMoves
  <2>2. l2.pc # "failed"
    BY <2>1 DEF Works, Working
  <2>3. Charts(m2, Book(node', l2))
    BY <1>5, <2>2
  <2>4. ASSUME l.pc = "insert"
        PROVE  Charts(m2, Apart(Book(node, l), l.key) \cup {[key |-> l.key, value |-> l.value]})
    <3>1. Book(node', l2) = Apart(Book(node, l), l.key) \cup {[key |-> l.key, value |-> l.value]}
      BY <1>1, <1>8, <2>4, EffectPuts DEF Puts
    <3> QED BY <2>3, <3>1
  <2>5. ASSUME l.pc = "delete"
        PROVE  Charts(m2, Apart(Book(node, l), l.key))
    <3>1. Book(node', l2) = Apart(Book(node, l), l.key)
      BY <1>1, <1>8, <2>5, EffectPuts DEF Puts
    <3> QED BY <2>3, <3>1
  <2> QED BY <1>3, <1>4, <2>1, <2>4, <2>5, WorksMap
<1>9. CASE Fail(TheWriter)
  <2>1. Breaks(l, l2) /\ node' = node
    BY <1>1, <1>9, FailMoves
  <2>2. m2 = m
    BY <1>2, <2>1, ContentsStay
  <2> QED BY <1>3, <2>1, <2>2, MovesMap
<1> QED BY <1>7, <1>8, <1>9, StepIs

LEMMA InitMaps ==
    ASSUME OneWriter, Init, NeverOverrun, Inv, Ordered
    PROVE  Map!Init /\ Told
<1>1. run[TheWriter] = Idle
  BY DEF Init, OneWriter
<1>2. PICK l : l = run[TheWriter]
  OBVIOUS
<1>3. l.pc = "idle" /\ l.op = "none" /\ l.done = FALSE
  BY <1>1, <1>2 DEF Idle
<1>4. \A p \in Page : node[p].type = "leaf" => node[p].entries = << >>
  <2>1. PICK x : x = Leaf(<< >>, 0, 0, 0)
    OBVIOUS
  <2>2. \A p \in Page : node[p] = x \/ node[p] = Freed
    BY <2>1 DEF Init
  <2>3. x.type = "leaf" => x.entries = << >>
    BY <2>1 DEF Leaf, Overrun
  <2>4. Freed.type # "leaf"
    BY DEF Freed
  <2> QED BY <2>2, <2>3, <2>4
<1>5. Range(<< >>) = {}
  BY EmptyParts
<1>6. Book(node, l) = {}
  <2>1. PICK S : S = Leaves(node, Live(node, l))
    OBVIOUS
  <2>2. \A p \in S : p \in Page /\ node[p].type = "leaf"
    BY <2>1 DEF Leaves, Live
  <2>3. \A p \in S : Range(node[p].entries) = {}
    BY <1>4, <1>5, <2>2
  <2>4. Stock(node, S) = {}
    BY <2>3 DEF Stock
  <2> QED BY <2>1, <2>4 DEF Book
<1>7. Charts(MapNow, {})
  BY <1>2, <1>3, <1>6, ContentsChart DEF MapIs
<1>8. PICK m : m = [k \in {} |-> NoCall]
  OBVIOUS
<1>9. Charts(m, {})
  BY <1>8 DEF Charts
<1>10. MapNow = m
  BY <1>7, <1>9, OneChart
<1>11. Map!Init
  BY <1>2, <1>3, <1>8, <1>10 DEF Map!Init, MapNow, Chart
<1>12. Told
  BY <1>2, <1>3 DEF Told, Tells, Working
<1> QED BY <1>11, <1>12

LEMMA ReaderNextMaps ==
    ASSUME OneWriter, Inv, NeverOverrun', Ordered, MapIs, MapIs', Told,
           [ReaderNext]_<< vars, reader, shared >>
    PROVE  Told' /\ [Map!Next]_(Map!vars)
<1>1. CASE Next
  <2>1. Step(TheWriter)
    BY <1>1 DEF Next, OneWriter
  <2>2. Told'
    BY <2>1, StepTells
  <2>3. MapSteps(MapNow, PendingNow, DoneNow, MapNow', PendingNow', DoneNow')
    BY <2>1, StepMaps
  <2> QED BY <2>2, <2>3, MapStepIs
<1>2. CASE UNCHANGED << node, root, run >>
  <2>1. Told'
    BY <1>2 DEF Told
  <2>2. MapNow' = MapNow
    BY <1>2, ContentsStay
  <2>3. PendingNow' = PendingNow /\ DoneNow' = DoneNow
    BY <1>2 DEF PendingNow, DoneNow
  <2>4. MapSteps(MapNow, PendingNow, DoneNow, MapNow', PendingNow', DoneNow')
    BY <2>2, <2>3 DEF MapSteps
  <2> QED BY <2>1, <2>4, MapStepIs
<1> QED BY <1>1, <1>2, NextOrRead

(* Whatever splits, shares and merges a call goes through, the chain of leaves
   lists the map before the call or the map after it, in the order of the keys:
   an insert or a delete changes it in one step, and only at its key, also when
   a page is refused half way (btree.rs:35-41).  Whatever the entries weigh, as
   long as no rebuild is given more than a page holds. *)
THEOREM ImplementsOrderedMap ==
    ASSUME OneWriter
    PROVE  ReaderSpec /\ []NeverOverrun => ImplementsMap
<1>1. ReaderInit /\ NeverOverrun => Inv /\ Ordered
  BY ReaderInitHolds
<1>2. ReaderInit /\ Inv /\ NeverOverrun /\ Ordered => Map!Init /\ Told
  BY InitMaps DEF ReaderInit
<1>3. Inv /\ NeverOverrun' /\ Ordered /\ [ReaderNext]_<< vars, reader, shared >>
      => Inv' /\ Ordered'
  BY ReaderNextKeeps
<1>4. Inv /\ Ordered => MapIs
  BY ContentsChart
<1>5. Inv /\ NeverOverrun' /\ Ordered /\ MapIs /\ MapIs' /\ Told
      /\ [ReaderNext]_<< vars, reader, shared >>
      => Told' /\ [Map!Next]_(Map!vars)
  BY ReaderNextMaps
<1> QED BY <1>1, <1>2, <1>3, <1>4, <1>5, PTL DEF ReaderSpec, ImplementsMap, Map!Spec

(* Between two calls: the tree as a reader finds it. *)
Resting(live, lo, hi, h) ==
    /\ live = {p \in Page : node[p].type # "freed"} /\ root \in live
    /\ node \in [Page -> Node] /\ h \in [Page -> Nat]
    /\ Pages(node, live, root, lo, hi, lo, hi)
    /\ \A p \in Page : IsInternal(p) =>
          /\ p \in live /\ Slots(node[p].keys, node[p].children)
          /\ Range(node[p].children) \subseteq live
          /\ \A c \in Range(node[p].children) : h[c] + 1 = h[p]
    /\ \A p \in live : IsLeaf(p) \/ IsInternal(p)
    /\ RowReached(node, Leaves(node, live))
    /\ \A p : p \in Leaves(node, live) <=> IsLeaf(p)
    /\ \A p \in Page : IsLeaf(p) => h[p] = 0

LEMMA TreeRests ==
    ASSUME OneWriter, Inv, Ordered, Quiet
    PROVE  \E live, lo, hi, h : Resting(live, lo, hi, h)
<1>1. PICK l : l = run[TheWriter]
  OBVIOUS
<1>2. l.pc = "idle" /\ Plain(l)
  BY <1>1 DEF Quiet, OneWriter, At, Plain
<1>3. PICK lo, hi, from, upto : Order(node, root, l, lo, hi, from, upto)
  BY <1>1, <1>2 DEF Ordered, InOrder
<1>4. PICK h : TreeOf(node, root, l, h)
  BY <1>1, <1>2, AtWork
<1>5. PICK live : live = Live(node, l)
  OBVIOUS
<1>6. Still(l)
  BY <1>2, PlainIsStill
<1>7. live = {p \in Page : node[p].type # "freed"} /\ Top(root, l) = root
  BY <1>5, <1>6, StillView
<1>8. from = lo /\ upto = hi
  BY <1>3, <1>6, OrderParts DEF Sight, Still
<1>9. Pages(node, live, root, lo, hi, lo, hi)
  <2>1. Pages(node, Live(node, l), Top(root, l), lo, hi, from, upto)
    BY <1>3, OrderParts
  <2> QED BY <1>5, <1>7, <1>8, <2>1
<1>10. node \in [Page -> Node] /\ Shaped(node) /\ root \in live /\ h \in [Page -> Nat]
  BY <1>1, <1>2, <1>4, <1>9, AtWork DEF Pages, TreeOf, Tree, Layered
<1>11. RowReached(node, Leaves(node, live))
  BY <1>1, <1>2, <1>3, <1>5, TreeReached
<1>12. \A p : p \in Leaves(node, live) <=> IsLeaf(p)
  BY <1>7 DEF Leaves, IsLeaf
<1>13. \A p \in live : IsLeaf(p) \/ IsInternal(p)
  <2>1. ASSUME NEW p \in Page, node[p].type # "freed"
        PROVE  node[p].type \in {"leaf", "internal"}
    BY <1>10, <2>1 DEF Node, LeafNodes, InternalNodes, Freed
  <2> QED BY <1>7, <2>1 DEF IsLeaf, IsInternal
<1>14. ASSUME NEW p \in Page, IsInternal(p)
       PROVE  /\ p \in live /\ Slots(node[p].keys, node[p].children)
              /\ Range(node[p].children) \subseteq live
              /\ \A c \in Range(node[p].children) : h[c] + 1 = h[p]
  <2>1. p \in live /\ node[p].type = "internal" /\ ~ Merging(l)
    BY <1>6, <1>7, <1>14 DEF IsInternal, Still
  <2>2. Slots(node[p].keys, node[p].children)
    BY <1>10, <2>1, NodeSlots
  <2>3. Range(node[p].children) \subseteq live
    BY <1>1, <1>2, <1>5, <2>1, ChildrenLive
  <2>4. Kids(node, l)[p] = Range(node[p].children)
    BY <1>14, <2>1 DEF Kids
  <2>5. \A c \in Range(node[p].children) : h[c] + 1 = h[p]
    BY <1>4, <1>5, <2>1, <2>4 DEF TreeOf, Tree, Layered
  <2> QED BY <2>1, <2>2, <2>3, <2>5
<1>15. \A p \in Page : IsLeaf(p) => h[p] = 0
  BY <1>4, <1>5, <1>7 DEF TreeOf, Ground, IsLeaf
<1>16. Resting(live, lo, hi, h)
  BY <1>7, <1>9, <1>10, <1>11, <1>12, <1>13, <1>14, <1>15 DEF Resting
<1> QED BY <1>16

(* A node of a tree at rest, with its edges. *)
LEMMA NodeAtRest ==
    ASSUME NEW live, NEW lo, NEW hi, NEW h, Resting(live, lo, hi, h),
           NEW p \in Page, IsInternal(p)
    PROVE  /\ p \in live /\ live \subseteq Page
           /\ Slots(node[p].keys, node[p].children)
           /\ Range(node[p].children) \subseteq live
           /\ \A c \in Range(node[p].children) :
                 h[c] \in Nat /\ h[p] \in Nat /\ h[c] + 1 = h[p]
           /\ Fence(node[p].keys, node[p].children, lo[p], hi[p], lo, hi)
           /\ lo[p] \in Bound /\ hi[p] \in Bound
<1>1. live \subseteq Page /\ h \in [Page -> Nat]
  BY DEF Resting
<1>2. /\ p \in live /\ Slots(node[p].keys, node[p].children)
      /\ Range(node[p].children) \subseteq live
      /\ \A c \in Range(node[p].children) : h[c] + 1 = h[p]
  BY DEF Resting
<1>3. Pages(node, live, root, lo, hi, lo, hi)
  BY DEF Resting
<1>4. Fence(node[p].keys, node[p].children, lo[p], hi[p], lo, hi)
  BY <1>2, <1>3 DEF Pages, Fenced, IsInternal
<1>5. lo[p] \in Bound /\ hi[p] \in Bound
  BY <1>3 DEF Pages
<1> QED BY <1>1, <1>2, <1>4, <1>5

(* A walk down the tree: from each node to the child that next names. *)
Downs(f, next) == f = [p \in Page |-> IF IsInternal(p) THEN f[next[p]] ELSE p]

(* A recursion to the child exists, since heights fall. *)
LEMMA WalkExists ==
    ASSUME NEW live, NEW lo, NEW hi, NEW h, Resting(live, lo, hi, h), NEW next,
           \A p \in Page : IsInternal(p) => next[p] \in Range(node[p].children)
    PROVE  \E f : Downs(f, next)
<1>1. \A p \in Page : IsInternal(p) =>
         /\ p \in live /\ next[p] \in live /\ next[p] \in Page
         /\ h[next[p]] \in Nat /\ h[p] \in Nat /\ h[next[p]] + 1 = h[p]
  BY NodeAtRest
<1>2. PICK kids : kids = [p \in Page |-> IF IsInternal(p) THEN {next[p]} ELSE {}]
  OBVIOUS
<1>3. \A p \in Page : kids[p] = IF IsInternal(p) THEN {next[p]} ELSE {}
  BY <1>2
<1>4. \A p \in Page : kids[p] \subseteq Page
  BY <1>1, <1>3
<1>5. PICK g : Downward(g, kids)
  BY <1>4, DownwardExists
<1>6. \A p \in Page : g[p] = {p} \cup UNION {g[c] : c \in kids[p]}
  BY <1>5 DEF Downward
<1>7. \A p \in Page : g[p] = IF IsInternal(p) THEN {p} \cup g[next[p]] ELSE {p}
  <2> SUFFICES ASSUME NEW p \in Page
               PROVE  g[p] = IF IsInternal(p) THEN {p} \cup g[next[p]] ELSE {p}
    OBVIOUS
  <2>1. CASE IsInternal(p)
    <3>1. UNION {g[c] : c \in {next[p]}} = g[next[p]]
      OBVIOUS
    <3> QED BY <1>3, <1>6, <2>1, <3>1
  <2>2. CASE ~ IsInternal(p)
    <3>1. UNION {g[c] : c \in {}} = {}
      OBVIOUS
    <3> QED BY <1>3, <1>6, <2>2, <3>1
  <2> QED BY <2>1, <2>2
<1> DEFINE One(p) == {q \in g[p] : ~ IsInternal(q)}
<1>8. \A p \in Page : IsInternal(p) => One(p) = One(next[p])
  BY <1>7
<1>9. \A p \in Page : ~ IsInternal(p) => One(p) = {p}
  BY <1>7
<1>10. PICK e : e = [p \in Page |-> CHOOSE q : q \in One(p)]
  OBVIOUS
<1>11. \A p \in Page : IsInternal(p) => e[p] = e[next[p]]
  BY <1>1, <1>8, <1>10
<1>12. \A p \in Page : ~ IsInternal(p) => e[p] = p
  BY <1>9, <1>10
<1> HIDE DEF One
<1>13. e = [p \in Page |-> IF IsInternal(p) THEN e[next[p]] ELSE p]
  <2>1. DOMAIN e = Page /\ e = [p \in Page |-> e[p]]
    BY <1>10
  <2> QED BY <1>11, <1>12, <2>1
<1> QED BY <1>13 DEF Downs

(* And it stays among the pages that it was meant to stay among, to a leaf. *)
LEMMA WalkArrives ==
    ASSUME NEW live, NEW lo, NEW hi, NEW h, Resting(live, lo, hi, h), NEW next,
           NEW f, Downs(f, next), NEW P, P \subseteq live,
           \A p \in P : IsInternal(p) => next[p] \in P /\ next[p] \in Range(node[p].children)
    PROVE  \A p \in P : f[p] \in P /\ IsLeaf(f[p])
<1>1. live \subseteq Page /\ h \in [Page -> Nat] /\ \A p \in live : IsLeaf(p) \/ IsInternal(p)
  BY DEF Resting
<1>2. \A p \in P : f[p] = IF IsInternal(p) THEN f[next[p]] ELSE p
  BY <1>1 DEF Downs
<1>3. \A p \in P : IsInternal(p) =>
         h[next[p]] \in Nat /\ h[p] \in Nat /\ h[next[p]] + 1 = h[p]
  BY <1>1, NodeAtRest
<1>4. PICK X : X = {p \in P : ~ (f[p] \in P /\ IsLeaf(f[p]))}
  OBVIOUS
<1>5. SUFFICES ASSUME X # {} PROVE FALSE
  BY <1>4
<1>6. PICK H : H = {h[p] : p \in X}
  OBVIOUS
<1>7. PICK n \in H : \A m \in H : n <= m
  <2>1. H \subseteq Nat /\ H # {}
    BY <1>1, <1>4, <1>5, <1>6
  <2> QED BY <2>1, LeastNatural
<1>8. PICK p \in X : n = h[p]
  BY <1>6, <1>7
<1>9. CASE IsInternal(p)
  <2>1. next[p] \in X
    BY <1>2, <1>4, <1>9
  <2>2. h[p] <= h[next[p]]
    BY <1>6, <1>7, <1>8, <2>1
  <2> QED BY <1>3, <1>4, <1>9, <2>2
<1>10. CASE ~ IsInternal(p)
  BY <1>1, <1>2, <1>4, <1>10
<1> QED BY <1>9, <1>10

LEMMA FindChildIn ==
    ASSUME NEW p \in Page, Slots(node[p].keys, node[p].children), NEW k \in Int
    PROVE  FindChild(p, k) \in Range(node[p].children)
<1>0. PICK ks, c : ks = node[p].keys /\ c = node[p].children
  OBVIOUS
<1>1. PICK n \in Nat : n = Len(ks)
  BY <1>0, SlotParts
<1>2. DOMAIN ks = 1 .. n /\ \A i \in 1 .. n + 1 : c[i] \in Range(c)
  BY <1>0, <1>1, SlotParts
<1>3. PICK S : S = {i \in DOMAIN ks : ks[i] <= k}
  OBVIOUS
<1>4. Cardinality(S) \in 0 .. n
  <2>1. IsFiniteSet(1 .. n) /\ Cardinality(1 .. n) = n
    <3>1. 1 \in Int /\ n \in Int
      BY <1>1
    <3>2. Cardinality(1 .. n) = IF 1 > n THEN 0 ELSE n - 1 + 1
      BY <3>1, FS_Interval
    <3>3. IsFiniteSet(1 .. n)
      BY <3>1, FS_Interval
    <3>4. (IF 1 > n THEN 0 ELSE n - 1 + 1) = n
      BY <1>1
    <3> QED BY <3>2, <3>3, <3>4
  <2>2. S \subseteq 1 .. n
    BY <1>2, <1>3
  <2>3. IsFiniteSet(S) /\ Cardinality(S) <= n
    BY <2>1, <2>2, FS_Subset
  <2>4. Cardinality(S) \in Nat
    BY <2>3, FS_CardinalityType
  <2> QED BY <1>1, <2>3, <2>4
<1>5. PICK m : m = Cardinality(S)
  OBVIOUS
<1>6. m + 1 \in 1 .. n + 1
  BY <1>1, <1>4, <1>5
<1>7. FindChild(p, k) = c[m + 1]
  BY <1>0, <1>3, <1>5 DEF FindChild
<1> QED BY <1>0, <1>2, <1>6, <1>7

(* find_leaf_page_id comes to the leaf for the key. *)
LEMMA FindsLeaf ==
    ASSUME NEW live, NEW lo, NEW hi, NEW h, Resting(live, lo, hi, h), NEW k \in Key
    PROVE  /\ LeafFor(k) \in live /\ IsLeaf(LeafFor(k))
           /\ lo[LeafFor(k)] <= k /\ k < hi[LeafFor(k)]
<1>1. PICK next : next = [p \in Page |-> FindChild(p, k)]
  OBVIOUS
<1>2. k \in Int /\ 0 < k /\ k < MaxKey + 1
  BY BoundParts
<1>3. \A p \in Page : IsInternal(p) => next[p] \in Range(node[p].children)
  BY <1>1, <1>2, NodeAtRest, FindChildIn
<1> DEFINE Recurs(f) == f = [p \in Page |-> IF IsInternal(p) THEN f[FindChild(p, k)] ELSE p]
<1>4. \A f : Recurs(f) <=> Downs(f, next)
  BY <1>1 DEF Downs
<1>5. PICK g : g = CHOOSE f : Recurs(f)
  OBVIOUS
<1>6. LeafFor(k) = g[root]
  BY <1>5 DEF LeafFor
<1>7. \E f : Recurs(f)
  BY <1>3, <1>4, WalkExists
<1> HIDE DEF Recurs
<1>8. Downs(g, next)
  BY <1>4, <1>5, <1>7
<1>9. PICK P : P = {p \in live : lo[p] <= k /\ k < hi[p]}
  OBVIOUS
<1>10. root \in P /\ P \subseteq live /\ live \subseteq Page
  BY <1>2, <1>9 DEF Resting, Pages
<1>11. ASSUME NEW p \in P, IsInternal(p)
       PROVE  next[p] \in P /\ next[p] \in Range(node[p].children)
  <2>1. PICK ks, c : ks = node[p].keys /\ c = node[p].children
    OBVIOUS
  <2>2. /\ p \in Page /\ Slots(ks, c) /\ Range(c) \subseteq live
        /\ Fence(ks, c, lo[p], hi[p], lo, hi) /\ lo[p] \in Bound /\ hi[p] \in Bound
    BY <1>10, <1>11, <2>1, NodeAtRest
  <2>3. PICK q : q = c[Cardinality({i \in DOMAIN ks : ks[i] <= k}) + 1]
    OBVIOUS
  <2>4. q \in Range(c) /\ lo[q] <= k /\ k < hi[q]
    BY <1>9, <2>2, <2>3, FindsChild
  <2>5. next[p] = q
    BY <1>1, <2>1, <2>2, <2>3 DEF FindChild
  <2> QED BY <1>9, <2>1, <2>2, <2>4, <2>5
<1>12. g[root] \in P /\ IsLeaf(g[root])
  BY <1>8, <1>10, <1>11, WalkArrives
<1> QED BY <1>6, <1>9, <1>12

(* first and last: the outermost leaves. *)
LEMMA OuterChildren ==
    ASSUME NEW live, NEW lo, NEW hi, NEW h, Resting(live, lo, hi, h),
           NEW p \in Page, IsInternal(p)
    PROVE  LET c == node[p].children
           IN  /\ Head(c) \in Range(c) /\ Last(c) \in Range(c)
               /\ lo[Head(c)] = lo[p] /\ hi[Last(c)] = hi[p]
<1>1. PICK k, c : k = node[p].keys /\ c = node[p].children
  OBVIOUS
<1>2. /\ Slots(k, c) /\ Fence(k, c, lo[p], hi[p], lo, hi)
      /\ lo[p] \in Bound /\ hi[p] \in Bound
  BY <1>1, NodeAtRest
<1>3. PICK n \in Nat : n = Len(k)
  BY <1>2, SlotParts
<1>4. Len(c) = n + 1 /\ c \in Seq(Page) /\ k \in Seq(Key) /\ \A i \in 1 .. n + 1 : c[i] \in Range(c)
  BY <1>2, <1>3, SlotParts DEF Slots
<1>5. Head(c) = c[1] /\ Last(c) = c[n + 1] /\ 1 \in 1 .. n + 1 /\ n + 1 \in 1 .. n + 1
  BY <1>3, <1>4 DEF Last
<1>6. lo[c[1]] = Edge(k, lo[p], hi[p], 0) /\ hi[c[n + 1]] = Edge(k, lo[p], hi[p], n + 1)
  BY <1>2, <1>3, <1>5 DEF Fence
<1>7. Edge(k, lo[p], hi[p], 0) = lo[p] /\ Edge(k, lo[p], hi[p], n + 1) = hi[p]
  BY <1>2, <1>3, <1>4, EdgeParts
<1> QED BY <1>1, <1>4, <1>5, <1>6, <1>7

LEMMA LeftmostIsFirst ==
    ASSUME NEW live, NEW lo, NEW hi, NEW h, Resting(live, lo, hi, h)
    PROVE  LeftmostLeaf = FirstLeaf /\ FirstLeaf \in live /\ IsLeaf(FirstLeaf)
<1>1. PICK next : next = [p \in Page |-> Head(node[p].children)]
  OBVIOUS
<1>2. \A p \in Page : IsInternal(p) => /\ next[p] \in Range(node[p].children)
                                       /\ lo[next[p]] = lo[p]
  BY <1>1, OuterChildren
<1> DEFINE Recurs(f) == f = [p \in Page |-> IF IsInternal(p) THEN f[Head(node[p].children)] ELSE p]
<1>3. \A f : Recurs(f) <=> Downs(f, next)
  BY <1>1 DEF Downs
<1>4. PICK g : g = CHOOSE f : Recurs(f)
  OBVIOUS
<1>5. LeftmostLeaf = g[root]
  BY <1>4 DEF LeftmostLeaf, Outermost
<1>6. \E f : Recurs(f)
  BY <1>2, <1>3, WalkExists
<1> HIDE DEF Recurs
<1>7. Downs(g, next)
  BY <1>3, <1>4, <1>6
<1>8. PICK P : P = {p \in live : lo[p] = 0}
  OBVIOUS
<1>9. root \in P /\ P \subseteq live /\ live \subseteq Page
  BY <1>8 DEF Resting, Pages
<1>10. \A p \in P : IsInternal(p) => next[p] \in P /\ next[p] \in Range(node[p].children)
  BY <1>2, <1>8, <1>9, NodeAtRest
<1>11. PICK q : q = g[root] /\ q \in P /\ IsLeaf(q)
  BY <1>7, <1>9, <1>10, WalkArrives
<1>12. PICK S : S = Leaves(node, live)
  OBVIOUS
<1>13. Row(node, S, lo, hi) /\ \A p : p \in S <=> IsLeaf(p)
  BY <1>12 DEF Resting, Pages
<1>14. FirstLeaf \in S /\ lo[FirstLeaf] = 0 /\ q \in S /\ lo[q] = 0
  BY <1>8, <1>11, <1>13 DEF Row
<1>15. q = FirstLeaf
  <2>1. \A p \in S : lo[p] \in Int /\ hi[p] \in Int /\ lo[p] < hi[p]
    BY <1>13, RowParts
  <2>2. q # FirstLeaf => hi[q] <= lo[FirstLeaf] \/ hi[FirstLeaf] <= lo[q]
    BY <1>13, <1>14 DEF Row
  <2> QED BY <1>14, <2>1, <2>2
<1>16. FirstLeaf \in live
  BY <1>8, <1>11, <1>15
<1> QED BY <1>5, <1>11, <1>15, <1>16

(* Entries in the order of their keys are one sequence. *)
LEMMA SamePlace ==
    ASSUME NEW s \in Seq(Entry), NEW t \in Seq(Entry), Arranged(s), Arranged(t),
           Range(s) = Range(t), NEW i \in 1 .. Len(s),
           \A j \in 1 .. i - 1 : j <= Len(t) /\ s[j] = t[j]
    PROVE  i <= Len(t) /\ s[i] = t[i]
<1>1. PICK n \in Nat, m \in Nat : n = Len(s) /\ m = Len(t)
  BY EntryParts
<1>2. /\ \A a \in 1 .. n : s[a] \in Range(t) /\ s[a].key \in Int
      /\ \A a \in 1 .. m : t[a] \in Range(s) /\ t[a].key \in Int
  BY <1>1, EntryParts
<1>3. /\ \A a, b \in 1 .. n : a < b => s[a].key < s[b].key
      /\ \A a, b \in 1 .. m : a < b => t[a].key < t[b].key
  BY <1>1 DEF Arranged
<1>4. PICK j \in 1 .. m : t[j] = s[i]
  BY <1>1, <1>2, EntryParts
<1>5. i \in 1 .. n
  BY <1>1
<1>6. ~ (j < i)
  <2>1. SUFFICES ASSUME j < i PROVE FALSE
    OBVIOUS
  <2>2. j \in 1 .. i - 1 /\ j \in 1 .. n
    BY <1>1, <1>5, <2>1
  <2>3. s[j] = t[j] /\ s[j].key < s[i].key
    BY <1>3, <1>5, <2>1, <2>2
  <2> QED BY <1>2, <1>4, <1>5, <2>3
<1>7. i \in 1 .. m
  BY <1>1, <1>5, <1>6
<1>8. PICK a \in 1 .. n : s[a] = t[i]
  BY <1>1, <1>2, <1>7, EntryParts
<1>9. ~ (a < i)
  <2>1. SUFFICES ASSUME a < i PROVE FALSE
    OBVIOUS
  <2>2. a \in 1 .. i - 1 /\ a \in 1 .. m
    BY <1>5, <1>7, <2>1
  <2>3. s[a] = t[a] /\ t[a].key < t[i].key
    BY <1>3, <1>7, <2>1, <2>2
  <2> QED BY <1>2, <1>7, <1>8, <2>3
<1>10. i = j
  <2>1. SUFFICES ASSUME i < j PROVE FALSE
    BY <1>5, <1>6
  <2>2. t[i].key < t[j].key
    BY <1>3, <1>7, <2>1
  <2>3. ~ (a = i)
    BY <1>2, <1>4, <1>7, <1>8, <2>2
  <2>4. s[i].key < s[a].key
    BY <1>3, <1>5, <1>9, <2>3
  <2> QED BY <1>2, <1>4, <1>5, <1>7, <1>8, <2>2, <2>4
<1> QED BY <1>1, <1>4, <1>7, <1>10

LEMMA OneOrder ==
    ASSUME NEW s \in Seq(Entry), NEW t \in Seq(Entry), Arranged(s), Arranged(t),
           Range(s) = Range(t)
    PROVE  s = t
<1>1. PICK n \in Nat, m \in Nat : n = Len(s) /\ m = Len(t)
  BY EntryParts
<1>2. PICK X : X = {i \in Nat : i >= 1 /\ (i <= n \/ i <= m) /\ ~ (i <= n /\ i <= m /\ s[i] = t[i])}
  OBVIOUS
<1>3. X = {}
  <2>1. SUFFICES ASSUME X # {} PROVE FALSE
    OBVIOUS
  <2>2. PICK i \in X : \A j \in X : i <= j
    <3>1. X \subseteq Nat
      BY <1>2
    <3> QED BY <2>1, <3>1, LeastNatural
  <2>3. i \in Nat /\ i >= 1 /\ (i <= n \/ i <= m)
    BY <1>2
  <2>4. \A j \in 1 .. i - 1 : j <= n /\ j <= m /\ s[j] = t[j]
    <3>1. SUFFICES ASSUME NEW j \in 1 .. i - 1 PROVE j <= n /\ j <= m /\ s[j] = t[j]
      OBVIOUS
    <3>2. j \in Nat /\ j >= 1 /\ j < i /\ (j <= n \/ j <= m)
      BY <1>1, <2>3
    <3>3. j \notin X
      BY <2>2, <2>3, <3>2
    <3> QED BY <1>2, <3>2, <3>3
  <2>5. CASE i <= n
    <3>1. i \in 1 .. Len(s)
      BY <1>1, <2>3, <2>5
    <3>2. i <= m /\ s[i] = t[i]
      BY <1>1, <2>4, <3>1, SamePlace
    <3> QED BY <1>2, <2>5, <3>2
  <2>6. CASE i <= m
    <3>1. i \in 1 .. Len(t)
      BY <1>1, <2>3, <2>6
    <3>2. i <= n /\ t[i] = s[i]
      BY <1>1, <2>4, <3>1, SamePlace
    <3> QED BY <1>2, <2>6, <3>2
  <2> QED BY <2>3, <2>5, <2>6
<1>4. n = m
  <2>1. ~ (n < m)
    <3>1. SUFFICES ASSUME n < m PROVE FALSE
      OBVIOUS
    <3>2. m \in X
      BY <1>1, <1>2, <3>1
    <3> QED BY <1>3, <3>2
  <2>2. ~ (m < n)
    <3>1. SUFFICES ASSUME m < n PROVE FALSE
      OBVIOUS
    <3>2. n \in X
      BY <1>1, <1>2, <3>1
    <3> QED BY <1>3, <3>2
  <2> QED BY <1>1, <2>1, <2>2
<1>5. \A i \in 1 .. n : s[i] = t[i]
  BY <1>1, <1>2, <1>3
<1> QED BY <1>1, <1>4, <1>5, SeqEqual

(* What a sequence in order has from a key on. *)
Onward(s, b) == SubSeq(s, b + 1, Len(s))

LEMMA OnwardIs ==
    ASSUME NEW s \in Seq(Entry), Arranged(s), NEW k \in Int, NEW b \in 0 .. Len(s),
           \A i \in 1 .. Len(s) : s[i].key < k <=> i <= b
    PROVE  /\ Onward(s, b) \in Seq(Entry) /\ Arranged(Onward(s, b))
           /\ Range(Onward(s, b)) = {x \in Range(s) : ~ (x.key < k)}
           /\ Len(Onward(s, b)) = Len(s) - b
<1>1. PICK n \in Nat : n = Len(s)
  BY EntryParts
<1>2. b \in 0 .. n /\ b + 1 \in 1 .. n + 1 /\ n \in b + 1 - 1 .. n
  BY <1>1
<1>3. PICK u : u = Onward(s, b)
  OBVIOUS
<1>4. Slice(Entry, s, b + 1, n, u)
  BY <1>1, <1>2, <1>3, SlicePlaces DEF Onward
<1>5. u \in Seq(Entry) /\ Arranged(u)
  BY <1>1, <1>2, <1>4, SliceArranged
<1>6. Len(u) = n - b /\ \A i \in 1 .. n - b : u[i] = s[b + i]
  <2>1. Len(u) = n - (b + 1) + 1 /\ \A i \in 1 .. n - (b + 1) + 1 : u[i] = s[b + 1 + i - 1]
    BY <1>4 DEF Slice
  <2>2. n - (b + 1) + 1 = n - b
    BY <1>2
  <2>3. ASSUME NEW i \in 1 .. n - b PROVE u[i] = s[b + i]
    <3>1. i \in 1 .. n - (b + 1) + 1
      BY <2>2
    <3>2. b + 1 + i - 1 = b + i
      BY <1>2
    <3> QED BY <2>1, <3>1, <3>2
  <2> QED BY <2>1, <2>2, <2>3
<1>7. ASSUME NEW x PROVE x \in Range(u) <=> x \in Range(s) /\ ~ (x.key < k)
  <2>1. ASSUME x \in Range(u) PROVE x \in Range(s) /\ ~ (x.key < k)
    <3>1. PICK i \in 1 .. n - b : u[i] = x
      BY <1>5, <1>6, <2>1, EntryParts
    <3>2. PICK j : j = b + i
      OBVIOUS
    <3>3. j \in 1 .. n /\ ~ (j <= b)
      BY <1>2, <3>2
    <3>4. s[j] = x
      BY <1>6, <3>1, <3>2
    <3> QED BY <1>1, <3>3, <3>4, EntryParts
  <2>2. ASSUME x \in Range(s), ~ (x.key < k) PROVE x \in Range(u)
    <3>1. PICK j \in 1 .. n : s[j] = x
      BY <1>1, <2>2, EntryParts
    <3>2. ~ (j <= b)
      BY <1>1, <2>2, <3>1
    <3>3. PICK i : i = j - b
      OBVIOUS
    <3>4. i \in 1 .. n - b /\ j = b + i
      BY <1>2, <3>2, <3>3
    <3>5. u[i] = x
      BY <1>6, <3>1, <3>4
    <3> QED BY <1>5, <1>6, <3>4, <3>5, EntryParts
  <2> QED BY <2>1, <2>2
<1>8. Range(u) = {x \in Range(s) : ~ (x.key < k)}
  BY <1>7
<1> QED BY <1>1, <1>3, <1>5, <1>6, <1>8

(* Cutting off a piece of it. *)
CutsAlike(s, b, limit, u) ==
    SubSeq(s, b + 1, Min({Len(s), b + limit})) = SubSeq(u, 1, Min({limit, Len(u)}))

LEMMA OnwardCut ==
    ASSUME NEW s \in Seq(Entry), NEW b \in 0 .. Len(s), NEW limit \in Nat,
           Len(Onward(s, b)) = Len(s) - b
    PROVE  CutsAlike(s, b, limit, Onward(s, b))
<1>0. PICK u, n, m : u = Onward(s, b) /\ n = Len(s) /\ m = Len(u) /\ m = n - b
  OBVIOUS
<1>1. n \in Nat /\ b \in Nat /\ b <= n /\ m \in Nat /\ m = n - b
  BY <1>0, EntryParts
<1>2. PICK z : z = IF limit <= m THEN limit ELSE m
  OBVIOUS
<1>3. z \in Nat /\ z <= m /\ b + z <= n
  BY <1>1, <1>2
<1>4. Min({limit, m}) = z
  <2>1. z \in {limit, m} /\ \A y \in {limit, m} : z <= y
    BY <1>1, <1>2
  <2>2. \A x \in {limit, m} : (\A y \in {limit, m} : x <= y) => x = z
    BY <1>1, <1>2
  <2> QED BY <2>1, <2>2 DEF Min
<1>5. Min({n, b + limit}) = b + z
  <2>1. b + z \in {n, b + limit} /\ \A y \in {n, b + limit} : b + z <= y
    BY <1>1, <1>2
  <2>2. \A x \in {n, b + limit} : (\A y \in {n, b + limit} : x <= y) => x = b + z
    BY <1>1, <1>2
  <2> QED BY <2>1, <2>2 DEF Min
<1>6. PICK p, q : p = SubSeq(s, b + 1, b + z) /\ q = SubSeq(u, 1, z)
  OBVIOUS
<1>7. Slice(Entry, s, b + 1, n, u)
  <2>1. b + 1 \in 1 .. n + 1 /\ n \in b + 1 - 1 .. n
    BY <1>1
  <2> QED BY <1>0, <2>1, SlicePlaces DEF Onward
<1>8. Slice(Entry, s, b + 1, b + z, p)
  <2>1. b + 1 \in 1 .. n + 1 /\ b + z \in b + 1 - 1 .. n
    BY <1>1, <1>3
  <2> QED BY <1>0, <1>6, <2>1, SlicePlaces
<1>9. Slice(Entry, u, 1, z, q)
  <2>1. 1 \in 1 .. m + 1 /\ z \in 1 - 1 .. m /\ u \in Seq(Entry)
    BY <1>1, <1>3, <1>7 DEF Slice
  <2> QED BY <1>0, <1>6, <2>1, SlicePlaces
<1>10. p \in Seq(Entry) /\ q \in Seq(Entry) /\ Len(p) = z /\ Len(q) = z
  <2>1. b + z - (b + 1) + 1 = z /\ z - 1 + 1 = z
    BY <1>1, <1>3
  <2> QED BY <1>8, <1>9, <2>1 DEF Slice
<1>11. ASSUME NEW i \in 1 .. z PROVE p[i] = q[i]
  <2>1. b + z - (b + 1) + 1 = z /\ z - 1 + 1 = z /\ i \in 1 .. n - (b + 1) + 1 /\ 1 + i - 1 = i
    BY <1>1, <1>3
  <2>2. p[i] = s[b + 1 + i - 1]
    <3>1. PICK a, c : a = b + 1 /\ c = b + z
      OBVIOUS
    <3>2. Slice(Entry, s, a, c, p)
      BY <1>8, <3>1
    <3>3. i \in 1 .. c - a + 1
      BY <1>1, <1>3, <3>1
    <3>4. p[i] = s[a + i - 1]
      BY <3>2, <3>3 DEF Slice
    <3> QED BY <3>1, <3>4
  <2>3. q[i] = u[i]
    BY <1>9, <2>1 DEF Slice
  <2>4. u[i] = s[b + 1 + i - 1]
    BY <1>7, <2>1 DEF Slice
  <2> QED BY <2>2, <2>3, <2>4
<1>12. p = q
  BY <1>10, <1>11, SeqEqual
<1>13. SubSeq(s, b + 1, Min({n, b + limit})) = SubSeq(u, 1, Min({limit, m}))
  BY <1>4, <1>5, <1>6, <1>12
<1> QED BY <1>0, <1>13 DEF CutsAlike

(* What a sequence of entries has for a key. *)
Lookup(e, k) == IF Holds(e, k) THEN e[Before(e, k) + 1].value ELSE NoValue

LEMMA OneOfKey ==
    ASSUME NEW s \in Seq(Entry), Arranged(s), NEW x \in Range(s), NEW y \in Range(s),
           x.key = y.key
    PROVE  x = y
<1>1. PICK n \in Nat : n = Len(s)
  BY EntryParts
<1>2. PICK i \in 1 .. n, j \in 1 .. n : s[i] = x /\ s[j] = y
  BY <1>1, EntryParts
<1>3. x.key \in Int /\ y.key \in Int
  BY EntryParts
<1>4. /\ i < j => s[i].key < s[j].key
      /\ j < i => s[j].key < s[i].key
  BY <1>1, <1>2 DEF Arranged
<1>5. i = j
  BY <1>2, <1>3, <1>4
<1> QED BY <1>2, <1>5

LEMMA LookupIs ==
    ASSUME NEW e \in Seq(Entry), Arranged(e), NEW k \in Key
    PROVE  /\ \A x \in Range(e) : x.key = k => Lookup(e, k) = x.value
           /\ (\A x \in Range(e) : x.key # k) => Lookup(e, k) = NoValue
<1>1. PICK n, b : n = Len(e) /\ b = Before(e, k) /\ n \in Nat
  BY EntryParts
<1>2. b \in 0 .. n /\ (Holds(e, k) <=> b + 1 <= n /\ e[b + 1].key = k)
  BY <1>1, BeforeIs
<1>3. Holds(e, k) <=> \E x \in Range(e) : x.key = k
  BY EntryParts DEF Holds
<1>4. Holds(e, k) => e[b + 1] \in Range(e) /\ e[b + 1].key = k
  BY <1>1, <1>2, EntryParts
<1>5. ASSUME NEW x \in Range(e), x.key = k PROVE Lookup(e, k) = x.value
  <2>1. Holds(e, k) /\ e[b + 1] \in Range(e) /\ e[b + 1].key = k
    BY <1>3, <1>4, <1>5
  <2>2. e[b + 1] = x
    BY <1>5, <2>1, OneOfKey
  <2> QED BY <1>1, <2>1, <2>2 DEF Lookup
<1> QED BY <1>3, <1>5 DEF Lookup

(* The leaf for a key has what the row has for it. *)
LEMMA LookupInRow ==
    ASSUME NEW n, NEW S, NEW lo, NEW hi, Row(n, S, lo, hi), NEW p \in S,
           NEW k \in Key, lo[p] <= k, k < hi[p],
           NEW all \in Seq(Entry), Arranged(all), Range(all) = Stock(n, S)
    PROVE  Lookup(n[p].entries, k) = Lookup(all, k)
<1>1. PICK e : e = n[p].entries
  OBVIOUS
<1>2. e \in Seq(Entry) /\ Arranged(e) /\ k \in Int
  BY <1>1, BoundParts DEF Row, Shelf
<1>3. Range(e) \subseteq Range(all)
  BY <1>1 DEF Stock
<1>4. ASSUME NEW x \in Range(all), x.key = k PROVE x \in Range(e)
  <2>1. PICK q \in S : x \in Range(n[q].entries)
    BY DEF Stock
  <2>2. q = p
    BY <1>2, <1>4, <2>1, ElsewhereNot
  <2> QED BY <1>1, <2>1, <2>2
<1>5. CASE \E x \in Range(e) : x.key = k
  <2>1. PICK x \in Range(e) : x.key = k
    BY <1>5
  <2>2. Lookup(e, k) = x.value
    BY <1>2, <2>1, LookupIs
  <2>3. Lookup(all, k) = x.value
    BY <1>3, <2>1, LookupIs
  <2> QED BY <1>1, <2>2, <2>3
<1>6. CASE ~ \E x \in Range(e) : x.key = k
  <2>1. Lookup(e, k) = NoValue
    BY <1>2, <1>6, LookupIs
  <2>2. Lookup(all, k) = NoValue
    BY <1>4, <1>6, LookupIs
  <2> QED BY <1>1, <2>1, <2>2
<1> QED BY <1>5, <1>6

(* The chain of leaves of a tree at rest. *)
Chained(live, lo, hi, S, all) ==
    /\ S = Leaves(node, live) /\ all = Contents
    /\ Row(node, S, lo, hi) /\ RowReached(node, S) /\ (\A p : p \in S <=> IsLeaf(p))
    /\ \A p \in S : Lists(EntriesFrom[p], node, S, lo, p)
    /\ all \in Seq(Entry) /\ Arranged(all) /\ Range(all) = Stock(node, S)
    /\ Gathers(EntriesFrom, node)

LEMMA ChainAtRest ==
    ASSUME NEW live, NEW lo, NEW hi, NEW h, Resting(live, lo, hi, h)
    PROVE  \E S, all : Chained(live, lo, hi, S, all)
<1>1. PICK S, all : S = Leaves(node, live) /\ all = Contents
  OBVIOUS
<1>2. Row(node, S, lo, hi) /\ RowReached(node, S) /\ \A p : p \in S <=> IsLeaf(p)
  BY <1>1 DEF Resting, Pages
<1>3. /\ \A p \in S : Lists(EntriesFrom[p], node, S, lo, p)
      /\ all \in Seq(Entry) /\ Arranged(all) /\ Range(all) = Stock(node, S)
      /\ Gathers(EntriesFrom, node)
  BY <1>1, <1>2, RowListed
<1> QED BY <1>1, <1>2, <1>3 DEF Chained

(* get *)
LEMMA GetsIt ==
    ASSUME NEW live, NEW lo, NEW hi, NEW h, Resting(live, lo, hi, h), NEW k \in Key
    PROVE  Get(k) = Lookup(Contents, k)
<1>1. PICK S, all : Chained(live, lo, hi, S, all)
  BY ChainAtRest
<1>2. PICK p : p = LeafFor(k)
  OBVIOUS
<1>3. IsLeaf(p) /\ lo[p] <= k /\ k < hi[p]
  BY <1>2, FindsLeaf
<1>4. p \in S
  BY <1>1, <1>3 DEF Chained
<1>5. Lookup(node[p].entries, k) = Lookup(all, k)
  BY <1>1, <1>3, <1>4, LookupInRow DEF Chained
<1> QED BY <1>1, <1>2, <1>5 DEF Get, Lookup, Chained

(* The walk from a leaf on has the entries of the row from its first key on. *)
LEMMA WalkFrom ==
    ASSUME NEW live, NEW lo, NEW hi, NEW S, NEW all, Chained(live, lo, hi, S, all),
           NEW p \in S, NEW e, e = node[p].entries, NEW u, u = EntriesFrom[p]
    PROVE  /\ u \in Seq(Entry) /\ Arranged(u) /\ e \in Seq(Entry) /\ Arranged(e)
           /\ Len(e) <= Len(u)
           /\ \A i \in 1 .. Len(u) :
                 IF i <= Len(e) THEN u[i] = e[i] ELSE hi[p] <= u[i].key
<1>1. /\ Row(node, S, lo, hi) /\ RowReached(node, S) /\ Gathers(EntriesFrom, node)
      /\ \A q \in S : Lists(EntriesFrom[q], node, S, lo, q)
  BY DEF Chained
<1>2. u \in Seq(Entry) /\ Arranged(u) /\ e \in Seq(Entry) /\ Arranged(e)
  BY <1>1 DEF Row, Shelf, Lists
<1>3. PICK q : q = node[p].next
  OBVIOUS
<1>4. /\ q \in S \cup {0} /\ q \in 0 .. MaxPage /\ (q # 0 => q \in S /\ lo[q] = hi[p])
  BY <1>1, <1>3, NextInRow
<1>5. PICK t : t = EntriesFrom[q]
  OBVIOUS
<1>6. t \in Seq(Entry) /\ \A x \in Range(t) : hi[p] <= x.key
  <2>1. CASE q = 0
    <3>1. ~ LeafPage(node, 0) /\ 0 \in 0 .. MaxPage
      BY <1>4, <2>1 DEF LeafPage, Page
    <3>2. t = << >>
      BY <1>1, <1>5, <2>1, <3>1 DEF Gathers
    <3> QED BY <3>2 DEF Range
  <2>2. CASE q # 0
    BY <1>1, <1>4, <1>5, <2>2 DEF Lists
  <2> QED BY <2>1, <2>2
<1>7. u = e \o t
  <2>1. LeafPage(node, p) /\ p \in 0 .. MaxPage
    BY <1>1 DEF LeafPage, RowReached, Row, Places, Page
  <2> QED BY <1>1, <1>3, <1>5, <2>1 DEF Gathers
<1>8. JoinedAt(Entry, e, t, u)
  BY <1>2, <1>6, <1>7, JoinedPlaces
<1>9. PICK m, n : m = Len(e) /\ n = Len(t) /\ m \in Nat /\ n \in Nat
  BY <1>2, <1>6, EntryParts
<1>10. /\ Len(u) = m + n /\ \A i \in 1 .. m : u[i] = e[i]
       /\ \A i \in 1 .. n : u[m + i] = t[i]
  BY <1>8, <1>9 DEF JoinedAt
<1>11. ASSUME NEW i \in 1 .. m + n
       PROVE  IF i <= m THEN u[i] = e[i] ELSE hi[p] <= u[i].key
  <2>1. CASE i <= m
    <3>1. i \in 1 .. m
      BY <1>9, <2>1
    <3> QED BY <1>10, <2>1, <3>1
  <2>2. CASE ~ (i <= m)
    <3>1. PICK j : j = i - m
      OBVIOUS
    <3>2. j \in 1 .. n /\ i = m + j
      BY <1>9, <2>2, <3>1
    <3>3. u[i] = t[j]
      BY <1>10, <3>2
    <3>4. t[j] \in Range(t)
      BY <1>6, <1>9, <3>2, EntryParts
    <3> QED BY <1>6, <2>2, <3>3, <3>4
  <2> QED BY <2>1, <2>2
<1> QED BY <1>2, <1>9, <1>10, <1>11

LEMMA WalkSkips ==
    ASSUME NEW live, NEW lo, NEW hi, NEW S, NEW all, Chained(live, lo, hi, S, all),
           NEW p \in S, NEW e, e = node[p].entries, NEW u, u = EntriesFrom[p],
           NEW k \in Key, lo[p] <= k, k < hi[p], NEW b, b = Before(e, k)
    PROVE  b \in 0 .. Len(u) /\ \A i \in 1 .. Len(u) : u[i].key < k <=> i <= b
<1>1. /\ u \in Seq(Entry) /\ Arranged(u) /\ e \in Seq(Entry) /\ Arranged(e)
      /\ Len(e) <= Len(u)
      /\ \A i \in 1 .. Len(u) : IF i <= Len(e) THEN u[i] = e[i] ELSE hi[p] <= u[i].key
  BY WalkFrom
<1>2. PICK m, n : m = Len(e) /\ n = Len(u) /\ m \in Nat /\ n \in Nat
  BY <1>1, EntryParts
<1>3. b \in 0 .. m /\ \A i \in 1 .. m : e[i].key < k <=> i <= b
  BY <1>1, <1>2, BeforeIs
<1>4. k \in Int /\ hi[p] \in Int /\ \A i \in 1 .. n : u[i].key \in Int
  <2>1. Row(node, S, lo, hi)
    BY DEF Chained
  <2> QED BY <1>1, <1>2, <2>1, RowParts, EntryParts, BoundParts
<1>5. ASSUME NEW i \in 1 .. n PROVE u[i].key < k <=> i <= b
  <2>1. CASE i <= m
    <3>1. i \in 1 .. m /\ u[i] = e[i]
      BY <1>1, <1>2, <2>1
    <3> QED BY <1>3, <3>1
  <2>2. CASE ~ (i <= m)
    <3>1. hi[p] <= u[i].key
      BY <1>1, <1>2, <2>2
    <3>2. ~ (u[i].key < k)
      BY <1>4, <3>1
    <3>3. ~ (i <= b)
      BY <1>2, <1>3, <2>2
    <3> QED BY <3>2, <3>3
  <2> QED BY <2>1, <2>2
<1> QED BY <1>1, <1>2, <1>3, <1>5

(* scan, from any key: the rest of the row. *)
LEMMA WalkIsRest ==
    ASSUME NEW live, NEW lo, NEW hi, NEW S, NEW all, Chained(live, lo, hi, S, all),
           NEW p \in S, NEW e, e = node[p].entries, NEW u, u = EntriesFrom[p],
           NEW k \in Key, lo[p] <= k, k < hi[p], NEW b, b = Before(e, k)
    PROVE  /\ Onward(u, b) = Onward(all, Before(all, k))
           /\ Len(Onward(u, b)) = Len(u) - b /\ b \in 0 .. Len(u) /\ u \in Seq(Entry)
<1>1. /\ Row(node, S, lo, hi) /\ Lists(u, node, S, lo, p)
      /\ all \in Seq(Entry) /\ Arranged(all) /\ Range(all) = Stock(node, S)
  BY DEF Chained
<1>2. u \in Seq(Entry) /\ Arranged(u) /\ Range(u) = Beyond(node, S, lo, p)
  BY <1>1 DEF Lists
<1>3. k \in Int
  BY BoundParts
<1>4. b \in 0 .. Len(u) /\ \A i \in 1 .. Len(u) : u[i].key < k <=> i <= b
  BY WalkSkips
<1>5. PICK c : c = Before(all, k)
  OBVIOUS
<1>6. c \in 0 .. Len(all) /\ \A i \in 1 .. Len(all) : all[i].key < k <=> i <= c
  BY <1>1, <1>5, BeforeIs
<1>7. PICK v, w : v = Onward(u, b) /\ w = Onward(all, c)
  OBVIOUS
<1>8. /\ v \in Seq(Entry) /\ Arranged(v) /\ Range(v) = {x \in Range(u) : ~ (x.key < k)}
      /\ Len(v) = Len(u) - b
  BY <1>2, <1>3, <1>4, <1>7, OnwardIs
<1>9. w \in Seq(Entry) /\ Arranged(w) /\ Range(w) = {x \in Range(all) : ~ (x.key < k)}
  BY <1>1, <1>3, <1>6, <1>7, OnwardIs
<1>10. ASSUME NEW x \in Stock(node, S), ~ (x.key < k) PROVE x \in Beyond(node, S, lo, p)
  <2>1. PICK q \in S : x \in Range(node[q].entries)
    BY DEF Stock
  <2>2. Shelf(node[q].entries, lo[q], hi[q]) /\ q \in Page /\ p \in Page
    BY <1>1, RowParts DEF Row
  <2>3. x.key < hi[q] /\ x.key \in Int
    BY <2>1, <2>2, EntryParts DEF Shelf
  <2>4. q # p => hi[p] <= lo[q] \/ hi[q] <= lo[p]
    BY <1>1 DEF Row
  <2>5. lo[p] \in Int /\ lo[q] \in Int /\ hi[p] \in Int /\ hi[q] \in Int
    BY <1>1, <2>2, RowParts
  <2>6. lo[q] >= lo[p]
    BY <1>3, <1>10, <2>3, <2>4, <2>5
  <2> QED BY <2>1, <2>6 DEF Beyond
<1>11. Beyond(node, S, lo, p) \subseteq Stock(node, S)
  BY DEF Beyond, Stock
<1>12. Range(v) = Range(w)
  BY <1>1, <1>2, <1>8, <1>9, <1>10, <1>11
<1>13. v = w
  BY <1>8, <1>9, <1>12, OneOrder
<1> QED BY <1>2, <1>4, <1>5, <1>7, <1>8, <1>13

LEMMA ScansIt ==
    ASSUME NEW live, NEW lo, NEW hi, NEW h, Resting(live, lo, hi, h), NEW k \in Key,
           NEW limit \in Nat, NEW rest, rest = Onward(Contents, Before(Contents, k))
    PROVE  Scan(k, limit) = SubSeq(rest, 1, Min({limit, Len(rest)}))
<1>1. PICK S, all : Chained(live, lo, hi, S, all)
  BY ChainAtRest
<1>2. PICK p, e, u, b : p = LeafFor(k) /\ e = node[p].entries /\ u = EntriesFrom[p]
                        /\ b = Before(e, k)
  OBVIOUS
<1>3. IsLeaf(p) /\ lo[p] <= k /\ k < hi[p]
  BY <1>2, FindsLeaf
<1>4. p \in S /\ all = Contents
  BY <1>1, <1>3 DEF Chained
<1>5. /\ Onward(u, b) = rest
      /\ Len(Onward(u, b)) = Len(u) - b /\ b \in 0 .. Len(u) /\ u \in Seq(Entry)
  BY <1>1, <1>2, <1>3, <1>4, WalkIsRest
<1>6. PICK n, m : n = Len(u) /\ m = Len(rest)
  OBVIOUS
<1>7. SubSeq(u, b + 1, Min({n, b + limit})) = SubSeq(rest, 1, Min({limit, m}))
  <2>1. CutsAlike(u, b, limit, Onward(u, b))
    BY <1>5, OnwardCut
  <2> QED BY <1>5, <1>6, <2>1 DEF CutsAlike
<1>8. Scan(k, limit) = SubSeq(u, b + 1, Min({n, b + limit}))
  BY <1>2, <1>6 DEF Scan
<1> QED BY <1>6, <1>7, <1>8

LEMMA RestReads ==
    ASSUME OneWriter, Inv, Ordered
    PROVE  ReadsAgree
<1>1. SUFFICES ASSUME Quiet
               PROVE  LET all == Contents IN
        \A k \in Key :
           LET rest == SubSeq(all, Before(all, k) + 1, Len(all))
           IN  /\ Get(k) = IF Holds(all, k) THEN rest[1].value ELSE NoValue
               /\ \A limit \in 1 .. MaxKey :
                     Scan(k, limit) = SubSeq(rest, 1, Min({limit, Len(rest)}))
  BY DEF ReadsAgree
<1>2. PICK live, lo, hi, h : Resting(live, lo, hi, h)
  BY <1>1, TreeRests
<1>3. PICK S, all : Chained(live, lo, hi, S, all)
  BY <1>2, ChainAtRest
<1>4. all \in Seq(Entry) /\ Arranged(all) /\ all = Contents
  BY <1>3 DEF Chained
<1>5. ASSUME NEW k \in Key, NEW rest, rest = Onward(all, Before(all, k))
      PROVE  /\ Get(k) = IF Holds(all, k) THEN rest[1].value ELSE NoValue
             /\ \A limit \in 1 .. MaxKey :
                   Scan(k, limit) = SubSeq(rest, 1, Min({limit, Len(rest)}))
  <2>1. Get(k) = Lookup(all, k)
    BY <1>2, <1>4, GetsIt
  <2>2. ASSUME Holds(all, k) PROVE rest[1] = all[Before(all, k) + 1]
    <3>1. PICK n, b : n = Len(all) /\ b = Before(all, k)
      OBVIOUS
    <3>2. n \in Nat /\ b \in 0 .. n /\ b + 1 <= n
      BY <1>4, <2>2, <3>1, BeforeIs, EntryParts
    <3>3. PICK a : a = b + 1 /\ a \in 1 .. n + 1 /\ n \in a - 1 .. n /\ 1 \in 1 .. n - a + 1
                   /\ a + 1 - 1 = a
      BY <3>2
    <3>4. rest = SubSeq(all, a, n)
      BY <1>5, <3>1, <3>3 DEF Onward
    <3>5. Slice(Entry, all, a, n, rest)
      BY <1>4, <3>1, <3>3, <3>4, SlicePlaces
    <3>6. rest[1] = all[a + 1 - 1]
      BY <3>3, <3>5 DEF Slice
    <3> QED BY <3>1, <3>3, <3>6
  <2>3. \A limit \in 1 .. MaxKey : limit \in Nat
    OBVIOUS
  <2>4. \A limit \in 1 .. MaxKey : Scan(k, limit) = SubSeq(rest, 1, Min({limit, Len(rest)}))
    BY <1>2, <1>4, <1>5, <2>3, ScansIt
  <2> QED BY <2>1, <2>2, <2>4 DEF Lookup
<1>6. \A k \in Key : Onward(all, Before(all, k)) = SubSeq(all, Before(all, k) + 1, Len(all))
  BY DEF Onward
<1> QED BY <1>4, <1>5, <1>6

(* A writer that only inserts: it frees no page and turns no leaf into a node. *)
Inserting(l) ==
    /\ l.pc \in {"idle", "find", "insert", "return", "next", "promote", "adopt", "root", "parent"}
    /\ l.pc = "idle" \/ l.op = "insert"
    /\ l.pc = "next" => l.then = "promote"
    /\ l.pc = "adopt" => l.then \in {"root", "return", "promote"}

KindsKept ==
    \A p \in Page : node[p].type # "freed" => node'[p].type = node[p].type

LEMMA InsertingStands ==
    ASSUME OneWriter, Inv, NEW l, l = run[TheWriter], Inserting(l), NEW l2, l2 = run'[TheWriter],
           \/ Adopt(TheWriter) \/ Adopted(TheWriter) \/ StoreRoot(TheWriter)
           \/ FixNext(TheWriter) \/ GrowRoot(TheWriter) \/ ToParent(TheWriter)
           \/ InsertEntry(TheWriter) \/ SplitInternal(TheWriter)
    PROVE  Inserting(l2)
<1>1. l \in Locals
  BY DEF Inv, Good, Typed
<1>2. CASE Adopt(TheWriter)
  <2>1. l.pc = "adopt" /\ l2 = [l EXCEPT !.adopt = Tail(@)]
    BY <1>2, LocalsNow DEF Adopt, At
  <2> QED BY <1>1, <2>1 DEF Inserting, Locals
<1>3. CASE Adopted(TheWriter)
  <2>1. l.pc = "adopt" /\ (l2 = Idle \/ (l.then # "return" /\ l2 = [l EXCEPT !.pc = l.then]))
    BY <1>3, LocalsNow DEF Adopted, At, Return
  <2> QED BY <1>1, <2>1 DEF Inserting, Idle, Locals
<1>4. CASE StoreRoot(TheWriter)
  <2>1. l2 = Idle
    BY <1>4, LocalsNow DEF StoreRoot, Return
  <2> QED BY <2>1 DEF Inserting, Idle
<1>5. CASE FixNext(TheWriter)
  <2>1. l.pc = "next" /\ l2 = [l EXCEPT !.next = 0, !.pc = l.then]
    BY <1>5, LocalsNow DEF FixNext, At
  <2> QED BY <1>1, <2>1 DEF Inserting, Locals
<1>6. CASE GrowRoot(TheWriter)
  <2>1. PICK q, a : l.pc = "promote"
                    /\ l2 = [l EXCEPT !.pc = "adopt", !.then = "root", !.right = q, !.adopt = a]
    BY <1>6, LocalsNow DEF GrowRoot, At
  <2> QED BY <1>1, <2>1 DEF Inserting, Locals
<1>7. CASE ToParent(TheWriter)
  <2>1. PICK p : l.pc = "promote" /\ l2 = [l EXCEPT !.pc = "parent", !.page = p]
    BY <1>7, LocalsNow DEF ToParent, At
  <2> QED BY <1>1, <2>1 DEF Inserting, Locals
<1>8. CASE InsertEntry(TheWriter)
  <2>1. PICK a : l.pc = "parent"
                 /\ l2 = [l EXCEPT !.pc = "adopt", !.then = "return", !.adopt = a]
    BY <1>8, LocalsNow DEF InsertEntry, At
  <2> QED BY <1>1, <2>1 DEF Inserting, Locals
<1>9. CASE SplitInternal(TheWriter)
  <2>1. PICK q, s, a :
           Continue(TheWriter, [run[TheWriter] EXCEPT !.pc = "adopt", !.then = "promote",
                                                      !.right = q, !.sep = s, !.adopt = a])
    BY <1>9 DEF SplitInternal
  <2>2. l.pc = "parent"
    BY <1>9 DEF SplitInternal, At
  <2>3. l2 = [l EXCEPT !.pc = "adopt", !.then = "promote", !.right = q, !.sep = s, !.adopt = a]
    BY <2>1, LocalsNow
  <2> QED BY <1>1, <2>2, <2>3 DEF Inserting, Locals
<1> QED BY <1>2, <1>3, <1>4, <1>5, <1>6, <1>7, <1>8, <1>9

LEMMA InsertingBegins ==
    ASSUME OneWriter, Inv, NEW l, l = run[TheWriter], Inserting(l), NEW l2, l2 = run'[TheWriter],
           l2.op # "delete",
           \/ \E k \in Key :
                 \/ \E v \in Value : Call(TheWriter, "insert", k, v)
                 \/ Call(TheWriter, "delete", k, NoValue)
           \/ Find(TheWriter) \/ InsertInPlace(TheWriter) \/ SplitLeaf(TheWriter)
           \/ Done(TheWriter)
    PROVE  Inserting(l2)
<1>1. l \in Locals
  BY DEF Inv, Good, Typed
<1>2. ASSUME NEW op, NEW k, NEW v, Call(TheWriter, op, k, v) PROVE Inserting(l2) \/ op # "insert"
  <2>1. l2 = [Idle EXCEPT !.pc = "find", !.op = op, !.key = k, !.value = v, !.page = root]
    BY <1>2, LocalsNow DEF Call
  <2>2. l2.pc = "find" /\ l2.op = op
    BY <2>1 DEF Idle
  <2> QED BY <2>2 DEF Inserting
<1>3. ASSUME NEW k, NEW v, Call(TheWriter, "delete", k, v) PROVE FALSE
  <2>1. l2 = [Idle EXCEPT !.pc = "find", !.op = "delete", !.key = k, !.value = v, !.page = root]
    BY <1>3, LocalsNow DEF Call
  <2> QED BY <2>1 DEF Idle
<1>4. CASE Find(TheWriter)
  <2>1. l.pc = "find" /\ (l2 = [l EXCEPT !.pc = l.op]
                          \/ \E q : l2 = [l EXCEPT !.page = q])
    BY <1>4, LocalsNow DEF Find, At
  <2> QED BY <1>1, <2>1 DEF Inserting, Locals
<1>5. CASE InsertInPlace(TheWriter)
  <2>1. l.pc = "insert" /\ l2 = [l EXCEPT !.done = TRUE, !.pc = "return"]
    BY <1>5, LocalsNow DEF InsertInPlace, At
  <2> QED BY <1>1, <2>1 DEF Inserting, Locals
<1>6. CASE SplitLeaf(TheWriter)
  <2>1. PICK q, s, a :
           Continue(TheWriter, [run[TheWriter] EXCEPT !.done = TRUE, !.right = q, !.sep = s,
                                  !.next = a, !.pc = "next", !.then = "promote"])
    BY <1>6 DEF SplitLeaf
  <2>2. l.pc = "insert"
    BY <1>6 DEF SplitLeaf, At
  <2>3. l2 = [l EXCEPT !.done = TRUE, !.right = q, !.sep = s, !.next = a, !.pc = "next",
                       !.then = "promote"]
    BY <2>1, LocalsNow
  <2> QED BY <1>1, <2>2, <2>3 DEF Inserting, Locals
<1>7. CASE Done(TheWriter)
  <2>1. l2 = Idle
    BY <1>7, LocalsNow DEF Done, Return
  <2> QED BY <2>1 DEF Inserting, Idle
<1> QED BY <1>2, <1>3, <1>4, <1>5, <1>6, <1>7

(* What such a writer may do, and what it may not. *)
LEMMA InsertingSteps ==
    ASSUME OneWriter, Inv, NEW l, l = run[TheWriter], Inserting(l), Step(TheWriter),
           run'[TheWriter].pc # "failed"
    PROVE  \/ Adopt(TheWriter) \/ Adopted(TheWriter) \/ StoreRoot(TheWriter)
           \/ FixNext(TheWriter) \/ GrowRoot(TheWriter) \/ ToParent(TheWriter)
           \/ InsertEntry(TheWriter) \/ SplitInternal(TheWriter)
           \/ \E k \in Key :
                 \/ \E v \in Value : Call(TheWriter, "insert", k, v)
                 \/ Call(TheWriter, "delete", k, NoValue)
           \/ Find(TheWriter) \/ InsertInPlace(TheWriter) \/ SplitLeaf(TheWriter)
           \/ Done(TheWriter)
<1>1. ~ RemoveKey(TheWriter) /\ ~ Rebalance(TheWriter) /\ ~ Siblings(TheWriter)
  BY DEF Inserting, RemoveKey, Rebalance, Siblings, At
<1>2. ~ ShareLeaves(TheWriter) /\ ~ SetSeparator(TheWriter) /\ ~ MergeLeaves(TheWriter)
  BY DEF Inserting, ShareLeaves, SetSeparator, MergeLeaves, At
<1>3. ~ ShareChildren(TheWriter) /\ ~ MergeInternals(TheWriter)
  BY DEF Inserting, ShareChildren, MergeInternals, At
<1>4. ~ FreeRight(TheWriter) /\ ~ FreeRoot(TheWriter) /\ ~ RemoveEntry(TheWriter)
  BY DEF Inserting, FreeRight, FreeRoot, RemoveEntry, At
<1>5. ~ Fail(TheWriter)
  <2>1. SUFFICES ASSUME Fail(TheWriter) PROVE FALSE
    OBVIOUS
  <2>2. run'[TheWriter] = [Idle EXCEPT !.pc = "failed"]
    BY <2>1, LocalsNow DEF Fail
  <2> QED BY <2>2 DEF Idle
<1> QED BY <1>1, <1>2, <1>3, <1>4, <1>5 DEF Step

(* One field of a page changes, or a free page and one that stays what it is. *)
LEMMA TouchKeeps ==
    ASSUME NEW x \in Node, x.type # "freed", NEW v, NEW w
    PROVE  /\ [x EXCEPT !.parent = v].type = x.type
           /\ x.type = "leaf" => [x EXCEPT !.prev = v].type = x.type
           /\ x.type = "leaf" => [x EXCEPT !.entries = v].type = x.type
           /\ x.type = "internal" => [x EXCEPT !.keys = v, !.children = w].type = x.type
<1>1. x.type \in {"leaf", "internal"}
  BY NodeKinds
<1>2. CASE x.type = "leaf"
  BY <1>2, LeafParts DEF LeafNodes
<1>3. CASE x.type = "internal"
  BY <1>3, InternalParts DEF InternalNodes
<1> QED BY <1>1, <1>2, <1>3

LEMMA OnePageKeeps ==
    ASSUME node \in [Page -> Node], NEW g \in Page, NEW x, node' = [node EXCEPT ![g] = x],
           node[g].type # "freed" => x.type = node[g].type
    PROVE  KindsKept
BY DEF KindsKept

LEMMA NewPageKeeps ==
    ASSUME node \in [Page -> Node], NEW g \in Page, NEW new \in Page, node[new].type = "freed",
           NEW x, NEW y, node' = [node EXCEPT ![new] = y, ![g] = x],
           node[g].type # "freed", x.type = node[g].type
    PROVE  KindsKept
BY DEF KindsKept

LEMMA InsertingKeeps ==
    ASSUME OneWriter, Inv, NeverOverrun', NEW l, l = run[TheWriter],
           \/ Adopt(TheWriter) \/ Adopted(TheWriter) \/ StoreRoot(TheWriter)
           \/ FixNext(TheWriter) \/ GrowRoot(TheWriter) \/ ToParent(TheWriter)
           \/ InsertEntry(TheWriter) \/ SplitInternal(TheWriter)
           \/ \E k \in Key :
                 \/ \E v \in Value : Call(TheWriter, "insert", k, v)
                 \/ Call(TheWriter, "delete", k, NoValue)
           \/ Find(TheWriter) \/ InsertInPlace(TheWriter) \/ SplitLeaf(TheWriter)
           \/ Done(TheWriter)
    PROVE  KindsKept
<1>1. node \in [Page -> Node]
  BY NodesNow
<1>2. CASE node' = node
  BY <1>2 DEF KindsKept
<1>3. CASE Adopt(TheWriter)
  <2>1. PICK g, q : /\ node' = [node EXCEPT ![g] = [node[g] EXCEPT !.parent = q]]
                    /\ node[g].type \in {"leaf", "internal"} /\ g \in Page
    BY <1>3 DEF Adopt, IsLeaf, IsInternal
  <2> QED BY <1>1, <2>1, TouchKeeps, OnePageKeeps
<1>4. CASE FixNext(TheWriter)
  <2>1. CASE node' # node
    <3>1. PICK g, q : /\ node' = [node EXCEPT ![g] = [node[g] EXCEPT !.prev = q]]
                      /\ node[g].type = "leaf" /\ g \in Page
      BY <1>4, <2>1 DEF FixNext, IsLeaf
    <3> QED BY <1>1, <3>1, TouchKeeps, OnePageKeeps
  <2> QED BY <1>2, <2>1
<1>5. CASE InsertInPlace(TheWriter)
  <2>1. PICK g, q : /\ node' = [node EXCEPT ![g] = [node[g] EXCEPT !.entries = q]]
                    /\ node[g].type = "leaf" /\ g \in Page
    BY <1>5 DEF InsertInPlace, IsLeaf
  <2> QED BY <1>1, <2>1, TouchKeeps, OnePageKeeps
<1>6. CASE InsertEntry(TheWriter)
  <2>1. PICK g, k, c : /\ node' = [node EXCEPT ![g] = [node[g] EXCEPT !.keys = k, !.children = c]]
                       /\ node[g].type = "internal" /\ g \in Page
    <3>1. PICK g, k, c : g = l.page /\ k = NewKeys(TheWriter) /\ c = NewChildren(TheWriter)
      OBVIOUS
    <3>2. /\ node' = [node EXCEPT ![g].keys = k, ![g].children = c]
          /\ node[g].type = "internal" /\ g \in Page
      BY <1>6, <3>1 DEF InsertEntry, IsInternal
    <3>3. node[g] \in InternalNodes
      BY <1>1, <3>2, InternalParts
    <3>4. [node EXCEPT ![g].keys = k, ![g].children = c]
             = [node EXCEPT ![g] = [node[g] EXCEPT !.keys = k, !.children = c]]
      BY <1>1, <3>2, <3>3 DEF InternalNodes
    <3> QED BY <3>2, <3>4
  <2>2. PICK x : x = [node[g] EXCEPT !.keys = k, !.children = c]
    OBVIOUS
  <2>3. x.type = node[g].type
    BY <1>1, <2>1, <2>2, TouchKeeps
  <2> QED BY <1>1, <2>1, <2>2, <2>3, OnePageKeeps
<1>7. CASE GrowRoot(TheWriter)
  <2>1. PICK g, x : node' = [node EXCEPT ![g] = x] /\ g \in Page /\ node[g].type = "freed"
    BY <1>7, NewPageIsFree DEF GrowRoot
  <2> QED BY <1>1, <2>1, OnePageKeeps
<1>8. CASE SplitLeaf(TheWriter)
  <2>0. PICK en, mid, leaf : /\ en = Entries(TheWriter) /\ mid = Half(en)
                             /\ leaf = node[l.page]
    OBVIOUS
  <2>1. PICK g, new, x, y :
           /\ node' = [node EXCEPT ![new] = y, ![g] = x] /\ new \in Page
           /\ node[new].type = "freed" /\ g \in Page /\ node[g].type = "leaf"
           /\ x.type # "overrun" => x.type = "leaf"
    <3>1. PICK x, y : /\ y = Leaf(SubSeq(en, mid + 1, Len(en)), leaf.parent, l.page, leaf.next)
                      /\ x = Leaf(SubSeq(en, 1, mid), leaf.parent, leaf.prev, NewPage)
      OBVIOUS
    <3>2. node' = [node EXCEPT ![NewPage] = y, ![l.page] = x] /\ FreePages # {}
          /\ l.page \in Page /\ node[l.page].type = "leaf"
      BY <1>8, <2>0, <3>1 DEF SplitLeaf, IsLeaf
    <3>3. x.type # "overrun" => x.type = "leaf"
      BY <3>1 DEF Leaf, Overrun
    <3> QED BY <3>2, <3>3, NewPageIsFree
  <2>2. node'[g] = x
    BY <1>1, <2>1
  <2>3. x.type # "overrun"
    BY <2>1, <2>2 DEF NeverOverrun
  <2>4. x.type = "leaf"
    BY <2>1, <2>3
  <2> QED BY <1>1, <2>1, <2>4, NewPageKeeps
<1>9. CASE SplitInternal(TheWriter)
  <2>1. PICK g, new, x, y :
           /\ node' = [node EXCEPT ![new] = y, ![g] = x] /\ new \in Page
           /\ node[new].type = "freed" /\ g \in Page /\ node[g].type = "internal"
           /\ x.type # "overrun" => x.type = "internal"
    <3>1. PICK keys, children, mid, moved, parent :
             /\ keys = NewKeys(TheWriter) /\ children = NewChildren(TheWriter)
             /\ mid = Half(keys) /\ moved = SubSeq(children, mid + 2, Len(children))
             /\ parent = node[l.page].parent
      OBVIOUS
    <3>2. PICK x, y :
             /\ y = Internal(SubSeq(keys, mid + 2, Len(keys)), moved, parent)
             /\ x = Internal(SubSeq(keys, 1, mid), SubSeq(children, 1, mid + 1), parent)
      OBVIOUS
    <3>3. /\ node' = [node EXCEPT ![NewPage] = y, ![l.page] = x] /\ FreePages # {}
          /\ l.page \in Page /\ node[l.page].type = "internal"
      BY <1>9, <3>1, <3>2 DEF SplitInternal, IsInternal
    <3>4. x.type # "overrun" => x.type = "internal"
      BY <3>2 DEF Internal, Overrun
    <3> QED BY <3>3, <3>4, NewPageIsFree
  <2>2. node'[g] = x
    BY <1>1, <2>1
  <2>3. x.type # "overrun"
    BY <2>1, <2>2 DEF NeverOverrun
  <2>4. x.type = "internal"
    BY <2>1, <2>3
  <2> QED BY <1>1, <2>1, <2>4, NewPageKeeps
<1>10. CASE \/ Adopted(TheWriter) \/ StoreRoot(TheWriter) \/ ToParent(TheWriter)
            \/ \E k \in Key :
                  \/ \E v \in Value : Call(TheWriter, "insert", k, v)
                  \/ Call(TheWriter, "delete", k, NoValue)
            \/ Find(TheWriter) \/ Done(TheWriter)
  BY <1>2, <1>10 DEF Adopted, StoreRoot, ToParent, Call, Find, Done
<1> QED BY <1>3, <1>4, <1>5, <1>6, <1>7, <1>8, <1>9, <1>10

(* Readers beside a writer that inserts.  Between the steps that split a node,
   a reader is at the page for its key; during them it may miss the key. *)
Steady(l) == l.pc \in {"idle", "find", "insert", "delete", "return"}

OnItsWay(rd, n, possible, lo, hi) ==
    /\ rd.key \in Key /\ rd.page \in Page /\ n[rd.page].type # "freed"
    /\ rd.atLeaf => n[rd.page].type = "leaf"
    /\ possible[rd.key] \subseteq rd.seen
    /\ NoValue \in rd.seen \/ (lo[rd.page] <= rd.key /\ rd.key < hi[rd.page])

ReaderAt(rd, n, possible, lo, hi) ==
    /\ rd = [pc |-> rd.pc, key |-> rd.key, page |-> rd.page, atLeaf |-> rd.atLeaf,
             answer |-> rd.answer, seen |-> rd.seen]
    /\ rd.pc \in {"idle", "fetch", "hold", "done"}
    /\ rd.pc \in {"fetch", "hold"} => OnItsWay(rd, n, possible, lo, hi)
    /\ rd.pc = "done" => rd.answer \in rd.seen

ReadersAt(readers, n, possible, lo, hi) ==
    \A r \in Reader : ReaderAt(readers[r], n, possible, lo, hi)

(* Beside readers the writer only inserts; without them no get is under way. *)
Guided ==
    /\ reader = [r \in Reader |-> reader[r]]
    /\ ~ shared => \A r \in Reader : reader[r] = NoCallYet
    /\ shared =>
          /\ Inserting(run[TheWriter]) /\ root \in Page /\ node[root].type # "freed"
          /\ \E lo, hi, from, upto :
                /\ Order(node, root, run[TheWriter], lo, hi, from, upto)
                /\ ReadersAt(reader, node, PossibleNow, lo, hi)

LEMMA PossibleIs ==
    ASSUME OneWriter, NEW l, l = run[TheWriter], NEW k \in Key
    PROVE  PossibleNow[k] = {Lookup(Contents, k)} \cup (IF Steady(l) THEN {} ELSE {NoValue})
<1>1. Restructuring <=> ~ Steady(l)
  BY DEF Restructuring, OneWriter, Steady
<1>2. PossibleNow[k] = Possible(k)
  BY DEF PossibleNow
<1>3. PICK all : all = Contents
  OBVIOUS
<1> QED BY <1>1, <1>2, <1>3 DEF Possible, Lookup

LEMMA PossibleStays ==
    ASSUME node' = node, run' = run
    PROVE  PossibleNow' = PossibleNow
<1>1. Contents' = Contents
  <2>1. Contents' = WalkOver(node')[FirstLeaf]
    BY DEF Contents, WalkOver, EntriesFrom, IsLeaf
  <2> QED BY <2>1, ContentsWalk
<1>2. Restructuring' = Restructuring
  BY DEF Restructuring
<1>3. ASSUME NEW k PROVE Possible(k)' = Possible(k)
  BY <1>1, <1>2 DEF Possible
<1> QED BY <1>3 DEF PossibleNow

(* The pages of the tree beside an insert, as a reader finds them. *)
LEMMA InsertingView ==
    ASSUME Inv, NEW l, l = run[TheWriter], Inserting(l),
           NEW lo, NEW hi, NEW from, NEW upto, Order(node, root, l, lo, hi, from, upto)
    PROVE  /\ ~ Merging(l) /\ ~ Collapsing(l) /\ l.pc # "failed"
           /\ Live(node, l) = {p \in Page : node[p].type # "freed"}
           /\ \A p \in Live(node, l) : IsLeaf(p) \/ IsInternal(p)
           /\ Steady(l) => Still(l) /\ from = lo /\ upto = hi
<1>1. ~ Merging(l) /\ ~ Collapsing(l) /\ l.pc # "failed"
  BY DEF Inserting, Merging, Collapsing
<1>2. Live(node, l) = {p \in Page : node[p].type # "freed"}
  BY <1>1 DEF Live
<1>3. node \in [Page -> Node]
  BY NodesNow
<1>4. \A p \in Live(node, l) : IsLeaf(p) \/ IsInternal(p)
  BY <1>2, <1>3, NodeKinds DEF IsLeaf, IsInternal
<1>5. ASSUME Steady(l) PROVE Still(l) /\ from = lo /\ upto = hi
  <2>1. Still(l)
    BY <1>5 DEF Steady, Still, Promoting, Splitting, Merging, Collapsing, NewTop
  <2> QED BY <2>1, OrderParts, PlainSight DEF Still
<1> QED BY <1>1, <1>2, <1>4, <1>5

(* What a leaf has for the key of a reader that has come to it. *)
LEMMA LeafAnswers ==
    ASSUME OneWriter, Inv, NEW l, l = run[TheWriter], Inserting(l),
           NEW lo, NEW hi, NEW from, NEW upto, Order(node, root, l, lo, hi, from, upto),
           NEW rd, OnItsWay(rd, node, PossibleNow, lo, hi), node[rd.page].type = "leaf"
    PROVE  Lookup(node[rd.page].entries, rd.key) \in rd.seen
<1>1. PICK p, k, e, all, S : /\ p = rd.page /\ k = rd.key /\ e = node[p].entries
                             /\ all = Contents /\ S = Leaves(node, Live(node, l))
  OBVIOUS
<1>2. p \in S /\ k \in Key
  BY <1>1, InsertingView DEF OnItsWay, Leaves
<1>3. Row(node, S, lo, hi)
  BY <1>1, OrderParts DEF Pages
<1>4. all \in Seq(Entry) /\ Arranged(all) /\ Range(all) = Stock(node, S)
  <2>1. Ordered /\ l.pc # "failed"
    BY InsertingView DEF Ordered, InOrder
  <2> QED BY <1>1, <2>1, BookListed DEF Book
<1>5. Lookup(all, k) \in rd.seen
  BY <1>1, <1>2, PossibleIs DEF OnItsWay
<1>6. CASE lo[p] <= k /\ k < hi[p]
  BY <1>1, <1>2, <1>3, <1>4, <1>5, <1>6, LookupInRow
<1>7. CASE NoValue \in rd.seen
  <2>1. e \in Seq(Entry) /\ Arranged(e)
    BY <1>1, <1>2, <1>3 DEF Row, Shelf
  <2>2. CASE \E x \in Range(e) : x.key = k
    <3>1. PICK x \in Range(e) : x.key = k
      BY <2>2
    <3>2. x \in Range(all)
      BY <1>1, <1>2, <1>4 DEF Stock
    <3>3. Lookup(e, k) = x.value /\ Lookup(all, k) = x.value
      BY <1>2, <1>4, <2>1, <3>1, <3>2, LookupIs
    <3> QED BY <1>1, <1>5, <3>3
  <2>3. CASE ~ \E x \in Range(e) : x.key = k
    <3>1. Lookup(e, k) = NoValue
      BY <1>2, <2>1, <2>3, LookupIs
    <3> QED BY <1>1, <1>7, <3>1
  <2> QED BY <2>2, <2>3
<1> QED BY <1>1, <1>6, <1>7 DEF OnItsWay

(* A step of a reader. *)
LEMMA GetComes ==
    ASSUME OneWriter, Inv, NEW l, l = run[TheWriter], Inserting(l),
           root \in Page, node[root].type # "freed",
           NEW lo, NEW hi, NEW from, NEW upto, Order(node, root, l, lo, hi, from, upto),
           NEW k \in Key, NEW rd, rd.pc = "fetch", rd.key = k, rd.page = root,
           rd.atLeaf = FALSE, rd.seen = Possible(k)
    PROVE  OnItsWay(rd, node, PossibleNow, lo, hi)
<1>1. PossibleNow[rd.key] = rd.seen
  BY DEF PossibleNow
<1>2. CASE ~ Steady(l)
  <2>1. NoValue \in rd.seen
    BY <1>1, <1>2, PossibleIs
  <2> QED BY <1>1, <2>1 DEF OnItsWay
<1>3. CASE Steady(l)
  <2>1. Still(l) /\ from = lo /\ upto = hi
    BY <1>3, InsertingView
  <2>2. Top(root, l) = root
    BY <2>1, StillView
  <2>3. lo[root] = 0 /\ hi[root] = MaxKey + 1
    BY <2>1, <2>2, OrderParts DEF Pages
  <2>4. 0 <= k /\ k < MaxKey + 1
    BY BoundParts
  <2> QED BY <1>1, <2>3, <2>4 DEF OnItsWay
<1> QED BY <1>2, <1>3

LEMMA UpTo ==
    ASSUME NEW n \in Nat
    PROVE  IsFiniteSet(1 .. n) /\ Cardinality(1 .. n) = n
<1>1. PICK a \in Int, b \in Int : a = 1 /\ b = n
  OBVIOUS
<1>2. IsFiniteSet(a .. b) /\ Cardinality(a .. b) = IF a > b THEN 0 ELSE b - a + 1
  BY FS_Interval
<1> QED BY <1>1, <1>2

LEMMA GetDescends ==
    ASSUME OneWriter, Inv, NEW l, l = run[TheWriter], Inserting(l),
           NEW lo, NEW hi, NEW from, NEW upto, Order(node, root, l, lo, hi, from, upto),
           NEW rd, OnItsWay(rd, node, PossibleNow, lo, hi), IsInternal(rd.page),
           NEW rd2, rd2.key = rd.key, rd2.page = FindChild(rd.page, rd.key),
           ~ rd2.atLeaf, rd2.seen = rd.seen
    PROVE  OnItsWay(rd2, node, PossibleNow, lo, hi)
<1>1. PICK p, k, q, live : p = rd.page /\ k = rd.key /\ q = rd2.page /\ live = Live(node, l)
  OBVIOUS
<1>2. /\ p \in Page /\ k \in Key /\ node[p].type = "internal" /\ p \in live
      /\ PossibleNow[k] \subseteq rd.seen
  BY <1>1, InsertingView DEF OnItsWay, IsInternal
<1>3. Slots(node[p].keys, node[p].children)
  BY <1>2, NodesNow, NodeSlots DEF Shaped
<1>4. Range(node[p].children) \subseteq live
  BY <1>1, <1>2, InsertingView, ChildrenLive
<1>5. q = node[p].children[Cardinality({i \in DOMAIN node[p].keys : node[p].keys[i] <= k}) + 1]
  BY <1>1 DEF FindChild
<1>6. Fence(node[p].keys, node[p].children, lo[p], hi[p], from, upto)
      /\ lo[p] \in Bound /\ hi[p] \in Bound
  BY <1>1, <1>2, OrderParts DEF Pages, Fenced
<1>7. q \in Range(node[p].children)
  <2>1. Cardinality({i \in DOMAIN node[p].keys : node[p].keys[i] <= k}) + 1
            \in 1 .. Len(node[p].keys) + 1
    <3>1. PICK n \in Nat : n = Len(node[p].keys) /\ DOMAIN node[p].keys = 1 .. n
      BY <1>3, SlotParts
    <3>2. IsFiniteSet(1 .. n) /\ Cardinality(1 .. n) = n
      BY <3>1, UpTo
    <3>3. {i \in 1 .. n : node[p].keys[i] <= k} \subseteq 1 .. n
      OBVIOUS
    <3>4. /\ Cardinality({i \in 1 .. n : node[p].keys[i] <= k}) \in Nat
          /\ Cardinality({i \in 1 .. n : node[p].keys[i] <= k}) <= n
      BY <3>2, <3>3, FS_Subset, FS_CardinalityType
    <3> QED BY <3>1, <3>4
  <2>2. PICK i : i = Cardinality({j \in DOMAIN node[p].keys : node[p].keys[j] <= k}) + 1
    OBVIOUS
  <2>3. i \in 1 .. Len(node[p].keys) + 1 /\ q = node[p].children[i]
    BY <1>5, <2>1, <2>2
  <2> QED BY <1>3, <2>3, SlotParts
<1>8. q \in Page /\ node[q].type # "freed"
  BY <1>1, <1>4, <1>7, InsertingView
<1>9. NoValue \in rd.seen \/ (lo[q] <= k /\ k < hi[q])
  <2>1. CASE NoValue \in rd.seen
    BY <2>1
  <2>2. CASE NoValue \notin rd.seen
    <3>1. lo[p] <= k /\ k < hi[p]
      BY <1>1, <2>2 DEF OnItsWay
    <3>2. Steady(l)
      BY <1>2, <2>2, PossibleIs
    <3>3. from = lo /\ upto = hi
      BY <3>2, InsertingView
    <3>4. from[q] <= k /\ k < upto[q]
      BY <1>2, <1>3, <1>5, <1>6, <3>1, FindsChild
    <3> QED BY <3>3, <3>4
  <2> QED BY <2>1, <2>2
<1> QED BY <1>1, <1>2, <1>8, <1>9 DEF OnItsWay

LEMMA IdleAt ==
    ASSUME NEW n, NEW possible, NEW lo, NEW hi
    PROVE  ReaderAt(NoCallYet, n, possible, lo, hi)
BY DEF ReaderAt, NoCallYet

LEMMA ReaderMoves ==
    ASSUME OneWriter, Inv, NEW l, l = run[TheWriter], Inserting(l),
           root \in Page, node[root].type # "freed",
           NEW lo, NEW hi, NEW from, NEW upto, Order(node, root, l, lo, hi, from, upto),
           NEW r \in Reader, reader = [s \in Reader |-> reader[s]], ReaderStep(r),
           NEW rd, rd = reader[r], ReaderAt(rd, node, PossibleNow, lo, hi)
    PROVE  \E rd2 : Become(r, rd2) /\ ReaderAt(rd2, node, PossibleNow, lo, hi)
<1>1. rd = [pc |-> rd.pc, key |-> rd.key, page |-> rd.page, atLeaf |-> rd.atLeaf,
            answer |-> rd.answer, seen |-> rd.seen]
  BY DEF ReaderAt
<1>2. CASE \E k \in Key : GetCall(r, k)
  <2>1. PICK k \in Key : GetCall(r, k)
    BY <1>2
  <2>2. PICK rd2 : rd2 = [NoCallYet EXCEPT !.pc = "fetch", !.key = k, !.page = root,
                                           !.seen = Possible(k)]
    OBVIOUS
  <2>3. Become(r, rd2)
    BY <2>1, <2>2 DEF GetCall
  <2>4. /\ rd2 = [pc |-> "fetch", key |-> k, page |-> root, atLeaf |-> FALSE,
                  answer |-> NoValue, seen |-> Possible(k)]
        /\ rd2.pc = "fetch" /\ rd2.key = k /\ rd2.page = root /\ rd2.atLeaf = FALSE
        /\ rd2.seen = Possible(k) /\ rd2.answer = NoValue
    BY <2>2 DEF NoCallYet
  <2>5. OnItsWay(rd2, node, PossibleNow, lo, hi)
    BY <2>4, GetComes
  <2>6. ReaderAt(rd2, node, PossibleNow, lo, hi)
    BY <2>4, <2>5 DEF ReaderAt
  <2> QED BY <2>3, <2>6
<1>3. CASE Fetch(r)
  <2>1. PICK rd2 : rd2 = [rd EXCEPT !.pc = "hold"]
    OBVIOUS
  <2>2. Become(r, rd2) /\ rd.pc = "fetch"
    BY <1>3, <2>1 DEF Fetch
  <2>3. OnItsWay(rd, node, PossibleNow, lo, hi)
    BY <2>2 DEF ReaderAt
  <2>4. /\ rd2 = [pc |-> "hold", key |-> rd.key, page |-> rd.page, atLeaf |-> rd.atLeaf,
                  answer |-> rd.answer, seen |-> rd.seen]
        /\ rd2.pc = "hold" /\ rd2.key = rd.key /\ rd2.page = rd.page
        /\ rd2.atLeaf = rd.atLeaf /\ rd2.seen = rd.seen /\ rd2.answer = rd.answer
    BY <1>1, <2>1
  <2>5. OnItsWay(rd2, node, PossibleNow, lo, hi)
    BY <2>3, <2>4 DEF OnItsWay
  <2>6. ReaderAt(rd2, node, PossibleNow, lo, hi)
    BY <2>4, <2>5 DEF ReaderAt
  <2> QED BY <2>2, <2>6
<1>4. CASE Descend(r)
  <2>1. rd.pc = "hold" /\ OnItsWay(rd, node, PossibleNow, lo, hi)
    BY <1>4 DEF Descend, ReaderAt
  <2>2. CASE IsInternal(rd.page) /\ ~ IsLeaf(rd.page)
    <3>1. PICK rd2 : rd2 = [rd EXCEPT !.pc = "fetch", !.page = FindChild(rd.page, rd.key)]
      OBVIOUS
    <3>2. Become(r, rd2) /\ ~ rd.atLeaf
      BY <1>4, <2>2, <3>1 DEF Descend
    <3>3. /\ rd2 = [pc |-> "fetch", key |-> rd.key, page |-> FindChild(rd.page, rd.key),
                    atLeaf |-> rd.atLeaf, answer |-> rd.answer, seen |-> rd.seen]
          /\ rd2.pc = "fetch" /\ rd2.key = rd.key /\ rd2.page = FindChild(rd.page, rd.key)
          /\ rd2.atLeaf = rd.atLeaf /\ rd2.seen = rd.seen /\ rd2.answer = rd.answer
      BY <1>1, <3>1
    <3>4. ~ rd2.atLeaf
      BY <3>2, <3>3
    <3>5. OnItsWay(rd2, node, PossibleNow, lo, hi)
      BY <2>1, <2>2, <3>3, <3>4, GetDescends
    <3>6. ReaderAt(rd2, node, PossibleNow, lo, hi)
      BY <3>3, <3>5 DEF ReaderAt
    <3> QED BY <3>2, <3>6
  <2>3. CASE IsLeaf(rd.page) /\ ~ IsInternal(rd.page)
    <3>1. PICK rd2 : rd2 = [rd EXCEPT !.pc = "fetch", !.atLeaf = TRUE]
      OBVIOUS
    <3>2. Become(r, rd2) /\ node[rd.page].type = "leaf"
      BY <1>4, <2>3, <3>1 DEF Descend, IsLeaf
    <3>3. /\ rd2 = [pc |-> "fetch", key |-> rd.key, page |-> rd.page,
                    atLeaf |-> TRUE, answer |-> rd.answer, seen |-> rd.seen]
          /\ rd2.pc = "fetch" /\ rd2.key = rd.key /\ rd2.page = rd.page
          /\ rd2.atLeaf = TRUE /\ rd2.seen = rd.seen /\ rd2.answer = rd.answer
      BY <1>1, <3>1
    <3>4. OnItsWay(rd2, node, PossibleNow, lo, hi)
      BY <2>1, <3>2, <3>3 DEF OnItsWay
    <3>5. ReaderAt(rd2, node, PossibleNow, lo, hi)
      BY <3>3, <3>4 DEF ReaderAt
    <3> QED BY <3>2, <3>5
  <2>4. \/ IsInternal(rd.page) /\ ~ IsLeaf(rd.page)
        \/ IsLeaf(rd.page) /\ ~ IsInternal(rd.page)
    BY <1>4 DEF Descend, IsLeaf, IsInternal
  <2> QED BY <2>2, <2>3, <2>4
<1>5. CASE ReadLeaf(r)
  <2>1. /\ rd.pc = "hold" /\ OnItsWay(rd, node, PossibleNow, lo, hi)
        /\ rd.atLeaf \/ ~ (IsLeaf(rd.page) \/ IsInternal(rd.page))
    BY <1>5 DEF ReadLeaf, ReaderAt
  <2>2. rd.page \in Live(node, l)
    BY <2>1, InsertingView DEF OnItsWay
  <2>3. node[rd.page].type = "leaf" /\ IsLeaf(rd.page)
    <3>1. rd.atLeaf
      BY <2>1, <2>2, InsertingView
    <3> QED BY <2>1, <3>1 DEF OnItsWay, IsLeaf
  <2>4. PICK a : a = Lookup(node[rd.page].entries, rd.key)
    OBVIOUS
  <2>5. a \in rd.seen
    BY <2>1, <2>3, <2>4, LeafAnswers
  <2>6. PICK rd2 : rd2 = [rd EXCEPT !.pc = "done", !.answer = a]
    OBVIOUS
  <2>7. Answer(r, a)
    <3>1. ReadLeaf(r) /\ rd = reader[r] /\ IsLeaf(rd.page)
      BY <1>5, <2>3
    <3> QED BY <2>4, <3>1 DEF ReadLeaf, Lookup
  <2>8. Become(r, rd2)
    BY <2>6, <2>7 DEF Answer
  <2>9. /\ rd2 = [pc |-> "done", key |-> rd.key, page |-> rd.page,
                  atLeaf |-> rd.atLeaf, answer |-> a, seen |-> rd.seen]
        /\ rd2.pc = "done" /\ rd2.key = rd.key /\ rd2.page = rd.page
        /\ rd2.atLeaf = rd.atLeaf /\ rd2.seen = rd.seen /\ rd2.answer = a
    BY <1>1, <2>6
  <2>10. ReaderAt(rd2, node, PossibleNow, lo, hi)
    BY <2>5, <2>9 DEF ReaderAt
  <2> QED BY <2>8, <2>10
<1>6. CASE Forget(r)
  <2>1. Become(r, NoCallYet)
    BY <1>6 DEF Forget
  <2> QED BY <2>1, IdleAt
<1> QED BY <1>2, <1>3, <1>4, <1>5, <1>6 DEF ReaderStep

LEMMA ReaderGuides ==
    ASSUME OneWriter, Inv, Guided, NEW r \in Reader, ReaderStep(r)
    PROVE  Guided'
<1>1. shared
  <2>1. SUFFICES ASSUME ~ shared PROVE FALSE
    OBVIOUS
  <2>2. reader[r].pc = "idle"
    BY <2>1 DEF Guided, NoCallYet
  <2>3. ~ \E k \in Key : GetCall(r, k)
    BY <2>1 DEF GetCall
  <2>4. ~ Fetch(r) /\ ~ Descend(r) /\ ~ ReadLeaf(r) /\ ~ Forget(r)
    BY <2>2 DEF Fetch, Descend, ReadLeaf, Forget
  <2> QED BY <2>3, <2>4 DEF ReaderStep
<1>2. PICK l : l = run[TheWriter]
  OBVIOUS
<1>3. PICK lo, hi, from, upto : Order(node, root, l, lo, hi, from, upto)
                                /\ ReadersAt(reader, node, PossibleNow, lo, hi)
  BY <1>1, <1>2 DEF Guided
<1>4. /\ Inserting(l) /\ root \in Page /\ node[root].type # "freed"
      /\ reader = [s \in Reader |-> reader[s]]
  BY <1>1, <1>2 DEF Guided
<1>5. ReaderAt(reader[r], node, PossibleNow, lo, hi)
  BY <1>3 DEF ReadersAt
<1>6. PICK rd : Become(r, rd) /\ ReaderAt(rd, node, PossibleNow, lo, hi)
  BY <1>2, <1>3, <1>4, <1>5, ReaderMoves
<1>7. /\ node' = node /\ root' = root /\ run' = run /\ shared' = shared
      /\ reader' = [reader EXCEPT ![r] = rd]
  BY <1>6 DEF Become
<1>8. PossibleNow' = PossibleNow
  BY <1>7, PossibleStays
<1>9. reader' = [s \in Reader |-> reader'[s]]
      /\ \A s \in Reader : reader'[s] = IF s = r THEN rd ELSE reader[s]
  BY <1>4, <1>7
<1>10. ReadersAt(reader', node', PossibleNow', lo, hi)
  BY <1>3, <1>6, <1>7, <1>8, <1>9 DEF ReadersAt
<1>11. Order(node', root', run'[TheWriter], lo, hi, from, upto)
  BY <1>2, <1>3, <1>7
<1>12. Inserting(run'[TheWriter]) /\ root' \in Page /\ node'[root'].type # "freed" /\ shared'
  BY <1>1, <1>2, <1>4, <1>7
<1> QED BY <1>9, <1>10, <1>11, <1>12 DEF Guided

(* A step of the writer, as a reader sees it: what the key may be now is noted. *)
Notes(rd, rd2, possible) ==
    rd2 = IF rd.pc \in {"idle", "done"} THEN rd
          ELSE [rd EXCEPT !.seen = @ \cup possible[rd.key]]

LEMMA ReaderWaits ==
    ASSUME NEW n, NEW lo, NEW hi, NEW n2, NEW lo2, NEW hi2, NEW P, NEW P2,
           NEW rd, ReaderAt(rd, n, P, lo, hi), NEW rd2, Notes(rd, rd2, P2),
           \A p \in Page : n[p].type # "freed" => n2[p].type = n[p].type,
           \/ lo2 = lo /\ hi2 = hi
           \/ \A k \in Key : NoValue \in P[k]
           \/ \A k \in Key : NoValue \in P2[k]
    PROVE  ReaderAt(rd2, n2, P2, lo2, hi2)
<1>1. CASE rd.pc \in {"idle", "done"}
  BY <1>1 DEF Notes, ReaderAt
<1>2. CASE rd.pc \in {"fetch", "hold"}
  <2>1. OnItsWay(rd, n, P, lo, hi)
    BY <1>2 DEF ReaderAt
  <2>2. rd = [pc |-> rd.pc, key |-> rd.key, page |-> rd.page, atLeaf |-> rd.atLeaf,
              answer |-> rd.answer, seen |-> rd.seen]
    BY DEF ReaderAt
  <2>3. rd2 = [rd EXCEPT !.seen = @ \cup P2[rd.key]]
    BY <1>2 DEF Notes
  <2>4. /\ rd2 = [pc |-> rd.pc, key |-> rd.key, page |-> rd.page, atLeaf |-> rd.atLeaf,
                  answer |-> rd.answer, seen |-> rd.seen \cup P2[rd.key]]
        /\ rd2.pc = rd.pc /\ rd2.key = rd.key /\ rd2.page = rd.page
        /\ rd2.atLeaf = rd.atLeaf /\ rd2.seen = rd.seen \cup P2[rd.key]
        /\ rd2.answer = rd.answer
    BY <2>2, <2>3
  <2>5. rd.key \in Key /\ rd.page \in Page /\ P[rd.key] \subseteq rd.seen
    BY <2>1 DEF OnItsWay
  <2>6. NoValue \in rd2.seen \/ (lo2[rd.page] <= rd.key /\ rd.key < hi2[rd.page])
    BY <2>1, <2>4, <2>5 DEF OnItsWay
  <2>7. n2[rd.page].type # "freed" /\ (rd.atLeaf => n2[rd.page].type = "leaf")
    BY <2>1, <2>5 DEF OnItsWay
  <2>8. OnItsWay(rd2, n2, P2, lo2, hi2)
    BY <2>4, <2>5, <2>6, <2>7 DEF OnItsWay
  <2> QED BY <1>2, <2>4, <2>8 DEF ReaderAt
<1> QED BY <1>1, <1>2 DEF ReaderAt

LEMMA UnsteadyMayMiss ==
    ASSUME OneWriter
    PROVE  /\ ~ Steady(run[TheWriter]) => \A k \in Key : NoValue \in PossibleNow[k]
           /\ ~ Steady(run'[TheWriter]) => \A k \in Key : NoValue \in PossibleNow'[k]
<1>1. Restructuring <=> ~ Steady(run[TheWriter])
  BY DEF Restructuring, OneWriter, Steady
<1>2. Restructuring' <=> ~ Steady(run'[TheWriter])
  BY DEF Restructuring, OneWriter, Steady
<1>3. ASSUME NEW k \in Key PROVE PossibleNow[k] = Possible(k) /\ PossibleNow'[k] = Possible(k)'
  BY DEF PossibleNow
<1>4. ASSUME NEW k \in Key
      PROVE  (Restructuring => NoValue \in Possible(k)) /\ (Restructuring' => NoValue \in Possible(k)')
  BY DEF Possible
<1> QED BY <1>1, <1>2, <1>3, <1>4

LEMMA SteadyIsStill ==
    ASSUME NEW l, Steady(l)
    PROVE  Still(l)
BY DEF Steady, Still, Promoting, Splitting, Merging, Collapsing, NewTop

LEMMA StoredIsSteady ==
    ASSUME OneWriter, Inv, StoreRoot(TheWriter)
    PROVE  Steady(run'[TheWriter])
<1>1. run'[TheWriter] = Idle
  BY LocalsNow DEF StoreRoot, Return
<1> QED BY <1>1 DEF Steady, Idle

(* What a writer does between the steps that split a node. *)
LEMMA SteadySteps ==
    ASSUME OneWriter, Inv, Steady(run[TheWriter]), Steady(run'[TheWriter])
    PROVE  /\ ~ Adopt(TheWriter) /\ ~ Adopted(TheWriter) /\ ~ StoreRoot(TheWriter)
           /\ ~ FixNext(TheWriter) /\ ~ GrowRoot(TheWriter) /\ ~ ToParent(TheWriter)
           /\ ~ InsertEntry(TheWriter) /\ ~ SplitInternal(TheWriter) /\ ~ SplitLeaf(TheWriter)
<1>1. /\ ~ Adopt(TheWriter) /\ ~ Adopted(TheWriter) /\ ~ StoreRoot(TheWriter)
      /\ ~ FixNext(TheWriter) /\ ~ GrowRoot(TheWriter) /\ ~ ToParent(TheWriter)
      /\ ~ InsertEntry(TheWriter) /\ ~ SplitInternal(TheWriter)
  BY DEF Steady, Adopt, Adopted, StoreRoot, FixNext, GrowRoot, ToParent, InsertEntry,
      SplitInternal, At
<1>2. ~ SplitLeaf(TheWriter)
  <2>1. SUFFICES ASSUME SplitLeaf(TheWriter) PROVE FALSE
    OBVIOUS
  <2>2. PICK q, s, a :
           Continue(TheWriter, [run[TheWriter] EXCEPT !.done = TRUE, !.right = q, !.sep = s,
                                  !.next = a, !.pc = "next", !.then = "promote"])
    BY <2>1 DEF SplitLeaf
  <2>3. run'[TheWriter] = [run[TheWriter] EXCEPT !.done = TRUE, !.right = q, !.sep = s,
                                  !.next = a, !.pc = "next", !.then = "promote"]
    BY <2>2, LocalsNow
  <2>4. run'[TheWriter].pc = "next"
    BY <2>3, NodesNow DEF Locals
  <2> QED BY <2>4 DEF Steady
<1> QED BY <1>1, <1>2

LEMMA WriterGuides ==
    ASSUME OneWriter, Inv, NeverOverrun', Ordered, Ordered', Guided,
           Step(TheWriter), Observe, Bounded(TheWriter)', shared' = shared
    PROVE  Guided'
<1>1. reader' = [r \in Reader |-> reader'[r]]
      /\ \A r \in Reader : Notes(reader[r], reader'[r], PossibleNow')
  BY DEF Observe, Notes
<1>2. CASE ~ shared
  <2>1. \A r \in Reader : reader'[r] = NoCallYet
    BY <1>1, <1>2 DEF Guided, Notes, NoCallYet
  <2> QED BY <1>1, <1>2, <2>1 DEF Guided
<1>3. CASE shared
  <2>1. PICK l, l2 : l = run[TheWriter] /\ l2 = run'[TheWriter]
    OBVIOUS
  <2>2. l2.op # "delete" /\ l2.pc # "failed"
    BY <1>3, <2>1 DEF Bounded, At, OneWriter
  <2>3. /\ Inserting(l) /\ root \in Page /\ node[root].type # "freed"
    BY <1>3, <2>1 DEF Guided
  <2>4. PICK lo, hi, from, upto : Order(node, root, l, lo, hi, from, upto)
                                  /\ ReadersAt(reader, node, PossibleNow, lo, hi)
    BY <1>3, <2>1 DEF Guided
  <2>5. \/ \/ Adopt(TheWriter) \/ Adopted(TheWriter) \/ StoreRoot(TheWriter)
           \/ FixNext(TheWriter) \/ GrowRoot(TheWriter) \/ ToParent(TheWriter)
           \/ InsertEntry(TheWriter) \/ SplitInternal(TheWriter)
        \/ \/ \E k \in Key :
                 \/ \E v \in Value : Call(TheWriter, "insert", k, v)
                 \/ Call(TheWriter, "delete", k, NoValue)
           \/ Find(TheWriter) \/ InsertInPlace(TheWriter) \/ SplitLeaf(TheWriter)
           \/ Done(TheWriter)
    BY <2>1, <2>2, <2>3, InsertingSteps
  <2>6. Inserting(l2)
    BY <2>1, <2>2, <2>3, <2>5, InsertingStands, InsertingBegins
  <2>7. \A p \in Page : node[p].type # "freed" => node'[p].type = node[p].type
    BY <2>1, <2>5, InsertingKeeps DEF KindsKept
  <2>8. \E lo2, hi2, from2, upto2 :
           /\ Order(node', root', l2, lo2, hi2, from2, upto2)
           /\ \/ lo2 = lo /\ hi2 = hi
              \/ \A k \in Key : NoValue \in PossibleNow[k]
              \/ \A k \in Key : NoValue \in PossibleNow'[k]
    <3>1. CASE Steady(l) /\ Steady(l2)
      <4>1. \/ \E k \in Key :
                  \/ \E v \in Value : Call(TheWriter, "insert", k, v)
                  \/ Call(TheWriter, "delete", k, NoValue)
            \/ Find(TheWriter) \/ InsertInPlace(TheWriter) \/ Done(TheWriter)
        BY <2>1, <2>5, <3>1, SteadySteps
      <4>2. Kept(lo, hi, from, upto)
        BY <2>1, <2>4, <4>1, CallGoes, FindGoes, InsertInPlacePuts, DoneGoes
      <4> QED BY <2>1, <4>2 DEF Kept
    <3>2. CASE ~ Steady(l) \/ ~ Steady(l2)
      <4>1. (\A k \in Key : NoValue \in PossibleNow[k])
            \/ (\A k \in Key : NoValue \in PossibleNow'[k])
        BY <2>1, <3>2, UnsteadyMayMiss
      <4>2. InOrder(node', root', l2)
        BY <2>1, <2>2 DEF Ordered
      <4> QED BY <4>1, <4>2 DEF InOrder
    <3> QED BY <3>1, <3>2
  <2>9. PICK lo2, hi2, from2, upto2 :
           /\ Order(node', root', l2, lo2, hi2, from2, upto2)
           /\ \/ lo2 = lo /\ hi2 = hi
              \/ \A k \in Key : NoValue \in PossibleNow[k]
              \/ \A k \in Key : NoValue \in PossibleNow'[k]
    BY <2>8
  <2>10. ReadersAt(reader', node', PossibleNow', lo2, hi2)
    <3>1. ASSUME NEW r \in Reader PROVE ReaderAt(reader'[r], node', PossibleNow', lo2, hi2)
      <4>1. ReaderAt(reader[r], node, PossibleNow, lo, hi)
        BY <2>4 DEF ReadersAt
      <4>2. Notes(reader[r], reader'[r], PossibleNow')
        BY <1>1
      <4> QED BY <2>7, <2>9, <4>1, <4>2, ReaderWaits
    <3> QED BY <3>1 DEF ReadersAt
  <2>11. root' \in Page /\ node'[root'].type # "freed"
    <3>1. CASE Steady(l2)
      <4>1. Still(l2)
        BY <3>1, SteadyIsStill
      <4>2. root' \in Live(node', l2) /\ Live(node', l2) = {p \in Page : node'[p].type # "freed"}
        BY <2>9, <4>1, StillView, OrderParts DEF Pages
      <4> QED BY <4>2
    <3>2. CASE ~ Steady(l2)
      <4>1. ~ StoreRoot(TheWriter)
        BY <2>1, <3>2, StoredIsSteady
      <4>2. root' = root
        BY <2>5, <4>1 DEF Adopt, Adopted, FixNext, GrowRoot, ToParent, InsertEntry,
            SplitInternal, Call, Find, InsertInPlace, SplitLeaf, Done
      <4> QED BY <2>3, <2>7, <4>2
    <3> QED BY <3>1, <3>2
  <2> QED BY <1>1, <1>3, <2>1, <2>6, <2>9, <2>10, <2>11 DEF Guided
<1> QED BY <1>2, <1>3

LEMMA InitGuides ==
    ASSUME OneWriter, ReaderInit, Inv, Ordered
    PROVE  Guided
<1>1. reader = [r \in Reader |-> reader[r]] /\ \A r \in Reader : reader[r] = NoCallYet
  BY DEF ReaderInit
<1>2. run[TheWriter] = Idle
  BY DEF ReaderInit, Init, OneWriter
<1>3. PICK l : l = run[TheWriter]
  OBVIOUS
<1>4. l.pc = "idle" /\ Steady(l) /\ Inserting(l)
  BY <1>2, <1>3 DEF Idle, Steady, Inserting
<1>5. PICK lo, hi, from, upto : Order(node, root, l, lo, hi, from, upto)
  BY <1>3, <1>4 DEF Ordered, InOrder
<1>6. Still(l)
  BY <1>4, SteadyIsStill
<1>7. root \in Page /\ node[root].type # "freed"
  BY <1>5, <1>6, StillView, OrderParts DEF Pages
<1>8. ReadersAt(reader, node, PossibleNow, lo, hi)
  BY <1>1, IdleAt DEF ReadersAt
<1> QED BY <1>1, <1>3, <1>4, <1>5, <1>7, <1>8 DEF Guided

LEMMA StutterGuides ==
    ASSUME Guided, UNCHANGED << vars, reader, shared >>
    PROVE  Guided'
<1>1. node' = node /\ root' = root /\ run' = run /\ reader' = reader /\ shared' = shared
  BY DEF vars
<1>2. PossibleNow' = PossibleNow
  BY <1>1, PossibleStays
<1> QED BY <1>1, <1>2 DEF Guided

LEMMA ReaderNextGuides ==
    ASSUME OneWriter, Inv, NeverOverrun', Ordered, Ordered', Guided,
           [ReaderNext]_<< vars, reader, shared >>
    PROVE  Guided'
<1>1. CASE UNCHANGED << vars, reader, shared >>
  BY <1>1, StutterGuides
<1>2. CASE \E r \in Reader : ReaderStep(r)
  BY <1>2, ReaderGuides
<1>3. CASE /\ UNCHANGED shared
           /\ Next /\ Observe
           /\ \A w \in Writer : Bounded(w)'
  <2>1. Step(TheWriter) /\ Bounded(TheWriter)'
    BY <1>3 DEF Next, OneWriter
  <2> QED BY <1>3, <2>1, WriterGuides
<1> QED BY <1>1, <1>2, <1>3 DEF ReaderNext

LEMMA GuidedAnswers ==
    ASSUME Guided
    PROVE  GetAnswers
<1>1. CASE ~ shared
  BY <1>1 DEF Guided, GetAnswers, NoCallYet
<1>2. CASE shared
  BY <1>2 DEF Guided, ReadersAt, ReaderAt, GetAnswers
<1> QED BY <1>1, <1>2

(* Between calls, until one fails, get and scan with any limit answer from what
   the chain of leaves lists (btree.rs:35-41).  A get that descends beside a
   writer that inserts, and holds one page at a time, answers with what the key
   had at some moment of the call, and misses a key that is there only if a
   node was being split meanwhile.  Whatever the entries weigh, as long as no
   rebuild is given more than a page holds. *)
THEOREM ReadsComeFromTheMap ==
    ASSUME OneWriter
    PROVE  ReaderSpec /\ []NeverOverrun => []ReadsAnswer
<1>1. ReaderInit /\ NeverOverrun => Inv /\ Ordered
  BY ReaderInitHolds
<1>2. ReaderInit /\ Inv /\ Ordered => Guided
  BY InitGuides
<1>3. Inv /\ NeverOverrun' /\ Ordered /\ [ReaderNext]_<< vars, reader, shared >>
      => Inv' /\ Ordered'
  BY ReaderNextKeeps
<1>4. Inv /\ NeverOverrun' /\ Ordered /\ Ordered' /\ Guided
      /\ [ReaderNext]_<< vars, reader, shared >> => Guided'
  BY ReaderNextGuides
<1>5. Inv /\ Ordered /\ Guided => ReadsAnswer
  BY RestReads, GuidedAnswers DEF ReadsAnswer
<1> QED BY <1>1, <1>2, <1>3, <1>4, <1>5, PTL DEF ReaderSpec

-----------------------------------------------------------------------------
(* verify_integrity at rest.  What verify_subtree is told of a child, and what
   it finds, given what it finds below. *)
Span(p, low, high, i) ==
    << node[p].children[i], Edge(node[p].keys, low, high, i - 1),
       Edge(node[p].keys, low, high, i) >>

Level(f, p, low, high) ==
    IF IsLeaf(p)
    THEN IF \A i \in DOMAIN node[p].entries :
               low <= node[p].entries[i].key /\ node[p].entries[i].key < high
         THEN 0 ELSE -1
    ELSE IF IsInternal(p) /\ \A i \in 1 .. Len(node[p].keys) + 1 :
               /\ f[Span(p, low, high, i)] = f[Span(p, low, high, 1)]
               /\ f[Span(p, low, high, i)] # -1
    THEN f[Span(p, low, high, 1)] + 1
    ELSE -1

Spans == Page \X Bound \X Bound

Levels(f) ==
    /\ f = [t \in Spans |-> f[t]]
    /\ \A t \in Spans : f[t] = Level(f, t[1], t[2], t[3])

LEMMA EdgesListed ==
    ASSUME NEW k \in Seq(Key), NEW a \in Bound, NEW b \in Bound
    PROVE  \A i \in 1 .. Len(k) + 1 :
              /\ (<< a >> \o k \o << b >>)[i] = Edge(k, a, b, i - 1)
              /\ (<< a >> \o k \o << b >>)[i + 1] = Edge(k, a, b, i)
<1>1. PICK n \in Nat : n = Len(k)
  OBVIOUS
<1>2. k \in Seq(Bound)
  <2>1. \A i \in 1 .. n : k[i] \in Bound
    BY <1>1, BoundParts
  <2> QED BY <1>1, <2>1
<1>3. << a >> \in Seq(Bound) /\ << b >> \in Seq(Bound) /\ Len(<< a >>) = 1 /\ Len(<< b >>) = 1
      /\ << a >>[1] = a /\ << b >>[1] = b
  OBVIOUS
<1>4. PICK s : s = << a >> \o k
  OBVIOUS
<1>5. JoinedAt(Bound, << a >>, k, s)
  BY <1>2, <1>3, <1>4, JoinedPlaces
<1>6. s \in Seq(Bound) /\ Len(s) = n + 1 /\ s[1] = a /\ \A i \in 1 .. n : s[1 + i] = k[i]
  BY <1>1, <1>3, <1>5 DEF JoinedAt
<1>7. PICK t : t = s \o << b >>
  OBVIOUS
<1>8. JoinedAt(Bound, s, << b >>, t)
  BY <1>3, <1>6, <1>7, JoinedPlaces
<1>9. (\A i \in 1 .. n + 1 : t[i] = s[i]) /\ t[n + 1 + 1] = b
  <2>1. 1 \in 1 .. 1
    OBVIOUS
  <2> QED BY <1>3, <1>6, <1>8, <2>1 DEF JoinedAt
<1>10. ASSUME NEW i \in 0 .. n + 1 PROVE t[i + 1] = Edge(k, a, b, i)
  <2>1. CASE i = 0
    <3>1. 1 \in 1 .. n + 1
      BY <1>1
    <3> QED BY <1>6, <1>9, <2>1, <3>1 DEF Edge
  <2>2. CASE i = n + 1
    BY <1>1, <1>9, <2>2 DEF Edge
  <2>3. CASE i # 0 /\ i # n + 1
    <3>1. i \in 1 .. n /\ i + 1 \in 1 .. n + 1 /\ 1 + i = i + 1
      BY <1>1, <2>3
    <3> QED BY <1>1, <1>6, <1>9, <2>3, <3>1 DEF Edge
  <2> QED BY <2>1, <2>2, <2>3
<1>11. ASSUME NEW i \in 1 .. n + 1
       PROVE  t[i] = Edge(k, a, b, i - 1) /\ t[i + 1] = Edge(k, a, b, i)
  <2>1. i - 1 \in 0 .. n + 1 /\ i \in 0 .. n + 1 /\ i - 1 + 1 = i
    BY <1>1
  <2> QED BY <1>10, <2>1
<1> QED BY <1>1, <1>4, <1>7, <1>11

DepthBody(f, span) ==
    LET p == span[1]  low == span[2]  high == span[3]
        bound == << low >> \o node[p].keys \o << high >>
        below(i) == f[<< node[p].children[i], bound[i], bound[i + 1] >>]
    IN  IF IsLeaf(p)
        THEN IF \A i \in DOMAIN node[p].entries :
                   low <= node[p].entries[i].key /\ node[p].entries[i].key < high
             THEN 0 ELSE -1
        ELSE IF /\ IsInternal(p)
                /\ \A i \in DOMAIN node[p].children : below(i) = below(1) /\ below(i) # -1
        THEN below(1) + 1
        ELSE -1

LEMMA BodyIsLevel ==
    ASSUME NEW t \in Spans, NEW f,
           IsInternal(t[1]) => Slots(node[t[1]].keys, node[t[1]].children)
    PROVE  DepthBody(f, t) = Level(f, t[1], t[2], t[3])
<1>1. t[2] \in Bound /\ t[3] \in Bound
  BY DEF Spans
<1>2. CASE IsLeaf(t[1])
  BY <1>1, <1>2 DEF DepthBody, Level
<1>3. CASE ~ IsLeaf(t[1]) /\ ~ IsInternal(t[1])
  BY <1>1, <1>3 DEF DepthBody, Level
<1>4. CASE ~ IsLeaf(t[1]) /\ IsInternal(t[1])
  <2>1. PICK n \in Nat : /\ n = Len(node[t[1]].keys) /\ DOMAIN node[t[1]].children = 1 .. n + 1
                         /\ node[t[1]].keys \in Seq(Key)
    BY <1>4, SlotParts DEF Slots
  <2> DEFINE bound == << t[2] >> \o node[t[1]].keys \o << t[3] >>
             below(i) == f[<< node[t[1]].children[i], bound[i], bound[i + 1] >>]
  <2>2. DepthBody(f, t) =
          IF \A i \in 1 .. n + 1 : below(i) = below(1) /\ below(i) # -1
          THEN below(1) + 1 ELSE -1
    BY <1>4, <2>1 DEF DepthBody
  <2>3. \A i \in 1 .. n + 1 :
           bound[i] = Edge(node[t[1]].keys, t[2], t[3], i - 1)
           /\ bound[i + 1] = Edge(node[t[1]].keys, t[2], t[3], i)
    BY <1>1, <2>1, EdgesListed
  <2> HIDE DEF bound
  <2>4. ASSUME NEW i \in 1 .. n + 1 PROVE below(i) = f[Span(t[1], t[2], t[3], i)]
    <3>1. << node[t[1]].children[i], bound[i], bound[i + 1] >> = Span(t[1], t[2], t[3], i)
      BY <2>3 DEF Span
    <3> QED BY <3>1
  <2>6. 1 \in 1 .. n + 1 /\ \A i \in 1 .. n + 1 : below(i) = f[Span(t[1], t[2], t[3], i)]
    BY <2>1, <2>4
  <2> HIDE DEF below
  <2>7. Level(f, t[1], t[2], t[3]) =
          IF \A i \in 1 .. n + 1 : /\ f[Span(t[1], t[2], t[3], i)] = f[Span(t[1], t[2], t[3], 1)]
                                   /\ f[Span(t[1], t[2], t[3], i)] # -1
          THEN f[Span(t[1], t[2], t[3], 1)] + 1 ELSE -1
    BY <1>4, <2>1 DEF Level
  <2> QED BY <2>2, <2>6, <2>7
<1> QED BY <1>2, <1>3, <1>4

LEMMA SpanParts ==
    ASSUME NEW p \in Page, Slots(node[p].keys, node[p].children),
           NEW low \in Bound, NEW high \in Bound, NEW i \in 1 .. Len(node[p].keys) + 1
    PROVE  /\ Span(p, low, high, i) \in Spans
           /\ Span(p, low, high, i)[1] = node[p].children[i]
           /\ node[p].children[i] \in Range(node[p].children)
<1>1. PICK n \in Nat : n = Len(node[p].keys) /\ node[p].keys \in Seq(Key)
  BY SlotParts DEF Slots
<1>2. node[p].children[i] \in Page /\ node[p].children[i] \in Range(node[p].children)
  BY <1>1, SlotParts
<1>3. ASSUME NEW j \in 0 .. n + 1 PROVE Edge(node[p].keys, low, high, j) \in Bound
  <2>1. j # 0 /\ j # n + 1 => node[p].keys[j] \in Bound
    <3>1. j # 0 /\ j # n + 1 => j \in 1 .. n
      BY <1>1
    <3> QED BY <1>1, <3>1, BoundParts
  <2> QED BY <1>1, <2>1 DEF Edge
<1>4. i - 1 \in 0 .. n + 1 /\ i \in 0 .. n + 1
  BY <1>1
<1> QED BY <1>2, <1>3, <1>4 DEF Span, Spans

(* Two such functions agree on the children of p. *)
SameBelow(f, g, p, low, high) ==
    \A i \in 1 .. Len(node[p].keys) + 1 : f[Span(p, low, high, i)] = g[Span(p, low, high, i)]

LEMMA SameLevel ==
    ASSUME NEW f, NEW g, NEW p \in Page, NEW low, NEW high,
           IsInternal(p) => Slots(node[p].keys, node[p].children),
           IsInternal(p) => SameBelow(f, g, p, low, high)
    PROVE  Level(f, p, low, high) = Level(g, p, low, high)
<1>1. CASE IsInternal(p)
  <2>1. 1 \in 1 .. Len(node[p].keys) + 1
    <3>1. Len(node[p].keys) \in Nat
      BY <1>1, SlotParts
    <3> QED BY <3>1
  <2>2. \A i \in 1 .. Len(node[p].keys) + 1 : f[Span(p, low, high, i)] = g[Span(p, low, high, i)]
    BY <1>1 DEF SameBelow
  <2> QED BY <1>1, <2>1, <2>2 DEF Level
<1>2. CASE ~ IsInternal(p)
  BY <1>2 DEF Level
<1> QED BY <1>1, <1>2

LevelsTo(f, h, m) ==
    /\ f = [t \in Spans |-> f[t]]
    /\ \A t \in Spans : h[t[1]] < m => f[t] = Level(f, t[1], t[2], t[3])

LEMMA SpanPage == \A t \in Spans : t[1] \in Page /\ t[2] \in Bound /\ t[3] \in Bound
BY DEF Spans

LEMMA NextLevel ==
    ASSUME NEW live, NEW lo, NEW hi, NEW h, Resting(live, lo, hi, h),
           NEW f, NEW m \in Nat, LevelsTo(f, h, m)
    PROVE  \E g : LevelsTo(g, h, m + 1)
<1>1. \A p \in Page : h[p] \in Nat
  BY DEF Resting
<1>2. PICK g : g = [t \in Spans |-> IF h[t[1]] < m THEN f[t] ELSE Level(f, t[1], t[2], t[3])]
  OBVIOUS
<1>3. ASSUME NEW t \in Spans, h[t[1]] < m + 1 PROVE g[t] = Level(g, t[1], t[2], t[3])
  <2>1. PICK p \in Page, low \in Bound, high \in Bound : p = t[1] /\ low = t[2] /\ high = t[3]
    BY SpanPage
  <2>2. IsInternal(p) => Slots(node[p].keys, node[p].children)
    BY NodeAtRest
  <2>3. ASSUME IsInternal(p), NEW i \in 1 .. Len(node[p].keys) + 1
        PROVE  g[Span(p, low, high, i)] = f[Span(p, low, high, i)]
    <3>1. PICK s : s = Span(p, low, high, i)
      OBVIOUS
    <3>2. s \in Spans /\ s[1] \in Range(node[p].children)
      BY <2>2, <2>3, <3>1, SpanParts
    <3>3. h[s[1]] \in Nat /\ h[p] \in Nat /\ h[s[1]] + 1 = h[p]
      BY <2>3, <3>2, NodeAtRest
    <3>4. h[s[1]] < m
      BY <1>3, <2>1, <3>3
    <3> QED BY <1>2, <3>1, <3>2, <3>4
  <2>4. Level(g, p, low, high) = Level(f, p, low, high)
    <3>1. IsInternal(p) => SameBelow(g, f, p, low, high)
      BY <2>3 DEF SameBelow
    <3> QED BY <2>2, <3>1, SameLevel
  <2>5. g[t] = Level(f, t[1], t[2], t[3])
    <3>1. CASE h[t[1]] < m
      BY <1>2, <3>1 DEF LevelsTo
    <3>2. CASE ~ (h[t[1]] < m)
      BY <1>2, <3>2
    <3> QED BY <3>1, <3>2
  <2> QED BY <2>1, <2>4, <2>5
<1>4. g = [t \in Spans |-> g[t]]
  BY <1>2
<1>5. LevelsTo(g, h, m + 1)
  BY <1>3, <1>4 DEF LevelsTo
<1> QED BY <1>5

LEMMA LevelsExist ==
    ASSUME NEW live, NEW lo, NEW hi, NEW h, Resting(live, lo, hi, h)
    PROVE  \E f : Levels(f)
<1>1. PICK X : X = {m \in Nat : ~ \E f : LevelsTo(f, h, m)}
  OBVIOUS
<1>2. h \in [Page -> Nat] /\ \A t \in Spans : t[1] \in Page
  BY SpanPage DEF Resting
<1>3. X = {}
  <2>1. SUFFICES ASSUME X # {} PROVE FALSE
    OBVIOUS
  <2>2. PICK m \in X : \A x \in X : m <= x
    <3>1. X \subseteq Nat
      BY <1>1
    <3> QED BY <2>1, <3>1, LeastNatural
  <2>3. m # 0
    <3>1. PICK f : f = [t \in Spans |-> 0]
      OBVIOUS
    <3>2. f = [t \in Spans |-> f[t]]
      BY <3>1
    <3>3. LevelsTo(f, h, 0)
      BY <1>2, <3>2 DEF LevelsTo
    <3> QED BY <1>1, <3>3
  <2>4. PICK d \in Nat : m = d + 1
    <3>1. m \in Nat
      BY <1>1
    <3>2. m - 1 \in Nat /\ m = m - 1 + 1
      BY <2>3, <3>1
    <3> QED BY <3>2
  <2>5. d \notin X
    BY <2>2, <2>4
  <2>6. PICK f : LevelsTo(f, h, d)
    BY <1>1, <2>5
  <2>7. \E g : LevelsTo(g, h, d + 1)
    BY <2>6, NextLevel
  <2> QED BY <1>1, <2>4, <2>7
<1>4. PICK b \in Nat : \A p \in Page : h[p] <= b
  BY <1>2, HeightsBounded
<1>5. PICK f : LevelsTo(f, h, b + 1)
  BY <1>1, <1>3
<1>6. \A t \in Spans : h[t[1]] < b + 1
  <2> SUFFICES ASSUME NEW t \in Spans PROVE h[t[1]] < b + 1
    OBVIOUS
  <2>1. h[t[1]] \in Nat /\ h[t[1]] <= b
    BY <1>2, <1>4
  <2> QED BY <2>1
<1>7. Levels(f)
  BY <1>5, <1>6 DEF LevelsTo, Levels
<1> QED BY <1>7

LEMMA DepthLevels ==
    ASSUME NEW live, NEW lo, NEW hi, NEW h, Resting(live, lo, hi, h)
    PROVE  Levels(DepthOf)
<1> DEFINE Recurs(f) == f = [span \in Spans |-> DepthBody(f, span)]
<1>1. ASSUME NEW f PROVE Recurs(f) <=> Levels(f)
  <2>1. \A t \in Spans : DepthBody(f, t) = Level(f, t[1], t[2], t[3])
    <3> SUFFICES ASSUME NEW t \in Spans PROVE DepthBody(f, t) = Level(f, t[1], t[2], t[3])
      OBVIOUS
    <3>1. IsInternal(t[1]) => Slots(node[t[1]].keys, node[t[1]].children)
      BY SpanPage, NodeAtRest
    <3> QED BY <3>1, BodyIsLevel
  <2> QED BY <2>1 DEF Levels
<1>2. DepthOf = CHOOSE f : Recurs(f)
  BY DEF DepthOf, DepthBody, Spans, Bound
<1>3. \E f : Recurs(f)
  BY <1>1, LevelsExist
<1> HIDE DEF Recurs
<1>4. Recurs(DepthOf)
  BY <1>2, <1>3
<1> QED BY <1>1, <1>4

LEMMA LevelsAreHeights ==
    ASSUME NEW live, NEW lo, NEW hi, NEW h, Resting(live, lo, hi, h)
    PROVE  \A p \in live : DepthOf[<< p, lo[p], hi[p] >>] = h[p]
<1> DEFINE Own(p) == << p, lo[p], hi[p] >>
<1>1. /\ live \subseteq Page /\ \A p \in live : IsLeaf(p) \/ IsInternal(p)
      /\ h \in [Page -> Nat] /\ \A p \in live : h[p] \in Nat
      /\ \A p \in Page : lo[p] \in Bound /\ hi[p] \in Bound
  BY DEF Resting, Pages
<1>2. ASSUME NEW p \in live
      PROVE  /\ Own(p) \in Spans /\ Own(p)[1] = p /\ Own(p)[2] = lo[p] /\ Own(p)[3] = hi[p]
             /\ DepthOf[Own(p)] = Level(DepthOf, p, lo[p], hi[p])
  <2>1. Own(p) \in Spans /\ Own(p)[1] = p /\ Own(p)[2] = lo[p] /\ Own(p)[3] = hi[p]
    BY <1>1 DEF Spans
  <2>2. PICK t : t = Own(p)
    OBVIOUS
  <2>3. DepthOf[t] = Level(DepthOf, t[1], t[2], t[3])
    BY <2>1, <2>2, DepthLevels DEF Levels
  <2> QED BY <2>1, <2>2, <2>3
<1> HIDE DEF Own
<1>3. ASSUME NEW p \in live, IsLeaf(p) PROVE DepthOf[Own(p)] = h[p]
  <2>1. Row(node, Leaves(node, live), lo, hi) /\ p \in Leaves(node, live)
    BY <1>3 DEF Resting, Pages
  <2>2. Shelf(node[p].entries, lo[p], hi[p])
    BY <2>1 DEF Row
  <2>3. \A i \in DOMAIN node[p].entries : node[p].entries[i] \in Range(node[p].entries)
    BY DEF Range
  <2>4. Level(DepthOf, p, lo[p], hi[p]) = 0
    BY <1>3, <2>2, <2>3 DEF Level, Shelf
  <2>5. h[p] = 0
    BY <1>1, <1>3 DEF Resting
  <2> QED BY <1>2, <2>4, <2>5
<1>4. PICK X : X = {p \in live : DepthOf[Own(p)] # h[p]}
  OBVIOUS
<1>5. X = {}
  <2>1. SUFFICES ASSUME X # {} PROVE FALSE
    OBVIOUS
  <2>2. PICK p \in X : \A q \in X : h[p] <= h[q]
    <3>1. PICK H : H = {h[q] : q \in X}
      OBVIOUS
    <3>2. H \subseteq Nat /\ H # {}
      BY <1>1, <1>4, <2>1, <3>1
    <3>3. PICK b \in H : \A c \in H : b <= c
      BY <3>2, LeastNatural
    <3> QED BY <3>1, <3>3
  <2>3. p \in live /\ p \in Page /\ IsInternal(p) /\ ~ IsLeaf(p)
    BY <1>1, <1>3, <1>4, <2>2 DEF IsLeaf, IsInternal
  <2>4. PICK k, c : k = node[p].keys /\ c = node[p].children
    OBVIOUS
  <2>5. /\ Slots(k, c) /\ Range(c) \subseteq live
        /\ \A x \in Range(c) : h[x] \in Nat /\ h[p] \in Nat /\ h[x] + 1 = h[p]
        /\ Fence(k, c, lo[p], hi[p], lo, hi)
    BY <2>3, <2>4, NodeAtRest
  <2>6. PICK n \in Nat : n = Len(k) /\ \A i \in 1 .. n + 1 : c[i] \in Range(c)
    BY <2>5, SlotParts
  <2>7. ASSUME NEW i \in 1 .. n + 1
        PROVE  /\ Span(p, lo[p], hi[p], i) = Own(c[i])
               /\ DepthOf[Own(c[i])] + 1 = h[p] /\ DepthOf[Own(c[i])] \in Nat
    <3>1. c[i] \in Range(c) /\ c[i] \in live
      BY <2>5, <2>6
    <3>2. lo[c[i]] = Edge(k, lo[p], hi[p], i - 1) /\ hi[c[i]] = Edge(k, lo[p], hi[p], i)
      BY <2>5, <2>6 DEF Fence
    <3>3. Span(p, lo[p], hi[p], i) = Own(c[i])
      BY <2>4, <3>2 DEF Span, Own
    <3>4. h[c[i]] \in Nat /\ h[p] \in Nat /\ h[c[i]] + 1 = h[p]
      BY <2>5, <3>1
    <3>5. c[i] \notin X
      BY <2>2, <3>4
    <3> QED BY <1>4, <3>1, <3>3, <3>4, <3>5
  <2>8. 1 \in 1 .. n + 1 /\ h[p] \in Nat
    BY <1>1, <2>3
  <2>9. \A i \in 1 .. n + 1 : /\ DepthOf[Span(p, lo[p], hi[p], i)] = h[p] - 1
                              /\ DepthOf[Span(p, lo[p], hi[p], i)] # -1
    <3> SUFFICES ASSUME NEW i \in 1 .. n + 1
                 PROVE  /\ DepthOf[Span(p, lo[p], hi[p], i)] = h[p] - 1
                        /\ DepthOf[Span(p, lo[p], hi[p], i)] # -1
      OBVIOUS
    <3>1. PICK d \in Nat : d = DepthOf[Span(p, lo[p], hi[p], i)] /\ d + 1 = h[p]
      BY <2>7
    <3> QED BY <2>8, <3>1
  <2>10. Level(DepthOf, p, lo[p], hi[p]) = DepthOf[Span(p, lo[p], hi[p], 1)] + 1
    BY <2>3, <2>4, <2>6, <2>8, <2>9 DEF Level
  <2>11. Level(DepthOf, p, lo[p], hi[p]) = h[p]
    BY <2>8, <2>9, <2>10
  <2>12. DepthOf[Own(p)] # h[p]
    BY <1>4, <2>2
  <2> QED BY <1>2, <2>3, <2>11, <2>12
<1> QED BY <1>4, <1>5 DEF Own

LEMMA DepthVerifies ==
    ASSUME NEW live, NEW lo, NEW hi, NEW h, Resting(live, lo, hi, h)
    PROVE  DepthOf[<< root, 0, MaxKey + 1 >>] >= 0
<1>1. root \in live /\ lo[root] = 0 /\ hi[root] = MaxKey + 1
  BY DEF Resting, Pages
<1>2. DepthOf[<< root, lo[root], hi[root] >>] = h[root]
  BY <1>1, LevelsAreHeights
<1>3. h[root] \in Nat
  BY <1>1 DEF Resting, Pages
<1>4. DepthOf[<< root, 0, MaxKey + 1 >>] = h[root]
  BY <1>1, <1>2
<1> QED BY <1>3, <1>4

(* Each leaf of the row points back to the one before it. *)
PointsBack(n, S) ==
    /\ n[FirstLeaf].prev = 0
    /\ \A p \in S : n[p].next # 0 => n[n[p].next].prev = p

ChainBack(c, p) ==
    /\ c \in Seq(Page) /\ Len(c) >= 1 /\ c[1] = p
    /\ \A i \in 2 .. Len(c) : node[c[i]].prev = c[i - 1]

LEMMA ChainStrings ==
    ASSUME NEW S, NEW lo, NEW hi, Row(node, S, lo, hi), RowReached(node, S)
    PROVE  Strings(ChainFrom, node, [p \in Page |-> << p >>])
<1>1. PICK piece : piece = [p \in Page |-> << p >>]
  OBVIOUS
<1>2. \A p \in Page : piece[p] = << p >> /\ piece[p] \in Seq(Page)
  BY <1>1
<1>3. S \subseteq Page
  BY RowParts
<1>4. PICK f : Strings(f, node, piece)
  BY <1>2, <1>3, StringExists
<1> DEFINE Chains(g) == g = [p \in 0 .. MaxPage |->
                               IF ~ IsLeaf(p) THEN << >> ELSE << p >> \o g[node[p].next]]
<1>5. ASSUME NEW g PROVE Strings(g, node, piece) <=> Chains(g)
  <2>1. \A p : LeafPage(node, p) <=> IsLeaf(p)
    BY DEF LeafPage, IsLeaf
  <2>2. \A p \in 0 .. MaxPage : IsLeaf(p) => piece[p] = << p >>
    BY <1>2 DEF IsLeaf
  <2>3. \A p \in 0 .. MaxPage :
           (IF ~ LeafPage(node, p) THEN << >> ELSE piece[p] \o g[node[p].next])
           = (IF ~ IsLeaf(p) THEN << >> ELSE << p >> \o g[node[p].next])
    BY <2>1, <2>2
  <2> QED BY <2>3 DEF Strings
<1>6. ChainFrom = CHOOSE g : Chains(g)
  BY DEF ChainFrom
<1> HIDE DEF Chains
<1>7. Chains(ChainFrom)
  BY <1>4, <1>5, <1>6
<1> QED BY <1>1, <1>5, <1>7

LEMMA ChainGoesBack ==
    ASSUME NEW S, NEW lo, NEW hi, Row(node, S, lo, hi), RowReached(node, S),
           PointsBack(node, S)
    PROVE  \A p \in S : ChainBack(ChainFrom[p], p)
<1>1. PICK X : X = {p \in S : ~ ChainBack(ChainFrom[p], p)}
  OBVIOUS
<1>2. SUFFICES ASSUME X # {} PROVE FALSE
  BY <1>1
<1>3. PICK p \in X : \A q \in X : lo[q] <= lo[p]
  <2>1. X \subseteq S
    BY <1>1
  <2> QED BY <1>2, <2>1, LastInRow
<1>4. p \in S /\ p \in Page /\ p \in 0 .. MaxPage /\ LeafPage(node, p)
      /\ 0 \in 0 .. MaxPage /\ ~ LeafPage(node, 0)
  <2>1. p \in S /\ p \in Page
    BY <1>1, RowParts
  <2> QED BY <2>1, BTreeConstants DEF Page, LeafPage, RowReached
<1>5. PICK f, piece : f = ChainFrom /\ piece = [q \in Page |-> << q >>]
  OBVIOUS
<1>6. Strings(f, node, piece)
  BY <1>5, ChainStrings
<1>7. f[p] = << p >> \o f[node[p].next] /\ f[0] = << >>
  <2>1. piece[p] = << p >>
    BY <1>4, <1>5
  <2> QED BY <1>4, <1>6, <2>1 DEF Strings
<1>8. << p >> \in Seq(Page) /\ Len(<< p >>) = 1 /\ << p >>[1] = p
  BY <1>4
<1>9. CASE node[p].next = 0
  <2>1. << >> \in Seq(Page) /\ Len(<< >>) = 0
    OBVIOUS
  <2>2. JoinedAt(Page, << p >>, << >>, f[p])
    BY <1>7, <1>8, <1>9, <2>1, JoinedPlaces
  <2>3. f[p] \in Seq(Page) /\ Len(f[p]) = 1 /\ f[p][1] = p
    <3>1. 1 \in 1 .. 1
      OBVIOUS
    <3> QED BY <1>8, <2>1, <2>2, <3>1 DEF JoinedAt
  <2>4. ChainBack(f[p], p)
    BY <2>3 DEF ChainBack
  <2> QED BY <1>1, <1>3, <1>5, <2>4
<1>10. CASE node[p].next # 0
  <2>1. PICK q : q = node[p].next
    OBVIOUS
  <2>2. q \in S /\ lo[q] = hi[p] /\ node[q].prev = p
    BY <1>4, <1>10, <2>1, NextInRow DEF PointsBack
  <2>3. q \notin X
    <3>1. lo[p] \in Int /\ hi[p] \in Int /\ lo[p] < hi[p]
      BY <1>4, RowParts
    <3> QED BY <1>3, <2>2, <3>1
  <2>4. ChainBack(f[q], q)
    BY <1>1, <1>5, <2>2, <2>3
  <2>5. PICK n \in Nat : n = Len(f[q])
    BY <2>4 DEF ChainBack
  <2>6. JoinedAt(Page, << p >>, f[q], f[p])
    BY <1>7, <1>8, <2>1, <2>4, JoinedPlaces DEF ChainBack
  <2>7. /\ f[p] \in Seq(Page) /\ Len(f[p]) = n + 1 /\ f[p][1] = p
        /\ \A i \in 1 .. n : f[p][1 + i] = f[q][i]
    <3>1. 1 \in 1 .. 1 /\ 1 + n = n + 1
      BY <2>5
    <3> QED BY <1>8, <2>5, <2>6, <3>1 DEF JoinedAt
  <2>8. n >= 1 /\ f[q][1] = q /\ \A i \in 2 .. n : node[f[q][i]].prev = f[q][i - 1]
    BY <2>4, <2>5 DEF ChainBack
  <2>9. ASSUME NEW i \in 2 .. n + 1 PROVE node[f[p][i]].prev = f[p][i - 1]
    <3>1. PICK j \in 1 .. n : i = 1 + j /\ i - 1 = j
      <4>1. i - 1 \in 1 .. n /\ i = 1 + (i - 1)
        BY <2>5
      <4> QED BY <4>1
    <3>2. f[p][i] = f[q][j]
      BY <2>7, <3>1
    <3>3. CASE j = 1
      BY <2>2, <2>7, <2>8, <3>1, <3>2, <3>3
    <3>4. CASE j # 1
      <4>1. j \in 2 .. n /\ j - 1 \in 1 .. n /\ 1 + (j - 1) = j
        BY <2>5, <3>4
      <4>2. f[p][j] = f[q][j - 1]
        BY <2>7, <4>1
      <4> QED BY <2>8, <3>1, <3>2, <4>1, <4>2
    <3> QED BY <3>3, <3>4
  <2>10. ChainBack(f[p], p)
    BY <2>5, <2>7, <2>9 DEF ChainBack
  <2> QED BY <1>1, <1>3, <1>5, <2>10
<1> QED BY <1>9, <1>10

(* How many entries come before a key, also before the bounds of a node. *)
LEMMA BeforeAny ==
    ASSUME NEW e \in Seq(Entry), Arranged(e), NEW k \in Int
    PROVE  /\ Before(e, k) \in 0 .. Len(e)
           /\ \A i \in 1 .. Len(e) : e[i].key < k <=> i <= Before(e, k)
<1>1. PICK S : S = {i \in DOMAIN e : e[i].key < k}
  OBVIOUS
<1>2. S \subseteq 1 .. Len(e) /\ Len(e) \in Nat
  BY <1>1, EntryParts
<1>3. \A i \in 1 .. Len(e), j \in 1 .. Len(e) : j \in S /\ i < j => i \in S
  BY <1>1, EntryParts DEF Arranged
<1>4. S = 1 .. Cardinality(S) /\ Cardinality(S) \in 0 .. Len(e)
  BY <1>2, <1>3, InitialStretch
<1>5. PICK b \in 0 .. Len(e) : b = Before(e, k) /\ S = 1 .. b
  BY <1>1, <1>4 DEF Before
<1>6. \A i \in 1 .. Len(e) : e[i].key < k <=> i <= b
  BY <1>1, <1>2, <1>5, EntryParts
<1> QED BY <1>5, <1>6

(* A leaf has as many entries as the whole row has between its bounds. *)
LEMMA LeafCounts ==
    ASSUME NEW n, NEW S, NEW lo, NEW hi, Row(n, S, lo, hi), NEW p \in S,
           NEW all \in Seq(Entry), Arranged(all), Range(all) = Stock(n, S)
    PROVE  Len(n[p].entries) = Before(all, hi[p]) - Before(all, lo[p])
<1>1. PICK e : e = n[p].entries
  OBVIOUS
<1>2. /\ e \in Seq(Entry) /\ Arranged(e) /\ \A x \in Range(e) : lo[p] <= x.key /\ x.key < hi[p]
      /\ lo[p] \in Int /\ hi[p] \in Int /\ lo[p] < hi[p]
  BY <1>1, RowParts DEF Row, Shelf
<1>3. PICK a, b, m : a = Before(all, lo[p]) /\ b = Before(all, hi[p]) /\ m = Len(all)
  OBVIOUS
<1>4. /\ m \in Nat /\ a \in 0 .. m /\ b \in 0 .. m
      /\ \A i \in 1 .. m : all[i].key < lo[p] <=> i <= a
      /\ \A i \in 1 .. m : all[i].key < hi[p] <=> i <= b
  BY <1>2, <1>3, BeforeAny, EntryParts
<1>5. a <= b
  <2>1. SUFFICES ASSUME b < a PROVE FALSE
    BY <1>4
  <2>2. a \in 1 .. m /\ ~ (a <= b)
    BY <1>4, <2>1
  <2>3. all[a].key < lo[p] /\ ~ (all[a].key < hi[p]) /\ all[a].key \in Int
    BY <1>3, <1>4, <2>2, EntryParts
  <2> QED BY <1>2, <2>3
<1>6. PICK t : t = SubSeq(all, a + 1, b)
  OBVIOUS
<1>7. Slice(Entry, all, a + 1, b, t) /\ Arranged(t) /\ t \in Seq(Entry)
  <2>1. PICK c : c = a + 1
    OBVIOUS
  <2>2. c \in 1 .. m + 1 /\ b \in c - 1 .. m
    BY <1>4, <1>5, <2>1
  <2>3. c \in 1 .. Len(all) + 1 /\ b \in c - 1 .. Len(all)
    BY <1>3, <2>2
  <2>4. Slice(Entry, all, c, b, t)
    BY ONLY all \in Seq(Entry), <1>6, <2>1, <2>3, SlicePlaces
  <2>5. Arranged(t) /\ t \in Seq(Entry)
    BY ONLY all \in Seq(Entry), Arranged(all), <2>3, <2>4, SliceArranged
  <2> QED BY <2>1, <2>4, <2>5
<1>8. Len(t) = b - a /\ \A i \in 1 .. b - a : t[i] = all[a + i]
  <2>1. b - (a + 1) + 1 = b - a
    BY <1>4
  <2>2. \A i \in 1 .. b - a : a + 1 + i - 1 = a + i
    BY <1>4
  <2> QED BY <1>7, <2>1, <2>2 DEF Slice
<1>9. ASSUME NEW x \in Range(t) PROVE x \in Range(e)
  <2>1. PICK i \in 1 .. b - a : t[i] = x
    BY <1>7, <1>8, <1>9, EntryParts
  <2>2. a + i \in 1 .. m /\ ~ (a + i <= a) /\ a + i <= b
    BY <1>4, <1>5
  <2>3. x = all[a + i] /\ x \in Range(all) /\ x.key \in Int
    BY <1>3, <1>8, <2>1, <2>2, EntryParts
  <2>4. lo[p] <= x.key /\ x.key < hi[p]
    BY <1>2, <1>4, <2>2, <2>3
  <2>5. PICK q \in S : x \in Range(n[q].entries)
    BY <2>3 DEF Stock
  <2>6. q = p
    <3>1. /\ lo[q] \in Int /\ hi[q] \in Int /\ lo[q] <= x.key /\ x.key < hi[q]
      BY <2>5, RowParts DEF Row, Shelf
    <3>2. q # p => hi[q] <= lo[p] \/ hi[p] <= lo[q]
      BY DEF Row
    <3> QED BY <1>2, <2>3, <2>4, <3>1, <3>2
  <2> QED BY <1>1, <2>5, <2>6
<1>10. ASSUME NEW x \in Range(e) PROVE x \in Range(t)
  <2>1. x \in Range(all) /\ lo[p] <= x.key /\ x.key < hi[p]
    BY <1>1, <1>2 DEF Stock
  <2>2. PICK j \in 1 .. m : all[j] = x /\ x.key \in Int
    BY <1>3, <2>1, EntryParts
  <2>3. ~ (j <= a) /\ j <= b
    BY <1>2, <1>4, <2>1, <2>2
  <2>4. j - a \in 1 .. b - a /\ a + (j - a) = j
    BY <1>4, <2>3
  <2>5. t[j - a] = x /\ j - a \in 1 .. Len(t)
    BY <1>8, <2>2, <2>4
  <2> QED BY <1>7, <2>5, EntryParts
<1>11. Range(t) = Range(e)
  BY <1>9, <1>10
<1>12. t = e
  BY <1>2, <1>7, <1>11, OneOrder
<1> QED BY <1>1, <1>3, <1>8, <1>12

(* What is added up in steps comes to the difference. *)
LEMMA SumOfSteps ==
    ASSUME NEW n \in Nat, NEW g, \A i \in 0 .. n : g[i] \in Int,
           NEW s, Len(s) = n, \A i \in 1 .. n : s[i] = g[i] - g[i - 1]
    PROVE  SumOf(s) = g[n] - g[0]
<1> DEFINE Sums(t) == t = [i \in 0 .. n |-> IF i = 0 THEN 0 ELSE t[i - 1] + s[i]]
<1>1. RunningTotal(s) = CHOOSE t : Sums(t)
  BY DEF RunningTotal
<1>2. \A i \in 1 .. n : i - 1 \in 0 .. n /\ i \in 0 .. n /\ i # 0
  OBVIOUS
<1>3. \E t : Sums(t)
  <2>1. PICK t : t = [i \in 0 .. n |-> g[i] - g[0]]
    OBVIOUS
  <2>2. ASSUME NEW i \in 0 .. n PROVE t[i] = IF i = 0 THEN 0 ELSE t[i - 1] + s[i]
    <3>1. CASE i = 0
      BY <2>1, <3>1
    <3>2. CASE i # 0
      <4>1. i \in 1 .. n /\ i - 1 \in 0 .. n
        BY <3>2
      <4>2. t[i] = g[i] - g[0] /\ t[i - 1] = g[i - 1] - g[0] /\ s[i] = g[i] - g[i - 1]
        BY <2>1, <4>1
      <4>3. g[i] \in Int /\ g[i - 1] \in Int /\ g[0] \in Int
        BY <4>1
      <4> QED BY <3>2, <4>2, <4>3
    <3> QED BY <3>1, <3>2
  <2>3. Sums(t)
    BY <2>1, <2>2
  <2> QED BY <2>3
<1>4. PICK t : t = RunningTotal(s)
  OBVIOUS
<1>5. Sums(t)
  BY <1>1, <1>3, <1>4
<1>6. t[0] = 0 /\ \A i \in 1 .. n : t[i] = t[i - 1] + s[i]
  BY <1>2, <1>5
<1>7. PICK X : X = {i \in Nat : i <= n /\ t[i] # g[i] - g[0]}
  OBVIOUS
<1>8. X = {}
  <2>1. SUFFICES ASSUME X # {} PROVE FALSE
    OBVIOUS
  <2>2. PICK m \in X : \A i \in X : m <= i
    <3>1. X \subseteq Nat
      BY <1>7
    <3> QED BY <2>1, <3>1, LeastNatural
  <2>3. m \in Nat /\ m <= n /\ t[m] # g[m] - g[0]
    BY <1>7, <2>2
  <2>4. m # 0
    <3>1. g[0] \in Int
      OBVIOUS
    <3> QED BY <1>6, <2>3, <3>1
  <2>5. m \in 1 .. n /\ m - 1 \in Nat /\ m - 1 <= n /\ ~ (m <= m - 1)
    BY <2>3, <2>4
  <2>6. m - 1 \notin X
    BY <2>2, <2>5
  <2>7. t[m - 1] = g[m - 1] - g[0] /\ t[m] = t[m - 1] + s[m] /\ s[m] = g[m] - g[m - 1]
    BY <1>6, <1>7, <2>5, <2>6
  <2>8. g[m - 1] \in Int /\ g[m] \in Int /\ g[0] \in Int
    BY <2>5
  <2> QED BY <2>3, <2>7, <2>8
<1>9. t[n] = g[n] - g[0]
  BY <1>7, <1>8
<1> QED BY <1>4, <1>9 DEF SumOf

(* The entries of a row that lie between the bounds of a node. *)
Between(all, lo, hi, p) == Before(all, hi[p]) - Before(all, lo[p])

LEMMA StepCount ==
    ASSUME NEW live, NEW lo, NEW hi, NEW h, Resting(live, lo, hi, h),
           NEW all \in Seq(Entry), Arranged(all),
           NEW p \in Page, IsInternal(p),
           NEW f, \A x \in Range(node[p].children) : f[x] = Between(all, lo, hi, x)
    PROVE  SumOf([i \in DOMAIN node[p].children |-> f[node[p].children[i]]])
             = Between(all, lo, hi, p)
<1>1. PICK k, c : k = node[p].keys /\ c = node[p].children
  OBVIOUS
<1>2. Slots(k, c) /\ Fence(k, c, lo[p], hi[p], lo, hi) /\ lo[p] \in Bound /\ hi[p] \in Bound
  BY <1>1, NodeAtRest
<1>3. PICK n \in Nat : n = Len(k) /\ DOMAIN c = 1 .. n + 1
                       /\ \A i \in 1 .. n + 1 : c[i] \in Range(c)
  BY <1>2, SlotParts
<1>4. PICK E : E = [i \in 0 .. n + 1 |-> Edge(k, lo[p], hi[p], i)]
  OBVIOUS
<1>5. /\ \A i \in 0 .. n + 1 : E[i] \in Int
      /\ E[0] = lo[p] /\ E[n + 1] = hi[p]
  <2>1. k \in Seq(Key) /\ 0 \in 0 .. n + 1 /\ n + 1 \in 0 .. n + 1
    BY <1>2, <1>3 DEF Slots
  <2> QED BY <1>2, <1>3, <1>4, <2>1, EdgeParts
<1>6. PICK g : g = [i \in 0 .. n + 1 |-> Before(all, E[i])]
  OBVIOUS
<1>7. /\ \A i \in 0 .. n + 1 : g[i] \in Int
      /\ g[0] = Before(all, lo[p]) /\ g[n + 1] = Before(all, hi[p])
  <2>1. 0 \in 0 .. n + 1 /\ n + 1 \in 0 .. n + 1
    BY <1>3
  <2>2. ASSUME NEW i \in 0 .. n + 1 PROVE g[i] \in Int
    <3>1. Before(all, E[i]) \in 0 .. Len(all)
      BY <1>5, BeforeAny
    <3> QED BY <1>6, <3>1
  <2> QED BY <1>5, <1>6, <2>1, <2>2
<1>8. PICK s : s = [i \in 1 .. n + 1 |-> f[c[i]]]
  OBVIOUS
<1>9. ASSUME NEW i \in 1 .. n + 1 PROVE s[i] = g[i] - g[i - 1]
  <2>1. i \in 0 .. n + 1 /\ i - 1 \in 0 .. n + 1
    BY <1>3
  <2>2. lo[c[i]] = E[i - 1] /\ hi[c[i]] = E[i]
    BY <1>2, <1>3, <1>4, <2>1 DEF Fence
  <2>3. s[i] = Between(all, lo, hi, c[i])
    BY <1>1, <1>3, <1>8
  <2>4. g[i] = Before(all, E[i]) /\ g[i - 1] = Before(all, E[i - 1])
    BY <1>6, <2>1
  <2> QED BY <2>2, <2>3, <2>4 DEF Between
<1>10. PICK m \in Nat : m = n + 1
  BY <1>3
<1>11. Len(s) = m
  BY <1>8, <1>10
<1>12. SumOf(s) = g[m] - g[0]
  <2>1. \A i \in 0 .. m : g[i] \in Int
    BY <1>7, <1>10
  <2>2. \A i \in 1 .. m : s[i] = g[i] - g[i - 1]
    BY <1>9, <1>10
  <2> QED BY ONLY m \in Nat, <1>11, <2>1, <2>2, SumOfSteps
<1> QED BY <1>1, <1>3, <1>7, <1>8, <1>10, <1>12 DEF Between

(* What verify_integrity counts on its way down. *)
Counts(f) ==
    f = [p \in Page |->
           IF IsLeaf(p) THEN Len(node[p].entries)
           ELSE IF ~ IsInternal(p) THEN 0
           ELSE SumOf([i \in DOMAIN node[p].children |-> f[node[p].children[i]]])]

LEMMA LeafHas ==
    ASSUME NEW live, NEW lo, NEW hi, NEW h, Resting(live, lo, hi, h),
           NEW all \in Seq(Entry), Arranged(all), Range(all) = Stock(node, Leaves(node, live)),
           NEW p \in Page, IsLeaf(p)
    PROVE  Len(node[p].entries) = Between(all, lo, hi, p)
<1>1. Row(node, Leaves(node, live), lo, hi) /\ p \in Leaves(node, live)
  BY DEF Resting, Pages
<1> QED BY <1>1, LeafCounts DEF Between

LEMMA CountsExist ==
    ASSUME NEW live, NEW lo, NEW hi, NEW h, Resting(live, lo, hi, h),
           NEW all \in Seq(Entry), Arranged(all), Range(all) = Stock(node, Leaves(node, live))
    PROVE  \E f : Counts(f)
<1>1. PICK f : f = [p \in Page |-> IF p \in live THEN Between(all, lo, hi, p) ELSE 0]
  OBVIOUS
<1>2. \A p \in Page : IsLeaf(p) \/ IsInternal(p) <=> p \in live
  BY DEF Resting, IsLeaf, IsInternal
<1>3. ASSUME NEW p \in Page, IsLeaf(p) PROVE f[p] = Len(node[p].entries)
  BY <1>1, <1>2, <1>3, LeafHas
<1>4. ASSUME NEW p \in Page, IsInternal(p)
      PROVE  f[p] = SumOf([i \in DOMAIN node[p].children |-> f[node[p].children[i]]])
  <2>1. p \in live /\ Range(node[p].children) \subseteq live /\ live \subseteq Page
    BY <1>4, NodeAtRest
  <2>2. \A x \in Range(node[p].children) : f[x] = Between(all, lo, hi, x)
    BY <1>1, <2>1
  <2>3. f[p] = Between(all, lo, hi, p)
    BY <1>1, <2>1
  <2> QED BY <1>4, <2>2, <2>3, StepCount
<1>5. \A p \in Page : ~ IsLeaf(p) /\ ~ IsInternal(p) => f[p] = 0
  BY <1>1, <1>2
<1>6. f = [p \in Page |-> f[p]]
  BY <1>1
<1>7. Counts(f)
  BY <1>3, <1>4, <1>5, <1>6 DEF Counts
<1> QED BY <1>7

LEMMA KeysCounted ==
    ASSUME NEW live, NEW lo, NEW hi, NEW h, Resting(live, lo, hi, h),
           NEW all \in Seq(Entry), Arranged(all), Range(all) = Stock(node, Leaves(node, live))
    PROVE  \A p \in live : KeysBelow[p] = Between(all, lo, hi, p)
<1>1. KeysBelow = CHOOSE f : Counts(f)
  BY DEF KeysBelow, Counts
<1>2. PICK f : f = KeysBelow
  OBVIOUS
<1>3. Counts(f)
  BY <1>1, <1>2, CountsExist
<1>4. \A p \in Page : IsInternal(p) =>
         f[p] = SumOf([i \in DOMAIN node[p].children |-> f[node[p].children[i]]])
  BY <1>3 DEF Counts, IsLeaf, IsInternal
<1>5. \A p \in Page : IsLeaf(p) => f[p] = Len(node[p].entries)
  BY <1>3 DEF Counts
<1>6. /\ live \subseteq Page /\ \A p \in live : IsLeaf(p) \/ IsInternal(p)
      /\ \A p \in live : h[p] \in Nat
  BY DEF Resting, Pages
<1>7. PICK X : X = {p \in live : f[p] # Between(all, lo, hi, p)}
  OBVIOUS
<1>8. X = {}
  <2>1. SUFFICES ASSUME X # {} PROVE FALSE
    OBVIOUS
  <2>2. PICK p \in X : \A q \in X : h[p] <= h[q]
    <3>1. PICK H : H = {h[q] : q \in X}
      OBVIOUS
    <3>2. H \subseteq Nat /\ H # {}
      BY <1>6, <1>7, <2>1, <3>1
    <3>3. PICK b \in H : \A c \in H : b <= c
      BY <3>2, LeastNatural
    <3> QED BY <3>1, <3>3
  <2>3. p \in live /\ p \in Page /\ f[p] # Between(all, lo, hi, p)
    BY <1>6, <1>7, <2>2
  <2>4. ~ IsLeaf(p)
    BY <1>5, <2>3, LeafHas
  <2>5. IsInternal(p)
    BY <1>6, <2>3, <2>4
  <2>6. ASSUME NEW x \in Range(node[p].children) PROVE f[x] = Between(all, lo, hi, x)
    <3>1. x \in live /\ h[x] \in Nat /\ h[p] \in Nat /\ h[x] + 1 = h[p]
      BY <2>3, <2>5, <2>6, NodeAtRest
    <3>2. ~ (h[p] <= h[x])
      BY <3>1
    <3> QED BY <1>7, <2>2, <3>1, <3>2
  <2>7. SumOf([i \in DOMAIN node[p].children |-> f[node[p].children[i]]])
          = Between(all, lo, hi, p)
    BY <2>3, <2>5, <2>6, StepCount
  <2> QED BY <1>4, <2>3, <2>5, <2>7
<1> QED BY <1>2, <1>7, <1>8

LEMMA CountAtRoot ==
    ASSUME NEW live, NEW lo, NEW hi, NEW h, Resting(live, lo, hi, h),
           NEW all \in Seq(Entry), Arranged(all), Range(all) = Stock(node, Leaves(node, live))
    PROVE  KeysBelow[root] = Len(all)
<1>1. root \in live /\ lo[root] = 0 /\ hi[root] = MaxKey + 1
  BY DEF Resting, Pages
<1>2. KeysBelow[root] = Before(all, MaxKey + 1) - Before(all, 0)
  BY <1>1, KeysCounted DEF Between
<1>3. PICK m \in Nat : m = Len(all)
  BY EntryParts
<1>4. \A i \in 1 .. m : all[i].key \in Int /\ 0 <= all[i].key /\ all[i].key < MaxKey + 1
  <2> SUFFICES ASSUME NEW i \in 1 .. m
               PROVE  all[i].key \in Int /\ 0 <= all[i].key /\ all[i].key < MaxKey + 1
    OBVIOUS
  <2>1. all[i] \in Entry
    BY <1>3
  <2>2. all[i].key \in 1 .. MaxKey
    BY <2>1 DEF Entry, Key
  <2> QED BY <2>2, BTreeConstants
<1>5. MaxKey + 1 \in Int /\ 0 \in Int
  BY BTreeConstants
<1>6. PICK a \in 0 .. m : a = Before(all, 0) /\ \A i \in 1 .. m : all[i].key < 0 <=> i <= a
  BY <1>3, <1>5, BeforeAny
<1>7. PICK b \in 0 .. m : b = Before(all, MaxKey + 1)
                          /\ \A i \in 1 .. m : all[i].key < MaxKey + 1 <=> i <= b
  BY <1>3, <1>5, BeforeAny
<1>8. a = 0
  <2>1. SUFFICES ASSUME a # 0 PROVE FALSE
    OBVIOUS
  <2>2. a \in 1 .. m /\ a <= a
    BY <2>1
  <2> QED BY <1>4, <1>6, <2>2
<1>9. b = m
  <2>1. SUFFICES ASSUME b # m PROVE FALSE
    OBVIOUS
  <2>2. m \in 1 .. m /\ ~ (m <= b)
    BY <2>1
  <2> QED BY <1>4, <1>7, <2>2
<1> QED BY <1>2, <1>3, <1>6, <1>7, <1>8, <1>9

(* A tree at rest whose leaves point back passes
   verify_integrity. *)
LEMMA VerifiesAtRest ==
    ASSUME NEW live, NEW lo, NEW hi, NEW h, Resting(live, lo, hi, h),
           PointsBack(node, Leaves(node, live))
    PROVE  Verifies
<1>1. PICK S : S = Leaves(node, live)
  OBVIOUS
<1>2. Row(node, S, lo, hi) /\ RowReached(node, S)
  BY <1>1 DEF Resting, Pages
<1>3. LeftmostLeaf = FirstLeaf /\ FirstLeaf \in S
  BY <1>2, LeftmostIsFirst DEF Row
<1>4. PICK all : all = Contents
  OBVIOUS
<1>5. all \in Seq(Entry) /\ Arranged(all) /\ Range(all) = Stock(node, S)
      /\ all = EntriesFrom[LeftmostLeaf]
  BY <1>2, <1>3, <1>4, RowListed DEF Contents
<1>6. KeysBelow[root] = Len(all)
  BY <1>1, <1>5, CountAtRoot
<1>7. PICK m \in Nat : m = Len(all)
  BY <1>5, EntryParts
<1>8. \A i \in 1 .. m - 1 : all[i].key < all[i + 1].key
  <2> SUFFICES ASSUME NEW i \in 1 .. m - 1 PROVE all[i].key < all[i + 1].key
    OBVIOUS
  <2>1. i \in 1 .. m /\ i + 1 \in 1 .. m /\ i < i + 1
    BY <1>7
  <2>2. DOMAIN all = 1 .. m
    BY <1>5, <1>7, EntryParts
  <2> QED BY <1>5, <1>7, <2>1, <2>2 DEF Arranged
<1>9. PICK leaves : leaves = LeafChain
  OBVIOUS
<1>10. ChainBack(leaves, FirstLeaf)
  BY <1>1, <1>2, <1>3, <1>9, ChainGoesBack DEF LeafChain
<1>11. ASSUME NEW i \in DOMAIN leaves
       PROVE  node[leaves[i]].prev = IF i = 1 THEN 0 ELSE leaves[i - 1]
  <2>1. PICK n \in Nat : n = Len(leaves) /\ DOMAIN leaves = 1 .. n
    BY <1>10 DEF ChainBack
  <2>2. CASE i = 1
    BY <1>1, <1>10, <2>2 DEF ChainBack, PointsBack
  <2>3. CASE i # 1
    <3>1. i \in 2 .. n
      BY <2>1, <2>3
    <3> QED BY <1>10, <2>1, <2>3, <3>1 DEF ChainBack
  <2> QED BY <2>2, <2>3
<1>12. ChainVerifies
  BY <1>5, <1>6, <1>7, <1>8, <1>9, <1>11 DEF ChainVerifies
<1> QED BY <1>12, DepthVerifies DEF Verifies

(* The leaf that the one after it is to point back to. *)
Newer(l) == IF l.op = "insert" THEN l.right ELSE l.page

(* Each leaf of the row points back to the one before it, but for the one that
   set_prev_leaf is still to be called for. *)
Backed(n, l) ==
    LET S == Leaves(n, Live(n, l))
    IN  /\ n[FirstLeaf].prev = 0
        /\ \A p \in S :
              n[p].next # 0 /\ (l.pc = "next" => n[p].next # l.next) => n[n[p].next].prev = p
        /\ l.pc = "next" => Newer(l) \in S /\ n[Newer(l)].next = l.next

BackedNow == run[TheWriter].pc # "failed" => Backed(node, run[TheWriter])

(* Which call is under way, where FixNext asks. *)
Aims(l) ==
    /\ l.pc \in {"rebalance", "siblings", "share", "free", "remove"} => l.op = "delete"
    /\ l.pc \in {"next", "adopt"} /\ l.then = "free" => l.op = "delete"
    /\ l.pc = "next" /\ l.then = "promote" => l.op = "insert"

Aimed == Aims(run[TheWriter])

LEMMA AtRestBacked ==
    ASSUME NEW n, NEW l, l.pc # "next"
    PROVE  Backed(n, l) <=> PointsBack(n, Leaves(n, Live(n, l)))
BY DEF Backed, PointsBack

(* What is a leaf was one, with the same neighbours. *)
LeafFrom(n, n2) ==
    \A p \in Page : n2[p].type = "leaf" =>
       n[p].type = "leaf" /\ n2[p].next = n[p].next /\ n2[p].prev = n[p].prev

LEMMA RowNow ==
    ASSUME NEW n, NEW rt, NEW l, InOrder(n, rt, l)
    PROVE  \E lo, hi : Row(n, Leaves(n, Live(n, l)), lo, hi)
BY OrderParts DEF InOrder, Pages

LEMMA BackedOn ==
    ASSUME NEW n, NEW rt, NEW l, Backed(n, l), l.pc # "next",
           NEW n2, NEW rt2, NEW l2, InOrder(n2, rt2, l2), l2.pc # "next",
           LeafFrom(n, n2), Leaves(n2, Live(n2, l2)) \subseteq Leaves(n, Live(n, l))
    PROVE  Backed(n2, l2)
<1>1. PICK S, S2 : S = Leaves(n, Live(n, l)) /\ S2 = Leaves(n2, Live(n2, l2))
  OBVIOUS
<1>2. PICK lo, hi : Row(n2, S2, lo, hi)
  BY <1>1, RowNow
<1>3. S2 \subseteq S /\ S2 \subseteq Page /\ FirstLeaf \in S2
      /\ \A p \in S2 : n2[p].type = "leaf"
  <2>1. \A p \in S2 : n2[p].type = "leaf"
    BY <1>1 DEF Leaves
  <2> QED BY <1>1, <1>2, <2>1, RowParts DEF Row
<1>4. PointsBack(n, S)
  BY <1>1, AtRestBacked
<1>5. \A p \in S2 : n2[p].next = n[p].next /\ n2[p].prev = n[p].prev
  BY <1>3 DEF LeafFrom
<1>6. n2[FirstLeaf].prev = 0
  BY <1>3, <1>4, <1>5 DEF PointsBack
<1>7. ASSUME NEW p \in S2, n2[p].next # 0 PROVE n2[n2[p].next].prev = p
  <2>1. PICK r : r = n2[p].next /\ r \in S2
    BY <1>2, <1>7, NextInRow
  <2>2. n[r].prev = p
    BY <1>3, <1>4, <1>5, <1>7, <2>1 DEF PointsBack
  <2> QED BY <1>5, <2>1, <2>2
<1>8. PointsBack(n2, S2)
  BY <1>6, <1>7 DEF PointsBack
<1> QED BY <1>1, <1>8, AtRestBacked

(* A page that a step rebuilds as a node above the leaves. *)
LEMMA NoLeafMade ==
    ASSUME NEW k, NEW c, NEW q
    PROVE  Internal(k, c, q).type # "leaf"
BY DEF Internal, Overrun

LEMMA SameIsFrom ==
    ASSUME NEW n
    PROVE  LeafFrom(n, n)
BY DEF LeafFrom

(* A step that is not about the neighbours of a leaf. *)
Untouched(l, l2) ==
    /\ l.pc # "next" /\ l2.pc # "next"
    /\ LeafFrom(node, node')
    /\ Merging(l) /\ l.right \in Page =>
          node'[l.right].type # "leaf" \/ (Merging(l2) /\ l2.right = l.right)
    /\ Aims(l) => Aims(l2)

LEMMA IdleAims == Aims(Idle) /\ Idle.pc # "next" /\ ~ Merging(Idle)
BY DEF Aims, Idle, Merging

LEMMA ReturnsNow ==
    ASSUME OneWriter, Inv, Return(TheWriter)
    PROVE  run'[TheWriter] = Idle
BY LocalsNow DEF Return

LEMMA SameUntouched ==
    ASSUME NEW l, NEW l2, node' = node, l.pc # "next", l2.pc # "next",
           Merging(l) => Merging(l2) /\ l2.right = l.right, Aims(l) => Aims(l2)
    PROVE  Untouched(l, l2)
BY SameIsFrom DEF Untouched

LEMMA ReturnUntouched ==
    ASSUME OneWriter, Inv, NEW l, l = run[TheWriter], node' = node, l.pc # "next", ~ Merging(l),
           Return(TheWriter)
    PROVE  Untouched(l, run'[TheWriter])
BY ReturnsNow, IdleAims, SameUntouched

LEMMA CallUntouched ==
    ASSUME OneWriter, Inv, NEW l, l = run[TheWriter],
           NEW op, NEW k, NEW v, Call(TheWriter, op, k, v)
    PROVE  Untouched(l, run'[TheWriter])
<1>1. l.pc = "idle" /\ node' = node
  BY DEF Call, At
<1>2. PICK l2 : l2 = [Idle EXCEPT !.pc = "find", !.op = op, !.key = k, !.value = v, !.page = root]
  OBVIOUS
<1>3. run'[TheWriter] = l2
  BY <1>2, LocalsNow DEF Call
<1>4. l2.pc = "find"
  BY <1>2 DEF Idle
<1> QED BY <1>1, <1>3, <1>4, SameUntouched DEF Aims, Merging

(* Steps that only look. *)
LEMMA LookingUntouched ==
    ASSUME OneWriter, Inv, NEW l, l = run[TheWriter],
           Find(TheWriter) \/ ToParent(TheWriter) \/ Rebalance(TheWriter) \/ Siblings(TheWriter)
    PROVE  Untouched(l, run'[TheWriter])
<1>0. /\ l.pc \in {"find", "promote", "rebalance", "siblings"} /\ l.pc # "next" /\ node' = node
      /\ ~ Merging(l) /\ l \in Locals
  <2>1. /\ l.pc \in {"find", "promote", "rebalance", "siblings"} /\ node' = node
    BY DEF Find, ToParent, Rebalance, Siblings, At
  <2> QED BY <2>1, AtWork DEF Merging
<1>1. CASE Find(TheWriter)
  <2>1. l.op \in {"insert", "delete"} /\ l.pc = "find"
    BY <1>1, AtWork DEF Asked, Find, At
  <2>2. CASE Continue(TheWriter, [l EXCEPT !.pc = l.op])
    <3>1. PICK l2 : l2 = [l EXCEPT !.pc = l.op]
      OBVIOUS
    <3>2. run'[TheWriter] = l2 /\ l2.pc = l.op
      BY <1>0, <2>2, <3>1, LocalsNow DEF Locals
    <3> QED BY <1>0, <2>1, <3>2, SameUntouched DEF Aims
  <2>3. CASE Continue(TheWriter, [l EXCEPT !.page = FindChild(l.page, l.key)])
    <3>1. PICK c : c = FindChild(l.page, l.key)
      OBVIOUS
    <3>2. PICK l2 : l2 = [l EXCEPT !.page = c]
      OBVIOUS
    <3>3. run'[TheWriter] = l2 /\ l2.pc = l.pc
      BY <1>0, <2>3, <3>1, <3>2, LocalsNow DEF Locals
    <3> QED BY <1>0, <2>1, <3>3, SameUntouched DEF Aims
  <2> QED BY <1>1, <2>2, <2>3 DEF Find
<1>2. CASE ToParent(TheWriter)
  <2>1. PICK c : c = node[l.page].parent
    OBVIOUS
  <2>2. PICK l2 : l2 = [l EXCEPT !.pc = "parent", !.page = c]
    OBVIOUS
  <2>3. run'[TheWriter] = l2 /\ l2.pc = "parent"
    BY <1>0, <1>2, <2>1, <2>2, LocalsNow DEF Locals, ToParent
  <2> QED BY <1>0, <2>3, SameUntouched DEF Aims
<1>3. CASE Rebalance(TheWriter)
  <2>1. CASE Return(TheWriter)
    BY <1>0, <2>1, ReturnUntouched
  <2>2. CASE ~ Return(TheWriter)
    <3>1. PICK c : c = node[l.page].parent
      OBVIOUS
    <3>2. PICK l2 : l2 = [l EXCEPT !.pc = "siblings", !.parent = c]
      OBVIOUS
    <3>3. run'[TheWriter] = l2 /\ l2.pc = "siblings" /\ l2.op = l.op /\ l.pc = "rebalance"
      BY <1>0, <1>3, <2>2, <3>1, <3>2, LocalsNow DEF Locals, Rebalance, At
    <3> QED BY <1>0, <3>3, SameUntouched DEF Aims
  <2> QED BY <2>1, <2>2
<1>4. CASE Siblings(TheWriter)
  <2>1. CASE Return(TheWriter)
    BY <1>0, <2>1, ReturnUntouched
  <2>2. CASE ~ Return(TheWriter)
    <3>1. l.pc = "siblings"
      BY <1>4 DEF Siblings, At
    <3>2. PICK i :
            \/ Continue(TheWriter, [l EXCEPT !.pc = "share", !.then = "left",
                                      !.page = node[l.parent].children[i - 1],
                                      !.right = node[l.parent].children[i], !.slot = i - 1])
            \/ Continue(TheWriter, [l EXCEPT !.pc = "share", !.then = "right",
                                      !.right = node[l.parent].children[2], !.slot = 1])
      BY <1>4, <2>2 DEF Siblings
    <3>3. PICK a, b, c, d : a = node[l.parent].children[i - 1] /\ b = node[l.parent].children[i]
                            /\ c = node[l.parent].children[2] /\ d = i - 1
      OBVIOUS
    <3>4. PICK x, y : /\ x = [l EXCEPT !.pc = "share", !.then = "left", !.page = a, !.right = b,
                                       !.slot = d]
                      /\ y = [l EXCEPT !.pc = "share", !.then = "right", !.right = c, !.slot = 1]
      OBVIOUS
    <3>5. x.pc = "share" /\ x.op = l.op /\ y.pc = "share" /\ y.op = l.op
      BY <1>0, <3>4 DEF Locals
    <3>6. run'[TheWriter] = x \/ run'[TheWriter] = y
      BY <3>2, <3>3, <3>4, LocalsNow
    <3>7. Aims(l) => Aims(x) /\ Aims(y)
      BY <3>1, <3>5 DEF Aims
    <3> QED BY <1>0, <3>5, <3>6, <3>7, SameUntouched
  <2> QED BY <2>1, <2>2
<1> QED BY <1>1, <1>2, <1>3, <1>4

LEMMA AdoptedUntouched ==
    ASSUME OneWriter, Inv, NEW l, l = run[TheWriter],
           Adopted(TheWriter) \/ StoreRoot(TheWriter) \/ Done(TheWriter)
    PROVE  Untouched(l, run'[TheWriter])
<1>1. CASE Adopted(TheWriter)
  <2>1. l.pc = "adopt" /\ node' = node
    BY <1>1 DEF Adopted, At
  <2>2. l.then \in {"root", "return", "promote", "free", "collapse"} /\ l \in Locals
    BY <2>1, AtWork DEF Asked
  <2>3. CASE l.then = "return"
    BY <1>1, <2>1, <2>3, ReturnUntouched DEF Adopted, Merging
  <2>4. CASE l.then # "return"
    <3>1. PICK l2 : l2 = [l EXCEPT !.pc = l.then]
      OBVIOUS
    <3>2. run'[TheWriter] = l2 /\ l2.pc = l.then /\ l2.op = l.op /\ l2.right = l.right
      BY <1>1, <2>2, <2>4, <3>1, LocalsNow DEF Adopted, Locals
    <3>3. l2.pc # "next" /\ (Merging(l) => Merging(l2))
      BY <2>1, <2>2, <3>2 DEF Merging
    <3>4. Aims(l) => Aims(l2)
      BY <2>1, <2>2, <3>2 DEF Aims
    <3> QED BY <2>1, <3>2, <3>3, <3>4, SameUntouched
  <2> QED BY <2>3, <2>4
<1>2. CASE StoreRoot(TheWriter) \/ Done(TheWriter)
  <2>1. l.pc \in {"root", "return"} /\ node' = node /\ Return(TheWriter)
    BY <1>2 DEF StoreRoot, Done, At
  <2> QED BY <2>1, ReturnUntouched DEF Merging
<1> QED BY <1>1, <1>2

(* A step that writes nodes above the leaves, or what a leaf has besides its
   neighbours. *)
LEMMA WrittenUntouched ==
    ASSUME NEW l, NEW l2, l.pc # "next", l2.pc # "next", ~ Merging(l), Aims(l) => Aims(l2),
           LeafFrom(node, node')
    PROVE  Untouched(l, l2)
BY DEF Untouched

LEMMA AboveFrom ==
    ASSUME NEW n, NEW n2, NEW P,
           \A p \in Page : IF p \in P THEN n2[p].type # "leaf" ELSE n2[p] = n[p]
    PROVE  LeafFrom(n, n2)
BY DEF LeafFrom

LEMMA AdoptUntouched ==
    ASSUME OneWriter, Inv, NEW l, l = run[TheWriter], Adopt(TheWriter)
    PROVE  Untouched(l, run'[TheWriter])
<1>1. l.pc = "adopt" /\ l \in Locals /\ node \in [Page -> Node]
  <2>1. l.pc = "adopt"
    BY DEF Adopt, At
  <2> QED BY <2>1, AtWork
<1>2. PICK c, q, a : c = l.adopt[1][1] /\ q = l.adopt[1][2] /\ a = Tail(l.adopt)
  OBVIOUS
<1>3. /\ c \in Page /\ node[c].type \in {"leaf", "internal"}
      /\ node' = [node EXCEPT ![c].parent = q] /\ Continue(TheWriter, [l EXCEPT !.adopt = a])
  BY <1>2 DEF Adopt, IsLeaf, IsInternal
<1>4. PICK x : x = [node[c] EXCEPT !.parent = q]
  OBVIOUS
<1>5. node'[c] = x /\ \A p \in Page : p # c => node'[p] = node[p]
  BY <1>1, <1>3, <1>4
<1>6. x.type = node[c].type /\ (x.type = "leaf" => x.next = node[c].next /\ x.prev = node[c].prev)
  <2>1. CASE node[c].type = "leaf"
    <3>1. node[c] \in LeafNodes
      BY <1>1, <1>3, <2>1, LeafParts
    <3> QED BY <1>4, <3>1 DEF LeafNodes
  <2>2. CASE node[c].type = "internal"
    <3>1. node[c] \in InternalNodes
      BY <1>1, <1>3, <2>2, InternalParts
    <3> QED BY <1>4, <2>2, <3>1 DEF InternalNodes
  <2> QED BY <1>3, <2>1, <2>2
<1>7. LeafFrom(node, node')
  BY <1>5, <1>6 DEF LeafFrom
<1>8. PICK l2 : l2 = [l EXCEPT !.adopt = a]
  OBVIOUS
<1>9. run'[TheWriter] = l2 /\ l2.pc = l.pc /\ l2.then = l.then /\ l2.op = l.op /\ l2.right = l.right
  BY <1>1, <1>3, <1>8, LocalsNow DEF Locals
<1>10. Merging(l) => Merging(l2)
  BY <1>9 DEF Merging
<1>11. Aims(l) => Aims(l2)
  BY <1>9 DEF Aims
<1> QED BY <1>1, <1>7, <1>9, <1>10, <1>11 DEF Untouched

(* The entries of a leaf change. *)
LEMMA RefillFrom ==
    ASSUME node \in [Page -> Node], NEW p \in Page, node[p].type = "leaf",
           NEW e, node' = [node EXCEPT ![p].entries = e]
    PROVE  LeafFrom(node, node')
<1>1. node[p] \in LeafNodes
  BY LeafParts
<1>2. PICK x : x = [node[p] EXCEPT !.entries = e]
  OBVIOUS
<1>3. node'[p] = x /\ \A q \in Page : q # p => node'[q] = node[q]
  BY <1>2
<1>4. x.next = node[p].next /\ x.prev = node[p].prev
  BY <1>1, <1>2 DEF LeafNodes
<1> QED BY <1>3, <1>4 DEF LeafFrom

LEMMA InsertInPlaceUntouched ==
    ASSUME OneWriter, Inv, NEW l, l = run[TheWriter], InsertInPlace(TheWriter)
    PROVE  Untouched(l, run'[TheWriter])
<1>1. l.pc = "insert" /\ l \in Locals /\ node \in [Page -> Node] /\ l.page \in Page
      /\ node[l.page].type = "leaf"
  <2>1. l.pc = "insert" /\ l.page \in Page /\ node[l.page].type = "leaf"
    BY DEF InsertInPlace, At, IsLeaf
  <2> QED BY <2>1, AtWork
<1>2. LeafFrom(node, node')
  BY <1>1, RefillFrom DEF InsertInPlace
<1>3. PICK l2 : l2 = [l EXCEPT !.done = TRUE, !.pc = "return"]
  OBVIOUS
<1>4. run'[TheWriter] = l2 /\ l2.pc = "return"
  BY <1>1, <1>3, LocalsNow DEF Locals, InsertInPlace
<1> QED BY <1>1, <1>2, <1>4, WrittenUntouched DEF Aims, Merging

LEMMA RemoveKeyUntouched ==
    ASSUME OneWriter, Inv, NEW l, l = run[TheWriter], Tells(l), RemoveKey(TheWriter)
    PROVE  Untouched(l, run'[TheWriter])
<1>1. l.pc = "delete" /\ l \in Locals /\ node \in [Page -> Node] /\ l.page \in Page
      /\ node[l.page].type = "leaf" /\ l.op = "delete"
  <2>1. l.pc = "delete" /\ l.page \in Page /\ node[l.page].type = "leaf"
    BY DEF RemoveKey, At, IsLeaf
  <2> QED BY <2>1, AtWork DEF Tells
<1>2. PICK e, pc : /\ node' = [node EXCEPT ![l.page].entries = e]
                   /\ Continue(TheWriter, [l EXCEPT !.done = TRUE, !.pc = pc])
                   /\ pc \in {"rebalance", "return"}
  BY DEF RemoveKey
<1>3. LeafFrom(node, node')
  BY <1>1, <1>2, RefillFrom
<1>4. PICK l2 : l2 = [l EXCEPT !.done = TRUE, !.pc = pc]
  OBVIOUS
<1>5. run'[TheWriter] = l2 /\ l2.pc = pc /\ l2.op = l.op
  BY <1>1, <1>2, <1>4, LocalsNow DEF Locals
<1> QED BY <1>1, <1>2, <1>3, <1>5, WrittenUntouched DEF Aims, Merging

(* The keys and the children of a node above the leaves change. *)
LEMMA RekeyFrom ==
    ASSUME node \in [Page -> Node], NEW p \in Page, node[p].type = "internal",
           NEW k, NEW c, node' = [node EXCEPT ![p].keys = k, ![p].children = c]
    PROVE  LeafFrom(node, node') /\ node'[p].type = "internal"
           /\ \A q \in Page : q # p => node'[q] = node[q]
<1>1. node[p] \in InternalNodes
  BY InternalParts
<1>2. PICK x : x = [node[p] EXCEPT !.keys = k, !.children = c]
  OBVIOUS
<1>3. node'[p] = x /\ \A q \in Page : q # p => node'[q] = node[q]
  BY <1>2
<1>4. x.type = "internal"
  BY <1>1, <1>2 DEF InternalNodes
<1> QED BY <1>3, <1>4 DEF LeafFrom

LEMMA InsertEntryUntouched ==
    ASSUME OneWriter, Inv, NEW l, l = run[TheWriter], InsertEntry(TheWriter)
    PROVE  Untouched(l, run'[TheWriter])
<1>1. l.pc = "parent" /\ l \in Locals /\ node \in [Page -> Node] /\ l.page \in Page
      /\ node[l.page].type = "internal"
  <2>1. l.pc = "parent" /\ l.page \in Page /\ node[l.page].type = "internal"
    BY DEF InsertEntry, At, IsInternal
  <2> QED BY <2>1, AtWork
<1>2. PICK k, c, a : /\ k = NewKeys(TheWriter) /\ c = NewChildren(TheWriter)
                     /\ a = << << l.right, l.page >> >>
  OBVIOUS
<1>3. /\ node' = [node EXCEPT ![l.page].keys = k, ![l.page].children = c]
      /\ Continue(TheWriter, [l EXCEPT !.pc = "adopt", !.then = "return", !.adopt = a])
  BY <1>2 DEF InsertEntry
<1>4. LeafFrom(node, node')
  BY <1>1, <1>3, RekeyFrom
<1>5. PICK l2 : l2 = [l EXCEPT !.pc = "adopt", !.then = "return", !.adopt = a]
  OBVIOUS
<1>6. run'[TheWriter] = l2 /\ l2.pc = "adopt" /\ l2.then = "return"
  BY <1>1, <1>3, <1>5, LocalsNow DEF Locals
<1> QED BY <1>1, <1>4, <1>6, WrittenUntouched DEF Aims, Merging

LEMMA GrowRootUntouched ==
    ASSUME OneWriter, Inv, NEW l, l = run[TheWriter], GrowRoot(TheWriter)
    PROVE  Untouched(l, run'[TheWriter])
<1>1. l.pc = "promote" /\ l \in Locals /\ node \in [Page -> Node]
  <2>1. l.pc = "promote"
    BY DEF GrowRoot, At
  <2> QED BY <2>1, AtWork
<1>2. PICK x, q, a : /\ q = NewPage /\ x = Internal(<< l.sep >>, << l.page, l.right >>, 0)
                     /\ a = << << l.page, q >>, << l.right, q >> >>
  OBVIOUS
<1>3. /\ node' = [node EXCEPT ![q] = x]
      /\ Continue(TheWriter, [l EXCEPT !.pc = "adopt", !.then = "root", !.right = q, !.adopt = a])
  BY <1>2 DEF GrowRoot
<1>4. x.type # "leaf"
  BY <1>2, NoLeafMade
<1>5. LeafFrom(node, node')
  <2>1. PICK P : P = {q}
    OBVIOUS
  <2>2. \A p \in Page : IF p \in P THEN node'[p].type # "leaf" ELSE node'[p] = node[p]
    BY <1>1, <1>3, <1>4, <2>1
  <2> QED BY <2>2, AboveFrom
<1>6. PICK l2 : l2 = [l EXCEPT !.pc = "adopt", !.then = "root", !.right = q, !.adopt = a]
  OBVIOUS
<1>7. run'[TheWriter] = l2 /\ l2.pc = "adopt" /\ l2.then = "root"
  BY <1>1, <1>3, <1>6, LocalsNow DEF Locals
<1> QED BY <1>1, <1>5, <1>7, WrittenUntouched DEF Aims, Merging

LEMMA SplitInternalUntouched ==
    ASSUME OneWriter, Inv, NEW l, l = run[TheWriter], SplitInternal(TheWriter)
    PROVE  Untouched(l, run'[TheWriter])
<1>1. l.pc = "parent" /\ l \in Locals /\ node \in [Page -> Node]
  <2>1. l.pc = "parent"
    BY DEF SplitInternal, At
  <2> QED BY <2>1, AtWork
<1>2. PICK k1, c1, k2, c2, g, q, s, a :
        /\ node' = [node EXCEPT ![q] = Internal(k2, c2, g), ![l.page] = Internal(k1, c1, g)]
        /\ Continue(TheWriter, [l EXCEPT !.pc = "adopt", !.then = "promote", !.right = q,
                                         !.sep = s, !.adopt = a])
  BY DEF SplitInternal
<1>3. PICK x, y, p : x = Internal(k1, c1, g) /\ y = Internal(k2, c2, g) /\ p = l.page
  OBVIOUS
<1>4. x.type # "leaf" /\ y.type # "leaf"
  BY <1>3, NoLeafMade
<1>5. LeafFrom(node, node')
  <2>1. node' = [node EXCEPT ![q] = y, ![p] = x]
    BY <1>2, <1>3
  <2>2. PICK P : P = {p, q}
    OBVIOUS
  <2>3. \A z \in Page : IF z \in P THEN node'[z].type # "leaf" ELSE node'[z] = node[z]
    BY <1>1, <1>4, <2>1, <2>2
  <2> QED BY <2>3, AboveFrom
<1>6. PICK l2 : l2 = [l EXCEPT !.pc = "adopt", !.then = "promote", !.right = q, !.sep = s,
                               !.adopt = a]
  OBVIOUS
<1>7. run'[TheWriter] = l2 /\ l2.pc = "adopt" /\ l2.then = "promote"
  BY <1>1, <1>2, <1>6, LocalsNow DEF Locals
<1> QED BY <1>1, <1>5, <1>7, WrittenUntouched DEF Aims, Merging

LEMMA SetSeparatorUntouched ==
    ASSUME OneWriter, Inv, NEW l, l = run[TheWriter], SetSeparator(TheWriter)
    PROVE  Untouched(l, run'[TheWriter])
<1>1. l.pc = "separator" /\ node \in [Page -> Node]
  <2>1. l.pc = "separator"
    BY DEF SetSeparator, At
  <2> QED BY <2>1, AtWork
<1>2. PICK g, x : /\ g = l.parent
                  /\ x = Internal(ReplaceAt(node[g].keys, l.slot, l.sep), node[g].children,
                                  node[g].parent)
  OBVIOUS
<1>3. node' = [node EXCEPT ![g] = x]
  BY <1>1, <1>2 DEF SetSeparator, IsInternal
<1>4. x.type # "leaf"
  BY <1>2, NoLeafMade
<1>5. LeafFrom(node, node')
  <2>1. PICK P : P = {g}
    OBVIOUS
  <2>2. \A p \in Page : IF p \in P THEN node'[p].type # "leaf" ELSE node'[p] = node[p]
    BY <1>1, <1>3, <1>4, <2>1
  <2> QED BY <2>2, AboveFrom
<1>6. run'[TheWriter] = Idle
  BY ReturnsNow DEF SetSeparator
<1> QED BY <1>1, <1>5, <1>6, IdleAims, WrittenUntouched DEF Merging

(* A child changes sides, or a node takes in the one on its right. *)
LEMMA SharingFrom ==
    ASSUME Inv, NEW l, l = run[TheWriter], NEW lo, NEW hi, NEW from, NEW upto,
           Order(node, root, l, lo, hi, from, upto), l.pc = "share",
           ShareChildFromLeft(TheWriter) \/ ShareChildFromRight(TheWriter)
    PROVE  LeafFrom(node, node')
<1>1. SharingAt(l, lo, hi, from, upto)
  BY SharingNow
<1>2. PICK p, r, g, s : p = l.page /\ r = l.right /\ g = l.parent /\ s = Separator(TheWriter)
  OBVIOUS
<1>3. /\ node \in [Page -> Node] /\ p \in Page /\ r \in Page /\ g \in Page
      /\ p # r /\ g # p /\ g # r
  BY <1>1, <1>2 DEF SharingAt
<1>4. \E x, y, z : /\ node' = [node EXCEPT ![p] = x, ![r] = y, ![g] = z]
                   /\ x.type # "leaf" /\ y.type # "leaf" /\ z.type # "leaf"
  <2>1. CASE ShareChildFromLeft(TheWriter)
    <3>1. PICK m, t : m = Last(node[p].children) /\ t = Last(node[p].keys)
      OBVIOUS
    <3>2. node' = [node EXCEPT
            ![p] = Internal(Front(@.keys), Front(@.children), g),
            ![r] = Internal(<< s >> \o @.keys, << m >> \o @.children, g),
            ![g] = Internal(ReplaceAt(@.keys, l.slot, t), @.children, @.parent)]
      BY <1>2, <2>1, <3>1 DEF ShareChildFromLeft, L
    <3>3. PICK x, y, z :
            /\ x = Internal(Front(node[p].keys), Front(node[p].children), g)
            /\ y = Internal(<< s >> \o node[r].keys, << m >> \o node[r].children, g)
            /\ z = Internal(ReplaceAt(node[g].keys, l.slot, t), node[g].children, node[g].parent)
      OBVIOUS
    <3>4. node' = [node EXCEPT ![p] = x, ![r] = y, ![g] = z]
      BY <1>3, <3>2, <3>3
    <3>5. x.type # "leaf" /\ y.type # "leaf" /\ z.type # "leaf"
      BY <3>3, NoLeafMade
    <3> QED BY <3>4, <3>5
  <2>2. CASE ShareChildFromRight(TheWriter)
    <3>1. PICK m, t : m = Head(node[r].children) /\ t = Head(node[r].keys)
      OBVIOUS
    <3>2. node' = [node EXCEPT
            ![p] = Internal(Append(@.keys, s), Append(@.children, m), g),
            ![r] = Internal(Tail(@.keys), Tail(@.children), g),
            ![g] = Internal(ReplaceAt(@.keys, l.slot, t), @.children, @.parent)]
      BY <1>2, <2>2, <3>1 DEF ShareChildFromRight, R
    <3>3. PICK x, y, z :
            /\ x = Internal(Append(node[p].keys, s), Append(node[p].children, m), g)
            /\ y = Internal(Tail(node[r].keys), Tail(node[r].children), g)
            /\ z = Internal(ReplaceAt(node[g].keys, l.slot, t), node[g].children, node[g].parent)
      OBVIOUS
    <3>4. node' = [node EXCEPT ![p] = x, ![r] = y, ![g] = z]
      BY <1>3, <3>2, <3>3
    <3>5. x.type # "leaf" /\ y.type # "leaf" /\ z.type # "leaf"
      BY <3>3, NoLeafMade
    <3> QED BY <3>4, <3>5
  <2> QED BY <2>1, <2>2
<1>5. PICK x, y, z : /\ node' = [node EXCEPT ![p] = x, ![r] = y, ![g] = z]
                     /\ x.type # "leaf" /\ y.type # "leaf" /\ z.type # "leaf"
  BY <1>4
<1>6. PICK P : P = {p, r, g}
  OBVIOUS
<1>7. \A q \in Page : IF q \in P THEN node'[q].type # "leaf" ELSE node'[q] = node[q]
  BY <1>3, <1>5, <1>6
<1> QED BY ONLY <1>7, AboveFrom

LEMMA ShareChildrenUntouched ==
    ASSUME OneWriter, Inv, NEW l, l = run[TheWriter], NEW lo, NEW hi, NEW from, NEW upto,
           Order(node, root, l, lo, hi, from, upto), ShareChildren(TheWriter)
    PROVE  Untouched(l, run'[TheWriter])
<1>1. l.pc = "share" /\ l \in Locals
  <2>1. l.pc = "share"
    BY DEF ShareChildren, At
  <2> QED BY <2>1, AtWork
<1>2. LeafFrom(node, node')
  BY <1>1, SharingFrom DEF ShareChildren
<1>3. \E a : Continue(TheWriter, [l EXCEPT !.pc = "adopt", !.then = "return", !.adopt = a])
  BY DEF ShareChildren, ShareChildFromLeft, ShareChildFromRight
<1>4. PICK a : Continue(TheWriter, [l EXCEPT !.pc = "adopt", !.then = "return", !.adopt = a])
  BY <1>3
<1>5. PICK l2 : l2 = [l EXCEPT !.pc = "adopt", !.then = "return", !.adopt = a]
  OBVIOUS
<1>6. run'[TheWriter] = l2 /\ l2.pc = "adopt" /\ l2.then = "return"
  BY <1>1, <1>4, <1>5, LocalsNow DEF Locals
<1> QED BY <1>1, <1>2, <1>6, WrittenUntouched DEF Aims, Merging

LEMMA MergeInternalsUntouched ==
    ASSUME OneWriter, Inv, NEW l, l = run[TheWriter], MergeInternals(TheWriter)
    PROVE  Untouched(l, run'[TheWriter])
<1>1. l.pc = "share" /\ l \in Locals /\ node \in [Page -> Node]
  <2>1. l.pc = "share"
    BY DEF MergeInternals, At
  <2> QED BY <2>1, AtWork
<1>2. PICK p, rk, rc, s, a :
        /\ p = l.page /\ rk = node[l.right].keys /\ rc = node[l.right].children
        /\ s = Separator(TheWriter) /\ a = Orphans(rc, p)
  OBVIOUS
<1>3. PICK x : x = Internal(node[p].keys \o << s >> \o rk, node[p].children \o rc, l.parent)
  OBVIOUS
<1>4. p \in Page
  BY <1>2 DEF MergeInternals, IsInternal
<1>5. /\ node' = [node EXCEPT ![p] = x]
      /\ Continue(TheWriter, [l EXCEPT !.pc = "adopt", !.then = "free", !.adopt = a])
  BY <1>1, <1>2, <1>3, <1>4 DEF MergeInternals, R
<1>6. x.type # "leaf"
  BY <1>3, NoLeafMade
<1>7. LeafFrom(node, node')
  <2>1. PICK P : P = {p}
    OBVIOUS
  <2>2. \A q \in Page : IF q \in P THEN node'[q].type # "leaf" ELSE node'[q] = node[q]
    BY <1>1, <1>5, <1>6, <2>1
  <2> QED BY <2>2, AboveFrom
<1>8. PICK l2 : l2 = [l EXCEPT !.pc = "adopt", !.then = "free", !.adopt = a]
  OBVIOUS
<1>9. run'[TheWriter] = l2 /\ l2.pc = "adopt" /\ l2.then = "free" /\ l2.op = l.op
  BY <1>1, <1>5, <1>8, LocalsNow DEF Locals
<1> QED BY <1>1, <1>7, <1>9, WrittenUntouched DEF Aims, Merging

LEMMA FreeingUntouched ==
    ASSUME OneWriter, Inv, NEW l, l = run[TheWriter], run'[TheWriter].pc # "failed",
           FreeRight(TheWriter) \/ FreeRoot(TheWriter)
    PROVE  Untouched(l, run'[TheWriter])
<1>1. l.pc \in {"free", "collapse"} /\ l \in Locals /\ node \in [Page -> Node]
  <2>1. l.pc \in {"free", "collapse"}
    BY DEF FreeRight, FreeRoot, At
  <2> QED BY <2>1, AtWork
<1>2. PICK p : p = (IF l.pc = "free" THEN l.right ELSE l.parent) /\ FreePage(TheWriter, p)
  BY DEF FreeRight, FreeRoot, At
<1>3. p \notin held
  <2>1. PICK l2 : l2 = [Idle EXCEPT !.pc = "failed"]
    OBVIOUS
  <2>2. l2.pc = "failed"
    BY <2>1 DEF Idle
  <2> QED BY <1>2, <2>1, <2>2, LocalsNow DEF FreePage
<1>4. /\ node' = [node EXCEPT ![p] = Freed]
      /\ Continue(TheWriter, [l EXCEPT !.pc = IF l.pc = "free" THEN "remove" ELSE "root"])
  BY <1>1, <1>2, <1>3 DEF FreePage, Locals
<1>5. Freed.type # "leaf"
  BY DEF Freed
<1>6. LeafFrom(node, node') /\ (l.pc = "free" /\ l.right \in Page => node'[l.right].type # "leaf")
  <2>1. PICK P : P = {p}
    OBVIOUS
  <2>2. \A q \in Page : IF q \in P THEN node'[q].type # "leaf" ELSE node'[q] = node[q]
    BY <1>1, <1>4, <1>5, <2>1
  <2>3. LeafFrom(node, node')
    BY ONLY <2>2, AboveFrom
  <2> QED BY <1>2, <2>1, <2>2, <2>3
<1>7. PICK c : c = IF l.pc = "free" THEN "remove" ELSE "root"
  OBVIOUS
<1>8. PICK l2 : l2 = [l EXCEPT !.pc = c]
  OBVIOUS
<1>9. run'[TheWriter] = l2 /\ l2.pc = c /\ l2.op = l.op /\ l2.right = l.right
  BY <1>1, <1>4, <1>7, <1>8, LocalsNow DEF Locals
<1>10. Merging(l) => Merging(l2)
  BY <1>1, <1>7, <1>9 DEF Merging
<1>11. Aims(l) => Aims(l2)
  BY <1>1, <1>7, <1>9 DEF Aims
<1> QED BY <1>1, <1>6, <1>7, <1>9, <1>10, <1>11 DEF Untouched

LEMMA RemoveEntryUntouched ==
    ASSUME OneWriter, Inv, NEW l, l = run[TheWriter], RemoveEntry(TheWriter)
    PROVE  Untouched(l, run'[TheWriter])
<1>1. l.pc = "remove" /\ l \in Locals /\ node \in [Page -> Node] /\ l.parent \in Page
      /\ node[l.parent].type = "internal" /\ node[l.right].type = "freed"
  <2>1. l.pc = "remove" /\ l.parent \in Page /\ node[l.parent].type = "internal"
    BY DEF RemoveEntry, At, IsInternal
  <2>2. \E h : Local(node, l, h)
    BY <2>1, AtWork
  <2> QED BY <2>1, <2>2, AtWork DEF Local
<1>2. PICK k, c : /\ k = RemoveAt(node[l.parent].keys, l.slot)
                  /\ c = RemoveAt(node[l.parent].children, l.slot + 1)
  OBVIOUS
<1>3. LeafFrom(node, node') /\ (l.right \in Page => node'[l.right].type # "leaf")
  <2>1. CASE node' = node
    BY <1>1, <2>1, SameIsFrom
  <2>2. CASE node' # node
    <3>1. node' = [node EXCEPT ![l.parent].keys = k, ![l.parent].children = c]
      BY <1>2, <2>2 DEF RemoveEntry
    <3> QED BY <1>1, <3>1, RekeyFrom
  <2> QED BY <2>1, <2>2
<1>4. PICK a, b, d, e :
        /\ a = c[1] /\ b = << << c[1], 0 >> >>
        /\ d = [l EXCEPT !.pc = "adopt", !.then = "collapse", !.right = a, !.adopt = b]
        /\ e = [l EXCEPT !.pc = "rebalance", !.page = l.parent]
  OBVIOUS
<1>5. PICK f : f = [l EXCEPT !.pc = "return"]
  OBVIOUS
<1>6. Continue(TheWriter, d) \/ Continue(TheWriter, e) \/ Continue(TheWriter, f)
  BY <1>2, <1>4, <1>5 DEF RemoveEntry
<1>7. /\ d.pc = "adopt" /\ d.then = "collapse" /\ e.pc = "rebalance" /\ e.op = l.op
      /\ f.pc = "return"
  BY <1>1, <1>4, <1>5 DEF Locals
<1>8. Aims(l) => Aims(d) /\ Aims(e) /\ Aims(f)
  BY <1>1, <1>7 DEF Aims
<1>9. run'[TheWriter] \in {d, e, f}
  BY <1>6, LocalsNow
<1> QED BY <1>1, <1>3, <1>7, <1>8, <1>9 DEF Untouched

LEMMA UntouchedBacked ==
    ASSUME NEW l, l = run[TheWriter], NEW l2, l2 = run'[TheWriter], Untouched(l, l2),
           Backed(node, l), InOrder(node, root, l), InOrder(node', root', l2)
    PROVE  Backed(node', l2)
<1>1. PICK n2 : n2 = node'
  OBVIOUS
<1>2. PICK rt2 : rt2 = root'
  OBVIOUS
<1>3. LeafFrom(node, n2) /\ l.pc # "next" /\ l2.pc # "next"
  BY <1>1 DEF Untouched
<1>4. PICK lo, hi, from, upto : Order(node, root, l, lo, hi, from, upto)
  BY DEF InOrder
<1>5. Collapsing(l) => l.parent \in Page /\ node[l.parent].type = "internal"
  BY <1>4, OrderParts DEF Emptied
<1>6. Leaves(n2, Live(n2, l2)) \subseteq Leaves(node, Live(node, l))
  <2>1. SUFFICES ASSUME NEW p \in Page, n2[p].type = "leaf",
                        ~ (Merging(l2) /\ p = l2.right), ~ (Collapsing(l2) /\ p = l2.parent)
                 PROVE  p \in Leaves(node, Live(node, l))
    BY DEF Leaves, Live
  <2>2. node[p].type = "leaf"
    BY <1>3, <2>1 DEF LeafFrom
  <2>3. ~ (Collapsing(l) /\ p = l.parent)
    BY <1>5, <2>2
  <2>4. ~ (Merging(l) /\ p = l.right)
    BY <1>1, <2>1 DEF Untouched
  <2> QED BY <2>2, <2>3, <2>4 DEF Leaves, Live
<1>7. InOrder(n2, rt2, l2)
  BY <1>1, <1>2
<1>8. Backed(n2, l2)
  BY <1>3, <1>6, <1>7, BackedOn
<1> QED BY <1>1, <1>8

(* set_prev_leaf, over the row of leaves. *)
LEMMA RowTurned ==
    ASSUME NEW n, NEW S, NEW lo, NEW hi, Row(n, S, lo, hi), NEW q \in S, NEW x,
           n[q].next = x, n[FirstLeaf].prev = 0,
           \A p \in S : n[p].next # 0 /\ n[p].next # x => n[n[p].next].prev = p,
           NEW n2, \A p \in S : n2[p].next = n[p].next,
           \A p \in S : p # x => n2[p].prev = n[p].prev,
           x # 0 => n2[x].prev = q
    PROVE  PointsBack(n2, S)
<1>1. FirstLeaf \in S
  BY DEF Row
<1>2. x # 0 => /\ x \in S /\ hi[q] = lo[x] /\ x # FirstLeaf
               /\ \A p \in S : n[p].next = x => p = q
  BY NextInRow, OneBefore
<1>3. n2[FirstLeaf].prev = 0
  BY <1>1, <1>2, NextInRow DEF FirstLeaf
<1>4. ASSUME NEW p \in S, n2[p].next # 0
      PROVE  n2[n2[p].next].prev = p
  <2>1. n[p].next \in S /\ n2[p].next = n[p].next
    BY <1>4, NextInRow
  <2>2. CASE n[p].next = x
    BY <1>2, <1>4, <2>1, <2>2
  <2>3. CASE n[p].next # x
    BY <1>4, <2>1, <2>3
  <2> QED BY <2>2, <2>3
<1> QED BY <1>3, <1>4 DEF PointsBack

LEMMA FixNextBacked ==
    ASSUME OneWriter, Inv, NEW l, l = run[TheWriter], NEW l2, l2 = run'[TheWriter],
           Backed(node, l), InOrder(node, root, l), FixNext(TheWriter)
    PROVE  Backed(node', l2)
<1>1. l.pc = "next" /\ l \in Locals /\ node \in [Page -> Node] /\ l.then \in {"promote", "free"}
  <2>1. l.pc = "next"
    BY DEF FixNext, At
  <2> QED BY <2>1, AtWork DEF Asked
<1>2. PICK y : y = [l EXCEPT !.next = 0, !.pc = l.then]
  OBVIOUS
<1>3. /\ l2 = y /\ l2.pc = l.then /\ l2.then = l.then /\ l2.right = l.right
      /\ l2.parent = l.parent
  BY <1>1, <1>2, LocalsNow DEF FixNext, Locals
<1>4. (Merging(l2) <=> Merging(l)) /\ ~ Collapsing(l2) /\ ~ Collapsing(l) /\ l2.pc # "next"
  BY <1>1, <1>3 DEF Merging, Collapsing
<1>5. PICK n2, S, x, q : /\ n2 = node' /\ S = Leaves(node, Live(node, l)) /\ x = l.next
                         /\ q = Newer(l)
  OBVIOUS
<1>6. PICK lo, hi : Row(node, S, lo, hi)
  BY <1>5, RowNow
<1>7. S \subseteq Page
  BY <1>6, RowParts
<1>8. /\ \A p \in Page : n2[p].type = node[p].type
      /\ \A p \in S : n2[p].next = node[p].next
      /\ \A p \in S : p # x => n2[p].prev = node[p].prev
      /\ x # 0 => n2[x].prev = q
  <2>1. CASE x = 0
    BY <1>5, <2>1 DEF FixNext
  <2>2. CASE x # 0
    <3>1. x \in Page /\ node[x].type = "leaf" /\ n2 = [node EXCEPT ![x].prev = q]
      BY <1>5, <2>2 DEF FixNext, IsLeaf, Newer
    <3>2. node[x] \in LeafNodes
      BY <1>1, <3>1, LeafParts
    <3>3. PICK z : z = [node[x] EXCEPT !.prev = q]
      OBVIOUS
    <3>4. n2[x] = z /\ \A p \in Page : p # x => n2[p] = node[p]
      BY <1>1, <3>1, <3>3
    <3>5. z.type = node[x].type /\ z.next = node[x].next /\ z.prev = q
      BY <3>2, <3>3 DEF LeafNodes
    <3> QED BY <1>7, <3>1, <3>4, <3>5
  <2> QED BY <2>1, <2>2
<1>9. Leaves(n2, Live(n2, l2)) = S
  <2>1. Live(n2, l2) = Live(node, l)
    BY <1>3, <1>4, <1>8 DEF Live
  <2>2. Live(node, l) \subseteq Page
    BY DEF Live
  <2> QED BY <1>5, <1>8, <2>1, <2>2 DEF Leaves
<1>10. /\ q \in S /\ node[q].next = x /\ node[FirstLeaf].prev = 0
       /\ \A p \in S : node[p].next # 0 /\ node[p].next # x => node[node[p].next].prev = p
  BY <1>1, <1>5 DEF Backed
<1>11. PointsBack(n2, S)
  BY <1>6, <1>8, <1>10, RowTurned
<1>12. Backed(n2, l2)
  BY <1>4, <1>9, <1>11, AtRestBacked
<1> QED BY <1>5, <1>12

(* What Leaf builds, if it fits. *)
LEMMA LeafMade ==
    ASSUME NEW e, NEW g, NEW a, NEW b, NEW x, x = Leaf(e, g, a, b), x.type # "overrun"
    PROVE  x.type = "leaf" /\ x.prev = a /\ x.next = b
BY DEF Leaf, Overrun

LEMMA BackedIs ==
    ASSUME NEW n, NEW l, NEW S, S = Leaves(n, Live(n, l)), n[FirstLeaf].prev = 0,
           \A p \in S : n[p].next # 0 /\ n[p].next # l.next => n[n[p].next].prev = p,
           l.pc = "next", Newer(l) \in S, n[Newer(l)].next = l.next
    PROVE  Backed(n, l)
BY DEF Backed

LEMMA SplitLeafBacked ==
    ASSUME OneWriter, Inv, NeverOverrun', NEW l, l = run[TheWriter], Tells(l),
           NEW l2, l2 = run'[TheWriter],
           Backed(node, l), InOrder(node, root, l), SplitLeaf(TheWriter)
    PROVE  Backed(node', l2)
<1>1. l.pc = "insert" /\ IsLeaf(l.page) /\ FreePages # {}
  BY DEF SplitLeaf, At
<1>2. l \in Locals /\ l.op = "insert"
  BY <1>1, AtWork DEF Tells
<1>3. PICK p, live, S, q, n2 : p = l.page /\ live = Live(node, l) /\ S = Leaves(node, live)
                               /\ q = NewPage /\ n2 = node'
  OBVIOUS
<1>4. PICK lo, hi, from, upto : Order(node, root, l, lo, hi, from, upto)
  BY DEF InOrder
<1>5. /\ p \in S /\ p \in Page /\ Row(node, S, lo, hi) /\ node \in [Page -> Node]
      /\ live = {x \in Page : node[x].type # "freed"}
  BY <1>1, <1>3, <1>4, LeafAt
<1>6. q \in Page /\ node[q].type = "freed" /\ q \notin S /\ q # p
  <2>1. q \in Page /\ node[q].type = "freed"
    BY <1>1, <1>3, NewPageIsFree
  <2>2. q \notin S /\ q # p
    BY <1>3, <1>5, <2>1 DEF Leaves
  <2> QED BY <2>1, <2>2
<1>7. PICK e, f, g, d, old, new :
        /\ new = Leaf(f, g, p, node[p].next) /\ old = Leaf(e, g, node[p].prev, q)
        /\ n2 = [node EXCEPT ![q] = new, ![p] = old]
        /\ Continue(TheWriter, [l EXCEPT !.done = TRUE, !.right = q, !.sep = d,
                                  !.next = node[p].next, !.pc = "next", !.then = "promote"])
  BY <1>3 DEF SplitLeaf
<1>8. n2[q] = new /\ n2[p] = old /\ \A z \in Page : z # p /\ z # q => n2[z] = node[z]
  BY <1>5, <1>6, <1>7
<1>9. /\ new.type = "leaf" /\ new.prev = p /\ new.next = node[p].next
      /\ old.type = "leaf" /\ old.prev = node[p].prev /\ old.next = q
  <2>1. new.type # "overrun" /\ old.type # "overrun"
    BY <1>3, <1>5, <1>6, <1>8 DEF NeverOverrun
  <2> QED BY <1>7, <2>1, LeafMade
<1>10. PICK y : y = [l EXCEPT !.done = TRUE, !.right = q, !.sep = d,
                       !.next = node[p].next, !.pc = "next", !.then = "promote"]
  OBVIOUS
<1>11. /\ l2 = y /\ l2.pc = "next" /\ l2.then = "promote" /\ l2.right = q /\ l2.op = "insert"
       /\ l2.next = node[p].next
  <2>1. l2 = y
    <3>1. Continue(TheWriter, y)
      BY <1>7, <1>10
    <3> QED BY <3>1, LocalsNow
  <2>2. /\ y.pc = "next" /\ y.then = "promote" /\ y.right = q /\ y.op = "insert"
        /\ y.next = node[p].next
    BY <1>2, <1>10 DEF Locals
  <2> QED BY <2>1, <2>2
<1>12. Newer(l2) = q
  BY <1>11 DEF Newer
<1>13. Leaves(n2, Live(n2, l2)) = S \cup {q}
  <2>1. Live(n2, l2) = {z \in Page : n2[z].type # "freed"}
    BY <1>11 DEF Live, Merging, Collapsing
  <2>2. \A z : z \in Leaves(n2, Live(n2, l2)) <=> z \in Page /\ n2[z].type = "leaf"
    BY <2>1 DEF Leaves
  <2>3. \A z : z \in S <=> z \in Page /\ node[z].type = "leaf"
    BY <1>3, <1>5 DEF Leaves
  <2> QED BY <1>5, <1>6, <1>8, <1>9, <2>2, <2>3
<1>14. /\ \A z \in S : z \in Page /\ z # q
       /\ \A z \in S : n2[z].prev = node[z].prev
       /\ \A z \in S : z # p => n2[z].next = node[z].next
  <2>1. S \subseteq Page
    BY <1>5, RowParts
  <2> QED BY <1>6, <1>8, <1>9, <2>1
<1>15. FirstLeaf \in S
  BY <1>5 DEF Row
<1>16. /\ node[FirstLeaf].prev = 0
       /\ \A z \in S : node[z].next # 0 => node[node[z].next].prev = z
  BY <1>1, <1>3, AtRestBacked DEF PointsBack
<1>17. ASSUME NEW z \in S \cup {q}, n2[z].next # 0, n2[z].next # l2.next
       PROVE  n2[n2[z].next].prev = z
  <2>1. CASE z = q
    BY <1>8, <1>9, <1>11, <1>17, <2>1
  <2>2. CASE z = p
    BY <1>8, <1>9, <2>2
  <2>3. CASE z \in S /\ z # p
    <3>1. n2[z].next = node[z].next /\ node[z].next # 0
      BY <1>14, <1>17, <2>3
    <3>2. node[z].next \in S
      BY <1>5, <2>3, <3>1, NextInRow
    <3> QED BY <1>14, <1>16, <2>3, <3>1, <3>2
  <2> QED BY <1>17, <2>1, <2>2, <2>3
<1>18. n2[FirstLeaf].prev = 0 /\ q \in S \cup {q} /\ n2[q].next = l2.next
  BY <1>8, <1>9, <1>11, <1>14, <1>15, <1>16
<1>19. Backed(n2, l2)
  <2>1. PICK S2 : S2 = S \cup {q}
    OBVIOUS
  <2>2. \A z \in S2 : n2[z].next # 0 /\ n2[z].next # l2.next => n2[n2[z].next].prev = z
    BY <1>17, <2>1
  <2> QED BY <1>11, <1>12, <1>13, <1>18, <2>1, <2>2, BackedIs
<1> QED BY <1>3, <1>19

LEMMA MergeLeavesBacked ==
    ASSUME OneWriter, Inv, NeverOverrun', NEW l, l = run[TheWriter], Aims(l),
           NEW l2, l2 = run'[TheWriter],
           Backed(node, l), InOrder(node, root, l), MergeLeaves(TheWriter)
    PROVE  Backed(node', l2)
<1>1. l.pc = "share" /\ IsLeaf(l.page) /\ IsLeaf(l.right) /\ l.op = "delete"
  BY DEF MergeLeaves, At, Aims
<1>2. PICK p, r, live, S, n2 : p = l.page /\ r = l.right /\ live = Live(node, l)
                               /\ S = Leaves(node, live) /\ n2 = node'
  OBVIOUS
<1>3. PICK lo, hi, from, upto : Order(node, root, l, lo, hi, from, upto)
  BY DEF InOrder
<1>4. SharingAt(l, lo, hi, from, upto)
  BY <1>1, <1>3, SharingNow
<1>5. /\ l \in Locals /\ node \in [Page -> Node] /\ live = {z \in Page : node[z].type # "freed"}
      /\ p # r /\ p \in Page /\ r \in Page /\ hi[p] = lo[r]
  BY <1>2, <1>4 DEF SharingAt
<1>6. p \in S /\ r \in S /\ Row(node, S, lo, hi) /\ S \subseteq Page
  BY <1>1, <1>2, <1>3, LeavesBeside
<1>7. \A z \in S : node[z].next = r => z = p
  BY <1>5, <1>6, OneBefore
<1>8. r # FirstLeaf
  BY <1>5, <1>6, OneBefore
<1>9. PICK e, g, old :
        /\ old = Leaf(e, g, node[p].prev, node[r].next)
        /\ n2 = [node EXCEPT ![p] = old]
        /\ Continue(TheWriter, [l EXCEPT !.pc = "next", !.then = "free", !.next = node[r].next])
  <2>1. PICK e, g : e = Merged(TheWriter) /\ g = l.parent
    OBVIOUS
  <2>2. n2 = [node EXCEPT ![p] = Leaf(e, g, node[p].prev, node[r].next)]
    BY <1>2, <1>5, <2>1 DEF MergeLeaves, R
  <2>3. Continue(TheWriter, [l EXCEPT !.pc = "next", !.then = "free", !.next = node[r].next])
    BY <1>2 DEF MergeLeaves, R
  <2> QED BY <2>2, <2>3
<1>10. n2[p] = old /\ \A z \in Page : z # p => n2[z] = node[z]
  BY <1>5, <1>9
<1>11. old.type = "leaf" /\ old.prev = node[p].prev /\ old.next = node[r].next
  <2>1. old.type # "overrun"
    BY <1>2, <1>5, <1>10 DEF NeverOverrun
  <2> QED BY <1>9, <2>1, LeafMade
<1>12. PICK y : y = [l EXCEPT !.pc = "next", !.then = "free", !.next = node[r].next]
  OBVIOUS
<1>13. /\ l2 = y /\ l2.pc = "next" /\ l2.then = "free" /\ l2.right = r /\ l2.op = "delete"
       /\ l2.page = p /\ l2.next = node[r].next
  <2>1. l2 = y
    <3>1. Continue(TheWriter, y)
      BY <1>9, <1>12
    <3> QED BY <3>1, LocalsNow
  <2>2. /\ y.pc = "next" /\ y.then = "free" /\ y.next = node[r].next
        /\ y.right = l.right /\ y.op = l.op /\ y.page = l.page
    BY <1>5, <1>12 DEF Locals
  <2> QED BY <1>1, <1>2, <2>1, <2>2
<1>14. Newer(l2) = p
  BY <1>13 DEF Newer
<1>15. Leaves(n2, Live(n2, l2)) = S \ {r}
  <2>1. Live(n2, l2) = {z \in Page : n2[z].type # "freed" /\ z # r}
    BY <1>13 DEF Live, Merging, Collapsing
  <2>2. \A z : z \in Leaves(n2, Live(n2, l2)) <=> z \in Page /\ n2[z].type = "leaf" /\ z # r
    BY <2>1 DEF Leaves
  <2>3. \A z : z \in S <=> z \in Page /\ node[z].type = "leaf"
    BY <1>2, <1>5 DEF Leaves
  <2> QED BY <1>5, <1>6, <1>10, <1>11, <2>2, <2>3
<1>16. /\ \A z \in S : n2[z].prev = node[z].prev
       /\ \A z \in S : z # p => n2[z].next = node[z].next
  BY <1>6, <1>10, <1>11
<1>17. FirstLeaf \in S
  BY <1>6 DEF Row
<1>18. /\ node[FirstLeaf].prev = 0
       /\ \A z \in S : node[z].next # 0 => node[node[z].next].prev = z
  BY <1>1, <1>2, AtRestBacked DEF PointsBack
<1>19. ASSUME NEW z \in S \ {r}, n2[z].next # 0, n2[z].next # l2.next
       PROVE  n2[n2[z].next].prev = z
  <2>1. z # p
    BY <1>10, <1>11, <1>13, <1>19
  <2>2. n2[z].next = node[z].next /\ node[z].next # 0
    BY <1>16, <1>19, <2>1
  <2>3. node[z].next \in S
    BY <1>6, <2>2, NextInRow
  <2> QED BY <1>16, <1>18, <2>2, <2>3
<1>20. n2[FirstLeaf].prev = 0 /\ p \in S \ {r} /\ n2[p].next = l2.next
  BY <1>5, <1>6, <1>10, <1>11, <1>13, <1>16, <1>17, <1>18
<1>21. Backed(n2, l2)
  <2>1. PICK S2 : S2 = S \ {r}
    OBVIOUS
  <2>2. \A z \in S2 : n2[z].next # 0 /\ n2[z].next # l2.next => n2[n2[z].next].prev = z
    BY <1>19, <2>1
  <2> QED BY <1>13, <1>14, <1>15, <1>20, <2>1, <2>2, BackedIs
<1> QED BY <1>2, <1>21

(* Sharing leaves the neighbours as they are. *)
LEMMA ShareLeavesUntouched ==
    ASSUME OneWriter, Inv, NeverOverrun', NEW l, l = run[TheWriter],
           NEW l2, l2 = run'[TheWriter],
           Backed(node, l), InOrder(node, root, l), ShareLeaves(TheWriter)
    PROVE  Untouched(l, l2)
<1>1. l.pc = "share" /\ IsLeaf(l.page) /\ IsLeaf(l.right)
  BY DEF ShareLeaves, At
<1>2. PICK p, r, live, S, n2 : p = l.page /\ r = l.right /\ live = Live(node, l)
                               /\ S = Leaves(node, live) /\ n2 = node'
  OBVIOUS
<1>3. PICK lo, hi, from, upto : Order(node, root, l, lo, hi, from, upto)
  BY DEF InOrder
<1>4. SharingAt(l, lo, hi, from, upto)
  BY <1>1, <1>3, SharingNow
<1>5. /\ l \in Locals /\ node \in [Page -> Node] /\ p # r /\ p \in Page /\ r \in Page
      /\ hi[p] = lo[r]
  BY <1>2, <1>4 DEF SharingAt
<1>6. p \in S /\ r \in S /\ Row(node, S, lo, hi)
  BY <1>1, <1>2, <1>3, LeavesBeside
<1>7. node[p].next = r
  BY <1>5, <1>6, OneBefore
<1>8. r # 0
  BY <1>5 DEF Page
<1>9. node[r].prev = p
  <2>1. PointsBack(node, S)
    BY <1>1, <1>2, AtRestBacked
  <2> QED BY <1>6, <1>7, <1>8, <2>1 DEF PointsBack
<1>10. PICK x, y, g, old, new, d :
         /\ old = Leaf(x, g, node[p].prev, r) /\ new = Leaf(y, g, p, node[r].next)
         /\ n2 = [node EXCEPT ![p] = old, ![r] = new]
         /\ Continue(TheWriter, [l EXCEPT !.pc = "separator", !.sep = d])
  <2>1. PICK x, y, g, d : x = SharedLeft(TheWriter) /\ y = SharedRight(TheWriter) /\ g = l.parent
                          /\ d = NewSeparator(TheWriter)
    OBVIOUS
  <2>2. n2 = [node EXCEPT ![p] = Leaf(x, g, @.prev, r), ![r] = Leaf(y, g, p, @.next)]
    BY <1>2, <2>1 DEF ShareLeaves
  <2>3. n2 = [node EXCEPT ![p] = Leaf(x, g, node[p].prev, r), ![r] = Leaf(y, g, p, node[r].next)]
    BY <1>5, <2>2
  <2>4. Continue(TheWriter, [l EXCEPT !.pc = "separator", !.sep = d])
    BY <2>1 DEF ShareLeaves
  <2> QED BY <2>3, <2>4
<1>11. n2[p] = old /\ n2[r] = new /\ \A z \in Page : z # p /\ z # r => n2[z] = node[z]
  BY <1>5, <1>10
<1>12. /\ old.prev = node[p].prev /\ old.next = r /\ new.prev = p /\ new.next = node[r].next
  <2>1. old.type # "overrun" /\ new.type # "overrun"
    BY <1>2, <1>5, <1>11 DEF NeverOverrun
  <2> QED BY <1>10, <2>1, LeafMade
<1>13. LeafFrom(node, n2)
  BY <1>1, <1>2, <1>7, <1>9, <1>11, <1>12 DEF LeafFrom, IsLeaf
<1>14. PICK z : z = [l EXCEPT !.pc = "separator", !.sep = d]
  OBVIOUS
<1>15. l2 = z /\ l2.pc = "separator"
  BY <1>5, <1>10, <1>14, LocalsNow DEF Locals
<1> QED BY <1>1, <1>2, <1>13, <1>15, WrittenUntouched DEF Aims, Merging

LEMMA FixNextAims ==
    ASSUME OneWriter, Inv, NEW l, l = run[TheWriter], NEW l2, l2 = run'[TheWriter],
           FixNext(TheWriter), Aims(l)
    PROVE  Aims(l2)
<1>1. l.pc = "next" /\ l \in Locals /\ l.then \in {"promote", "free"}
  <2>1. l.pc = "next"
    BY DEF FixNext, At
  <2> QED BY <2>1, AtWork DEF Asked
<1>2. PICK y : y = [l EXCEPT !.next = 0, !.pc = l.then]
  OBVIOUS
<1>3. l2 = y /\ l2.pc = l.then /\ l2.op = l.op
  BY <1>1, <1>2, LocalsNow DEF FixNext, Locals
<1> QED BY <1>1, <1>3 DEF Aims

LEMMA SplitLeafAims ==
    ASSUME OneWriter, Inv, NEW l, l = run[TheWriter], NEW l2, l2 = run'[TheWriter],
           SplitLeaf(TheWriter), Tells(l)
    PROVE  Aims(l2)
<1>1. l \in Locals /\ l.op = "insert"
  <2>1. l.pc = "insert"
    BY DEF SplitLeaf, At
  <2> QED BY <2>1, AtWork DEF Tells
<1>2. PICK q, d, x : Continue(TheWriter, [l EXCEPT !.done = TRUE, !.right = q, !.sep = d,
                                  !.next = x, !.pc = "next", !.then = "promote"])
  BY DEF SplitLeaf
<1>3. PICK y : y = [l EXCEPT !.done = TRUE, !.right = q, !.sep = d,
                      !.next = x, !.pc = "next", !.then = "promote"]
  OBVIOUS
<1>4. l2 = y /\ l2.pc = "next" /\ l2.then = "promote" /\ l2.op = "insert"
  <2>1. l2 = y
    <3>1. Continue(TheWriter, y)
      BY <1>2, <1>3
    <3> QED BY <3>1, LocalsNow
  <2>2. y.pc = "next" /\ y.then = "promote" /\ y.op = "insert"
    BY <1>1, <1>3 DEF Locals
  <2> QED BY <2>1, <2>2
<1> QED BY <1>4 DEF Aims

LEMMA MergeLeavesAims ==
    ASSUME OneWriter, Inv, NEW l, l = run[TheWriter], NEW l2, l2 = run'[TheWriter],
           MergeLeaves(TheWriter), Aims(l)
    PROVE  Aims(l2)
<1>1. l \in Locals /\ l.op = "delete"
  <2>1. l.pc = "share"
    BY DEF MergeLeaves, At
  <2> QED BY <2>1, AtWork DEF Aims
<1>2. PICK x : Continue(TheWriter, [l EXCEPT !.pc = "next", !.then = "free", !.next = x])
  BY DEF MergeLeaves
<1>3. PICK y : y = [l EXCEPT !.pc = "next", !.then = "free", !.next = x]
  OBVIOUS
<1>4. l2 = y /\ l2.pc = "next" /\ l2.then = "free" /\ l2.op = "delete"
  BY <1>1, <1>2, <1>3, LocalsNow DEF Locals
<1> QED BY <1>4 DEF Aims

LEMMA StepBacked ==
    ASSUME OneWriter, Inv, NeverOverrun', Ordered, Ordered', Told, Aimed, BackedNow,
           Step(TheWriter)
    PROVE  Aimed' /\ BackedNow'
<1>1. PICK l, l2 : l = run[TheWriter] /\ l2 = run'[TheWriter]
  OBVIOUS
<1>2. l.pc # "failed"
  BY <1>1, FailedStops
<1>3. Tells(l) /\ Aims(l) /\ Backed(node, l) /\ InOrder(node, root, l)
  BY <1>1, <1>2 DEF Told, Aimed, BackedNow, Ordered
<1>4. SUFFICES ASSUME l2.pc # "failed" PROVE Aims(l2) /\ Backed(node', l2)
  <2>1. l2.pc = "failed" => Aims(l2)
    BY DEF Aims
  <2> QED BY <1>1, <2>1 DEF Aimed, BackedNow
<1>5. InOrder(node', root', l2)
  BY <1>1, <1>4 DEF Ordered
<1>6. CASE Untouched(l, l2)
  BY <1>1, <1>3, <1>5, <1>6, UntouchedBacked DEF Untouched
<1>7. CASE FixNext(TheWriter)
  BY <1>1, <1>3, <1>7, FixNextBacked, FixNextAims
<1>8. CASE SplitLeaf(TheWriter)
  BY <1>1, <1>3, <1>8, SplitLeafBacked, SplitLeafAims
<1>9. CASE MergeLeaves(TheWriter)
  BY <1>1, <1>3, <1>9, MergeLeavesBacked, MergeLeavesAims
<1>10. PICK lo, hi, from, upto : Order(node, root, l, lo, hi, from, upto)
  BY <1>3 DEF InOrder
<1>11. CASE Fail(TheWriter)
  <2>1. PICK y : y = [Idle EXCEPT !.pc = "failed"]
    OBVIOUS
  <2>2. l2 = y /\ y.pc = "failed"
    BY <1>1, <1>11, <2>1, LocalsNow DEF Fail, Idle
  <2> QED BY <1>4, <2>2
<1>12. CASE \E k \in Key : \/ \E v \in Value : Call(TheWriter, "insert", k, v)
                           \/ Call(TheWriter, "delete", k, NoValue)
  <2>1. PICK op, k, v : Call(TheWriter, op, k, v)
    BY <1>12
  <2>2. Untouched(l, l2)
    BY <1>1, <2>1, CallUntouched
  <2> QED BY <1>6, <2>2
<1>13. CASE Find(TheWriter) \/ ToParent(TheWriter) \/ Rebalance(TheWriter) \/ Siblings(TheWriter)
  BY <1>1, <1>6, <1>13, LookingUntouched
<1>14. CASE Adopted(TheWriter) \/ StoreRoot(TheWriter) \/ Done(TheWriter)
  BY <1>1, <1>6, <1>14, AdoptedUntouched
<1>15. CASE Adopt(TheWriter)
  BY <1>1, <1>6, <1>15, AdoptUntouched
<1>16. CASE InsertInPlace(TheWriter)
  BY <1>1, <1>6, <1>16, InsertInPlaceUntouched
<1>17. CASE RemoveKey(TheWriter)
  BY <1>1, <1>3, <1>6, <1>17, RemoveKeyUntouched
<1>18. CASE InsertEntry(TheWriter)
  BY <1>1, <1>6, <1>18, InsertEntryUntouched
<1>19. CASE GrowRoot(TheWriter)
  BY <1>1, <1>6, <1>19, GrowRootUntouched
<1>20. CASE SplitInternal(TheWriter)
  BY <1>1, <1>6, <1>20, SplitInternalUntouched
<1>21. CASE SetSeparator(TheWriter)
  BY <1>1, <1>6, <1>21, SetSeparatorUntouched
<1>22. CASE ShareChildren(TheWriter)
  BY <1>1, <1>6, <1>10, <1>22, ShareChildrenUntouched
<1>23. CASE MergeInternals(TheWriter)
  BY <1>1, <1>6, <1>23, MergeInternalsUntouched
<1>24. CASE FreeRight(TheWriter) \/ FreeRoot(TheWriter)
  BY <1>1, <1>4, <1>6, <1>24, FreeingUntouched
<1>25. CASE RemoveEntry(TheWriter)
  BY <1>1, <1>6, <1>25, RemoveEntryUntouched
<1>26. CASE ShareLeaves(TheWriter)
  BY <1>1, <1>3, <1>6, <1>26, ShareLeavesUntouched
<1> QED BY <1>7, <1>8, <1>9, <1>11, <1>12, <1>13, <1>14, <1>15, <1>16, <1>17, <1>18, <1>19,
           <1>20, <1>21, <1>22, <1>23, <1>24, <1>25, <1>26 DEF Step

LEMMA ReaderNextBacked ==
    ASSUME OneWriter, Inv, NeverOverrun', Ordered, Ordered', Told, Aimed, BackedNow,
           [ReaderNext]_<< vars, reader, shared >>
    PROVE  Told' /\ Aimed' /\ BackedNow'
<1>1. CASE Next
  <2>1. Step(TheWriter)
    BY <1>1 DEF Next, OneWriter
  <2> QED BY <2>1, StepTells, StepBacked
<1>2. CASE UNCHANGED << node, root, run >>
  BY <1>2 DEF Told, Aimed, BackedNow
<1> QED BY <1>1, <1>2, NextOrRead

LEMMA InitBacked ==
    ASSUME OneWriter, Init, NeverOverrun
    PROVE  Aimed /\ BackedNow
<1>1. PICK l, x : l = Idle /\ x = Leaf(<< >>, 0, 0, 0)
  OBVIOUS
<1>2. 1 \in Page
  BY BTreeConstants DEF Page
<1>3. node = [p \in Page |-> IF p = 1 THEN x ELSE Freed] /\ run[TheWriter] = l
  BY <1>1 DEF Init, OneWriter
<1>4. \A p \in Page : node[p] = IF p = 1 THEN x ELSE Freed
  BY <1>3
<1>5. x.type = "leaf" /\ x.prev = 0 /\ x.next = 0
  <2>1. x.type # "overrun"
    BY <1>2, <1>4 DEF NeverOverrun
  <2> QED BY <1>1, <2>1, LeafMade
<1>6. Freed.type = "freed"
  BY DEF Freed
<1>7. PICK S : S = Leaves(node, Live(node, l))
  OBVIOUS
<1>8. \A p \in S : p = 1
  BY <1>4, <1>6, <1>7 DEF Leaves, Live
<1>9. PointsBack(node, S)
  BY <1>2, <1>4, <1>5, <1>8 DEF PointsBack, FirstLeaf
<1>10. Backed(node, l)
  BY <1>1, <1>7, <1>9, IdleAims, AtRestBacked
<1> QED BY <1>1, <1>3, <1>10, IdleAims DEF Aimed, BackedNow

LEMMA RestVerifies ==
    ASSUME OneWriter, Inv, Ordered, BackedNow, Quiet
    PROVE  Verifies
<1>1. PICK l : l = run[TheWriter]
  OBVIOUS
<1>2. l.pc = "idle"
  BY <1>1 DEF Quiet, At, OneWriter
<1>3. PICK live, lo, hi, h : Resting(live, lo, hi, h)
  BY TreeRests
<1>4. Live(node, l) = live
  BY <1>2, <1>3 DEF Live, Merging, Collapsing, Resting
<1>5. Backed(node, l)
  BY <1>1, <1>2 DEF BackedNow
<1>6. PointsBack(node, Leaves(node, live))
  BY <1>2, <1>4, <1>5, AtRestBacked
<1> QED BY <1>3, <1>6, VerifiesAtRest

(* Between two calls, until one fails, every check of verify_integrity passes
   (btree.rs:35-41): the leaves are at one depth, every key is between the
   separators above it and the keys are sorted, the leaves are linked both ways,
   and the chain holds as many entries as the nodes below the root.  Whatever
   the entries weigh, of every run in which no rebuild is given more than a page
   holds. *)
THEOREM IntegrityHolds ==
    ASSUME OneWriter
    PROVE  ReaderSpec /\ []NeverOverrun => []IntegrityVerifies
<1>1. ReaderInit /\ NeverOverrun => Inv /\ Ordered
  BY ReaderInitHolds
<1>2. ReaderInit /\ Inv /\ NeverOverrun /\ Ordered => Told /\ Aimed /\ BackedNow
  BY InitMaps, InitBacked DEF ReaderInit
<1>3. Inv /\ NeverOverrun' /\ Ordered /\ [ReaderNext]_<< vars, reader, shared >>
      => Inv' /\ Ordered'
  BY ReaderNextKeeps
<1>4. Inv /\ NeverOverrun' /\ Ordered /\ Ordered' /\ Told /\ Aimed /\ BackedNow
      /\ [ReaderNext]_<< vars, reader, shared >> => Told' /\ Aimed' /\ BackedNow'
  BY ReaderNextBacked
<1>5. Inv /\ NeverOverrun /\ Ordered /\ BackedNow => IntegrityVerifies
  BY RestVerifies DEF IntegrityVerifies
<1> QED BY <1>1, <1>2, <1>3, <1>4, <1>5, PTL DEF ReaderSpec

===============================================================================
