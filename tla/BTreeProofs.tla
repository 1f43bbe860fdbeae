------------------------------ MODULE BTreeProofs ------------------------------
(***************************************************************************)
(* Proofs about the B+Tree with one writer, beside any number of readers:  *)
(* its parent pointers agree with its pages and no page is lost, and for   *)
(* entries of one size no rebuild is given more than a page holds.  Then   *)
(* what it is for the pages of a tree to be in order: each is for the keys *)
(* between two bounds, and the leaves are a row.                           *)
(***************************************************************************)
EXTENDS BTreeReaders, FiniteSetTheorems, WellFoundedInduction, SequenceTheorems, TLAPS

-----------------------------------------------------------------------------
(* Trees of pages.  live: the pages of the tree; kids: the children of each;
   top: its root; loose: a page that is to get a parent; due: << child, parent >>
   pointers still to be written; parent: the pointers as they are; height: of
   each page above the leaves. *)
Linked(live, kids, top, loose) ==
    /\ live \subseteq Page /\ top \in live
    /\ loose \subseteq live /\ top \notin loose
    /\ \A p \in live : kids[p] \subseteq live /\ top \notin kids[p] /\ kids[p] \cap loose = {}
    /\ \A p, q \in live : \A c : c \in kids[p] /\ c \in kids[q] => p = q
    /\ \A c \in live : c # top /\ c \notin loose => \E p \in live : c \in kids[p]

Named(live, kids, top, due, parent) ==
    /\ \A p \in live : \A c \in kids[p] : parent[c] = p \/ << c, p >> \in due
    /\ parent[top] = 0 \/ << top, 0 >> \in due
    /\ \A c, q : << c, q >> \in due =>
          \/ c = top /\ q = 0
          \/ q \in live /\ c \in kids[q]

Layered(live, kids, height) ==
    /\ height \in [Page -> Nat]
    /\ \A p \in live : \A c \in kids[p] : height[c] + 1 = height[p]

Tree(live, kids, top, loose, due, parent, height) ==
    /\ Linked(live, kids, top, loose)
    /\ Named(live, kids, top, due, parent)
    /\ Layered(live, kids, height)

(* The pages of a tree without pending pointers: who points where. *)
LEMMA ParentIsLive ==
    ASSUME NEW live, NEW kids, NEW top, NEW loose, NEW parent, NEW height,
           Tree(live, kids, top, loose, {}, parent, height),
           NEW c \in live, c # top, c \notin loose
    PROVE  parent[c] \in live /\ c \in kids[parent[c]] /\ parent[c] # 0
<1>1. PICK p \in live : c \in kids[p]
  BY DEF Tree, Linked
<1>2. parent[c] = p
  BY <1>1 DEF Tree, Named
<1>3. p \in Page
  BY DEF Tree, Linked
<1>4. p # 0
  BY <1>3, BTreeConstants DEF Page
<1> QED BY <1>1, <1>2, <1>4

LEMMA NotOwnKid ==
    ASSUME NEW live, NEW kids, NEW top, NEW loose, NEW due, NEW parent, NEW height,
           Tree(live, kids, top, loose, due, parent, height),
           NEW p \in live, NEW c \in kids[p]
    PROVE  c # p /\ c \in live /\ p \notin kids[c] /\ c # top /\ c \notin loose
<1>1. c \in live /\ c \in Page /\ p \in Page /\ c # top /\ c \notin loose
  BY DEF Tree, Linked
<1>2. height[c] \in Nat /\ height[p] \in Nat /\ height[c] + 1 = height[p]
  BY <1>1 DEF Tree, Layered
<1>3. ASSUME p \in kids[c] PROVE FALSE
  <2>1. height[p] + 1 = height[c]
    BY <1>1, <1>3 DEF Tree, Layered
  <2> QED BY <1>2, <2>1
<1>4. c # p
  BY <1>2
<1> QED BY <1>1, <1>3, <1>4

(* Nothing that matters has changed. *)
LEMMA SameTree ==
    ASSUME NEW live, NEW kids, NEW top, NEW loose, NEW due, NEW parent, NEW height,
           NEW kids2, NEW parent2,
           Tree(live, kids, top, loose, due, parent, height),
           \A p \in live : kids2[p] = kids[p] /\ parent2[p] = parent[p]
    PROVE  Tree(live, kids2, top, loose, due, parent2, height)
<1>1. \A p \in live : kids[p] \subseteq live
  BY DEF Tree, Linked
<1>2. top \in live
  BY DEF Tree, Linked
<1>3. Linked(live, kids2, top, loose)
  BY DEF Tree, Linked
<1>4. Named(live, kids2, top, due, parent2)
  BY <1>1, <1>2 DEF Tree, Named
<1>5. Layered(live, kids2, height)
  BY DEF Tree, Layered
<1> QED BY <1>3, <1>4, <1>5 DEF Tree

(* A new page takes some of the children of another one. *)
SplitsOff(live, kids, height, parent, p, new, kids2, height2, parent2, due2) ==
    /\ p \in live /\ new \in Page /\ new \notin live
    /\ kids2[p] \cup kids2[new] = kids[p] /\ kids2[p] \cap kids2[new] = {}
    /\ \A q \in live : q # p => kids2[q] = kids[q]
    /\ \A q \in live : parent2[q] = parent[q]
    /\ \A c, q : << c, q >> \in due2 <=> q = new /\ c \in kids2[new]
    /\ height2 = [height EXCEPT ![new] = height[p]]

LEMMA SplitOff ==
    ASSUME NEW live, NEW kids, NEW top, NEW parent, NEW height,
           NEW kids2, NEW parent2, NEW due2, NEW height2,
           Tree(live, kids, top, {}, {}, parent, height),
           NEW p, NEW new,
           SplitsOff(live, kids, height, parent, p, new, kids2, height2, parent2, due2)
    PROVE  /\ Tree(live \cup {new}, kids2, top, {new}, due2, parent2, height2)
           /\ height2[new] = height2[p]
<1> USE DEF SplitsOff
<1> DEFINE live2 == live \cup {new}
<1>1. live \subseteq Page /\ top \in live
  BY DEF Tree, Linked
<1>2. \A q \in live : \A c \in kids2[q] : c \in kids[q] /\ c \in live /\ c # new
  BY DEF Tree, Linked
<1>3. \A c \in kids2[new] : c \in kids[p] /\ c \in live /\ c # new /\ c # top
  BY DEF Tree, Linked
<1>4. Linked(live2, kids2, top, {new})
  <2>1. \A q \in live2 : kids2[q] \subseteq live2 /\ top \notin kids2[q] /\ kids2[q] \cap {new} = {}
    BY <1>1, <1>2, <1>3 DEF Tree, Linked
  <2>2. ASSUME NEW q \in live2, NEW r \in live2, NEW c, c \in kids2[q], c \in kids2[r]
        PROVE  q = r
    <3>1. CASE q = new /\ r # new
      <4>1. c \in kids[p] /\ c \in kids[r] /\ r \in live
        BY <1>2, <1>3, <2>2, <3>1
      <4>2. r = p
        BY <4>1 DEF Tree, Linked
      <4> QED BY <2>2, <3>1, <4>2
    <3>2. CASE r = new /\ q # new
      <4>1. c \in kids[p] /\ c \in kids[q] /\ q \in live
        BY <1>2, <1>3, <2>2, <3>2
      <4>2. q = p
        BY <4>1 DEF Tree, Linked
      <4> QED BY <2>2, <3>2, <4>2
    <3>3. CASE q # new /\ r # new
      BY <1>2, <2>2, <3>3 DEF Tree, Linked
    <3> QED BY <3>1, <3>2, <3>3
  <2>3. ASSUME NEW c \in live2, c # top, c \notin {new}
        PROVE  \E q \in live2 : c \in kids2[q]
    <3>1. PICK q \in live : c \in kids[q]
      BY <2>3 DEF Tree, Linked
    <3>2. CASE q = p
      BY <3>1, <3>2
    <3>3. CASE q # p
      BY <3>1, <3>3
    <3> QED BY <3>2, <3>3
  <2> QED BY <1>1, <2>1, <2>2, <2>3 DEF Linked
<1>5. Named(live2, kids2, top, due2, parent2)
  <2>1. ASSUME NEW q \in live2, NEW c \in kids2[q] PROVE parent2[c] = q \/ << c, q >> \in due2
    <3>1. CASE q = new
      BY <2>1, <3>1
    <3>2. CASE q # new
      <4>1. q \in live /\ c \in kids[q] /\ c \in live
        BY <1>2, <2>1, <3>2
      <4>2. parent[c] = q
        BY <4>1 DEF Tree, Named
      <4> QED BY <4>1, <4>2
    <3> QED BY <3>1, <3>2
  <2>2. parent2[top] = 0
    BY <1>1 DEF Tree, Named
  <2> QED BY <2>1, <2>2 DEF Named
<1>6. Layered(live2, kids2, height2) /\ height2[new] = height2[p]
  <2>1. height \in [Page -> Nat] /\ p \in Page /\ p # new
    BY <1>1 DEF Tree, Layered
  <2>2. height2 \in [Page -> Nat] /\ height2[new] = height[p]
        /\ \A q \in live : height2[q] = height[q]
    BY <1>1, <2>1
  <2>3. ASSUME NEW q \in live2, NEW c \in kids2[q] PROVE height2[c] + 1 = height2[q]
    <3>1. CASE q = new
      <4>1. height[c] + 1 = height[p]
        BY <1>3, <2>3, <3>1 DEF Tree, Layered
      <4> QED BY <1>3, <2>2, <2>3, <3>1, <4>1
    <3>2. CASE q # new
      <4>1. height[c] + 1 = height[q]
        BY <1>2, <2>3, <3>2 DEF Tree, Layered
      <4> QED BY <1>2, <2>2, <2>3, <3>2, <4>1
    <3> QED BY <3>1, <3>2
  <2> QED BY <2>1, <2>2, <2>3 DEF Layered
<1> QED BY <1>4, <1>5, <1>6 DEF Tree

(* The loose page becomes a child. *)
Attaches(live, kids, height, parent, x, p, kids2, parent2, due2) ==
    /\ p \in live
    /\ kids2[p] = kids[p] \cup {x} /\ \A q \in live : q # p => kids2[q] = kids[q]
    /\ \A q \in live : parent2[q] = parent[q]
    /\ \A c, q : << c, q >> \in due2 => c = x /\ q = p
    /\ parent[x] = p /\ height[x] + 1 = height[p]

LEMMA Attach ==
    ASSUME NEW live, NEW kids, NEW top, NEW x, NEW parent, NEW height,
           NEW kids2, NEW parent2, NEW due2,
           Tree(live, kids, top, {x}, {}, parent, height),
           NEW p, Attaches(live, kids, height, parent, x, p, kids2, parent2, due2)
    PROVE  Tree(live, kids2, top, {}, due2, parent2, height)
<1> USE DEF Attaches
<1>1. live \subseteq Page /\ top \in live /\ x \in live /\ x # top
  BY DEF Tree, Linked
<1>2. \A q \in live : x \notin kids[q]
  BY DEF Tree, Linked
<1>3. \A q \in live : \A c \in kids2[q] : c \in kids[q] \/ (c = x /\ q = p)
  OBVIOUS
<1>4. Linked(live, kids2, top, {})
  <2>1. \A q \in live : kids2[q] \subseteq live /\ top \notin kids2[q] /\ kids2[q] \cap {} = {}
    BY <1>1, <1>3 DEF Tree, Linked
  <2>2. ASSUME NEW q \in live, NEW r \in live, NEW c, c \in kids2[q], c \in kids2[r]
        PROVE  q = r
    <3>1. CASE c = x
      BY <1>2, <1>3, <2>2, <3>1
    <3>2. CASE c # x
      <4>1. c \in kids[q] /\ c \in kids[r]
        BY <1>3, <2>2, <3>2
      <4> QED BY <4>1 DEF Tree, Linked
    <3> QED BY <3>1, <3>2
  <2>3. ASSUME NEW c \in live, c # top
        PROVE  \E q \in live : c \in kids2[q]
    <3>1. CASE c = x
      BY <3>1
    <3>2. CASE c # x
      <4>1. PICK q \in live : c \in kids[q]
        BY <2>3, <3>2 DEF Tree, Linked
      <4>2. c \in kids2[q]
        BY <4>1
      <4> QED BY <4>2
    <3> QED BY <3>1, <3>2
  <2> QED BY <1>1, <2>1, <2>2, <2>3 DEF Linked
<1>5. Named(live, kids2, top, due2, parent2)
  <2>1. ASSUME NEW q \in live, NEW c \in kids2[q] PROVE parent2[c] = q
    <3>1. CASE c \in kids[q]
      BY <3>1 DEF Tree, Named, Linked
    <3>2. CASE c = x /\ q = p
      BY <1>1, <3>2
    <3> QED BY <1>3, <3>1, <3>2
  <2>2. parent2[top] = 0
    BY <1>1 DEF Tree, Named
  <2>3. x \in kids2[p]
    OBVIOUS
  <2> QED BY <2>1, <2>2, <2>3 DEF Named
<1>6. Layered(live, kids2, height)
  <2>1. ASSUME NEW q \in live, NEW c \in kids2[q] PROVE height[c] + 1 = height[q]
    BY <1>3 DEF Tree, Layered
  <2> QED BY <2>1 DEF Tree, Layered
<1> QED BY <1>4, <1>5, <1>6 DEF Tree

(* A new page becomes the root, over the old one and the loose page. *)
Grows(live, kids, top, x, height, parent, new, kids2, height2, parent2, due2) ==
    /\ new \in Page /\ new \notin live
    /\ kids2[new] = {top, x} /\ \A q \in live : kids2[q] = kids[q]
    /\ parent2[new] = 0 /\ \A q \in live : parent2[q] = parent[q]
    /\ \A c, q : << c, q >> \in due2 <=> q = new /\ c \in {top, x}
    /\ height[x] = height[top]
    /\ height2 = [height EXCEPT ![new] = height[top] + 1]

LEMMA GrowTree ==
    ASSUME NEW live, NEW kids, NEW top, NEW x, NEW parent, NEW height,
           NEW kids2, NEW parent2, NEW due2, NEW height2,
           Tree(live, kids, top, {x}, {}, parent, height),
           NEW new, Grows(live, kids, top, x, height, parent, new, kids2, height2, parent2, due2)
    PROVE  Tree(live \cup {new}, kids2, new, {}, due2, parent2, height2)
<1> USE DEF Grows
<1> DEFINE live2 == live \cup {new}
<1>1. live \subseteq Page /\ top \in live /\ x \in live /\ x # top
  BY DEF Tree, Linked
<1>2. \A q \in live : \A c \in kids2[q] :
          c \in kids[q] /\ c \in live /\ c # new /\ c # top /\ c # x
  BY DEF Tree, Linked
<1>3. Linked(live2, kids2, new, {})
  <2>1. \A q \in live2 : kids2[q] \subseteq live2 /\ new \notin kids2[q] /\ kids2[q] \cap {} = {}
    BY <1>1, <1>2
  <2>2. ASSUME NEW q \in live2, NEW r \in live2, NEW c, c \in kids2[q], c \in kids2[r]
        PROVE  q = r
    <3>1. CASE c \in {top, x}
      <4>1. q = new /\ r = new
        BY <1>2, <2>2, <3>1
      <4> QED BY <4>1
    <3>2. CASE c \notin {top, x}
      <4>1. q \in live /\ r \in live /\ c \in kids[q] /\ c \in kids[r]
        BY <1>2, <2>2, <3>2
      <4> QED BY <4>1 DEF Tree, Linked
    <3> QED BY <3>1, <3>2
  <2>3. ASSUME NEW c \in live2, c # new PROVE \E q \in live2 : c \in kids2[q]
    <3>1. CASE c \in {top, x}
      BY <3>1
    <3>2. CASE c \notin {top, x}
      <4>1. PICK q \in live : c \in kids[q]
        BY <2>3, <3>2 DEF Tree, Linked
      <4> QED BY <4>1
    <3> QED BY <3>1, <3>2
  <2> QED BY <1>1, <2>1, <2>2, <2>3 DEF Linked
<1>4. Named(live2, kids2, new, due2, parent2)
  <2>1. ASSUME NEW q \in live2, NEW c \in kids2[q] PROVE parent2[c] = q \/ << c, q >> \in due2
    <3>1. CASE q = new
      BY <2>1, <3>1
    <3>2. CASE q # new
      <4>1. q \in live /\ c \in kids[q] /\ c \in live
        BY <1>2, <2>1, <3>2
      <4>2. parent[c] = q
        BY <4>1 DEF Tree, Named
      <4> QED BY <4>1, <4>2
    <3> QED BY <3>1, <3>2
  <2>2. \A c, q : << c, q >> \in due2 => q \in live2 /\ c \in kids2[q]
    OBVIOUS
  <2> QED BY <2>1, <2>2 DEF Named
<1>5. Layered(live2, kids2, height2)
  <2>1. height \in [Page -> Nat] /\ top \in Page
    BY <1>1 DEF Tree, Layered
  <2>2. height2 \in [Page -> Nat] /\ height2[new] = height[top] + 1
        /\ \A q \in live : height2[q] = height[q]
    BY <1>1, <2>1
  <2>3. ASSUME NEW q \in live2, NEW c \in kids2[q] PROVE height2[c] + 1 = height2[q]
    <3>1. CASE q = new
      BY <1>1, <2>2, <2>3, <3>1
    <3>2. CASE q # new
      <4>1. height[c] + 1 = height[q]
        BY <1>2, <2>3, <3>2 DEF Tree, Layered
      <4> QED BY <1>2, <2>2, <2>3, <3>2, <4>1
    <3> QED BY <3>1, <3>2
  <2> QED BY <2>1, <2>2, <2>3 DEF Layered
<1> QED BY <1>3, <1>4, <1>5 DEF Tree

(* A sibling takes all the children of a page, which leaves the tree. *)
Merges(live, kids, parent, q, p, x, kids2, parent2, due2) ==
    /\ q \in live /\ p \in kids[q] /\ x \in kids[q] /\ p # x
    /\ kids2[p] = kids[p] \cup kids[x] /\ kids2[q] = kids[q] \ {x}
    /\ \A r \in live : r \notin {p, q, x} => kids2[r] = kids[r]
    /\ \A r \in live : r # x => parent2[r] = parent[r]
    /\ \A c, r : << c, r >> \in due2 <=> r = p /\ c \in kids[x]

LEMMA MergeTree ==
    ASSUME NEW live, NEW kids, NEW top, NEW parent, NEW height,
           NEW kids2, NEW parent2, NEW due2,
           Tree(live, kids, top, {}, {}, parent, height),
           NEW q, NEW p, NEW x, Merges(live, kids, parent, q, p, x, kids2, parent2, due2)
    PROVE  Tree(live \ {x}, kids2, top, {}, due2, parent2, height)
<1> USE DEF Merges
<1> DEFINE live2 == live \ {x}
<1>1. /\ live \subseteq Page /\ top \in live /\ p \in live /\ x \in live
      /\ p # q /\ x # q /\ p # top /\ x # top
      /\ q \notin kids[p] /\ q \notin kids[x]
  <2>1. live \subseteq Page /\ top \in live
    BY DEF Tree, Linked
  <2>2. p # q /\ p \in live /\ q \notin kids[p] /\ p # top
    BY NotOwnKid
  <2>3. x # q /\ x \in live /\ q \notin kids[x] /\ x # top
    BY NotOwnKid
  <2> QED BY <2>1, <2>2, <2>3
<1>2. x \notin kids[x] /\ x \notin kids[p] /\ p \notin kids[x]
  BY <1>1 DEF Tree, Linked
<1>3. ASSUME NEW r \in live2, NEW c \in kids2[r]
      PROVE  /\ c \in live2
             /\ c \in kids[r] \/ (r = p /\ c \in kids[x])
  <2>1. c \in kids[r] \/ (r = p /\ c \in kids[x])
    BY <1>3
  <2>2. c \in live
    BY <1>1, <2>1 DEF Tree, Linked
  <2>3. c # x
    <3>1. CASE r = q
      BY <1>1, <1>3, <3>1
    <3>2. CASE r # q /\ c \in kids[r]
      BY <1>1, <3>2 DEF Tree, Linked
    <3>3. CASE c \in kids[x]
      BY <1>2, <3>3
    <3> QED BY <2>1, <3>1, <3>2, <3>3
  <2> QED BY <2>1, <2>2, <2>3
<1>4. Linked(live2, kids2, top, {})
  <2>1. \A r \in live2 : kids2[r] \subseteq live2 /\ top \notin kids2[r] /\ kids2[r] \cap {} = {}
    BY <1>1, <1>3 DEF Tree, Linked
  <2>2. ASSUME NEW r \in live2, NEW s \in live2, NEW c, c \in kids2[r], c \in kids2[s]
        PROVE  r = s
    <3>1. CASE c \in kids[r] /\ c \in kids[s]
      BY <3>1 DEF Tree, Linked
    <3>2. CASE c \in kids[x]
      <4>1. \A t \in live2 : c \notin kids[t]
        BY <1>1, <3>2 DEF Tree, Linked
      <4>2. r = p /\ s = p
        BY <1>3, <2>2, <4>1
      <4> QED BY <4>2
    <3> QED BY <1>3, <2>2, <3>1, <3>2
  <2>3. ASSUME NEW c \in live2, c # top PROVE \E r \in live2 : c \in kids2[r]
    <3>1. PICK r \in live : c \in kids[r]
      BY <2>3 DEF Tree, Linked
    <3>2. CASE r = x
      BY <1>1, <3>1, <3>2
    <3>3. CASE r # x
      BY <1>1, <2>3, <3>1, <3>3
    <3> QED BY <3>2, <3>3
  <2> QED BY <1>1, <2>1, <2>2, <2>3 DEF Linked
<1>5. Named(live2, kids2, top, due2, parent2)
  <2>1. ASSUME NEW r \in live2, NEW c \in kids2[r] PROVE parent2[c] = r \/ << c, r >> \in due2
    <3>1. CASE c \in kids[r]
      <4>1. c \in live2 /\ parent[c] = r
        BY <1>3, <3>1 DEF Tree, Named
      <4> QED BY <4>1
    <3>2. CASE r = p /\ c \in kids[x]
      BY <3>2
    <3> QED BY <1>3, <3>1, <3>2
  <2>2. parent2[top] = 0
    BY <1>1 DEF Tree, Named
  <2>3. p \in live2
    BY <1>1
  <2> QED BY <2>1, <2>2, <2>3 DEF Named
<1>6. Layered(live2, kids2, height)
  <2>1. height[p] \in Nat /\ height[x] \in Nat /\ height[p] + 1 = height[q] /\ height[x] + 1 = height[q]
    BY <1>1 DEF Tree, Layered
  <2>2. height[p] = height[x]
    <3>1. height[q] \in Nat
      BY <1>1 DEF Tree, Layered
    <3> QED BY <2>1, <3>1
  <2>3. ASSUME NEW r \in live2, NEW c \in kids2[r] PROVE height[c] + 1 = height[r]
    BY <1>1, <1>3, <2>2 DEF Tree, Layered
  <2> QED BY <2>3 DEF Tree, Layered
<1> QED BY <1>4, <1>5, <1>6 DEF Tree

(* A child changes sides. *)
Moves(live, kids, parent, q, p, x, m, kids2, parent2, due2) ==
    /\ q \in live /\ p \in kids[q] /\ x \in kids[q] /\ p # x /\ m \in kids[p]
    /\ kids2[p] = kids[p] \ {m} /\ kids2[x] = kids[x] \cup {m}
    /\ \A r \in live : r \notin {p, x} => kids2[r] = kids[r]
    /\ \A r \in live : parent2[r] = parent[r]
    /\ \A c, r : << c, r >> \in due2 <=> r = x /\ c = m

LEMMA MoveKid ==
    ASSUME NEW live, NEW kids, NEW top, NEW parent, NEW height,
           NEW kids2, NEW parent2, NEW due2,
           Tree(live, kids, top, {}, {}, parent, height),
           NEW q, NEW p, NEW x, NEW m, Moves(live, kids, parent, q, p, x, m, kids2, parent2, due2)
    PROVE  Tree(live, kids2, top, {}, due2, parent2, height)
<1> USE DEF Moves
<1>1. /\ live \subseteq Page /\ top \in live /\ p \in live /\ x \in live /\ m \in live
      /\ m # top
  <2>1. live \subseteq Page /\ top \in live /\ p \in live /\ x \in live
    BY DEF Tree, Linked
  <2> QED BY <2>1 DEF Tree, Linked
<1>2. \A r \in live : m \in kids[r] => r = p
  BY <1>1 DEF Tree, Linked
<1>3. \A r \in live : \A c \in kids2[r] : (c \in kids[r] /\ c # m) \/ (r = x /\ c = m)
  BY <1>2
<1>4. Linked(live, kids2, top, {})
  <2>1. \A r \in live : kids2[r] \subseteq live /\ top \notin kids2[r] /\ kids2[r] \cap {} = {}
    BY <1>1, <1>3 DEF Tree, Linked
  <2>2. ASSUME NEW r \in live, NEW s \in live, NEW c, c \in kids2[r], c \in kids2[s]
        PROVE  r = s
    <3>1. CASE c = m
      BY <1>3, <2>2, <3>1
    <3>2. CASE c # m
      <4>1. c \in kids[r] /\ c \in kids[s]
        BY <1>3, <2>2, <3>2
      <4> QED BY <4>1 DEF Tree, Linked
    <3> QED BY <3>1, <3>2
  <2>3. ASSUME NEW c \in live, c # top PROVE \E r \in live : c \in kids2[r]
    <3>1. PICK r \in live : c \in kids[r]
      BY <2>3 DEF Tree, Linked
    <3>2. CASE c = m
      BY <1>1, <3>2
    <3>3. CASE c # m
      BY <3>1, <3>3
    <3> QED BY <3>2, <3>3
  <2> QED BY <1>1, <2>1, <2>2, <2>3 DEF Linked
<1>5. Named(live, kids2, top, due2, parent2)
  <2>1. ASSUME NEW r \in live, NEW c \in kids2[r] PROVE parent2[c] = r \/ << c, r >> \in due2
    <3>1. CASE c \in kids[r]
      <4>1. c \in live /\ parent[c] = r
        BY <3>1 DEF Tree, Named, Linked
      <4> QED BY <4>1
    <3>2. CASE r = x /\ c = m
      BY <3>2
    <3> QED BY <1>3, <3>1, <3>2
  <2>2. parent2[top] = 0
    BY <1>1 DEF Tree, Named
  <2> QED BY <1>1, <2>1, <2>2 DEF Named
<1>6. Layered(live, kids2, height)
  <2>1. height \in [Page -> Nat]
    BY DEF Tree, Layered
  <2>2. height[p] \in Nat /\ height[x] \in Nat /\ height[q] \in Nat
    BY <1>1, <2>1
  <2>3. height[p] + 1 = height[q] /\ height[x] + 1 = height[q]
    BY DEF Tree, Layered
  <2>4. height[p] = height[x]
    BY <2>2, <2>3
  <2>5. ASSUME NEW r \in live, NEW c \in kids2[r] PROVE height[c] + 1 = height[r]
    BY <1>1, <1>3, <2>4 DEF Tree, Layered
  <2> QED BY <2>1, <2>5 DEF Layered
<1> QED BY <1>4, <1>5, <1>6 DEF Tree

(* A root with one child gives way to it. *)
Collapses(live, kids, top, parent, child, kids2, parent2, due2) ==
    /\ kids[top] = {child}
    /\ \A r \in live : r # top => kids2[r] = kids[r] /\ parent2[r] = parent[r]
    /\ \A c, r : << c, r >> \in due2 <=> c = child /\ r = 0

LEMMA CollapseTree ==
    ASSUME NEW live, NEW kids, NEW top, NEW parent, NEW height,
           NEW kids2, NEW parent2, NEW due2, NEW child,
           Tree(live, kids, top, {}, {}, parent, height),
           Collapses(live, kids, top, parent, child, kids2, parent2, due2)
    PROVE  Tree(live \ {top}, kids2, child, {}, due2, parent2, height)
<1> USE DEF Collapses
<1> DEFINE live2 == live \ {top}
<1>1. /\ live \subseteq Page /\ top \in live /\ child \in live /\ child # top
      /\ \A r \in live : top \notin kids[r]
  BY DEF Tree, Linked
<1>2. \A r \in live2 : kids2[r] = kids[r] /\ child \notin kids[r]
  BY <1>1 DEF Tree, Linked
<1>3. Linked(live2, kids2, child, {})
  <2>1. \A r \in live2 : kids2[r] \subseteq live2 /\ child \notin kids2[r] /\ kids2[r] \cap {} = {}
    BY <1>1, <1>2 DEF Tree, Linked
  <2>2. \A r, s \in live2 : \A c : c \in kids2[r] /\ c \in kids2[s] => r = s
    BY <1>2 DEF Tree, Linked
  <2>3. ASSUME NEW c \in live2, c # child PROVE \E r \in live2 : c \in kids2[r]
    <3>1. PICK r \in live : c \in kids[r]
      BY <2>3 DEF Tree, Linked
    <3>2. r # top
      BY <2>3, <3>1
    <3> QED BY <1>2, <3>1, <3>2
  <2> QED BY <1>1, <2>1, <2>2, <2>3 DEF Linked
<1>4. Named(live2, kids2, child, due2, parent2)
  <2>1. ASSUME NEW r \in live2, NEW c \in kids2[r] PROVE parent2[c] = r
    <3>1. c \in kids[r] /\ r \in live /\ c \in live /\ c # top
      BY <1>1, <1>2, <2>1 DEF Tree, Linked
    <3>2. parent[c] = r
      BY <3>1 DEF Tree, Named
    <3> QED BY <3>1, <3>2
  <2> QED BY <2>1 DEF Named
<1>5. Layered(live2, kids2, height)
  BY <1>2 DEF Tree, Layered
<1> QED BY <1>3, <1>4, <1>5 DEF Tree

(* One pending pointer is written. *)
LEMMA AdoptOne ==
    ASSUME NEW live, NEW kids, NEW top, NEW loose, NEW due, NEW parent, NEW height,
           NEW parent2, NEW due2, NEW child, NEW q,
           Tree(live, kids, top, loose, due, parent, height),
           << child, q >> \in due,
           parent2[child] = q, \A r \in live : r # child => parent2[r] = parent[r],
           due2 \subseteq due,
           \A c, r : << c, r >> \in due => << c, r >> \in due2 \/ (c = child /\ r = q)
    PROVE  Tree(live, kids, top, loose, due2, parent2, height)
<1>1. \/ child = top /\ q = 0
      \/ q \in live /\ child \in kids[q]
  BY DEF Tree, Named
<1>2. top \in live /\ \A r \in live : top \notin kids[r] /\ kids[r] \subseteq live
  BY DEF Tree, Linked
<1>3. ASSUME NEW r \in live, NEW c \in kids[r] PROVE parent2[c] = r \/ << c, r >> \in due2
  <2>1. CASE c = child
    <3>1. r = q
      BY <1>1, <1>2, <2>1 DEF Tree, Linked
    <3> QED BY <2>1, <3>1
  <2>2. CASE c # child
    <3>1. c \in live /\ (parent[c] = r \/ << c, r >> \in due)
      BY <1>2 DEF Tree, Named
    <3> QED BY <2>2, <3>1
  <2> QED BY <2>1, <2>2
<1>4. parent2[top] = 0 \/ << top, 0 >> \in due2
  <2>1. CASE top = child
    <3>1. q = 0
      BY <1>1, <1>2, <2>1
    <3> QED BY <2>1, <3>1
  <2>2. CASE top # child
    <3>1. parent[top] = 0 \/ << top, 0 >> \in due
      BY DEF Tree, Named
    <3> QED BY <1>2, <2>2, <3>1
  <2> QED BY <2>1, <2>2
<1>5. Named(live, kids, top, due2, parent2)
  BY <1>3, <1>4 DEF Tree, Named
<1> QED BY <1>5 DEF Tree

-----------------------------------------------------------------------------
(* Sequences: how long they are, what is in them, and whether it is there once. *)
LEMMA JoinedParts ==
    ASSUME NEW S, NEW s \in Seq(S), NEW t \in Seq(S)
    PROVE  /\ s \o t \in Seq(S) /\ Len(s \o t) = Len(s) + Len(t)
           /\ Range(s \o t) = Range(s) \cup Range(t)
           /\ IsInjective(s) /\ IsInjective(t) /\ Range(s) \cap Range(t) = {}
                 => IsInjective(s \o t)
<1>1. /\ s \o t \in Seq(S) /\ Len(s \o t) = Len(s) + Len(t)
      /\ \A i \in 1 .. Len(s) + Len(t) :
            (s \o t)[i] = IF i <= Len(s) THEN s[i] ELSE t[i - Len(s)]
  OBVIOUS
<1>2. Len(s) \in Nat /\ Len(t) \in Nat /\ DOMAIN s = 1 .. Len(s) /\ DOMAIN t = 1 .. Len(t)
      /\ DOMAIN (s \o t) = 1 .. Len(s) + Len(t)
  BY <1>1
<1> HIDE <1>1
<1>3. PICK j : j = s \o t
  OBVIOUS
<1>4. /\ DOMAIN j = 1 .. Len(s) + Len(t)
      /\ \A i \in 1 .. Len(s) : j[i] = s[i]
      /\ \A i \in 1 .. Len(t) : j[Len(s) + i] = t[i]
      /\ \A i \in 1 .. Len(s) + Len(t) : i > Len(s) => i - Len(s) \in 1 .. Len(t) /\ j[i] = t[i - Len(s)]
  BY <1>1, <1>2, <1>3
<1>5. \A x \in Range(s) : x \in Range(j)
  BY <1>2, <1>4 DEF Range
<1>6. ASSUME NEW x \in Range(t) PROVE x \in Range(j)
  <2>1. PICK i \in 1 .. Len(t) : x = t[i]
    BY <1>2, <1>6 DEF Range
  <2>2. Len(s) + i \in 1 .. Len(s) + Len(t) /\ j[Len(s) + i] = x
    BY <1>2, <1>4, <2>1
  <2> QED BY <1>4, <2>2 DEF Range
<1>7. ASSUME NEW x \in Range(j) PROVE x \in Range(s) \/ x \in Range(t)
  <2>1. PICK i \in 1 .. Len(s) + Len(t) : x = j[i]
    BY <1>4, <1>7 DEF Range
  <2>2. CASE i <= Len(s)
    <3>1. i \in 1 .. Len(s)
      BY <1>2, <2>2
    <3> QED BY <1>2, <1>4, <2>1, <3>1 DEF Range
  <2>3. CASE i > Len(s)
    BY <1>2, <1>4, <2>1, <2>3 DEF Range
  <2> QED BY <1>2, <2>2, <2>3
<1>8. ASSUME IsInjective(s), IsInjective(t), Range(s) \cap Range(t) = {}
      PROVE  IsInjective(j)
  <2> SUFFICES ASSUME NEW a \in 1 .. Len(s) + Len(t), NEW b \in 1 .. Len(s) + Len(t),
                      j[a] = j[b]
               PROVE  a = b
    BY <1>4 DEF IsInjective
  <2>1. CASE a <= Len(s) /\ b <= Len(s)
    <3>1. a \in DOMAIN s /\ b \in DOMAIN s /\ s[a] = s[b]
      BY <1>2, <1>4, <2>1
    <3> QED BY <1>8, <3>1 DEF IsInjective
  <2>2. CASE a > Len(s) /\ b > Len(s)
    <3>1. a - Len(s) \in DOMAIN t /\ b - Len(s) \in DOMAIN t /\ t[a - Len(s)] = t[b - Len(s)]
      BY <1>2, <1>4, <2>2
    <3>2. a - Len(s) = b - Len(s)
      BY <1>8, <3>1 DEF IsInjective
    <3> QED BY <1>2, <3>2
  <2>3. ASSUME NEW c \in 1 .. Len(s) + Len(t), NEW d \in 1 .. Len(s) + Len(t),
               c <= Len(s), d > Len(s), j[c] = j[d]
        PROVE  FALSE
    <3>1. c \in DOMAIN s /\ s[c] = j[c] /\ d - Len(s) \in DOMAIN t /\ t[d - Len(s)] = j[d]
      BY <1>2, <1>4, <2>3
    <3>2. j[c] \in Range(s) /\ j[d] \in Range(t)
      BY <3>1 DEF Range
    <3> QED BY <1>8, <2>3, <3>2
  <2> QED BY <1>2, <2>1, <2>2, <2>3
<1>9. Range(j) = Range(s) \cup Range(t)
  BY <1>5, <1>6, <1>7
<1> QED BY <1>1, <1>3, <1>8, <1>9

(* j is s and t in a row. *)
Joined(S, s, t, j) ==
    /\ j \in Seq(S) /\ Len(j) = Len(s) + Len(t)
    /\ Range(j) = Range(s) \cup Range(t)
    /\ IsInjective(s) /\ IsInjective(t) /\ Range(s) \cap Range(t) = {} => IsInjective(j)

LEMMA JoinedSeq ==
    ASSUME NEW S, NEW s \in Seq(S), NEW t \in Seq(S)
    PROVE  Joined(S, s, t, s \o t)
BY JoinedParts DEF Joined

LEMMA SingleParts ==
    ASSUME NEW S, NEW e \in S
    PROVE  << e >> \in Seq(S) /\ Len(<< e >>) = 1 /\ Range(<< e >>) = {e} /\ IsInjective(<< e >>)
<1>1. << e >> \in Seq(S) /\ Len(<< e >>) = 1 /\ DOMAIN << e >> = {1} /\ << e >>[1] = e
  OBVIOUS
<1>2. Range(<< e >>) = {e}
  BY <1>1 DEF Range
<1>3. IsInjective(<< e >>)
  BY <1>1 DEF IsInjective
<1> QED BY <1>1, <1>2, <1>3

LEMMA EmptyParts ==
    /\ \A S : << >> \in Seq(S)
    /\ Len(<< >>) = 0 /\ Range(<< >>) = {} /\ IsInjective(<< >>)
BY DEF Range, IsInjective

(* a and b are what a sequence with elements of S is cut into after place m. *)
CutInto(S, s, m, a, b) ==
    /\ a \in Seq(S) /\ Len(a) = m /\ b \in Seq(S) /\ Len(b) = Len(s) - m
    /\ s = a \o b
    /\ Range(a) \cup Range(b) = Range(s)
    /\ IsInjective(s) => IsInjective(a) /\ IsInjective(b) /\ Range(a) \cap Range(b) = {}

LEMMA CutParts ==
    ASSUME NEW S, NEW s \in Seq(S), NEW m \in 0 .. Len(s)
    PROVE  CutInto(S, s, m, SubSeq(s, 1, m), SubSeq(s, m + 1, Len(s)))
<1>0. PICK n \in Nat : n = Len(s) /\ DOMAIN s = 1 .. n /\ m \in Nat /\ m <= n
  OBVIOUS
<1>1. PICK a : a = SubSeq(s, 1, m)
  OBVIOUS
<1>2. PICK b : b = SubSeq(s, m + 1, Len(s))
  OBVIOUS
<1>3. a \in Seq(S) /\ Len(a) = m /\ \A i \in 1 .. m : a[i] = s[i]
  <2>1. \A i \in 1 .. m : s[i] \in S
    BY <1>0
  <2>2. /\ SubSeq(s, 1, m) \in Seq(S)
        /\ Len(SubSeq(s, 1, m)) = IF 1 <= m THEN m - 1 + 1 ELSE 0
        /\ \A i \in 1 .. m - 1 + 1 : SubSeq(s, 1, m)[i] = s[1 + i - 1]
    BY <1>0, <2>1, SubSeqProperties
  <2>3. (IF 1 <= m THEN m - 1 + 1 ELSE 0) = m /\ m - 1 + 1 = m
        /\ \A i \in 1 .. m : 1 + i - 1 = i
    BY <1>0
  <2> QED BY <1>1, <2>2, <2>3
<1>4. b \in Seq(S) /\ Len(b) = n - m /\ \A i \in 1 .. n - m : b[i] = s[m + i]
  <2>1. \A i \in m + 1 .. n : s[i] \in S
    BY <1>0
  <2>2. m + 1 \in Int /\ n \in Int
    BY <1>0
  <2>3. /\ SubSeq(s, m + 1, n) \in Seq(S)
        /\ Len(SubSeq(s, m + 1, n)) = IF m + 1 <= n THEN n - (m + 1) + 1 ELSE 0
        /\ \A i \in 1 .. n - (m + 1) + 1 : SubSeq(s, m + 1, n)[i] = s[(m + 1) + i - 1]
    BY <2>1, <2>2, SubSeqProperties
  <2>4. (IF m + 1 <= n THEN n - (m + 1) + 1 ELSE 0) = n - m /\ n - (m + 1) + 1 = n - m
        /\ \A i \in 1 .. n - m : (m + 1) + i - 1 = m + i
    BY <1>0
  <2> QED BY <1>0, <1>2, <2>3, <2>4
<1>5. DOMAIN a = 1 .. m /\ DOMAIN b = 1 .. n - m
  BY <1>3, <1>4
<1>6. s = a \o b
  <2>1. 1 \in 1 .. Len(s) + 1 /\ m \in 1 - 1 .. Len(s) /\ Len(s) \in m .. Len(s)
    BY <1>0
  <2>2. SubSeq(s, 1, m) \o SubSeq(s, m + 1, Len(s)) = SubSeq(s, 1, Len(s))
    BY <2>1, ConcatAdjacentSubSeq
  <2> QED BY <1>1, <1>2, <2>2, SubSeqFull
<1>7. Range(a) \cup Range(b) = Range(s)
  BY <1>3, <1>4, <1>6, JoinedParts
<1>8. ASSUME IsInjective(s)
      PROVE  IsInjective(a) /\ IsInjective(b) /\ Range(a) \cap Range(b) = {}
  <2>1. IsInjective(a)
    BY <1>0, <1>3, <1>8, <1>5 DEF IsInjective
  <2>2. ASSUME NEW i \in DOMAIN b, NEW k \in DOMAIN b, b[i] = b[k] PROVE i = k
    <3>1. m + i \in DOMAIN s /\ m + k \in DOMAIN s /\ s[m + i] = s[m + k]
      BY <1>0, <1>4, <1>5, <2>2
    <3>2. m + i = m + k
      BY <1>8, <3>1 DEF IsInjective
    <3> QED BY <1>0, <1>5, <3>2
  <2>3. ASSUME NEW x, x \in Range(a), x \in Range(b) PROVE FALSE
    <3>1. PICK i \in 1 .. m : x = a[i]
      BY <1>5, <2>3 DEF Range
    <3>2. PICK k \in 1 .. n - m : x = b[k]
      BY <1>5, <2>3 DEF Range
    <3>3. i \in DOMAIN s /\ m + k \in DOMAIN s
      BY <1>0, <3>1, <3>2
    <3>5. a[i] = s[i] /\ b[k] = s[m + k]
      BY <1>3, <1>4
    <3>4. i = m + k
      BY <1>8, <3>1, <3>2, <3>3, <3>5 DEF IsInjective
    <3> QED BY <1>0, <3>4
  <2> QED BY <2>1, <2>2, <2>3 DEF IsInjective
<1>9. CutInto(S, s, m, a, b)
  BY <1>0, <1>3, <1>4, <1>6, <1>7, <1>8 DEF CutInto
<1> QED BY <1>1, <1>2, <1>9

(* t is s with e put in somewhere. *)
Inserted(S, s, e, t) ==
    /\ t \in Seq(S) /\ Len(t) = Len(s) + 1
    /\ Range(t) = Range(s) \cup {e}
    /\ IsInjective(s) /\ e \notin Range(s) => IsInjective(t)

LEMMA InsertParts ==
    ASSUME NEW S, NEW s \in Seq(S), NEW i \in 1 .. Len(s) + 1, NEW e \in S
    PROVE  Inserted(S, s, e, InsertAt(s, i, e))
<1>1. PICK m \in 0 .. Len(s) : m = i - 1 /\ m + 1 = i
  OBVIOUS
<1>2. PICK a, b : a = SubSeq(s, 1, m) /\ b = SubSeq(s, m + 1, Len(s))
  OBVIOUS
<1>3. /\ a \in Seq(S) /\ Len(a) = m /\ b \in Seq(S) /\ Len(b) = Len(s) - m
      /\ Range(a) \cup Range(b) = Range(s)
      /\ IsInjective(s) => IsInjective(a) /\ IsInjective(b) /\ Range(a) \cap Range(b) = {}
  <2>1. CutInto(S, s, m, a, b)
    BY <1>1, <1>2, CutParts
  <2> QED BY <2>1 DEF CutInto
<1>4. InsertAt(s, i, e) = (a \o << e >>) \o b
  BY <1>1, <1>2 DEF InsertAt
<1>5. PICK one : one = << e >>
  OBVIOUS
<1>6. one \in Seq(S) /\ Len(one) = 1 /\ Range(one) = {e} /\ IsInjective(one)
  BY <1>5, SingleParts
<1>7. PICK c : c = a \o one
  OBVIOUS
<1>8. /\ c \in Seq(S) /\ Len(c) = m + 1 /\ Range(c) = Range(a) \cup {e}
      /\ IsInjective(a) /\ e \notin Range(a) => IsInjective(c)
  <2>1. e \notin Range(a) => Range(a) \cap Range(one) = {}
    BY <1>6
  <2>2. /\ a \o one \in Seq(S) /\ Len(a \o one) = Len(a) + Len(one)
        /\ Range(a \o one) = Range(a) \cup Range(one)
        /\ IsInjective(a) /\ IsInjective(one) /\ Range(a) \cap Range(one) = {}
              => IsInjective(a \o one)
    BY <1>3, <1>6, JoinedParts
  <2> QED BY <1>3, <1>6, <1>7, <2>1, <2>2
<1>9. /\ c \o b \in Seq(S) /\ Len(c \o b) = Len(c) + Len(b)
      /\ Range(c \o b) = Range(c) \cup Range(b)
      /\ IsInjective(c) /\ IsInjective(b) /\ Range(c) \cap Range(b) = {} => IsInjective(c \o b)
  BY <1>3, <1>8, JoinedParts
<1>10. Len(s) \in Nat
  OBVIOUS
<1>11. Range(c) \cup Range(b) = Range(s) \cup {e}
  BY <1>3, <1>8
<1>12. Len(c) + Len(b) = Len(s) + 1
  BY <1>3, <1>8, <1>10
<1>13. ASSUME IsInjective(s), e \notin Range(s) PROVE IsInjective(c \o b)
  <2>1. e \notin Range(a) /\ e \notin Range(b)
    BY <1>3, <1>13
  <2>2. Range(c) \cap Range(b) = {}
    BY <1>3, <1>8, <1>13, <2>1
  <2> QED BY <1>3, <1>8, <1>9, <1>13, <2>1, <2>2
<1>14. InsertAt(s, i, e) = c \o b
  BY <1>4, <1>5, <1>7
<1>15. Inserted(S, s, e, c \o b)
  BY <1>9, <1>11, <1>12, <1>13 DEF Inserted
<1> QED BY <1>14, <1>15

LEMMA RemoveParts ==
    ASSUME NEW S, NEW s \in Seq(S), NEW i \in 1 .. Len(s)
    PROVE  /\ RemoveAt(s, i) \in Seq(S) /\ Len(RemoveAt(s, i)) = Len(s) - 1
           /\ Range(RemoveAt(s, i)) \subseteq Range(s)
           /\ IsInjective(s) => /\ IsInjective(RemoveAt(s, i))
                                /\ Range(RemoveAt(s, i)) = Range(s) \ {s[i]}
<1>0. Len(s) \in Nat
  OBVIOUS
<1>1. PICK m \in 0 .. Len(s) : m = i - 1 /\ m + 1 = i
  BY <1>0
<1>2. PICK a, b, d : a = SubSeq(s, 1, m) /\ b = SubSeq(s, m + 1, Len(s))
                     /\ d = SubSeq(s, i + 1, Len(s))
  OBVIOUS
<1>3. /\ a \in Seq(S) /\ Len(a) = m /\ b \in Seq(S) /\ Len(b) = Len(s) - m
      /\ Range(a) \cup Range(b) = Range(s)
      /\ IsInjective(s) => IsInjective(a) /\ IsInjective(b) /\ Range(a) \cap Range(b) = {}
  <2>1. CutInto(S, s, m, a, b)
    BY <1>1, <1>2, CutParts
  <2> QED BY <2>1 DEF CutInto
<1>4. /\ d \in Seq(S) /\ Len(d) = Len(s) - i
      /\ Range(d) \subseteq Range(s)
      /\ IsInjective(s) => IsInjective(d)
  <2>1. i \in 0 .. Len(s)
    BY <1>0
  <2>2. CutInto(S, s, i, SubSeq(s, 1, i), SubSeq(s, i + 1, Len(s)))
    BY <2>1, CutParts
  <2>3. PICK c : CutInto(S, s, i, c, d)
    BY <1>2, <2>2
  <2> QED BY <2>3 DEF CutInto
<1>5. b = << s[i] >> \o d
  <2>1. Len(s) \in i .. Len(s)
    BY <1>0
  <2>2. SubSeq(s, i, Len(s)) = << s[i] >> \o SubSeq(s, i + 1, Len(s))
    BY <2>1, SubSeqRecursiveFirst
  <2> QED BY <1>1, <1>2, <2>2
<1>6. PICK one : one = << s[i] >>
  OBVIOUS
<1>7. one \in Seq(S) /\ Len(one) = 1 /\ Range(one) = {s[i]} /\ IsInjective(one)
  <2>1. s[i] \in S
    OBVIOUS
  <2> QED BY <1>6, <2>1, SingleParts
<1>8. Range(b) = {s[i]} \cup Range(d)
  <2>1. Range(one \o d) = Range(one) \cup Range(d)
    BY <1>4, <1>7, JoinedParts
  <2> QED BY <1>5, <1>6, <1>7, <2>1
<1>9. IsInjective(b) => s[i] \notin Range(d)
  <2> SUFFICES ASSUME IsInjective(b), s[i] \in Range(d) PROVE FALSE
    OBVIOUS
  <2>1. PICK k \in 1 .. Len(d) : s[i] = d[k]
    BY <1>4 DEF Range
  <2>2. 1 \in DOMAIN b /\ k + 1 \in DOMAIN b /\ b[1] = s[i] /\ b[k + 1] = d[k]
    BY <1>0, <1>1, <1>3, <1>4, <1>5, <2>1
  <2>3. 1 = k + 1
    BY <2>1, <2>2 DEF IsInjective
  <2> QED BY <2>3
<1>10. /\ a \o d \in Seq(S) /\ Len(a \o d) = Len(a) + Len(d)
       /\ Range(a \o d) = Range(a) \cup Range(d)
       /\ IsInjective(a) /\ IsInjective(d) /\ Range(a) \cap Range(d) = {} => IsInjective(a \o d)
  BY <1>3, <1>4, JoinedParts
<1>11. RemoveAt(s, i) = a \o d
  BY <1>1, <1>2 DEF RemoveAt
<1>12. Len(RemoveAt(s, i)) = Len(s) - 1
  BY <1>0, <1>1, <1>3, <1>4, <1>10, <1>11
<1> QED BY <1>3, <1>4, <1>8, <1>9, <1>10, <1>11, <1>12

LEMMA FrontParts ==
    ASSUME NEW S, NEW s \in Seq(S), s # << >>
    PROVE  /\ Front(s) \in Seq(S) /\ Len(Front(s)) = Len(s) - 1
           /\ Last(s) \in S /\ Last(s) \in Range(s)
           /\ IsInjective(s) => IsInjective(Front(s)) /\ Range(Front(s)) = Range(s) \ {Last(s)}
<1>0. Len(s) \in Nat /\ Len(s) \in 1 .. Len(s) /\ s[Len(s)] \in S /\ Len(s) \in DOMAIN s
  OBVIOUS
<1>1. Front(s) = RemoveAt(s, Len(s))
  <2>1. SubSeq(s, Len(s) + 1, Len(s)) = << >>
    BY <1>0
  <2>2. SubSeq(s, 1, Len(s) - 1) \in Seq(S)
    BY <1>0
  <2> QED BY <2>1, <2>2 DEF Front, RemoveAt
<1>2. Last(s) = s[Len(s)] /\ s[Len(s)] \in Range(s)
  BY <1>0 DEF Last, Range
<1>3. /\ RemoveAt(s, Len(s)) \in Seq(S) /\ Len(RemoveAt(s, Len(s))) = Len(s) - 1
      /\ IsInjective(s) => /\ IsInjective(RemoveAt(s, Len(s)))
                           /\ Range(RemoveAt(s, Len(s))) = Range(s) \ {s[Len(s)]}
  <2>1. PICK i \in 1 .. Len(s) : i = Len(s)
    BY <1>0
  <2>2. /\ RemoveAt(s, i) \in Seq(S) /\ Len(RemoveAt(s, i)) = Len(s) - 1
        /\ IsInjective(s) => /\ IsInjective(RemoveAt(s, i))
                             /\ Range(RemoveAt(s, i)) = Range(s) \ {s[i]}
    BY RemoveParts
  <2> QED BY <2>1, <2>2
<1> QED BY <1>0, <1>1, <1>2, <1>3

LEMMA TailParts ==
    ASSUME NEW S, NEW s \in Seq(S), s # << >>
    PROVE  /\ Tail(s) \in Seq(S) /\ Len(Tail(s)) = Len(s) - 1
           /\ Head(s) \in S /\ Head(s) \in Range(s) /\ Head(s) = s[1]
           /\ IsInjective(s) => IsInjective(Tail(s)) /\ Range(Tail(s)) = Range(s) \ {Head(s)}
<1>0. Len(s) \in Nat /\ 1 \in 1 .. Len(s) /\ s[1] \in S /\ 1 \in DOMAIN s
  OBVIOUS
<1>1. Tail(s) = RemoveAt(s, 1)
  <2>1. SubSeq(s, 1, 1 - 1) = << >>
    BY <1>0
  <2>2. Tail(s) = SubSeq(s, 2, Len(s)) /\ SubSeq(s, 2, Len(s)) \in Seq(S)
    BY <1>0
  <2> QED BY <2>1, <2>2 DEF RemoveAt
<1>2. Head(s) = s[1] /\ s[1] \in Range(s)
  BY <1>0 DEF Range
<1>3. /\ RemoveAt(s, 1) \in Seq(S) /\ Len(RemoveAt(s, 1)) = Len(s) - 1
      /\ IsInjective(s) => /\ IsInjective(RemoveAt(s, 1))
                           /\ Range(RemoveAt(s, 1)) = Range(s) \ {s[1]}
  BY <1>0, RemoveParts
<1> QED BY <1>0, <1>1, <1>2, <1>3

LEMMA ReplaceParts ==
    ASSUME NEW S, NEW s \in Seq(S), NEW i \in 1 .. Len(s), NEW e \in S
    PROVE  ReplaceAt(s, i, e) \in Seq(S) /\ Len(ReplaceAt(s, i, e)) = Len(s)
BY ExceptSeq DEF ReplaceAt

-----------------------------------------------------------------------------
(* The pages as the tree sees them, from what they hold and from where the
   writer is.  n, rt and l are the values of node, root and run[TheWriter]. *)
Entry == [key : Key, value : Value]
PageOrNone == 0 .. MaxPage

LeafNodes == [type : {"leaf"}, entries : Seq(Entry), parent : PageOrNone,
              prev : PageOrNone, next : PageOrNone]
InternalNodes == [type : {"internal"}, keys : Seq(Key), children : Seq(Page),
                  parent : PageOrNone]
Node ==
    {Freed} \cup LeafNodes
        \cup {x \in InternalNodes : Len(x.children) = Len(x.keys) + 1 /\ IsInjective(x.children)}

Locals ==
    [pc : {"idle", "find", "insert", "delete", "return", "next", "promote", "adopt",
           "root", "parent", "rebalance", "siblings", "share", "separator", "free",
           "remove", "collapse", "failed"},
     op : {"none", "insert", "delete"}, key : 0 .. MaxKey, value : Value \cup {NoValue},
     done : BOOLEAN, page : PageOrNone, right : PageOrNone, parent : PageOrNone,
     slot : Nat, sep : 0 .. MaxKey, next : PageOrNone,
     adopt : Seq(Page \X PageOrNone),
     then : {"none", "promote", "return", "root", "free", "left", "right", "collapse"}]

Typed(n, rt, l) == n \in [Page -> Node] /\ rt \in Page /\ l \in Locals

(* right is beside page, or above it, without a parent of its own. *)
Splitting(l) == l.pc = "promote" \/ (l.pc \in {"next", "adopt"} /\ l.then = "promote")
Promoting(l) == Splitting(l) \/ l.pc = "parent"

(* right has been emptied into page; parent, the old root, is on its way out. *)
Merging(l) == l.pc \in {"free", "remove"} \/ (l.pc \in {"next", "adopt"} /\ l.then = "free")
Collapsing(l) == l.pc = "collapse" \/ (l.pc = "adopt" /\ l.then = "collapse")
NewTop(l) == Collapsing(l) \/ l.pc = "root" \/ (l.pc = "adopt" /\ l.then = "root")

Live(n, l) ==
    {p \in Page : /\ n[p].type # "freed"
                  /\ ~ (Merging(l) /\ p = l.right)
                  /\ ~ (Collapsing(l) /\ p = l.parent)}

Kids(n, l) ==
    [p \in Page |-> IF n[p].type # "internal" THEN {}
                    ELSE IF Merging(l) /\ p = l.parent THEN Range(n[p].children) \ {l.right}
                    ELSE Range(n[p].children)]

Top(rt, l) == IF NewTop(l) THEN l.right ELSE rt
Loose(l) == IF Promoting(l) THEN {l.right} ELSE {}
Due(l) == IF l.pc = "adopt" THEN Range(l.adopt) ELSE {}
Parents(n) == [p \in Page |-> n[p].parent]

(* Leaves are at the bottom. *)
Ground(n, live, h) == \A p \in live : n[p].type = "leaf" => h[p] = 0

TreeOf(n, rt, l, h) ==
    /\ Tree(Live(n, l), Kids(n, l), Top(rt, l), Loose(l), Due(l), Parents(n), h)
    /\ Ground(n, Live(n, l), h)

(* page and right are neighbours under parent. *)
Neighbours(n, l) ==
    /\ l.parent \in Live(n, l) /\ n[l.parent].type = "internal"
    /\ l.slot \in 1 .. Len(n[l.parent].keys)
    /\ n[l.parent].children[l.slot] = l.page /\ n[l.parent].children[l.slot + 1] = l.right

Beside(n, l, h) ==
    /\ l.page \in Live(n, l) /\ l.page # l.right
    /\ n[l.page].parent = n[l.right].parent /\ h[l.page] = h[l.right]
    /\ \A c, q : << c, q >> \in Due(l) => q = l.right

Above(n, l, h) ==
    l.page \in Live(n, l) /\ n[l.right].parent = l.page /\ h[l.right] + 1 = h[l.page]

(* What is being asked, and what comes next. *)
Asked(l) ==
    /\ l.pc \in {"find", "insert"} => /\ l.key \in Key /\ l.op \in {"insert", "delete"}
                                      /\ l.op = "insert" => l.value \in Value
    /\ l.pc = "insert" => l.op = "insert"
    /\ l.pc = "next" => l.then \in {"promote", "free"}
    /\ l.pc = "adopt" => l.then \in {"root", "return", "promote", "free", "collapse"}
    /\ Promoting(l) \/ l.pc = "separator" => l.sep \in Key

Local(n, l, h) ==
    /\ Asked(l)
    /\ Splitting(l) => Beside(n, l, h)
    /\ l.pc = "parent" => Above(n, l, h)
    /\ l.pc = "share" \/ Merging(l) => Neighbours(n, l)
    /\ l.pc = "remove" => n[l.right].type = "freed"
    /\ l.pc = "separator" /\ n[l.parent].type = "internal" =>
          l.slot \in 1 .. Len(n[l.parent].keys)

Good(n, rt, l) ==
    /\ Typed(n, rt, l)
    /\ l.pc # "failed" => \E h : TreeOf(n, rt, l, h) /\ Local(n, l, h)

(* One writer: what it does is what run[TheWriter] says. *)
OneWriter == Writer = {TheWriter}

Inv == run = [w \in Writer |-> run[w]] /\ Good(node, root, run[TheWriter])

-----------------------------------------------------------------------------
(* Nodes *)
LEMMA LeafParts ==
    ASSUME NEW x \in Node, x.type = "leaf"
    PROVE  x \in LeafNodes
BY DEF Node, LeafNodes, InternalNodes, Freed

LEMMA InternalParts ==
    ASSUME NEW x \in Node, x.type = "internal"
    PROVE  /\ x \in InternalNodes /\ x.keys \in Seq(Key) /\ x.children \in Seq(Page)
           /\ Len(x.keys) \in Nat
           /\ Len(x.children) = Len(x.keys) + 1 /\ IsInjective(x.children)
           /\ DOMAIN x.children = 1 .. Len(x.keys) + 1
BY DEF Node, LeafNodes, InternalNodes, Freed

LEMMA NodeKinds ==
    ASSUME NEW x \in Node
    PROVE  x.type \in {"freed", "leaf", "internal"} /\ (x.type = "freed" => x = Freed)
BY DEF Node, LeafNodes, InternalNodes, Freed

LEMMA MadeLeaf ==
    ASSUME NEW e \in Seq(Entry), NEW a \in PageOrNone, NEW b \in PageOrNone,
        NEW c \in PageOrNone,
           Leaf(e, a, b, c).type # "overrun"
    PROVE  /\ Leaf(e, a, b, c) \in Node /\ Leaf(e, a, b, c).type = "leaf"
           /\ Leaf(e, a, b, c).parent = a
BY DEF Leaf, Overrun, Node, LeafNodes

FitsInternal(k, c, a) ==
    /\ k \in Seq(Key) /\ c \in Seq(Page) /\ a \in PageOrNone
    /\ Len(c) = Len(k) + 1 /\ IsInjective(c)
    /\ Internal(k, c, a).type # "overrun"

LEMMA MadeInternal ==
    ASSUME NEW k, NEW c, NEW a, FitsInternal(k, c, a)
    PROVE  /\ Internal(k, c, a) \in Node /\ Internal(k, c, a).type = "internal"
           /\ Internal(k, c, a).parent = a /\ Internal(k, c, a).children = c
           /\ Internal(k, c, a).keys = k
<1> USE DEF FitsInternal
<1>1. Internal(k, c, a) = [type |-> "internal", keys |-> k, children |-> c, parent |-> a]
  BY DEF Internal, Overrun
<1>2. [type |-> "internal", keys |-> k, children |-> c, parent |-> a] \in InternalNodes
  BY DEF InternalNodes
<1> QED BY <1>1, <1>2 DEF Node

(* Nothing of what the tree sees has changed on any page. *)
SameShape(n, n2) ==
    \A p \in Page :
       /\ n2[p].type = n[p].type
       /\ n[p].type = "internal" => n2[p].children = n[p].children
       /\ n[p].type # "freed" => n2[p].parent = n[p].parent

LEMMA StageKept ==
    ASSUME NEW n, NEW n2, NEW rt, NEW rt2, NEW l, NEW l2, NEW h,
           TreeOf(n, rt, l, h), SameShape(n, n2),
           Merging(l2) <=> Merging(l), Collapsing(l2) <=> Collapsing(l),
           Merging(l) => l2.right = l.right /\ l2.parent = l.parent,
           Collapsing(l) => l2.parent = l.parent,
           Top(rt2, l2) = Top(rt, l), Loose(l2) = Loose(l), Due(l2) = Due(l)
    PROVE  Live(n2, l2) = Live(n, l) /\ TreeOf(n2, rt2, l2, h)
<1>1. Live(n2, l2) = Live(n, l)
  BY DEF Live, SameShape
<1>2. \A p \in Live(n, l) : p \in Page /\ n[p].type # "freed"
  BY DEF Live
<1>3. \A p \in Page : Kids(n2, l2)[p] = Kids(n, l)[p]
  BY DEF Kids, SameShape
<1>4. \A p \in Live(n, l) : Parents(n2)[p] = Parents(n)[p]
  BY <1>2 DEF Parents, SameShape
<1>5. Tree(Live(n, l), Kids(n2, l2), Top(rt, l), Loose(l), Due(l), Parents(n2), h)
  <2>1. Tree(Live(n, l), Kids(n, l), Top(rt, l), Loose(l), Due(l), Parents(n), h)
    BY DEF TreeOf
  <2> QED BY <1>2, <1>3, <1>4, <2>1, SameTree
<1>6. Ground(n2, Live(n, l), h)
  BY <1>2 DEF TreeOf, Ground, SameShape
<1> QED BY <1>1, <1>5, <1>6 DEF TreeOf

(* Where nothing is under way, the tree is what the pages say. *)
Plain(l) ==
    l.pc \in {"idle", "find", "insert", "delete", "return", "rebalance", "siblings",
              "share", "separator"}

LEMMA PlainView ==
    ASSUME NEW n, NEW rt, NEW l, Plain(l)
    PROVE  /\ ~ Merging(l) /\ ~ Collapsing(l) /\ ~ Promoting(l) /\ ~ Splitting(l)
           /\ Top(rt, l) = rt /\ Loose(l) = {} /\ Due(l) = {}
           /\ Live(n, l) = {p \in Page : n[p].type # "freed"}
           /\ \A p \in Page :
                 Kids(n, l)[p] = IF n[p].type = "internal" THEN Range(n[p].children) ELSE {}
<1>1. ~ Merging(l) /\ ~ Collapsing(l) /\ ~ Promoting(l) /\ ~ Splitting(l) /\ ~ NewTop(l)
  BY DEF Plain, Merging, Collapsing, Promoting, Splitting, NewTop
<1>2. Top(rt, l) = rt /\ Loose(l) = {} /\ Due(l) = {}
  BY <1>1 DEF Top, Loose, Due, Plain
<1>3. Live(n, l) = {p \in Page : n[p].type # "freed"}
  BY <1>1 DEF Live
<1>4. \A p \in Page :
         Kids(n, l)[p] = IF n[p].type = "internal" THEN Range(n[p].children) ELSE {}
  BY <1>1 DEF Kids
<1> QED BY <1>1, <1>2, <1>3, <1>4

LEMMA PlainStep ==
    ASSUME NEW n, NEW n2, NEW rt, NEW l, NEW l2, NEW h,
           TreeOf(n, rt, l, h), SameShape(n, n2), Plain(l), Plain(l2)
    PROVE  Live(n2, l2) = Live(n, l) /\ TreeOf(n2, rt, l2, h)
BY PlainView, StageKept

LEMMA SameItself == \A n : SameShape(n, n)
BY DEF SameShape

(* The writer's step. *)
LEMMA StepsTo ==
    ASSUME OneWriter, Inv, NEW l2, run' = [run EXCEPT ![TheWriter] = l2],
           Good(node', root', l2)
    PROVE  Inv'
<1>1. TheWriter \in Writer
  BY DEF OneWriter
<1>2. run'[TheWriter] = l2 /\ run' = [w \in Writer |-> run'[w]]
  BY <1>1 DEF Inv
<1>3. Good(node', root', run'[TheWriter])
  BY <1>2
<1> QED BY <1>2, <1>3 DEF Inv

-----------------------------------------------------------------------------
(* Steps that leave every page where it is in the tree. *)
LEMMA IdleIsGood ==
    ASSUME NEW n, NEW rt, NEW l, Good(n, rt, l), Plain(l)
    PROVE  Good(n, rt, Idle)
<1>1. Idle \in Locals /\ Idle.pc = "idle"
  <2>1. << >> \in Seq(Page \X PageOrNone)
    BY EmptyParts
  <2> QED BY <2>1, BTreeConstants DEF Idle, Locals, PageOrNone
<1>2. PICK h : TreeOf(n, rt, l, h)
  BY DEF Good, Plain
<1>3. Plain(Idle)
  BY <1>1 DEF Plain
<1>4. TreeOf(n, rt, Idle, h)
  BY <1>2, <1>3, SameItself, PlainStep
<1>5. Local(n, Idle, h)
  BY <1>1, <1>3, PlainView DEF Local, Asked
<1> QED BY <1>1, <1>4, <1>5 DEF Good, Typed

LEMMA FailedIsGood ==
    ASSUME NEW n, NEW rt, NEW l, Typed(n, rt, l)
    PROVE  Good(n, rt, [Idle EXCEPT !.pc = "failed"])
<1>1. Idle \in Locals
  <2>1. << >> \in Seq(Page \X PageOrNone)
    BY EmptyParts
  <2> QED BY <2>1, BTreeConstants DEF Idle, Locals, PageOrNone
<1>2. [Idle EXCEPT !.pc = "failed"] \in Locals /\ [Idle EXCEPT !.pc = "failed"].pc = "failed"
  BY <1>1 DEF Locals
<1> QED BY <1>2 DEF Good, Typed

LEMMA CallStep ==
    ASSUME OneWriter, Inv, NEW op, NEW k \in Key, NEW v \in Value \cup {NoValue},
           op = "insert" => v \in Value, Call(TheWriter, op, k, v)
    PROVE  Inv'
<1>0. PICK l : l = run[TheWriter]
  OBVIOUS
<1>1. /\ node' = node /\ root' = root
      /\ op \in {"insert", "delete"} /\ Plain(l) /\ l.pc # "failed"
  BY <1>0, BTreeConstants DEF Call, At, Plain
<1>2. Good(node, root, l)
  BY <1>0 DEF Inv
<1>3. Typed(node, root, l)
  BY <1>2 DEF Good
<1>4. PICK h : TreeOf(node, root, l, h)
  BY <1>1, <1>2 DEF Good
<1>5. PICK l2 : l2 = [Idle EXCEPT !.pc = "find", !.op = op, !.key = k, !.value = v, !.page = root]
  OBVIOUS
<1>6. run' = [run EXCEPT ![TheWriter] = l2]
  BY <1>5 DEF Call, Continue
<1>7. l2 = [pc |-> "find", op |-> op, key |-> k, value |-> v, done |-> FALSE,
            page |-> root, right |-> 0, parent |-> 0, slot |-> 0, sep |-> 0,
            next |-> 0, adopt |-> << >>, then |-> "none"]
  BY <1>5 DEF Idle
<1>8. /\ l2 \in Locals /\ l2.pc = "find" /\ l2.op = op /\ l2.key = k /\ l2.value = v
  <2>1. << >> \in Seq(Page \X PageOrNone)
    BY EmptyParts
  <2>2. root \in PageOrNone /\ k \in 0 .. MaxKey /\ 0 \in 0 .. MaxKey /\ 0 \in PageOrNone
    BY <1>3, BTreeConstants DEF Typed, Page, PageOrNone, Key
  <2> QED BY <1>1, <1>7, <2>1, <2>2 DEF Locals
<1>9. Plain(l2)
  BY <1>8 DEF Plain
<1>10. TreeOf(node, root, l2, h)
  BY <1>1, <1>4, <1>9, SameItself, PlainStep
<1>11. Local(node, l2, h)
  BY <1>1, <1>8, <1>9, PlainView DEF Local, Asked
<1>12. Good(node', root', l2)
  BY <1>1, <1>3, <1>8, <1>10, <1>11 DEF Good, Typed
<1> QED BY <1>6, <1>12, StepsTo

LEMMA ChildIsPage ==
    ASSUME NEW rt, NEW l, Typed(node, rt, l), NEW p \in Page, node[p].type = "internal", NEW k
    PROVE  FindChild(p, k) \in Page
<1>1. node[p] \in Node
  BY DEF Typed
<1>2. PICK n \in Nat : /\ n = Len(node[p].keys) /\ DOMAIN node[p].keys = 1 .. n
                       /\ DOMAIN node[p].children = 1 .. n + 1
                       /\ node[p].children \in Seq(Page)
  BY <1>1, InternalParts
<1>3. PICK S : S = {i \in DOMAIN node[p].keys : node[p].keys[i] <= k}
  OBVIOUS
<1>4. Cardinality(S) \in 0 .. n
  <2>1. IsFiniteSet(1 .. n) /\ Cardinality(1 .. n) = n
    <3>1. 1 \in Int /\ n \in Int
      BY <1>2
    <3>2. Cardinality(1 .. n) = IF 1 > n THEN 0 ELSE n - 1 + 1
      BY <3>1, FS_Interval
    <3> QED BY <1>2, <3>1, <3>2, FS_Interval
  <2>2. S \subseteq 1 .. n
    BY <1>2, <1>3
  <2>3. IsFiniteSet(S) /\ Cardinality(S) <= Cardinality(1 .. n) /\ Cardinality(S) \in Nat
    BY <2>1, <2>2, FS_Subset, FS_CardinalityType
  <2> QED BY <2>1, <2>3
<1>5. Cardinality(S) + 1 \in 1 .. n + 1
  BY <1>2, <1>4
<1>6. node[p].children[Cardinality(S) + 1] \in Page
  BY <1>2, <1>5
<1> QED BY <1>3, <1>6 DEF FindChild

LEMMA FindStep ==
    ASSUME OneWriter, Inv, Find(TheWriter)
    PROVE  Inv'
<1>0. PICK l : l = run[TheWriter]
  OBVIOUS
<1>1. /\ node' = node /\ root' = root /\ l.pc = "find" /\ Plain(l)
  BY <1>0 DEF Find, At, Plain
<1>2. Good(node, root, l)
  BY <1>0 DEF Inv
<1>3. Typed(node, root, l) /\ l \in Locals
  BY <1>2 DEF Good, Typed
<1>4. PICK h : TreeOf(node, root, l, h) /\ Local(node, l, h)
  BY <1>1, <1>2 DEF Good
<1>5. l.key \in Key /\ l.op \in {"insert", "delete"} /\ (l.op = "insert" => l.value \in Value)
  BY <1>1, <1>4 DEF Local, Asked
<1>6. PICK l2 \in Locals : /\ run' = [run EXCEPT ![TheWriter] = l2]
                           /\ Plain(l2) /\ l2.key = l.key /\ l2.value = l.value /\ l2.op = l.op
                           /\ l2.pc = "find" \/ l2.pc = l.op
  <2>1. CASE Continue(TheWriter, [l EXCEPT !.pc = l.op])
    <3>1. PICK m : m = [l EXCEPT !.pc = l.op]
      OBVIOUS
    <3>2. /\ m \in Locals /\ m.key = l.key /\ m.value = l.value /\ m.op = l.op
          /\ m.pc = l.op
      BY <1>3, <1>5, <3>1 DEF Locals
    <3>3. Plain(m)
      BY <1>5, <3>2 DEF Plain
    <3> QED BY <2>1, <3>1, <3>2, <3>3 DEF Continue
  <2>2. CASE /\ IsInternal(l.page)
             /\ Continue(TheWriter, [l EXCEPT !.page = FindChild(l.page, l.key)])
    <3>1. PICK c : c = FindChild(l.page, l.key)
      OBVIOUS
    <3>2. c \in PageOrNone
      <4>1. c \in Page
        BY <1>3, <2>2, <3>1, ChildIsPage DEF IsInternal
      <4> QED BY <4>1 DEF Page, PageOrNone
    <3>3. PICK m : m = [l EXCEPT !.page = c]
      OBVIOUS
    <3>4. /\ m \in Locals /\ m.key = l.key /\ m.value = l.value /\ m.op = l.op
          /\ m.pc = l.pc
      BY <1>3, <3>2, <3>3 DEF Locals
    <3>5. Plain(m)
      BY <1>1, <3>4 DEF Plain
    <3> QED BY <1>1, <2>2, <3>1, <3>3, <3>4, <3>5 DEF Continue
  <2> QED BY <1>0, <2>1, <2>2 DEF Find
<1>7. TreeOf(node, root, l2, h)
  BY <1>1, <1>4, <1>6, SameItself, PlainStep
<1>8. Local(node, l2, h)
  <2>1. l2.pc = "find" \/ l2.pc = "insert" \/ l2.pc = "delete"
    BY <1>5, <1>6
  <2> QED BY <1>5, <1>6, <2>1, PlainView DEF Local, Asked
<1>9. Good(node', root', l2)
  BY <1>1, <1>3, <1>6, <1>7, <1>8 DEF Good, Typed
<1> QED BY <1>6, <1>9, StepsTo

LEMMA PlainMove ==
    ASSUME OneWriter, Inv, NEW l, l = run[TheWriter], Plain(l),
           NEW l2 \in Locals, run' = [run EXCEPT ![TheWriter] = l2], Plain(l2),
           root' = root, node' \in [Page -> Node], SameShape(node, node'),
           Asked(l2), l2.pc = "share" => Neighbours(node', l2),
           l2.pc = "separator" /\ node'[l2.parent].type = "internal" =>
              l2.slot \in 1 .. Len(node'[l2.parent].keys)
    PROVE  Inv'
<1>1. Good(node, root, l) /\ l.pc # "failed"
  BY DEF Inv, Plain
<1>2. PICK h : TreeOf(node, root, l, h)
  BY <1>1 DEF Good
<1>3. TreeOf(node', root, l2, h)
  BY <1>2, PlainStep
<1>4. Local(node', l2, h)
  <2>1. ~ Merging(l2) /\ ~ Splitting(l2) /\ l2.pc # "parent" /\ l2.pc # "remove"
    <3>1. l2.pc # "parent" /\ l2.pc # "remove"
      BY DEF Plain
    <3>2. ~ Merging(l2) /\ ~ Splitting(l2)
      BY DEF Plain, Merging, Splitting
    <3> QED BY <3>1, <3>2
  <2> QED BY <2>1 DEF Local
<1>5. Good(node', root', l2)
  BY <1>1, <1>3, <1>4 DEF Good, Typed
<1> QED BY <1>5, StepsTo

LEMMA IdleParts ==
    Idle \in Locals /\ Idle.pc = "idle" /\ Plain(Idle) /\ Asked(Idle)
<1>1. Idle \in Locals /\ Idle.pc = "idle"
  <2>1. << >> \in Seq(Page \X PageOrNone)
    BY EmptyParts
  <2> QED BY <2>1, BTreeConstants DEF Idle, Locals, PageOrNone
<1>2. Plain(Idle)
  BY <1>1 DEF Plain
<1>3. ~ Promoting(Idle)
  BY <1>1 DEF Promoting, Splitting
<1> QED BY <1>1, <1>2, <1>3 DEF Asked

(* A call returns from where nothing is under way. *)
LEMMA Returns ==
    ASSUME OneWriter, Inv, Plain(run[TheWriter]), Return(TheWriter),
           root' = root, node' \in [Page -> Node], SameShape(node, node')
    PROVE  Inv'
<1>1. run' = [run EXCEPT ![TheWriter] = Idle]
  BY DEF Return, Continue
<1>2. PICK l : l = run[TheWriter]
  OBVIOUS
<1> QED BY <1>1, <1>2, IdleParts, PlainMove

LEMMA NodesNow ==
    ASSUME Inv
    PROVE  node \in [Page -> Node] /\ root \in Page /\ run[TheWriter] \in Locals
BY DEF Inv, Good, Typed

LEMMA DoneStep ==
    ASSUME OneWriter, Inv, Done(TheWriter)
    PROVE  Inv'
<1>1. Plain(run[TheWriter]) /\ node' = node /\ root' = root /\ Return(TheWriter)
  BY DEF Done, At, Plain
<1> QED BY <1>1, NodesNow, SameItself, Returns

LEMMA RebalanceStep ==
    ASSUME OneWriter, Inv, Rebalance(TheWriter)
    PROVE  Inv'
<1>0. PICK l : l = run[TheWriter]
  OBVIOUS
<1>1. /\ Plain(l) /\ l.pc = "rebalance" /\ node' = node /\ root' = root
      /\ IsLeaf(l.page) \/ IsInternal(l.page)
  BY <1>0 DEF Rebalance, At, Plain
<1>2. l \in Locals /\ node \in [Page -> Node]
  BY <1>0, NodesNow
<1>3. CASE Return(TheWriter)
  BY <1>0, <1>1, <1>2, <1>3, SameItself, Returns
<1>4. CASE Continue(TheWriter, [l EXCEPT !.pc = "siblings", !.parent = node[l.page].parent])
  <2>1. PICK m : m = node[l.page].parent
    OBVIOUS
  <2>2. m \in PageOrNone
    <3>1. l.page \in Page /\ node[l.page] \in Node
          /\ node[l.page].type \in {"leaf", "internal"}
      BY <1>1, <1>2 DEF IsLeaf, IsInternal
    <3>2. node[l.page] \in LeafNodes \/ node[l.page] \in InternalNodes
      BY <3>1, LeafParts, InternalParts
    <3> QED BY <2>1, <3>2 DEF LeafNodes, InternalNodes
  <2>3. PICK l2 : l2 = [l EXCEPT !.pc = "siblings", !.parent = m]
    OBVIOUS
  <2>4. l2 \in Locals /\ l2.pc = "siblings"
    BY <1>2, <2>2, <2>3 DEF Locals
  <2>5. Plain(l2)
    BY <2>4 DEF Plain
  <2>6. Asked(l2)
    BY <2>4, <2>5, PlainView DEF Asked
  <2>7. run' = [run EXCEPT ![TheWriter] = l2]
    BY <1>4, <2>1, <2>3 DEF Continue
  <2> QED BY <1>0, <1>1, <1>2, <2>4, <2>5, <2>6, <2>7, SameItself, PlainMove
<1> QED BY <1>0, <1>3, <1>4 DEF Rebalance

LEMMA SiblingsStep ==
    ASSUME OneWriter, Inv, Siblings(TheWriter)
    PROVE  Inv'
<1>0. PICK l : l = run[TheWriter]
  OBVIOUS
<1>1. /\ Plain(l) /\ l.pc = "siblings" /\ node' = node /\ root' = root
      /\ l.parent \in Page /\ node[l.parent].type = "internal"
  BY <1>0 DEF Siblings, At, Plain, IsInternal
<1>2. l \in Locals /\ node \in [Page -> Node] /\ node[l.parent] \in Node
  BY <1>0, <1>1, NodesNow
<1>3. PICK n \in Nat : /\ n = Len(node[l.parent].keys)
                       /\ DOMAIN node[l.parent].children = 1 .. n + 1
                       /\ Len(node[l.parent].children) = n + 1
                       /\ node[l.parent].children \in Seq(Page)
  BY <1>1, <1>2, InternalParts
<1>4. PICK c : c = node[l.parent].children
  OBVIOUS
<1>5. PICK i \in 1 .. n + 1 :
         /\ c[i] = l.page
         /\ IF i > 1
            THEN Continue(TheWriter, [l EXCEPT !.pc = "share", !.then = "left",
                                !.page = c[i - 1], !.right = c[i], !.slot = i - 1])
            ELSE IF Len(c) > 1
            THEN Continue(TheWriter, [l EXCEPT !.pc = "share", !.then = "right",
                                !.right = c[2], !.slot = 1])
            ELSE Return(TheWriter)
  BY <1>0, <1>3, <1>4 DEF Siblings
<1>6. Page \subseteq PageOrNone
  BY DEF Page, PageOrNone
<1>7. CASE Return(TheWriter)
  BY <1>0, <1>1, <1>2, <1>7, SameItself, Returns
<1>8. ASSUME NEW j \in 1 .. n, NEW t \in {"left", "right"},
             Continue(TheWriter, [l EXCEPT !.pc = "share", !.then = t,
                                    !.page = c[j], !.right = c[j + 1], !.slot = j])
      PROVE  Inv'
  <2>1. PICK l2 : l2 = [l EXCEPT !.pc = "share", !.then = t,
                           !.page = c[j], !.right = c[j + 1], !.slot = j]
    OBVIOUS
  <2>2. c[j] \in PageOrNone /\ c[j + 1] \in PageOrNone
    <3>1. j \in 1 .. n + 1 /\ j + 1 \in 1 .. n + 1
      BY <1>3, <1>8
    <3> QED BY <1>3, <1>4, <1>6, <3>1
  <2>3. /\ l2 \in Locals /\ l2.pc = "share" /\ l2.page = c[j] /\ l2.right = c[j + 1]
        /\ l2.slot = j /\ l2.parent = l.parent
    <3>1. PICK a \in PageOrNone, b \in PageOrNone : a = c[j] /\ b = c[j + 1]
      BY <2>2
    <3>2. j \in Nat
      BY <1>3
    <3>3. l2 = [l EXCEPT !.pc = "share", !.then = t, !.page = a, !.right = b, !.slot = j]
      BY <2>1, <3>1
    <3>4. /\ l2 \in Locals /\ l2.pc = "share" /\ l2.page = a /\ l2.right = b
          /\ l2.slot = j /\ l2.parent = l.parent
      BY <1>2, <3>2, <3>3 DEF Locals
    <3> QED BY <3>1, <3>4
  <2>4. Plain(l2)
    BY <2>3 DEF Plain
  <2>5. Asked(l2)
    BY <2>3, <2>4, PlainView DEF Asked
  <2>6. Neighbours(node, l2)
    <3>1. Live(node, l2) = {p \in Page : node[p].type # "freed"}
      BY <2>4, PlainView
    <3> QED BY <1>1, <1>3, <1>4, <2>3, <3>1 DEF Neighbours
  <2>7. run' = [run EXCEPT ![TheWriter] = l2]
    BY <1>8, <2>1 DEF Continue
  <2> QED BY <1>0, <1>1, <1>2, <2>3, <2>4, <2>5, <2>6, <2>7, SameItself, PlainMove
<1>9. CASE i > 1
  <2>1. i - 1 \in 1 .. n /\ (i - 1) + 1 = i
    BY <1>3, <1>9
  <2> QED BY <1>5, <1>8, <1>9, <2>1
<1>10. CASE ~ (i > 1) /\ Len(c) > 1
  <2>1. i = 1 /\ 1 \in 1 .. n /\ c[1] = l.page /\ 1 + 1 = 2
    BY <1>3, <1>4, <1>5, <1>10
  <2>2. [l EXCEPT !.pc = "share", !.then = "right", !.right = c[2], !.slot = 1]
        = [l EXCEPT !.pc = "share", !.then = "right", !.page = c[1], !.right = c[2], !.slot = 1]
    BY <1>2, <2>1 DEF Locals
  <2> QED BY <1>5, <1>8, <1>10, <2>1, <2>2
<1> QED BY <1>5, <1>7, <1>9, <1>10

(* How many places of a sequence there are of some kind. *)
LEMMA CountIn ==
    ASSUME NEW n \in Nat, NEW S, S \subseteq 1 .. n
    PROVE  Cardinality(S) \in 0 .. n /\ (S # 1 .. n => Cardinality(S) \in 0 .. n - 1)
<1>1. IsFiniteSet(1 .. n) /\ Cardinality(1 .. n) = n
  <2>1. Cardinality(1 .. n) = IF 1 > n THEN 0 ELSE n - 1 + 1
    BY FS_Interval
  <2> QED BY <2>1, FS_Interval
<1>2. /\ IsFiniteSet(S) /\ Cardinality(S) <= n /\ Cardinality(S) \in Nat
      /\ Cardinality(S) = n => S = 1 .. n
  BY <1>1, FS_Subset, FS_CardinalityType
<1> QED BY <1>2

LEMMA PlaceIn ==
    ASSUME NEW e \in Seq(Entry), NEW k \in Key
    PROVE  /\ Before(e, k) + 1 \in 1 .. Len(e) + 1
           /\ Holds(e, k) => Before(e, k) + 1 \in 1 .. Len(e)
<1>1. PICK n \in Nat : n = Len(e) /\ DOMAIN e = 1 .. n
  OBVIOUS
<1>2. PICK S : S = {i \in DOMAIN e : e[i].key < k}
  OBVIOUS
<1>3. S \subseteq 1 .. n
  BY <1>1, <1>2
<1>4. Holds(e, k) => S # 1 .. n
  <2> SUFFICES ASSUME NEW i \in DOMAIN e, e[i].key = k PROVE i \notin S
    BY <1>1 DEF Holds
  <2>1. ~ (k < k)
    BY DEF Key
  <2> QED BY <1>2, <2>1
<1>5. Cardinality(S) \in 0 .. n /\ (Holds(e, k) => Cardinality(S) \in 0 .. n - 1)
  BY <1>1, <1>3, <1>4, CountIn
<1>6. Before(e, k) = Cardinality(S)
  BY <1>2 DEF Before
<1> QED BY <1>1, <1>5, <1>6

LEMMA WithParts ==
    ASSUME NEW e \in Seq(Entry), NEW k \in Key, NEW v \in Value
    PROVE  /\ With(e, k, v) \in Seq(Entry)
           /\ Len(With(e, k, v)) = IF Holds(e, k) THEN Len(e) ELSE Len(e) + 1
<1>1. PICK x \in Entry : x = [key |-> k, value |-> v]
  BY DEF Entry
<1>2. PICK i : i = Before(e, k) + 1
  OBVIOUS
<1>3. i \in 1 .. Len(e) + 1 /\ (Holds(e, k) => i \in 1 .. Len(e))
  BY <1>2, PlaceIn
<1>4. With(e, k, v) = IF Holds(e, k) THEN ReplaceAt(e, i, x) ELSE InsertAt(e, i, x)
  BY <1>1, <1>2 DEF With
<1>5. InsertAt(e, i, x) \in Seq(Entry) /\ Len(InsertAt(e, i, x)) = Len(e) + 1
  BY <1>3, InsertParts DEF Inserted
<1>6. Holds(e, k) => ReplaceAt(e, i, x) \in Seq(Entry) /\ Len(ReplaceAt(e, i, x)) = Len(e)
  BY <1>3, ReplaceParts
<1> QED BY <1>4, <1>5, <1>6

LEMMA WithoutParts ==
    ASSUME NEW e \in Seq(Entry), NEW k \in Key, Holds(e, k)
    PROVE  Without(e, k) \in Seq(Entry) /\ Len(Without(e, k)) = Len(e) - 1
BY PlaceIn, RemoveParts DEF Without

LEMMA InsertInPlaceStep ==
    ASSUME OneWriter, Inv, InsertInPlace(TheWriter)
    PROVE  Inv'
<1>0. PICK l : l = run[TheWriter]
  OBVIOUS
<1>1. PICK e : e = With(node[l.page].entries, l.key, l.value)
  OBVIOUS
<1>2. /\ Plain(l) /\ l.pc = "insert" /\ root' = root
      /\ l.page \in Page /\ node[l.page].type = "leaf"
      /\ node' = [node EXCEPT ![l.page].entries = e]
      /\ Continue(TheWriter, [l EXCEPT !.done = TRUE, !.pc = "return"])
  BY <1>0, <1>1 DEF InsertInPlace, At, Plain, IsLeaf, Entries
<1>3. l \in Locals /\ node \in [Page -> Node] /\ node[l.page] \in LeafNodes
  BY <1>0, <1>2, NodesNow, LeafParts
<1>4. e \in Seq(Entry)
  <2>1. PICK h : Local(node, l, h)
    BY <1>0, <1>2 DEF Inv, Good
  <2>2. l.key \in Key /\ l.value \in Value
    BY <1>2, <2>1 DEF Local, Asked
  <2>3. node[l.page].entries \in Seq(Entry)
    BY <1>3 DEF LeafNodes
  <2> QED BY <1>1, <2>2, <2>3, WithParts
<1>5. node' \in [Page -> Node] /\ SameShape(node, node')
  <2>1. PICK x : x = [node[l.page] EXCEPT !.entries = e]
    OBVIOUS
  <2>2. x \in LeafNodes /\ x.type = "leaf" /\ x.parent = node[l.page].parent
    BY <1>3, <1>4, <2>1 DEF LeafNodes
  <2>3. node' = [node EXCEPT ![l.page] = x] /\ x \in Node
    BY <1>2, <2>1, <2>2 DEF Node
  <2> QED BY <1>2, <1>3, <2>2, <2>3 DEF SameShape
<1>6. PICK l2 : l2 = [l EXCEPT !.done = TRUE, !.pc = "return"]
  OBVIOUS
<1>7. l2 \in Locals /\ l2.pc = "return" /\ run' = [run EXCEPT ![TheWriter] = l2]
  BY <1>2, <1>3, <1>6 DEF Locals, Continue
<1>8. Plain(l2) /\ Asked(l2)
  <2>1. Plain(l2)
    BY <1>7 DEF Plain
  <2> QED BY <1>7, <2>1, PlainView DEF Asked
<1> QED BY <1>0, <1>2, <1>5, <1>7, <1>8, PlainMove

LEMMA RemoveKeyStep ==
    ASSUME OneWriter, Inv, RemoveKey(TheWriter)
    PROVE  Inv'
<1>0. PICK l : l = run[TheWriter]
  OBVIOUS
<1>1. PICK e : e = IF Holds(node[l.page].entries, l.key)
                   THEN Without(node[l.page].entries, l.key) ELSE node[l.page].entries
  OBVIOUS
<1>2. PICK pc \in {"rebalance", "return"} :
         /\ Plain(l) /\ l.pc = "delete" /\ root' = root
         /\ l.page \in Page /\ node[l.page].type = "leaf"
         /\ node' = [node EXCEPT ![l.page].entries = e]
         /\ Continue(TheWriter, [l EXCEPT !.done = TRUE, !.pc = pc])
  BY <1>0, <1>1 DEF RemoveKey, At, Plain, IsLeaf
<1>3. l \in Locals /\ node \in [Page -> Node] /\ node[l.page] \in LeafNodes
  BY <1>0, <1>2, NodesNow, LeafParts
<1>4. e \in Seq(Entry)
  <2>1. node[l.page].entries \in Seq(Entry)
    BY <1>3 DEF LeafNodes
  <2>2. CASE Holds(node[l.page].entries, l.key)
    <3>1. PICK s \in Seq(Entry) : s = node[l.page].entries
      BY <2>1
    <3>2. PICK i \in DOMAIN s : s[i].key = l.key
      BY <2>2, <3>1 DEF Holds
    <3>3. s[i] \in Entry
      BY <3>1, <3>2
    <3>4. l.key \in Key
      BY <3>2, <3>3 DEF Entry
    <3> QED BY <1>1, <2>1, <2>2, <3>4, WithoutParts
  <2> QED BY <1>1, <2>1, <2>2
<1>5. node' \in [Page -> Node] /\ SameShape(node, node')
  <2>1. PICK x : x = [node[l.page] EXCEPT !.entries = e]
    OBVIOUS
  <2>2. x \in LeafNodes /\ x.type = "leaf" /\ x.parent = node[l.page].parent
    BY <1>3, <1>4, <2>1 DEF LeafNodes
  <2>3. node' = [node EXCEPT ![l.page] = x] /\ x \in Node
    BY <1>2, <2>1, <2>2 DEF Node
  <2> QED BY <1>2, <1>3, <2>2, <2>3 DEF SameShape
<1>6. PICK l2 : l2 = [l EXCEPT !.done = TRUE, !.pc = pc]
  OBVIOUS
<1>7. l2 \in Locals /\ l2.pc = pc /\ run' = [run EXCEPT ![TheWriter] = l2]
  BY <1>2, <1>3, <1>6 DEF Locals, Continue
<1>8. Plain(l2) /\ Asked(l2)
  <2>1. Plain(l2)
    BY <1>2, <1>7 DEF Plain
  <2> QED BY <1>2, <1>7, <2>1, PlainView DEF Asked
<1>9. l2.pc # "share" /\ l2.pc # "separator"
  BY <1>2, <1>7
<1> QED BY <1>0, <1>2, <1>5, <1>7, <1>8, <1>9, PlainMove

(* Neighbours are two children of one node, and it is their parent. *)
LEMMA NeighbourParts ==
    ASSUME NEW n, NEW rt, NEW l, NEW h, Typed(n, rt, l), TreeOf(n, rt, l, h),
           Plain(l), Neighbours(n, l)
    PROVE  /\ l.parent \in Page /\ l.page \in Live(n, l) /\ l.right \in Live(n, l)
           /\ l.page \in Page /\ l.right \in Page
           /\ l.page # l.right /\ l.parent # l.page /\ l.parent # l.right
           /\ n[l.page].parent = l.parent /\ n[l.right].parent = l.parent
           /\ l.page \in Kids(n, l)[l.parent] /\ l.right \in Kids(n, l)[l.parent]
           /\ h[l.page] = h[l.right]
<1>1. l.parent \in Page /\ n[l.parent] \in Node /\ n[l.parent].type = "internal"
  BY DEF Neighbours, Live, Typed
<1>2. PICK k \in Nat : /\ k = Len(n[l.parent].keys)
                       /\ DOMAIN n[l.parent].children = 1 .. k + 1
                       /\ n[l.parent].children \in Seq(Page) /\ IsInjective(n[l.parent].children)
  BY <1>1, InternalParts
<1>3. PICK c : c = n[l.parent].children
  OBVIOUS
<1>4. /\ l.slot \in 1 .. k + 1 /\ l.slot + 1 \in 1 .. k + 1 /\ l.slot # l.slot + 1
      /\ c[l.slot] = l.page /\ c[l.slot + 1] = l.right
  BY <1>2, <1>3 DEF Neighbours
<1>5. l.page # l.right
  BY <1>2, <1>3, <1>4 DEF IsInjective
<1>6. Kids(n, l)[l.parent] = Range(c)
  BY <1>1, <1>3, PlainView
<1>7. l.page \in Kids(n, l)[l.parent] /\ l.right \in Kids(n, l)[l.parent]
  BY <1>2, <1>3, <1>4, <1>6 DEF Range
<1>8. Tree(Live(n, l), Kids(n, l), rt, {}, {}, Parents(n), h)
  BY PlainView DEF TreeOf
<1>9. l.parent \in Live(n, l)
  BY DEF Neighbours
<1>10. /\ l.page \in Live(n, l) /\ l.right \in Live(n, l)
       /\ l.parent # l.page /\ l.parent # l.right
  BY <1>7, <1>8, <1>9, NotOwnKid
<1>11. Live(n, l) \subseteq Page
  BY DEF Live
<1>12. Parents(n)[l.page] = l.parent /\ Parents(n)[l.right] = l.parent
  BY <1>7, <1>8, <1>9 DEF Tree, Named
<1>13. n[l.page].parent = l.parent /\ n[l.right].parent = l.parent
  BY <1>10, <1>11, <1>12 DEF Parents
<1>14. h[l.page] = h[l.right]
  <2>1. h[l.page] + 1 = h[l.parent] /\ h[l.right] + 1 = h[l.parent]
        /\ h[l.page] \in Nat /\ h[l.right] \in Nat
    BY <1>7, <1>8, <1>9, <1>10, <1>11 DEF Tree, Layered
  <2> QED BY <2>1
<1> QED BY <1>1, <1>5, <1>7, <1>10, <1>11, <1>13, <1>14

(* One entry changes sides. *)
LEMMA SharedParts ==
    ASSUME NEW w, L(w).entries \in Seq(Entry), R(w).entries \in Seq(Entry), CanShare(w)
    PROVE  /\ SharedLeft(w) \in Seq(Entry) /\ SharedRight(w) \in Seq(Entry)
           /\ NewSeparator(w) \in Key
           /\ FromLeft(w) => /\ Len(SharedLeft(w)) = Len(L(w).entries) - 1
                             /\ Len(SharedRight(w)) = Len(R(w).entries) + 1
           /\ ~ FromLeft(w) => /\ Len(SharedLeft(w)) = Len(L(w).entries) + 1
                               /\ Len(SharedRight(w)) = Len(R(w).entries) - 1
<1>1. PICK a \in Seq(Entry), b \in Seq(Entry) : a = L(w).entries /\ b = R(w).entries
  OBVIOUS
<1>2. CASE FromLeft(w)
  <2>1. Len(a) > 1
    BY <1>1, <1>2 DEF CanShare
  <2>2. a # << >>
    BY <2>1
  <2>3. Front(a) \in Seq(Entry) /\ Len(Front(a)) = Len(a) - 1 /\ Last(a) \in Entry
    BY <2>2, FrontParts
  <2>4. PICK x \in Entry : x = Last(a)
    BY <2>3
  <2>5. /\ << x >> \o b \in Seq(Entry) /\ Len(<< x >> \o b) = Len(b) + 1
        /\ (<< x >> \o b)[1] = x
    OBVIOUS
  <2>6. SharedLeft(w) = Front(a) /\ SharedRight(w) = << x >> \o b
    BY <1>1, <1>2, <2>4 DEF SharedLeft, SharedRight
  <2>7. NewSeparator(w) = x.key /\ x.key \in Key
    BY <2>5, <2>6 DEF NewSeparator, Entry
  <2> QED BY <1>1, <1>2, <2>3, <2>5, <2>6, <2>7
<1>3. CASE ~ FromLeft(w)
  <2>1. Len(b) > 1
    BY <1>1, <1>3 DEF CanShare
  <2>2. b # << >>
    BY <2>1
  <2>3. /\ Tail(b) \in Seq(Entry) /\ Len(Tail(b)) = Len(b) - 1 /\ Head(b) \in Entry
    BY <2>2, TailParts
  <2>4. PICK t \in Seq(Entry), x \in Entry : t = Tail(b) /\ x = Head(b)
    BY <2>3
  <2>5. Append(a, x) \in Seq(Entry) /\ Len(Append(a, x)) = Len(a) + 1
    OBVIOUS
  <2>6. SharedLeft(w) = Append(a, x) /\ SharedRight(w) = t
    BY <1>1, <1>3, <2>4 DEF SharedLeft, SharedRight
  <2>7. NewSeparator(w) \in Key
    <3>1. 1 \in 1 .. Len(t)
      BY <2>1, <2>3, <2>4
    <3>2. t[1] \in Entry
      BY <3>1
    <3> QED BY <2>6, <3>2 DEF NewSeparator, Entry
  <2> QED BY <1>1, <1>3, <2>3, <2>4, <2>5, <2>6, <2>7
<1> QED BY <1>2, <1>3

LEMMA ShareLeavesStep ==
    ASSUME OneWriter, Inv, NeverOverrun', ShareLeaves(TheWriter)
    PROVE  Inv'
<1>0. PICK l : l = run[TheWriter]
  OBVIOUS
<1>1. /\ Plain(l) /\ l.pc = "share" /\ root' = root /\ l.pc # "failed"
      /\ l.page \in Page /\ node[l.page].type = "leaf"
      /\ l.right \in Page /\ node[l.right].type = "leaf"
      /\ CanShare(TheWriter)
  BY <1>0 DEF ShareLeaves, At, Plain, IsLeaf
<1>2. /\ l \in Locals /\ node \in [Page -> Node] /\ Typed(node, root, l)
      /\ node[l.page] \in LeafNodes /\ node[l.right] \in LeafNodes
  BY <1>0, <1>1, NodesNow, LeafParts DEF Typed
<1>3. PICK h : TreeOf(node, root, l, h) /\ Local(node, l, h)
  BY <1>0, <1>1 DEF Inv, Good
<1>4. Neighbours(node, l)
  BY <1>1, <1>3 DEF Local
<1>5. /\ l.page # l.right /\ l.parent \in Page /\ l.parent # l.page /\ l.parent # l.right
      /\ node[l.page].parent = l.parent /\ node[l.right].parent = l.parent
  BY <1>1, <1>2, <1>3, <1>4, NeighbourParts
<1>6. PICK a \in Seq(Entry), b \in Seq(Entry), s \in Key :
         a = SharedLeft(TheWriter) /\ b = SharedRight(TheWriter) /\ s = NewSeparator(TheWriter)
  <2>1. L(TheWriter).entries \in Seq(Entry) /\ R(TheWriter).entries \in Seq(Entry)
    BY <1>0, <1>2 DEF L, R, LeafNodes
  <2> QED BY <1>1, <2>1, SharedParts
<1>7. PICK x, y : /\ x = Leaf(a, l.parent, node[l.page].prev, l.right)
                  /\ y = Leaf(b, l.parent, l.page, node[l.right].next)
  OBVIOUS
<1>8. /\ node' = [node EXCEPT ![l.page] = x, ![l.right] = y]
      /\ Continue(TheWriter, [l EXCEPT !.pc = "separator", !.sep = s])
  <2>1. /\ node' = [node EXCEPT
              ![l.page] = Leaf(SharedLeft(TheWriter), l.parent, @.prev, l.right),
              ![l.right] = Leaf(SharedRight(TheWriter), l.parent, l.page, @.next)]
        /\ Continue(TheWriter, [l EXCEPT !.pc = "separator", !.sep = NewSeparator(TheWriter)])
    BY <1>0 DEF ShareLeaves
  <2> QED BY <1>2, <1>5, <1>6, <1>7, <2>1
<1>9. node'[l.page] = x /\ node'[l.right] = y
      /\ \A p \in Page : p # l.page /\ p # l.right => node'[p] = node[p]
  BY <1>1, <1>2, <1>5, <1>8
<1>10. x.type # "overrun" /\ y.type # "overrun"
  BY <1>1, <1>9 DEF NeverOverrun
<1>11. /\ x \in Node /\ x.type = "leaf" /\ x.parent = l.parent
       /\ y \in Node /\ y.type = "leaf" /\ y.parent = l.parent
  <2>1. /\ node[l.page].prev \in PageOrNone /\ node[l.right].next \in PageOrNone
        /\ l.parent \in PageOrNone /\ l.page \in PageOrNone /\ l.right \in PageOrNone
    BY <1>2 DEF LeafNodes, Locals
  <2> QED BY <1>7, <1>10, <2>1, MadeLeaf
<1>12. node' \in [Page -> Node] /\ SameShape(node, node')
  <2>1. node' \in [Page -> Node]
    BY <1>1, <1>2, <1>8, <1>11
  <2> QED BY <1>1, <1>5, <1>9, <1>11, <2>1 DEF SameShape
<1>13. PICK l2 : l2 = [l EXCEPT !.pc = "separator", !.sep = s]
  OBVIOUS
<1>14. /\ l2 \in Locals /\ l2.pc = "separator" /\ l2.sep = s /\ l2.slot = l.slot
       /\ l2.parent = l.parent /\ run' = [run EXCEPT ![TheWriter] = l2]
  <2>1. s \in 0 .. MaxKey
    BY <1>6 DEF Key
  <2> QED BY <1>2, <1>8, <1>13, <2>1 DEF Locals, Continue
<1>15. Plain(l2) /\ Asked(l2)
  <2>1. Plain(l2)
    BY <1>14 DEF Plain
  <2> QED BY <1>6, <1>14, <2>1, PlainView DEF Asked
<1>16. l2.slot \in 1 .. Len(node'[l2.parent].keys)
  BY <1>4, <1>5, <1>9, <1>14 DEF Neighbours
<1> QED BY <1>0, <1>1, <1>12, <1>14, <1>15, <1>16, PlainMove

LEMMA SetSeparatorStep ==
    ASSUME OneWriter, Inv, NeverOverrun', SetSeparator(TheWriter)
    PROVE  Inv'
<1>0. PICK l : l = run[TheWriter]
  OBVIOUS
<1>1. /\ Plain(l) /\ l.pc = "separator" /\ root' = root /\ l.pc # "failed"
      /\ l.parent \in Page /\ node[l.parent].type = "internal" /\ Return(TheWriter)
  BY <1>0 DEF SetSeparator, At, Plain, IsInternal
<1>2. l \in Locals /\ node \in [Page -> Node] /\ node[l.parent] \in Node
  BY <1>0, <1>1, NodesNow
<1>3. PICK h : Local(node, l, h)
  BY <1>0, <1>1 DEF Inv, Good
<1>4. l.slot \in 1 .. Len(node[l.parent].keys) /\ l.sep \in Key
  BY <1>1, <1>3 DEF Local, Asked
<1>5. PICK k \in Seq(Key), c \in Seq(Page), a \in PageOrNone :
         /\ k = node[l.parent].keys /\ c = node[l.parent].children /\ a = node[l.parent].parent
         /\ Len(c) = Len(k) + 1 /\ IsInjective(c)
  BY <1>1, <1>2, InternalParts DEF InternalNodes
<1>6. PICK k2 \in Seq(Key) : k2 = ReplaceAt(k, l.slot, l.sep) /\ Len(k2) = Len(k)
  BY <1>4, <1>5, ReplaceParts
<1>7. PICK x : x = Internal(k2, c, a)
  OBVIOUS
<1>8. node' = [node EXCEPT ![l.parent] = x]
  BY <1>0, <1>5, <1>6, <1>7 DEF SetSeparator
<1>9. node'[l.parent] = x /\ \A p \in Page : p # l.parent => node'[p] = node[p]
  BY <1>1, <1>2, <1>8
<1>10. x \in Node /\ x.type = "internal" /\ x.parent = a /\ x.children = c
  <2>1. x.type # "overrun"
    BY <1>1, <1>9 DEF NeverOverrun
  <2>2. Len(c) = Len(k2) + 1
    BY <1>5, <1>6
  <2>3. FitsInternal(k2, c, a)
    BY <1>5, <1>7, <2>1, <2>2 DEF FitsInternal
  <2> QED BY <1>7, <2>3, MadeInternal
<1>11. node' \in [Page -> Node] /\ SameShape(node, node')
  <2>1. node' \in [Page -> Node]
    BY <1>1, <1>2, <1>8, <1>10
  <2> QED BY <1>1, <1>5, <1>9, <1>10, <2>1 DEF SameShape
<1> QED BY <1>0, <1>1, <1>11, Returns

-----------------------------------------------------------------------------
(* Steps that finish what another one has begun. *)
LEMMA FailStep ==
    ASSUME OneWriter, Inv, Fail(TheWriter)
    PROVE  Inv'
<1>1. PICK l2 : l2 = [Idle EXCEPT !.pc = "failed"]
  OBVIOUS
<1>2. run' = [run EXCEPT ![TheWriter] = l2] /\ node' = node /\ root' = root
  BY <1>1 DEF Fail, Continue
<1>3. Good(node', root', l2)
  <2>1. Typed(node, root, run[TheWriter])
    BY NodesNow DEF Typed
  <2> QED BY <1>1, <1>2, <2>1, FailedIsGood
<1> QED BY <1>2, <1>3, StepsTo

LEMMA StoreRootStep ==
    ASSUME OneWriter, Inv, StoreRoot(TheWriter)
    PROVE  Inv'
<1>0. PICK l : l = run[TheWriter]
  OBVIOUS
<1>1. l.pc = "root" /\ node' = node /\ root' = l.right
      /\ run' = [run EXCEPT ![TheWriter] = Idle]
  BY <1>0 DEF StoreRoot, At, Return, Continue
<1>2. l \in Locals /\ node \in [Page -> Node]
  BY <1>0, NodesNow
<1>3. PICK h : TreeOf(node, root, l, h)
  BY <1>0, <1>1 DEF Inv, Good
<1>4. /\ ~ Merging(l) /\ ~ Collapsing(l) /\ ~ Promoting(l) /\ NewTop(l)
  BY <1>1 DEF Merging, Collapsing, Promoting, Splitting, NewTop
<1>5. Top(root, l) = l.right /\ Loose(l) = {} /\ Due(l) = {}
  BY <1>1, <1>4 DEF Top, Loose, Due
<1>6. TreeOf(node, l.right, Idle, h)
  BY <1>3, <1>4, <1>5, SameItself, IdleParts, PlainView, StageKept
<1>7. l.right \in Page
  <2>1. l.right \in Live(node, l)
    BY <1>3, <1>5 DEF TreeOf, Tree, Linked
  <2> QED BY <2>1 DEF Live
<1>8. Local(node, Idle, h)
  <2>1. ~ Merging(Idle) /\ ~ Splitting(Idle)
    BY IdleParts DEF Merging, Splitting
  <2> QED BY <2>1, IdleParts DEF Local
<1>9. Good(node', root', Idle)
  BY <1>1, <1>2, <1>6, <1>7, <1>8, IdleParts DEF Good, Typed
<1> QED BY <1>1, <1>9, StepsTo

LEMMA ToParentStep ==
    ASSUME OneWriter, Inv, ToParent(TheWriter)
    PROVE  Inv'
<1>0. PICK l : l = run[TheWriter]
  OBVIOUS
<1>1. PICK p : p = node[l.page].parent
  OBVIOUS
<1>2. /\ l.pc = "promote" /\ node' = node /\ root' = root
      /\ l.page # root /\ p # 0
      /\ run' = [run EXCEPT ![TheWriter] = [l EXCEPT !.pc = "parent", !.page = p]]
  BY <1>0, <1>1 DEF ToParent, At, IsRoot, Continue
<1>3. l \in Locals /\ node \in [Page -> Node] /\ root \in Page
  BY <1>0, NodesNow
<1>4. PICK h : TreeOf(node, root, l, h) /\ Local(node, l, h)
  BY <1>0, <1>2 DEF Inv, Good
<1>5. ~ Merging(l) /\ ~ Collapsing(l) /\ Promoting(l) /\ Splitting(l) /\ ~ NewTop(l)
  BY <1>2 DEF Merging, Collapsing, Promoting, Splitting, NewTop
<1>6. Top(root, l) = root /\ Loose(l) = {l.right} /\ Due(l) = {}
  BY <1>2, <1>5 DEF Top, Loose, Due
<1>7. /\ l.page \in Live(node, l) /\ l.page # l.right
      /\ node[l.page].parent = node[l.right].parent /\ h[l.page] = h[l.right]
  BY <1>4, <1>5 DEF Local, Beside
<1>8. Tree(Live(node, l), Kids(node, l), root, {l.right}, {}, Parents(node), h)
  BY <1>4, <1>6 DEF TreeOf
<1>9. Parents(node)[l.page] = p
  BY <1>1, <1>7 DEF Parents, Live
<1>10. p \in Live(node, l) /\ l.page \in Kids(node, l)[p]
  BY <1>2, <1>7, <1>8, <1>9, ParentIsLive
<1>11. h[l.page] + 1 = h[p]
  BY <1>8, <1>10 DEF Tree, Layered
<1>12. PICK l2 : l2 = [l EXCEPT !.pc = "parent", !.page = p]
  OBVIOUS
<1>13. /\ l2 \in Locals /\ l2.pc = "parent" /\ l2.page = p /\ l2.right = l.right
       /\ l2.sep = l.sep
  <2>1. p \in PageOrNone
    BY <1>10 DEF Live, Page, PageOrNone
  <2> QED BY <1>3, <1>12, <2>1 DEF Locals
<1>14. /\ ~ Merging(l2) /\ ~ Collapsing(l2) /\ Promoting(l2) /\ ~ Splitting(l2) /\ ~ NewTop(l2)
  BY <1>13 DEF Merging, Collapsing, Promoting, Splitting, NewTop
<1>15. Top(root, l2) = root /\ Loose(l2) = {l.right} /\ Due(l2) = {}
  BY <1>13, <1>14 DEF Top, Loose, Due
<1>16. Live(node, l2) = Live(node, l) /\ TreeOf(node, root, l2, h)
  BY <1>4, <1>5, <1>6, <1>14, <1>15, SameItself, StageKept
<1>17. Local(node, l2, h)
  <2>1. Above(node, l2, h)
    BY <1>1, <1>7, <1>10, <1>11, <1>13, <1>16 DEF Above
  <2>2. Asked(l2)
    <3>1. l.sep \in Key
      BY <1>4, <1>5 DEF Local, Asked
    <3> QED BY <1>13, <3>1 DEF Asked
  <2> QED BY <1>13, <1>14, <2>1, <2>2 DEF Local
<1>18. Good(node', root', l2)
  BY <1>2, <1>3, <1>13, <1>16, <1>17 DEF Good, Typed
<1> QED BY <1>2, <1>12, <1>18, StepsTo

(* What the writer knows of its pages outlives a step that leaves them as they
   are. *)
LEMMA BesideKept ==
    ASSUME NEW n, NEW n2, NEW l, NEW l2, NEW h,
           SameShape(n, n2), Beside(n, l, h), l.right \in Live(n, l),
           Live(n2, l2) = Live(n, l), l2.page = l.page, l2.right = l.right,
           Due(l2) \subseteq Due(l)
    PROVE  Beside(n2, l2, h)
<1>1. /\ l.page \in Page /\ n[l.page].type # "freed"
      /\ l.right \in Page /\ n[l.right].type # "freed"
  BY DEF Beside, Live
<1>2. n2[l.page].parent = n[l.page].parent /\ n2[l.right].parent = n[l.right].parent
  BY <1>1 DEF SameShape
<1> QED BY <1>2 DEF Beside

LEMMA NeighboursKept ==
    ASSUME NEW n, NEW n2, NEW l, NEW l2,
           Neighbours(n, l), Live(n2, l2) = Live(n, l),
           l2.page = l.page, l2.right = l.right, l2.parent = l.parent, l2.slot = l.slot,
           n2[l.parent].type = n[l.parent].type,
           n2[l.parent].keys = n[l.parent].keys,
           n2[l.parent].children = n[l.parent].children
    PROVE  Neighbours(n2, l2)
BY DEF Neighbours

(* The loose page is in the tree. *)
LEMMA LooseIsLive ==
    ASSUME NEW n, NEW rt, NEW l, NEW h, TreeOf(n, rt, l, h), Promoting(l)
    PROVE  l.right \in Live(n, l)
BY DEF TreeOf, Tree, Linked, Loose

LEMMA FixNextStep ==
    ASSUME OneWriter, Inv, FixNext(TheWriter)
    PROVE  Inv'
<1>0. PICK l : l = run[TheWriter]
  OBVIOUS
<1>1. PICK prev : prev = IF l.op = "insert" THEN l.right ELSE l.page
  OBVIOUS
<1>2. /\ l.pc = "next" /\ root' = root
      /\ \/ node' = node
         \/ /\ l.next \in Page /\ node[l.next].type = "leaf"
            /\ node' = [node EXCEPT ![l.next].prev = prev]
      /\ run' = [run EXCEPT ![TheWriter] = [l EXCEPT !.next = 0, !.pc = l.then]]
  BY <1>0, <1>1 DEF FixNext, At, IsLeaf, Continue
<1>3. l \in Locals /\ node \in [Page -> Node] /\ root \in Page
  BY <1>0, NodesNow
<1>4. PICK h : TreeOf(node, root, l, h) /\ Local(node, l, h)
  BY <1>0, <1>2 DEF Inv, Good
<1>5. l.then \in {"promote", "free"}
  BY <1>2, <1>4 DEF Local, Asked
<1>6. /\ node' \in [Page -> Node] /\ SameShape(node, node')
      /\ \A p \in Page : node[p].type = "internal" => node'[p] = node[p]
  <2>1. CASE node' = node
    BY <1>3, <2>1, SameItself
  <2>2. CASE /\ l.next \in Page /\ node[l.next].type = "leaf"
             /\ node' = [node EXCEPT ![l.next].prev = prev]
    <3>1. prev \in PageOrNone
      BY <1>1, <1>3 DEF Locals
    <3>2. PICK x : x = [node[l.next] EXCEPT !.prev = prev]
      OBVIOUS
    <3>3. node[l.next] \in LeafNodes
      BY <1>3, <2>2, LeafParts
    <3>4. x \in LeafNodes /\ x.type = "leaf" /\ x.parent = node[l.next].parent
      BY <3>1, <3>2, <3>3 DEF LeafNodes
    <3>5. node' = [node EXCEPT ![l.next] = x] /\ x \in Node
      BY <2>2, <3>2, <3>4 DEF Node
    <3> QED BY <1>3, <2>2, <3>4, <3>5 DEF SameShape
  <2> QED BY <1>2, <2>1, <2>2
<1>7. PICK l2 : l2 = [l EXCEPT !.next = 0, !.pc = l.then]
  OBVIOUS
<1>8. /\ l2 \in Locals /\ l2.pc = l.then /\ l2.then = l.then /\ l2.page = l.page
      /\ l2.right = l.right /\ l2.parent = l.parent /\ l2.slot = l.slot /\ l2.sep = l.sep
  <2>1. 0 \in PageOrNone
    BY BTreeConstants DEF PageOrNone
  <2> QED BY <1>3, <1>5, <1>7, <2>1 DEF Locals
<1>9. /\ (Merging(l2) <=> Merging(l)) /\ (Splitting(l2) <=> Splitting(l))
      /\ (Promoting(l2) <=> Promoting(l))
      /\ ~ Collapsing(l) /\ ~ Collapsing(l2) /\ ~ NewTop(l) /\ ~ NewTop(l2)
  BY <1>2, <1>5, <1>8 DEF Merging, Collapsing, Promoting, Splitting, NewTop
<1>10. Top(root, l2) = Top(root, l) /\ Loose(l2) = Loose(l) /\ Due(l2) = {} /\ Due(l) = {}
  BY <1>2, <1>5, <1>8, <1>9 DEF Top, Loose, Due
<1>11. Live(node', l2) = Live(node, l) /\ TreeOf(node', root, l2, h)
  BY <1>4, <1>6, <1>8, <1>9, <1>10, StageKept
<1>12. Local(node', l2, h)
  <2>1. Splitting(l2) => Beside(node', l2, h)
    <3>1. Splitting(l2) => Beside(node, l, h) /\ l.right \in Live(node, l)
      BY <1>4, <1>9, LooseIsLive DEF Local, Promoting
    <3> QED BY <1>6, <1>8, <1>10, <1>11, <3>1, BesideKept
  <2>2. Merging(l2) => Neighbours(node', l2)
    <3>1. Merging(l2) => Neighbours(node, l)
      BY <1>4, <1>9 DEF Local
    <3>2. Neighbours(node, l) => node'[l.parent] = node[l.parent]
      BY <1>6 DEF Neighbours, Live
    <3> QED BY <1>8, <1>11, <3>1, <3>2, NeighboursKept
  <2>3. Asked(l2)
    <3>1. Promoting(l2) => l.sep \in Key
      BY <1>4, <1>9 DEF Local, Asked
    <3> QED BY <1>5, <1>8, <3>1 DEF Asked
  <2> QED BY <1>5, <1>8, <2>1, <2>2, <2>3 DEF Local
<1>13. Good(node', root', l2)
  BY <1>2, <1>3, <1>6, <1>8, <1>11, <1>12 DEF Good, Typed
<1> QED BY <1>2, <1>7, <1>13, StepsTo

LEMMA AdoptedStep ==
    ASSUME OneWriter, Inv, Adopted(TheWriter)
    PROVE  Inv'
<1>0. PICK l : l = run[TheWriter]
  OBVIOUS
<1>1. /\ l.pc = "adopt" /\ l.adopt = << >> /\ node' = node /\ root' = root
  BY <1>0 DEF Adopted, At
<1>2. l \in Locals /\ node \in [Page -> Node] /\ root \in Page
  BY <1>0, NodesNow
<1>3. PICK h : TreeOf(node, root, l, h) /\ Local(node, l, h)
  BY <1>0, <1>1 DEF Inv, Good
<1>4. l.then \in {"root", "return", "promote", "free", "collapse"} /\ Due(l) = {}
  BY <1>1, <1>3, EmptyParts DEF Local, Asked, Due
<1>5. PICK l2 \in Locals :
         /\ run' = [run EXCEPT ![TheWriter] = l2]
         /\ l2.pc = IF l.then = "return" THEN "idle" ELSE l.then
         /\ l.then # "return" =>
               /\ l2.then = l.then /\ l2.page = l.page /\ l2.right = l.right
               /\ l2.parent = l.parent /\ l2.slot = l.slot /\ l2.sep = l.sep
  <2>1. CASE l.then = "return"
    <3>1. run' = [run EXCEPT ![TheWriter] = Idle]
      BY <1>0, <2>1 DEF Adopted, Return, Continue
    <3> QED BY <2>1, <3>1, IdleParts
  <2>2. CASE l.then # "return"
    <3>1. PICK m : m = [l EXCEPT !.pc = l.then]
      OBVIOUS
    <3>2. /\ m \in Locals /\ m.pc = l.then /\ m.then = l.then /\ m.page = l.page
          /\ m.right = l.right /\ m.parent = l.parent /\ m.slot = l.slot /\ m.sep = l.sep
      BY <1>2, <1>4, <2>2, <3>1 DEF Locals
    <3>3. run' = [run EXCEPT ![TheWriter] = m]
      BY <1>0, <2>2, <3>1 DEF Adopted, Continue
    <3> QED BY <2>2, <3>2, <3>3
  <2> QED BY <2>1, <2>2
<1>6. /\ (Merging(l2) <=> Merging(l)) /\ (Splitting(l2) <=> Splitting(l))
      /\ (Promoting(l2) <=> Promoting(l))
      /\ (Collapsing(l2) <=> Collapsing(l)) /\ (NewTop(l2) <=> NewTop(l))
  BY <1>1, <1>4, <1>5 DEF Merging, Collapsing, Promoting, Splitting, NewTop
<1>7. Merging(l) \/ Collapsing(l) \/ NewTop(l) \/ Promoting(l) => l.then # "return"
  BY <1>1 DEF Merging, Collapsing, Promoting, Splitting, NewTop
<1>8. Top(root, l2) = Top(root, l) /\ Loose(l2) = Loose(l) /\ Due(l2) = {}
  BY <1>4, <1>5, <1>6, <1>7 DEF Top, Loose, Due
<1>9. Live(node, l2) = Live(node, l) /\ TreeOf(node, root, l2, h)
  BY <1>3, <1>4, <1>5, <1>6, <1>7, <1>8, SameItself, StageKept
<1>10. Local(node, l2, h)
  <2>1. Splitting(l2) => Beside(node, l2, h)
    <3>1. Splitting(l2) => Beside(node, l, h) /\ l.right \in Live(node, l)
      BY <1>3, <1>6, LooseIsLive DEF Local, Promoting
    <3> QED BY <1>4, <1>5, <1>6, <1>7, <1>8, <1>9, <3>1, SameItself, BesideKept DEF Promoting
  <2>2. Merging(l2) => Neighbours(node, l2)
    <3>1. Merging(l2) => Neighbours(node, l)
      BY <1>3, <1>6 DEF Local
    <3> QED BY <1>5, <1>6, <1>7, <1>9, <3>1, NeighboursKept
  <2>3. Asked(l2)
    <3>1. Promoting(l2) => l.sep \in Key /\ l2.sep = l.sep
      BY <1>3, <1>5, <1>6, <1>7 DEF Local, Asked
    <3> QED BY <1>4, <1>5, <3>1 DEF Asked
  <2> QED BY <1>4, <1>5, <2>1, <2>2, <2>3 DEF Local
<1>11. Good(node', root', l2)
  BY <1>1, <1>2, <1>5, <1>9, <1>10 DEF Good, Typed
<1> QED BY <1>5, <1>11, StepsTo

LEMMA NewParent ==
    ASSUME NEW x \in Node, x.type \in {"leaf", "internal"}, NEW q \in PageOrNone
    PROVE  /\ [x EXCEPT !.parent = q] \in Node
           /\ [x EXCEPT !.parent = q].type = x.type /\ [x EXCEPT !.parent = q].parent = q
           /\ x.type = "internal" => /\ [x EXCEPT !.parent = q].keys = x.keys
                                     /\ [x EXCEPT !.parent = q].children = x.children
<1>1. CASE x.type = "leaf"
  <2>1. x \in LeafNodes
    BY <1>1, LeafParts
  <2>2. [x EXCEPT !.parent = q] \in LeafNodes
    BY <2>1 DEF LeafNodes
  <2> QED BY <1>1, <2>1, <2>2 DEF Node, LeafNodes
<1>2. CASE x.type = "internal"
  <2>1. x \in InternalNodes /\ Len(x.children) = Len(x.keys) + 1 /\ IsInjective(x.children)
    BY <1>2, InternalParts
  <2>2. PICK y : y = [x EXCEPT !.parent = q]
    OBVIOUS
  <2>3. /\ y \in InternalNodes /\ y.keys = x.keys /\ y.children = x.children
        /\ y.type = x.type /\ y.parent = q
    BY <2>1, <2>2 DEF InternalNodes
  <2>4. y \in Node
    BY <2>1, <2>3 DEF Node
  <2> QED BY <2>2, <2>3, <2>4
<1> QED BY <1>1, <1>2

(* The pairs that are left when the first one is done. *)
LEMMA PairsLeft ==
    ASSUME NEW s \in Seq(Page \X PageOrNone), s # << >>
    PROVE  /\ Tail(s) \in Seq(Page \X PageOrNone)
           /\ s[1][1] \in Page /\ s[1][2] \in PageOrNone
           /\ << s[1][1], s[1][2] >> \in Range(s)
           /\ Range(Tail(s)) \subseteq Range(s)
           /\ \A c, q : << c, q >> \in Range(s) =>
                 << c, q >> \in Range(Tail(s)) \/ (c = s[1][1] /\ q = s[1][2])
<1>1. PICK t, x : t = Tail(s) /\ x = s[1]
  OBVIOUS
<1>2. /\ t \in Seq(Page \X PageOrNone) /\ x \in Page \X PageOrNone
      /\ x \in Range(s) /\ x = Head(s)
  BY <1>1, TailParts
<1>3. PICK n \in Nat \ {0} : n = Len(s) /\ DOMAIN s = 1 .. n
  BY EmptySeq, LenProperties
<1>4. DOMAIN t = 1 .. n - 1 /\ \A i \in 1 .. n - 1 : t[i] = s[i + 1]
  BY <1>1, <1>3, HeadTailProperties, LenProperties
<1>5. Range(t) \subseteq Range(s)
  <2> SUFFICES ASSUME NEW i \in 1 .. n - 1 PROVE t[i] \in Range(s)
    BY <1>4 DEF Range
  <2>1. i + 1 \in 1 .. n
    BY <1>3
  <2> QED BY <1>3, <1>4, <2>1 DEF Range
<1>6. ASSUME NEW y \in Range(s) PROVE y \in Range(t) \/ y = x
  <2>1. PICK i \in 1 .. n : y = s[i]
    BY <1>3, <1>6 DEF Range
  <2>2. CASE i = 1
    BY <1>1, <2>1, <2>2
  <2>3. CASE i # 1
    <3>1. i - 1 \in 1 .. n - 1 /\ (i - 1) + 1 = i
      BY <1>3, <2>1, <2>3
    <3>2. t[i - 1] = s[i]
      BY <1>4, <3>1
    <3> QED BY <1>4, <2>1, <3>1, <3>2 DEF Range
  <2> QED BY <2>2, <2>3
<1>7. x = << x[1], x[2] >> /\ x[1] \in Page /\ x[2] \in PageOrNone
  BY <1>2
<1>8. \A c, q : << c, q >> = x => c = x[1] /\ q = x[2]
  OBVIOUS
<1>9. \A c, q : << c, q >> \in Range(s) =>
         << c, q >> \in Range(t) \/ (c = x[1] /\ q = x[2])
  BY <1>6, <1>8
<1> QED BY <1>1, <1>2, <1>5, <1>7, <1>9

LEMMA AdoptStep ==
    ASSUME OneWriter, Inv, Adopt(TheWriter)
    PROVE  Inv'
<1>0. PICK l : l = run[TheWriter]
  OBVIOUS
<1>1. PICK c, q, t : c = l.adopt[1][1] /\ q = l.adopt[1][2] /\ t = Tail(l.adopt)
  OBVIOUS
<1>2. /\ l.pc = "adopt" /\ l.adopt # << >> /\ root' = root
      /\ c \in Page /\ node[c].type \in {"leaf", "internal"}
      /\ node' = [node EXCEPT ![c].parent = q]
      /\ run' = [run EXCEPT ![TheWriter] = [l EXCEPT !.adopt = t]]
  BY <1>0, <1>1 DEF Adopt, At, IsLeaf, IsInternal, Continue
<1>3. l \in Locals /\ node \in [Page -> Node] /\ root \in Page
  BY <1>0, NodesNow
<1>4. PICK h : TreeOf(node, root, l, h) /\ Local(node, l, h)
  BY <1>0, <1>2 DEF Inv, Good
<1>5. /\ t \in Seq(Page \X PageOrNone) /\ q \in PageOrNone
      /\ << c, q >> \in Due(l) /\ Range(t) \subseteq Due(l)
      /\ \A d, r : << d, r >> \in Due(l) => << d, r >> \in Range(t) \/ (d = c /\ r = q)
  <2>1. l.adopt \in Seq(Page \X PageOrNone) /\ Due(l) = Range(l.adopt)
    BY <1>2, <1>3 DEF Locals, Due
  <2>2. PICK s : s = l.adopt
    OBVIOUS
  <2>3. s \in Seq(Page \X PageOrNone) /\ s # << >> /\ Due(l) = Range(s)
    BY <1>2, <2>1, <2>2
  <2>4. c = s[1][1] /\ q = s[1][2] /\ t = Tail(s)
    BY <1>1, <2>2
  <2>5. /\ t \in Seq(Page \X PageOrNone) /\ q \in PageOrNone
        /\ << c, q >> \in Range(s) /\ Range(t) \subseteq Range(s)
        /\ \A d, r : << d, r >> \in Range(s) => << d, r >> \in Range(t) \/ (d = c /\ r = q)
    BY <2>3, <2>4, PairsLeft
  <2> QED BY <2>3, <2>5
<1>6. PICK x : x = [node[c] EXCEPT !.parent = q]
  OBVIOUS
<1>7. /\ x \in Node /\ x.type = node[c].type /\ x.parent = q
      /\ x.type = "internal" => x.keys = node[c].keys /\ x.children = node[c].children
  BY <1>2, <1>3, <1>5, <1>6, NewParent
<1>8. /\ node' \in [Page -> Node] /\ node'[c] = x
      /\ \A p \in Page : p # c => node'[p] = node[p]
  BY <1>2, <1>3, <1>6, <1>7
<1>9. PICK l2 : l2 = [l EXCEPT !.adopt = t]
  OBVIOUS
<1>10. /\ l2 \in Locals /\ l2.pc = "adopt" /\ l2.then = l.then /\ l2.page = l.page
       /\ l2.right = l.right /\ l2.parent = l.parent /\ l2.slot = l.slot /\ l2.sep = l.sep
       /\ l2.adopt = t
  BY <1>2, <1>3, <1>5, <1>9 DEF Locals
<1>11. /\ Merging(l2) <=> Merging(l)
       /\ Splitting(l2) <=> Splitting(l)
       /\ Promoting(l2) <=> Promoting(l)
       /\ Collapsing(l2) <=> Collapsing(l)
       /\ NewTop(l2) <=> NewTop(l)
  BY <1>2, <1>10 DEF Merging, Collapsing, Promoting, Splitting, NewTop
<1>12. Top(root, l2) = Top(root, l) /\ Loose(l2) = Loose(l) /\ Due(l2) = Range(t)
  BY <1>10, <1>11 DEF Top, Loose, Due
<1>13. Live(node', l2) = Live(node, l)
  BY <1>7, <1>8, <1>10, <1>11 DEF Live
<1>14. \A p \in Page : Kids(node', l2)[p] = Kids(node, l)[p]
  BY <1>7, <1>8, <1>10, <1>11 DEF Kids
<1>15. Kids(node', l2) = Kids(node, l)
  BY <1>14 DEF Kids
<1>16. Live(node, l) \subseteq Page
  BY DEF Live
<1>17. TreeOf(node', root, l2, h)
  <2>1. Tree(Live(node, l), Kids(node, l), Top(root, l), Loose(l), Due(l), Parents(node), h)
    BY <1>4 DEF TreeOf
  <2>2. Parents(node')[c] = q /\ \A r \in Live(node, l) : r # c => Parents(node')[r] = Parents(node)[r]
    BY <1>2, <1>7, <1>8, <1>16 DEF Parents
  <2>3. Tree(Live(node, l), Kids(node, l), Top(root, l), Loose(l), Range(t), Parents(node'), h)
    BY <1>5, <2>1, <2>2, AdoptOne
  <2>4. \A p \in Live(node, l) : node'[p].type = node[p].type
    BY <1>7, <1>8, <1>16
  <2>5. Ground(node', Live(node, l), h)
    BY <1>4, <2>4 DEF TreeOf, Ground
  <2> QED BY <1>12, <1>13, <1>15, <2>3, <2>5 DEF TreeOf
<1>18. Splitting(l2) => Beside(node', l2, h)
  <2> SUFFICES ASSUME Splitting(l) PROVE Beside(node', l2, h)
    BY <1>11
  <2>1. Beside(node, l, h) /\ l.right \in Live(node, l)
    BY <1>4, LooseIsLive DEF Local, Promoting
  <2>2. q = l.right
    BY <1>5, <2>1 DEF Beside
  <2>3. q # 0
    BY <1>16, <2>1, <2>2, BTreeConstants DEF Page
  <2>4. c \in Kids(node, l)[q] /\ q \in Live(node, l)
    BY <1>4, <1>5, <2>3 DEF TreeOf, Tree, Named
  <2>5. h[c] + 1 = h[q] /\ h[c] \in Nat
    BY <1>2, <1>4, <2>4 DEF TreeOf, Tree, Layered
  <2>6. c # l.page /\ c # l.right
    BY <2>1, <2>2, <2>5 DEF Beside
  <2>7. l.page \in Page /\ l.right \in Page
    BY <1>16, <2>1 DEF Beside
  <2> QED BY <1>5, <1>8, <1>10, <1>12, <1>13, <2>1, <2>6, <2>7 DEF Beside
<1>19. Merging(l2) => Neighbours(node', l2)
  <2>1. Merging(l2) => Neighbours(node, l)
    BY <1>4, <1>11 DEF Local
  <2>2. Neighbours(node, l) => /\ node'[l.parent].type = node[l.parent].type
                               /\ node'[l.parent].keys = node[l.parent].keys
                               /\ node'[l.parent].children = node[l.parent].children
    BY <1>7, <1>8, <1>16 DEF Neighbours
  <2> QED BY <1>10, <1>13, <2>1, <2>2, NeighboursKept
<1>20. Asked(l2)
  BY <1>2, <1>4, <1>10, <1>11 DEF Local, Asked
<1>21. Local(node', l2, h)
  BY <1>10, <1>18, <1>19, <1>20 DEF Local
<1>22. Good(node', root', l2)
  BY <1>2, <1>3, <1>8, <1>10, <1>17, <1>21 DEF Good, Typed
<1> QED BY <1>2, <1>9, <1>22, StepsTo

LEMMA FreedIsNode == Freed \in Node /\ Freed.type = "freed"
BY DEF Freed, Node

LEMMA FreeRightStep ==
    ASSUME OneWriter, Inv, FreeRight(TheWriter)
    PROVE  Inv'
<1>0. PICK l : l = run[TheWriter]
  OBVIOUS
<1>1. l.pc = "free" /\ root' = root /\ FreePage(TheWriter, l.right)
  BY <1>0 DEF FreeRight, At
<1>2. l \in Locals /\ node \in [Page -> Node] /\ root \in Page
  BY <1>0, NodesNow
<1>3. CASE Continue(TheWriter, [Idle EXCEPT !.pc = "failed"]) /\ UNCHANGED node
  <2>1. Good(node', root', [Idle EXCEPT !.pc = "failed"])
    BY <1>1, <1>2, <1>3, FailedIsGood DEF Typed
  <2> QED BY <1>3, <2>1, StepsTo DEF Continue
<1>4. CASE /\ node' = [node EXCEPT ![l.right] = Freed]
           /\ run' = [run EXCEPT ![TheWriter] = [l EXCEPT !.pc = "remove"]]
  <2>1. PICK h : TreeOf(node, root, l, h) /\ Local(node, l, h)
    BY <1>0, <1>1 DEF Inv, Good
  <2>2. Merging(l) /\ ~ Collapsing(l) /\ ~ Promoting(l) /\ ~ NewTop(l)
    BY <1>1 DEF Merging, Collapsing, Promoting, Splitting, NewTop
  <2>3. Neighbours(node, l)
    BY <2>1, <2>2 DEF Local
  <2>4. /\ l.parent \in Page /\ l.parent # l.right /\ l.right \in Page
    <3>1. l.parent \in Page /\ l.parent # l.right /\ node[l.parent] \in Node
          /\ node[l.parent].type = "internal"
      BY <1>2, <2>2, <2>3 DEF Neighbours, Live
    <3>2. PICK k \in Nat : /\ k = Len(node[l.parent].keys)
                           /\ DOMAIN node[l.parent].children = 1 .. k + 1
                           /\ node[l.parent].children \in Seq(Page)
      BY <3>1, InternalParts
    <3>3. l.slot + 1 \in 1 .. k + 1
      BY <2>3, <3>2 DEF Neighbours
    <3>4. node[l.parent].children[l.slot + 1] \in Page
      BY <3>2, <3>3
    <3> QED BY <2>3, <3>1, <3>4 DEF Neighbours
  <2>5. /\ node' \in [Page -> Node] /\ node'[l.right].type = "freed"
        /\ \A p \in Page : p # l.right => node'[p] = node[p]
    BY <1>2, <1>4, <2>4, FreedIsNode
  <2>6. PICK l2 : l2 = [l EXCEPT !.pc = "remove"]
    OBVIOUS
  <2>7. /\ l2 \in Locals /\ l2.pc = "remove" /\ l2.page = l.page
        /\ l2.right = l.right /\ l2.parent = l.parent /\ l2.slot = l.slot
    BY <1>2, <2>6 DEF Locals
  <2>8. Merging(l2) /\ ~ Collapsing(l2) /\ ~ Promoting(l2) /\ ~ NewTop(l2)
    BY <2>7 DEF Merging, Collapsing, Promoting, Splitting, NewTop
  <2>9. /\ Top(root, l2) = Top(root, l) /\ Loose(l2) = Loose(l) /\ Due(l2) = Due(l)
    BY <1>1, <2>2, <2>7, <2>8 DEF Top, Loose, Due
  <2>10. Live(node', l2) = Live(node, l)
    BY <2>2, <2>5, <2>7, <2>8 DEF Live
  <2>11. \A p \in Live(node, l) : p \in Page /\ p # l.right
    BY <2>2 DEF Live
  <2>12. \A p \in Live(node, l) :
            Kids(node', l2)[p] = Kids(node, l)[p] /\ Parents(node')[p] = Parents(node)[p]
    BY <2>2, <2>5, <2>7, <2>8, <2>11 DEF Kids, Parents
  <2>13. TreeOf(node', root, l2, h)
    <3>1. \A p \in Live(node, l) : node'[p] = node[p]
      BY <2>5, <2>11
    <3>2. Ground(node', Live(node, l), h)
      BY <2>1, <3>1 DEF TreeOf, Ground
    <3> QED BY <2>1, <2>9, <2>10, <2>12, <3>2, SameTree DEF TreeOf
  <2>14. Neighbours(node', l2)
    BY <2>3, <2>4, <2>5, <2>7, <2>10, NeighboursKept
  <2>15. Local(node', l2, h)
    <3>1. Asked(l2) /\ ~ Splitting(l2)
      BY <2>7, <2>8 DEF Asked, Promoting
    <3> QED BY <2>5, <2>7, <2>14, <3>1 DEF Local
  <2>16. Good(node', root', l2)
    BY <1>1, <1>2, <2>5, <2>7, <2>13, <2>15 DEF Good, Typed
  <2> QED BY <1>4, <2>6, <2>16, StepsTo
<1>5. [l EXCEPT !.pc = IF @ = "free" THEN "remove" ELSE "root"] = [l EXCEPT !.pc = "remove"]
  BY <1>1, <1>2 DEF Locals
<1> QED BY <1>0, <1>1, <1>3, <1>4, <1>5 DEF FreePage, Continue

LEMMA FreeRootStep ==
    ASSUME OneWriter, Inv, FreeRoot(TheWriter)
    PROVE  Inv'
<1>0. PICK l : l = run[TheWriter]
  OBVIOUS
<1>1. l.pc = "collapse" /\ root' = root /\ FreePage(TheWriter, l.parent)
  BY <1>0 DEF FreeRoot, At
<1>2. l \in Locals /\ node \in [Page -> Node] /\ root \in Page
  BY <1>0, NodesNow
<1>3. CASE Continue(TheWriter, [Idle EXCEPT !.pc = "failed"]) /\ UNCHANGED node
  <2>1. Good(node', root', [Idle EXCEPT !.pc = "failed"])
    BY <1>1, <1>2, <1>3, FailedIsGood DEF Typed
  <2> QED BY <1>3, <2>1, StepsTo DEF Continue
<1>4. CASE /\ node' = [node EXCEPT ![l.parent] = Freed]
           /\ run' = [run EXCEPT ![TheWriter] = [l EXCEPT !.pc = "root"]]
  <2>1. PICK h : TreeOf(node, root, l, h)
    BY <1>0, <1>1 DEF Inv, Good
  <2>2. ~ Merging(l) /\ Collapsing(l) /\ ~ Promoting(l) /\ NewTop(l)
    BY <1>1 DEF Merging, Collapsing, Promoting, Splitting, NewTop
  <2>3. /\ node' \in [Page -> Node]
        /\ \A p \in Page : IF p = l.parent THEN node'[p].type = "freed" ELSE node'[p] = node[p]
    BY <1>2, <1>4, FreedIsNode
  <2>4. PICK l2 : l2 = [l EXCEPT !.pc = "root"]
    OBVIOUS
  <2>5. l2 \in Locals /\ l2.pc = "root" /\ l2.right = l.right
    BY <1>2, <2>4 DEF Locals
  <2>6. ~ Merging(l2) /\ ~ Collapsing(l2) /\ ~ Promoting(l2) /\ ~ Splitting(l2) /\ NewTop(l2)
    BY <2>5 DEF Merging, Collapsing, Promoting, Splitting, NewTop
  <2>7. Top(root, l2) = Top(root, l) /\ Loose(l2) = Loose(l) /\ Due(l2) = Due(l)
    BY <1>1, <2>2, <2>5, <2>6 DEF Top, Loose, Due
  <2>8. Live(node', l2) = Live(node, l)
    BY <2>2, <2>3, <2>6 DEF Live
  <2>9. \A p \in Live(node, l) : p \in Page /\ p # l.parent
    BY <2>2 DEF Live
  <2>10. \A p \in Live(node, l) :
            Kids(node', l2)[p] = Kids(node, l)[p] /\ Parents(node')[p] = Parents(node)[p]
    BY <2>2, <2>3, <2>6, <2>9 DEF Kids, Parents
  <2>11. TreeOf(node', root, l2, h)
    <3>1. \A p \in Live(node, l) : node'[p] = node[p]
      BY <2>3, <2>9
    <3>2. Ground(node', Live(node, l), h)
      BY <2>1, <3>1 DEF TreeOf, Ground
    <3> QED BY <2>1, <2>7, <2>8, <2>10, <3>2, SameTree DEF TreeOf
  <2>12. Local(node', l2, h)
    BY <2>5, <2>6 DEF Local, Asked
  <2>13. Good(node', root', l2)
    BY <1>1, <1>2, <2>3, <2>5, <2>11, <2>12 DEF Good, Typed
  <2> QED BY <1>4, <2>4, <2>13, StepsTo
<1>5. [l EXCEPT !.pc = IF @ = "free" THEN "remove" ELSE "root"] = [l EXCEPT !.pc = "root"]
  BY <1>1, <1>2 DEF Locals
<1> QED BY <1>0, <1>1, <1>3, <1>4, <1>5 DEF FreePage, Continue

-----------------------------------------------------------------------------
(* Steps that change the tree. *)
LEMMA LeastPage ==
    ASSUME NEW S, S \subseteq Page, S # {}
    PROVE  Min(S) \in S
<1>1. S \subseteq Nat
  BY DEF Page
<1>2. PICK m \in S : \A x \in Nat : << x, m >> \in OpToRel(<, Nat) => x \notin S
  BY <1>1, NatLessThanWellFounded, WFMin
<1>3. \A x \in S : ~ (x < m)
  BY <1>1, <1>2 DEF OpToRel
<1>4. \A x \in S : m =< x
  BY <1>1, <1>3
<1> QED BY <1>4 DEF Min

LEMMA NewPageIsFree ==
    ASSUME FreePages # {}
    PROVE  NewPage \in Page /\ node[NewPage].type = "freed"
<1>1. FreePages \subseteq Page
  BY DEF FreePages
<1>2. NewPage \in FreePages
  BY <1>1, LeastPage DEF NewPage
<1> QED BY <1>2 DEF FreePages

LEMMA SplitLeafStep ==
    ASSUME OneWriter, Inv, NeverOverrun', SplitLeaf(TheWriter)
    PROVE  Inv'
<1>0. PICK l : l = run[TheWriter]
  OBVIOUS
<1>1. PICK e, mid, new, leaf : /\ e = With(node[l.page].entries, l.key, l.value)
                               /\ mid = Half(e) /\ new = NewPage /\ leaf = node[l.page]
  OBVIOUS
<1>2. PICK x, y : /\ x = Leaf(SubSeq(e, mid + 1, Len(e)), leaf.parent, l.page, leaf.next)
                  /\ y = Leaf(SubSeq(e, 1, mid), leaf.parent, leaf.prev, new)
  OBVIOUS
<1>3. /\ Plain(l) /\ l.pc = "insert" /\ l.pc # "failed" /\ root' = root
      /\ l.page \in Page /\ leaf.type = "leaf" /\ new \in Page /\ node[new].type = "freed"
      /\ node' = [node EXCEPT ![new] = x, ![l.page] = y]
      /\ run' = [run EXCEPT ![TheWriter] =
                   [l EXCEPT !.done = TRUE, !.right = new, !.sep = e[mid + 1].key,
                             !.next = leaf.next, !.pc = "next", !.then = "promote"]]
  BY <1>0, <1>1, <1>2, NewPageIsFree DEF SplitLeaf, At, Plain, IsLeaf, Entries, Continue
<1>4. l \in Locals /\ node \in [Page -> Node] /\ root \in Page /\ leaf \in LeafNodes
  BY <1>0, <1>1, <1>3, NodesNow, LeafParts
<1>5. PICK h : TreeOf(node, root, l, h) /\ Local(node, l, h)
  BY <1>0, <1>3 DEF Inv, Good
<1>6. e \in Seq(Entry) /\ Len(e) >= 1 /\ Len(e) \in Nat
  <2>1. l.key \in Key /\ l.value \in Value
    BY <1>3, <1>5 DEF Local, Asked
  <2>2. PICK s \in Seq(Entry) : s = node[l.page].entries
    BY <1>1, <1>4 DEF LeafNodes
  <2>3. Holds(s, l.key) => Len(s) >= 1
    BY <2>2 DEF Holds
  <2>4. e \in Seq(Entry) /\ Len(e) = IF Holds(s, l.key) THEN Len(s) ELSE Len(s) + 1
    BY <1>1, <2>1, <2>2, WithParts
  <2> QED BY <2>2, <2>3, <2>4
<1>7. mid \in 0 .. Len(e) /\ mid + 1 \in 1 .. Len(e)
  BY <1>1, <1>6 DEF Half
<1>8. /\ SubSeq(e, 1, mid) \in Seq(Entry) /\ SubSeq(e, mid + 1, Len(e)) \in Seq(Entry)
      /\ e[mid + 1].key \in Key
  <2>1. CutInto(Entry, e, mid, SubSeq(e, 1, mid), SubSeq(e, mid + 1, Len(e)))
    BY <1>6, <1>7, CutParts
  <2>2. e[mid + 1] \in Entry
    BY <1>6, <1>7
  <2> QED BY <2>1, <2>2 DEF CutInto, Entry
<1>9. new # l.page
  BY <1>1, <1>3
<1>10. /\ node'[new] = x /\ node'[l.page] = y
       /\ \A p \in Page : p # new /\ p # l.page => node'[p] = node[p]
  BY <1>3, <1>4, <1>9
<1>11. /\ x \in Node /\ x.type = "leaf" /\ x.parent = leaf.parent
       /\ y \in Node /\ y.type = "leaf" /\ y.parent = leaf.parent
  <2>1. x.type # "overrun" /\ y.type # "overrun"
    BY <1>3, <1>10 DEF NeverOverrun
  <2>2. /\ leaf.parent \in PageOrNone /\ leaf.next \in PageOrNone /\ leaf.prev \in PageOrNone
        /\ l.page \in PageOrNone /\ new \in PageOrNone
    BY <1>3, <1>4 DEF LeafNodes, Page, PageOrNone
  <2>3. PICK lo \in Seq(Entry), hi \in Seq(Entry) :
           lo = SubSeq(e, 1, mid) /\ hi = SubSeq(e, mid + 1, Len(e))
    BY <1>8
  <2>4. PICK up \in PageOrNone, prev \in PageOrNone, next \in PageOrNone :
           up = leaf.parent /\ prev = leaf.prev /\ next = leaf.next
    BY <2>2
  <2>5. x = Leaf(hi, up, l.page, next) /\ y = Leaf(lo, up, prev, new)
    BY <1>2, <2>3, <2>4
  <2>6. x \in Node /\ x.type = "leaf" /\ x.parent = up
    BY <2>1, <2>2, <2>5, MadeLeaf
  <2>7. y \in Node /\ y.type = "leaf" /\ y.parent = up
    BY <2>1, <2>2, <2>5, MadeLeaf
  <2> QED BY <2>4, <2>6, <2>7
<1>12. node' \in [Page -> Node]
  BY <1>3, <1>4, <1>11
<1>13. PICK sep \in Key, next \in PageOrNone : sep = e[mid + 1].key /\ next = leaf.next
  BY <1>4, <1>8 DEF LeafNodes
<1>14. PICK l2 : l2 = [l EXCEPT !.done = TRUE, !.right = new, !.sep = sep,
                             !.next = next, !.pc = "next", !.then = "promote"]
  OBVIOUS
<1>15. /\ l2 \in Locals /\ l2.pc = "next" /\ l2.then = "promote" /\ l2.right = new
       /\ l2.page = l.page /\ l2.sep = sep
  <2>1. new \in PageOrNone /\ sep \in 0 .. MaxKey
    BY <1>3, <1>13 DEF Page, PageOrNone, Key
  <2> QED BY <1>4, <1>14, <2>1 DEF Locals
<1>16. ~ Merging(l2) /\ ~ Collapsing(l2) /\ Promoting(l2) /\ Splitting(l2) /\ ~ NewTop(l2)
  BY <1>15 DEF Merging, Collapsing, Promoting, Splitting, NewTop
<1>17. Top(root, l2) = root /\ Loose(l2) = {new} /\ Due(l2) = {}
  BY <1>15, <1>16 DEF Top, Loose, Due
<1>18. PICK live : live = Live(node, l) /\ live = {p \in Page : node[p].type # "freed"}
  BY <1>3, PlainView
<1>19. l.page \in live /\ new \notin live
  BY <1>1, <1>3, <1>18
<1>20. Live(node', l2) = live \cup {new}
  BY <1>3, <1>10, <1>11, <1>16, <1>18, <1>19 DEF Live
<1>21. PICK kids, kids2 : kids = Kids(node, l) /\ kids2 = Kids(node', l2)
  OBVIOUS
<1>22. /\ kids[l.page] = {} /\ kids2[l.page] = {} /\ kids2[new] = {}
       /\ \A q \in live : q # l.page => kids2[q] = kids[q]
  <2>1. \A q \in Page : kids[q] = IF node[q].type = "internal" THEN Range(node[q].children) ELSE {}
    BY <1>3, <1>21, PlainView
  <2>2. \A q \in Page : kids2[q] = IF node'[q].type # "internal" THEN {} ELSE Range(node'[q].children)
    BY <1>16, <1>21 DEF Kids
  <2>3. kids[l.page] = {}
    BY <1>1, <1>3, <2>1
  <2>4. kids2[l.page] = {} /\ kids2[new] = {}
    BY <1>3, <1>10, <1>11, <2>2
  <2>5. ASSUME NEW q \in live, q # l.page PROVE kids2[q] = kids[q]
    <3>1. q \in Page /\ node'[q] = node[q]
      BY <1>10, <1>18, <1>19, <2>5
    <3> QED BY <2>1, <2>2, <3>1
  <2> QED BY <2>3, <2>4, <2>5
<1>23. \A q \in live : Parents(node')[q] = Parents(node)[q]
  BY <1>1, <1>10, <1>11, <1>18, <1>19 DEF Parents
<1>24. Tree(live, kids, root, {}, {}, Parents(node), h)
  BY <1>3, <1>5, <1>18, <1>21, PlainView DEF TreeOf
<1>25. PICK h2 : h2 = [h EXCEPT ![new] = h[l.page]]
  OBVIOUS
<1>26. /\ Tree(live \cup {new}, kids2, root, {new}, {}, Parents(node'), h2)
       /\ h2[new] = h2[l.page]
  <2>1. PICK due, up, up2 : due = {} /\ up = Parents(node) /\ up2 = Parents(node')
    OBVIOUS
  <2>2. \A c, q : << c, q >> \in due <=> q = new /\ c \in kids2[new]
    BY <1>22, <2>1
  <2>3. kids2[l.page] \cup kids2[new] = kids[l.page] /\ kids2[l.page] \cap kids2[new] = {}
    BY <1>22
  <2>4. Tree(live, kids, root, {}, {}, up, h) /\ \A q \in live : up2[q] = up[q]
    BY <1>23, <1>24, <2>1
  <2>5. /\ Tree(live \cup {new}, kids2, root, {new}, due, up2, h2)
        /\ h2[new] = h2[l.page]
    <3>1. SplitsOff(live, kids, h, up, l.page, new, kids2, h2, up2, due)
      BY <1>3, <1>19, <1>22, <1>25, <2>2, <2>3, <2>4 DEF SplitsOff
    <3> QED BY <2>4, <3>1, SplitOff
  <2> QED BY <2>1, <2>5
<1>27. TreeOf(node', root, l2, h2)
  <2>1. h \in [Page -> Nat] /\ Ground(node, live, h)
    BY <1>5, <1>18 DEF TreeOf, Tree, Layered
  <2>2. h[l.page] = 0
    BY <1>1, <1>3, <1>19, <2>1 DEF Ground
  <2>3. h2[new] = 0 /\ \A p \in live : h2[p] = h[p]
    BY <1>3, <1>18, <1>19, <1>25, <2>1, <2>2
  <2>4. \A p \in live : node'[p].type = node[p].type
    BY <1>1, <1>3, <1>10, <1>11, <1>18, <1>19
  <2>5. Ground(node', live \cup {new}, h2)
    BY <2>1, <2>3, <2>4 DEF Ground
  <2> QED BY <1>17, <1>20, <1>21, <1>26, <2>5 DEF TreeOf
<1>28. Local(node', l2, h2)
  <2>1. Beside(node', l2, h2)
    BY <1>9, <1>10, <1>11, <1>15, <1>17, <1>19, <1>20, <1>26 DEF Beside
  <2>2. Asked(l2)
    BY <1>15 DEF Asked
  <2> QED BY <1>15, <1>16, <2>1, <2>2 DEF Local
<1>29. Good(node', root', l2)
  BY <1>3, <1>4, <1>12, <1>15, <1>27, <1>28 DEF Good, Typed
<1> QED BY <1>3, <1>13, <1>14, <1>29, StepsTo

LEMMA TwoPairs ==
    ASSUME NEW a \in Page, NEW b \in Page, NEW q \in PageOrNone
    PROVE  /\ << << a, q >>, << b, q >> >> \in Seq(Page \X PageOrNone)
           /\ \A c, r : << c, r >> \in Range(<< << a, q >>, << b, q >> >>)
                           <=> r = q /\ c \in {a, b}
<1>1. PICK s : s = << << a, q >>, << b, q >> >>
  OBVIOUS
<1>2. s \in Seq(Page \X PageOrNone) /\ DOMAIN s = {1, 2} /\ s[1] = << a, q >> /\ s[2] = << b, q >>
  BY <1>1
<1>3. Range(s) = {<< a, q >>, << b, q >>}
  BY <1>2 DEF Range
<1> QED BY <1>1, <1>2, <1>3

LEMMA OnePair ==
    ASSUME NEW a \in Page, NEW q \in PageOrNone
    PROVE  /\ << << a, q >> >> \in Seq(Page \X PageOrNone)
           /\ \A c, r : << c, r >> \in Range(<< << a, q >> >>) <=> c = a /\ r = q
<1>1. PICK x \in Page \X PageOrNone : x = << a, q >>
  OBVIOUS
<1>2. << x >> \in Seq(Page \X PageOrNone) /\ Range(<< x >>) = {x}
  BY SingleParts
<1> QED BY <1>1, <1>2

LEMMA GrowRootStep ==
    ASSUME OneWriter, Inv, NeverOverrun', GrowRoot(TheWriter)
    PROVE  Inv'
<1>0. PICK l : l = run[TheWriter]
  OBVIOUS
<1>1. PICK new : new = NewPage
  OBVIOUS
<1>2. PICK x, a : /\ x = Internal(<< l.sep >>, << l.page, l.right >>, 0)
                  /\ a = << << l.page, new >>, << l.right, new >> >>
  OBVIOUS
<1>3. /\ l.pc = "promote" /\ root' = root
      /\ l.page = root \/ node[l.page].parent = 0
      /\ new \in Page /\ node[new].type = "freed"
      /\ node' = [node EXCEPT ![new] = x]
      /\ run' = [run EXCEPT ![TheWriter] =
                   [l EXCEPT !.pc = "adopt", !.then = "root", !.right = new, !.adopt = a]]
  BY <1>0, <1>1, <1>2, NewPageIsFree DEF GrowRoot, At, IsRoot, Continue
<1>4. l \in Locals /\ node \in [Page -> Node] /\ root \in Page
  BY <1>0, NodesNow
<1>5. PICK h : TreeOf(node, root, l, h) /\ Local(node, l, h)
  BY <1>0, <1>3 DEF Inv, Good
<1>6. ~ Merging(l) /\ ~ Collapsing(l) /\ Promoting(l) /\ Splitting(l) /\ ~ NewTop(l)
  BY <1>3 DEF Merging, Collapsing, Promoting, Splitting, NewTop
<1>7. Top(root, l) = root /\ Loose(l) = {l.right} /\ Due(l) = {}
  BY <1>3, <1>6 DEF Top, Loose, Due
<1>8. PICK live, kids : live = Live(node, l) /\ kids = Kids(node, l)
  OBVIOUS
<1>9. live = {p \in Page : node[p].type # "freed"}
  BY <1>6, <1>8 DEF Live
<1>10. Tree(live, kids, root, {l.right}, {}, Parents(node), h)
  BY <1>5, <1>7, <1>8 DEF TreeOf
<1>11. /\ l.page \in live /\ l.page # l.right /\ h[l.right] = h[l.page] /\ l.sep \in Key
       /\ l.right \in live /\ l.page \in Page /\ l.right \in Page
  <2>1. l.page \in live /\ l.page # l.right /\ h[l.right] = h[l.page] /\ l.sep \in Key
    BY <1>5, <1>6, <1>8 DEF Local, Beside, Asked
  <2>2. l.right \in live
    BY <1>5, <1>6, <1>8, LooseIsLive
  <2> QED BY <1>9, <2>1, <2>2
<1>12. l.page = root
  <2> SUFFICES ASSUME l.page # root PROVE FALSE
    OBVIOUS
  <2>1. Parents(node)[l.page] # 0
    BY <1>10, <1>11, ParentIsLive
  <2> QED BY <1>3, <1>11, <2>1 DEF Parents
<1>13. /\ node'[new] = x
       /\ \A p \in Page : p # new => node'[p] = node[p]
  BY <1>3, <1>4
<1>14. /\ x \in Node /\ x.type = "internal" /\ x.parent = 0
       /\ Range(x.children) = {root, l.right}
  <2>1. x.type # "overrun"
    BY <1>3, <1>13 DEF NeverOverrun
  <2>2. << l.sep >> \in Seq(Key) /\ Len(<< l.sep >>) = 1
    BY <1>11
  <2>3. PICK c : c = << l.page, l.right >>
    OBVIOUS
  <2>4. /\ c \in Seq(Page) /\ Len(c) = 2 /\ DOMAIN c = {1, 2}
        /\ c[1] = l.page /\ c[2] = l.right
    BY <1>11, <2>3
  <2>5. IsInjective(c)
    BY <1>11, <2>4 DEF IsInjective
  <2>6. Range(c) = {root, l.right}
    BY <1>12, <2>4 DEF Range
  <2>7. 0 \in PageOrNone
    BY BTreeConstants DEF PageOrNone
  <2>8. Len(c) = Len(<< l.sep >>) + 1
    BY <2>2, <2>4
  <2>9. PICK k \in Seq(Key) : k = << l.sep >> /\ Len(c) = Len(k) + 1
    BY <2>2, <2>8
  <2>10. x = Internal(k, c, 0)
    BY <1>2, <2>3, <2>9
  <2>11. x \in Node /\ x.type = "internal" /\ x.parent = 0 /\ x.children = c
    <3>1. FitsInternal(k, c, 0)
      BY <2>1, <2>4, <2>5, <2>7, <2>9, <2>10 DEF FitsInternal
    <3> QED BY <2>10, <3>1, MadeInternal
  <2> QED BY <2>6, <2>11
<1>15. node' \in [Page -> Node]
  BY <1>3, <1>4, <1>14
<1>16. new \in PageOrNone
  BY <1>3 DEF Page, PageOrNone
<1>17. /\ a \in Seq(Page \X PageOrNone)
       /\ \A c, r : << c, r >> \in Range(a) <=> r = new /\ c \in {root, l.right}
  <2>1. a = << << root, new >>, << l.right, new >> >>
    BY <1>2, <1>12
  <2> QED BY <1>4, <1>11, <1>16, <2>1, TwoPairs
<1>18. PICK l2 : l2 = [l EXCEPT !.pc = "adopt", !.then = "root", !.right = new, !.adopt = a]
  OBVIOUS
<1>19. /\ l2 \in Locals /\ l2.pc = "adopt" /\ l2.then = "root" /\ l2.right = new
       /\ l2.adopt = a
  BY <1>4, <1>16, <1>17, <1>18 DEF Locals
<1>20. ~ Merging(l2) /\ ~ Collapsing(l2) /\ ~ Promoting(l2) /\ ~ Splitting(l2) /\ NewTop(l2)
  BY <1>19 DEF Merging, Collapsing, Promoting, Splitting, NewTop
<1>21. Top(root, l2) = new /\ Loose(l2) = {} /\ Due(l2) = Range(a)
  BY <1>19, <1>20 DEF Top, Loose, Due
<1>22. new \notin live
  BY <1>3, <1>9
<1>23. Live(node', l2) = live \cup {new}
  BY <1>3, <1>9, <1>13, <1>14, <1>20 DEF Live
<1>24. PICK kids2 : kids2 = Kids(node', l2)
  OBVIOUS
<1>25. kids2[new] = {root, l.right} /\ \A q \in live : kids2[q] = kids[q]
  BY <1>3, <1>6, <1>8, <1>9, <1>13, <1>14, <1>20, <1>22, <1>24 DEF Kids
<1>26. /\ \A q \in live : Parents(node')[q] = Parents(node)[q]
       /\ Parents(node')[new] = 0
  BY <1>3, <1>9, <1>13, <1>14, <1>22 DEF Parents
<1>27. PICK h2 : h2 = [h EXCEPT ![new] = h[root] + 1]
  OBVIOUS
<1>28. h[l.right] = h[root]
  BY <1>11, <1>12
<1>29. Tree(live \cup {new}, kids2, new, {}, Range(a), Parents(node'), h2)
  <2>1. PICK due, up, up2, live2 :
           due = Range(a) /\ up = Parents(node) /\ up2 = Parents(node') /\ live2 = live \cup {new}
    OBVIOUS
  <2>2. \A c, r : << c, r >> \in due <=> r = new /\ c \in {root, l.right}
    BY <1>17, <2>1
  <2>3. Tree(live, kids, root, {l.right}, {}, up, h)
    BY <1>10, <2>1
  <2>4. (\A q \in live : up2[q] = up[q]) /\ up2[new] = 0
    BY <1>26, <2>1
  <2>5. Tree(live \cup {new}, kids2, new, {}, due, up2, h2)
    <3>1. Grows(live, kids, root, l.right, h, up, new, kids2, h2, up2, due)
      BY <1>3, <1>22, <1>25, <1>27, <1>28, <2>2, <2>4 DEF Grows
    <3> QED BY <2>1, <2>3, <3>1, GrowTree
  <2> QED BY <2>1, <2>5
<1>30. TreeOf(node', root, l2, h2)
  <2>1. h \in [Page -> Nat] /\ Ground(node, live, h)
    BY <1>5, <1>8 DEF TreeOf, Tree, Layered
  <2>2. \A p \in live : node'[p] = node[p] /\ h2[p] = h[p]
    BY <1>9, <1>13, <1>22, <1>27, <2>1
  <2>3. Ground(node', live \cup {new}, h2)
    BY <1>13, <1>14, <2>1, <2>2 DEF Ground
  <2> QED BY <1>21, <1>23, <1>24, <1>29, <2>3 DEF TreeOf
<1>31. Local(node', l2, h2)
  BY <1>19, <1>20 DEF Local, Asked
<1>32. Good(node', root', l2)
  BY <1>3, <1>4, <1>15, <1>19, <1>30, <1>31 DEF Good, Typed
<1> QED BY <1>3, <1>18, <1>32, StepsTo

(* The pointers of the children of one page. *)
LEMMA OrphanPairs ==
    ASSUME NEW s \in Seq(Page), NEW q \in PageOrNone
    PROVE  /\ Orphans(s, q) \in Seq(Page \X PageOrNone)
           /\ \A c, r : << c, r >> \in Range(Orphans(s, q)) <=> r = q /\ c \in Range(s)
<1>1. PICK n \in Nat : n = Len(s) /\ DOMAIN s = 1 .. n /\ \A i \in 1 .. n : s[i] \in Page
  OBVIOUS
<1>2. PICK o : o = Orphans(s, q)
  OBVIOUS
<1>3. o = [i \in 1 .. n |-> << s[i], q >>]
  BY <1>1, <1>2 DEF Orphans
<1>4. \A i \in 1 .. n : << s[i], q >> \in Page \X PageOrNone
  BY <1>1
<1>5. o \in Seq(Page \X PageOrNone)
  BY <1>1, <1>3, <1>4
<1>6. \A c, r : << c, r >> \in Range(o) => r = q /\ c \in Range(s)
  BY <1>1, <1>3 DEF Range
<1>7. \A c \in Range(s) : << c, q >> \in Range(o)
  BY <1>1, <1>3 DEF Range
<1> QED BY <1>2, <1>5, <1>6, <1>7

(* A new separator and the child on its right. *)
LEMMA NewEntryParts ==
    ASSUME NEW w, NEW x \in Node, x = node[run[w].page], x.type = "internal",
           run[w].sep \in Key, run[w].right \in Page, run[w].right \notin Range(x.children)
    PROVE  /\ NewKeys(w) \in Seq(Key) /\ Len(NewKeys(w)) = Len(x.keys) + 1
           /\ NewChildren(w) \in Seq(Page) /\ Len(NewChildren(w)) = Len(x.keys) + 2
           /\ IsInjective(NewChildren(w))
           /\ Range(NewChildren(w)) = Range(x.children) \cup {run[w].right}
<1>1. PICK k \in Seq(Key), c \in Seq(Page) :
         /\ k = x.keys /\ c = x.children /\ Len(c) = Len(k) + 1 /\ IsInjective(c)
  BY InternalParts
<1>2. PICK n \in Nat : n = Len(k) /\ DOMAIN k = 1 .. n
  OBVIOUS
<1>3. PICK S : S = {i \in DOMAIN k : k[i] < run[w].sep}
  OBVIOUS
<1>4. S \subseteq 1 .. n
  BY <1>2, <1>3
<1>5. Cardinality(S) \in 0 .. n
  BY <1>4, CountIn
<1>6. PICK i \in 1 .. Len(k) + 1, j \in 1 .. Len(c) + 1 :
         i = Cardinality(S) + 1 /\ j = Cardinality(S) + 2
  <2>1. Cardinality(S) + 1 \in 1 .. Len(k) + 1
    BY <1>2, <1>5
  <2>2. Cardinality(S) + 2 \in 1 .. Len(c) + 1
    BY <1>1, <1>2, <1>5
  <2> QED BY <2>1, <2>2
<1>7. NewKeys(w) = InsertAt(k, i, run[w].sep)
  BY <1>1, <1>3, <1>6 DEF NewKeys
<1>8. NewChildren(w) = InsertAt(c, j, run[w].right)
  BY <1>1, <1>3, <1>6 DEF NewChildren
<1>9. InsertAt(k, i, run[w].sep) \in Seq(Key) /\ Len(InsertAt(k, i, run[w].sep)) = Len(k) + 1
  <2>1. PICK sep \in Key : sep = run[w].sep
    OBVIOUS
  <2>2. Inserted(Key, k, sep, InsertAt(k, i, sep))
    BY <1>6, InsertParts
  <2> QED BY <2>1, <2>2 DEF Inserted
<1>10. /\ InsertAt(c, j, run[w].right) \in Seq(Page)
       /\ Len(InsertAt(c, j, run[w].right)) = Len(c) + 1
       /\ IsInjective(InsertAt(c, j, run[w].right))
       /\ Range(InsertAt(c, j, run[w].right)) = Range(c) \cup {run[w].right}
  <2>1. PICK r \in Page : r = run[w].right
    OBVIOUS
  <2>2. r \notin Range(c)
    BY <1>1, <2>1
  <2>3. Inserted(Page, c, r, InsertAt(c, j, r))
    BY <1>6, InsertParts
  <2> QED BY <1>1, <2>1, <2>2, <2>3 DEF Inserted
<1>11. Len(c) + 1 = Len(k) + 2
  BY <1>1, <1>2
<1> QED BY <1>1, <1>7, <1>8, <1>9, <1>10, <1>11

(* Where the promoted key and the new page belong. *)
LEMMA PromotingParts ==
    ASSUME NEW l, l \in Locals, l.pc = "parent", NEW h,
           node \in [Page -> Node], TreeOf(node, root, l, h), Local(node, l, h),
           l.page \in Page, node[l.page].type = "internal"
    PROVE  /\ Live(node, l) = {p \in Page : node[p].type # "freed"}
           /\ l.page \in Live(node, l) /\ l.right \in Live(node, l)
           /\ l.page # l.right /\ l.right \in Page /\ l.sep \in Key
           /\ node[l.right].parent = l.page /\ h[l.right] + 1 = h[l.page]
           /\ Kids(node, l)[l.page] = Range(node[l.page].children)
           /\ l.right \notin Range(node[l.page].children)
           /\ Tree(Live(node, l), Kids(node, l), root, {l.right}, {}, Parents(node), h)
<1>1. ~ Merging(l) /\ ~ Collapsing(l) /\ Promoting(l) /\ ~ NewTop(l)
  BY DEF Merging, Collapsing, Promoting, Splitting, NewTop
<1>2. Top(root, l) = root /\ Loose(l) = {l.right} /\ Due(l) = {}
  BY <1>1 DEF Top, Loose, Due
<1>3. Live(node, l) = {p \in Page : node[p].type # "freed"}
  BY <1>1 DEF Live
<1>4. /\ l.page \in Live(node, l) /\ node[l.right].parent = l.page
      /\ h[l.right] + 1 = h[l.page] /\ l.sep \in Key
  BY <1>1 DEF Local, Above, Asked
<1>5. l.right \in Live(node, l) /\ l.right \in Page
  BY <1>1, <1>3, LooseIsLive
<1>6. Tree(Live(node, l), Kids(node, l), root, {l.right}, {}, Parents(node), h)
  BY <1>2 DEF TreeOf
<1>7. Kids(node, l)[l.page] = Range(node[l.page].children)
  BY <1>1 DEF Kids
<1>8. l.right \notin Kids(node, l)[l.page]
  BY <1>4, <1>6 DEF Tree, Linked
<1>9. l.page # l.right
  <2>1. h[l.right] \in Nat
    BY <1>5, <1>6 DEF Tree, Layered
  <2> QED BY <1>4, <2>1
<1> QED BY <1>3, <1>4, <1>5, <1>6, <1>7, <1>8, <1>9

LEMMA InsertEntryStep ==
    ASSUME OneWriter, Inv, InsertEntry(TheWriter)
    PROVE  Inv'
<1>0. PICK l : l = run[TheWriter]
  OBVIOUS
<1>1. PICK k2, c2, a : /\ k2 = NewKeys(TheWriter) /\ c2 = NewChildren(TheWriter)
                       /\ a = << << l.right, l.page >> >>
  OBVIOUS
<1>2. /\ l.pc = "parent" /\ root' = root
      /\ l.page \in Page /\ node[l.page].type = "internal"
      /\ node' = [node EXCEPT ![l.page].keys = k2, ![l.page].children = c2]
      /\ run' = [run EXCEPT ![TheWriter] =
                   [l EXCEPT !.pc = "adopt", !.then = "return", !.adopt = a]]
  BY <1>0, <1>1 DEF InsertEntry, At, IsInternal, Continue
<1>3. l \in Locals /\ node \in [Page -> Node] /\ root \in Page
  BY <1>0, NodesNow
<1>4. PICK h : TreeOf(node, root, l, h) /\ Local(node, l, h)
  BY <1>0, <1>2 DEF Inv, Good
<1>5. PICK live, kids : live = Live(node, l) /\ kids = Kids(node, l)
  OBVIOUS
<1>6. /\ live = {p \in Page : node[p].type # "freed"}
      /\ l.page \in live /\ l.right \in live /\ l.page # l.right /\ l.right \in Page
      /\ l.sep \in Key /\ node[l.right].parent = l.page /\ h[l.right] + 1 = h[l.page]
      /\ kids[l.page] = Range(node[l.page].children)
      /\ l.right \notin Range(node[l.page].children)
      /\ Tree(live, kids, root, {l.right}, {}, Parents(node), h)
  BY <1>2, <1>3, <1>4, <1>5, PromotingParts
<1>7. PICK x : x = node[l.page]
  OBVIOUS
<1>8. x \in Node /\ x.type = "internal"
  BY <1>2, <1>3, <1>7
<1>9. /\ k2 \in Seq(Key) /\ Len(k2) = Len(x.keys) + 1
      /\ c2 \in Seq(Page) /\ Len(c2) = Len(x.keys) + 2 /\ IsInjective(c2)
      /\ Range(c2) = Range(x.children) \cup {l.right}
  BY <1>0, <1>1, <1>6, <1>7, <1>8, NewEntryParts
<1>10. PICK y : y = [x EXCEPT !.keys = k2, !.children = c2]
  OBVIOUS
<1>11. /\ y \in Node /\ y.type = "internal" /\ y.parent = x.parent /\ y.children = c2
  <2>1. x \in InternalNodes /\ Len(x.keys) \in Nat
    BY <1>8, InternalParts
  <2>2. /\ y \in InternalNodes /\ y.type = "internal" /\ y.parent = x.parent /\ y.children = c2
        /\ y.keys = k2
    BY <1>9, <1>10, <2>1 DEF InternalNodes
  <2>3. Len(c2) = Len(k2) + 1
    BY <1>9, <2>1
  <2> QED BY <1>9, <2>2, <2>3 DEF Node
<1>12. node' = [node EXCEPT ![l.page] = y]
  BY <1>2, <1>3, <1>7, <1>10
<1>13. node' \in [Page -> Node] /\ node'[l.page] = y
       /\ \A p \in Page : p # l.page => node'[p] = node[p]
  BY <1>2, <1>3, <1>11, <1>12
<1>14. a \in Seq(Page \X PageOrNone)
       /\ \A c, r : << c, r >> \in Range(a) <=> c = l.right /\ r = l.page
  <2>1. l.page \in PageOrNone
    BY <1>3 DEF Locals
  <2> QED BY <1>1, <1>6, <2>1, OnePair
<1>15. PICK l2 : l2 = [l EXCEPT !.pc = "adopt", !.then = "return", !.adopt = a]
  OBVIOUS
<1>16. l2 \in Locals /\ l2.pc = "adopt" /\ l2.then = "return" /\ l2.adopt = a
  BY <1>3, <1>14, <1>15 DEF Locals
<1>17. ~ Merging(l2) /\ ~ Collapsing(l2) /\ ~ Promoting(l2) /\ ~ Splitting(l2) /\ ~ NewTop(l2)
  BY <1>16 DEF Merging, Collapsing, Promoting, Splitting, NewTop
<1>18. Top(root, l2) = root /\ Loose(l2) = {} /\ Due(l2) = Range(a)
  BY <1>16, <1>17 DEF Top, Loose, Due
<1>19. Live(node', l2) = live
  BY <1>2, <1>6, <1>11, <1>13, <1>17 DEF Live
<1>20. PICK kids2 : kids2 = Kids(node', l2)
  OBVIOUS
<1>21. /\ kids2[l.page] = kids[l.page] \cup {l.right}
       /\ \A q \in live : q # l.page => kids2[q] = kids[q]
  <2>1. \A q \in Page : kids2[q] = IF node'[q].type # "internal" THEN {} ELSE Range(node'[q].children)
    BY <1>17, <1>20 DEF Kids
  <2>2. ~ Merging(l)
    BY <1>2 DEF Merging
  <2>3. \A q \in Page : kids[q] = IF node[q].type # "internal" THEN {} ELSE Range(node[q].children)
    BY <1>5, <2>2 DEF Kids
  <2>4. kids2[l.page] = Range(c2)
    BY <1>2, <1>11, <1>13, <2>1
  <2>5. ASSUME NEW q \in live, q # l.page PROVE kids2[q] = kids[q]
    <3>1. q \in Page /\ node'[q] = node[q]
      BY <1>6, <1>13, <2>5
    <3> QED BY <2>1, <2>3, <3>1
  <2> QED BY <1>6, <1>7, <1>9, <2>4, <2>5
<1>22. PICK due, up, up2 : due = Range(a) /\ up = Parents(node) /\ up2 = Parents(node')
  OBVIOUS
<1>23. (\A q \in live : up2[q] = up[q]) /\ up[l.right] = l.page
  BY <1>6, <1>7, <1>11, <1>13, <1>22 DEF Parents
<1>24. Tree(live, kids2, root, {}, due, up2, h)
  <2>1. Tree(live, kids, root, {l.right}, {}, up, h)
    BY <1>6, <1>22
  <2>2. \A c, q : << c, q >> \in due => c = l.right /\ q = l.page
    BY <1>14, <1>22
  <2>3. Attaches(live, kids, h, up, l.right, l.page, kids2, up2, due)
    BY <1>6, <1>21, <1>23, <2>2 DEF Attaches
  <2> QED BY <2>1, <2>3, Attach
<1>25. TreeOf(node', root, l2, h)
  <2>1. \A p \in live : node'[p].type = node[p].type
    BY <1>2, <1>6, <1>11, <1>13
  <2>2. Ground(node', live, h)
    BY <1>4, <1>5, <2>1 DEF TreeOf, Ground
  <2> QED BY <1>18, <1>19, <1>20, <1>22, <1>24, <2>2 DEF TreeOf
<1>26. Local(node', l2, h)
  BY <1>16, <1>17 DEF Local, Asked
<1>27. Good(node', root', l2)
  BY <1>2, <1>3, <1>13, <1>16, <1>25, <1>26 DEF Good, Typed
<1> QED BY <1>2, <1>15, <1>27, StepsTo

(* The halves of the keys and of the children, the median left out. *)
Halved(k, c, ka, kb, sep, ca, cb) ==
    /\ ka \in Seq(Key) /\ kb \in Seq(Key) /\ sep \in Key
    /\ ca \in Seq(Page) /\ cb \in Seq(Page)
    /\ Len(ca) = Len(ka) + 1 /\ Len(cb) = Len(kb) + 1
    /\ IsInjective(ca) /\ IsInjective(cb)
    /\ Range(ca) \cup Range(cb) = Range(c) /\ Range(ca) \cap Range(cb) = {}

LEMMA Halves ==
    ASSUME NEW k \in Seq(Key), NEW c \in Seq(Page), Len(c) = Len(k) + 1, Len(k) >= 1,
           IsInjective(c), NEW mid, mid = Half(k)
    PROVE  Halved(k, c, SubSeq(k, 1, mid), SubSeq(k, mid + 2, Len(k)), k[mid + 1],
                  SubSeq(c, 1, mid + 1), SubSeq(c, mid + 2, Len(c)))
<1>1. PICK n \in Nat : n = Len(k) /\ n >= 1 /\ DOMAIN k = 1 .. n
  OBVIOUS
<1>2. /\ mid \in 0 .. n /\ mid \in 0 .. Len(c) /\ mid + 1 \in 1 .. n
  BY <1>1 DEF Half
<1>3. PICK m \in 0 .. Len(k) : m = mid + 1 /\ m + 1 = mid + 2 /\ m \in 0 .. Len(c)
  BY <1>1, <1>2
<1>4. CutInto(Key, k, mid, SubSeq(k, 1, mid), SubSeq(k, mid + 1, Len(k)))
  BY <1>1, <1>2, CutParts
<1>5. CutInto(Key, k, m, SubSeq(k, 1, m), SubSeq(k, m + 1, Len(k)))
  BY <1>3, CutParts
<1>6. CutInto(Page, c, m, SubSeq(c, 1, m), SubSeq(c, m + 1, Len(c)))
  BY <1>3, CutParts
<1>7. PICK ka, kb, kc, kd, ca, cb :
         /\ ka = SubSeq(k, 1, mid) /\ kb = SubSeq(k, mid + 1, Len(k))
         /\ kc = SubSeq(k, 1, m) /\ kd = SubSeq(k, mid + 2, Len(k))
         /\ ca = SubSeq(c, 1, mid + 1) /\ cb = SubSeq(c, mid + 2, Len(c))
  OBVIOUS
<1>8. CutInto(Key, k, mid, ka, kb) /\ CutInto(Key, k, m, kc, kd) /\ CutInto(Page, c, m, ca, cb)
  BY <1>3, <1>4, <1>5, <1>6, <1>7
<1>9. /\ ka \in Seq(Key) /\ Len(ka) = mid /\ kd \in Seq(Key) /\ Len(kd) = n - m
      /\ ca \in Seq(Page) /\ Len(ca) = m /\ cb \in Seq(Page) /\ Len(cb) = Len(c) - m
      /\ Range(ca) \cup Range(cb) = Range(c)
      /\ IsInjective(ca) /\ IsInjective(cb) /\ Range(ca) \cap Range(cb) = {}
  BY <1>1, <1>8 DEF CutInto
<1>10. Len(ca) = Len(ka) + 1 /\ Len(cb) = Len(kd) + 1
  BY <1>1, <1>2, <1>3, <1>9
<1>11. k[mid + 1] \in Key
  BY <1>1, <1>2
<1> QED BY <1>7, <1>9, <1>10, <1>11 DEF Halved

LEMMA SplitInternalStep ==
    ASSUME OneWriter, Inv, NeverOverrun', SplitInternal(TheWriter)
    PROVE  Inv'
<1>0. PICK l : l = run[TheWriter]
  OBVIOUS
<1>1. PICK k2, c2, mid, new, p :
         /\ k2 = NewKeys(TheWriter) /\ c2 = NewChildren(TheWriter) /\ mid = Half(k2)
         /\ new = NewPage /\ p = node[l.page].parent
  OBVIOUS
<1>2. PICK ka, kb, ca, cb : /\ ka = SubSeq(k2, 1, mid) /\ kb = SubSeq(k2, mid + 2, Len(k2))
                            /\ ca = SubSeq(c2, 1, mid + 1) /\ cb = SubSeq(c2, mid + 2, Len(c2))
  OBVIOUS
<1>3. PICK x, y, a, sep : /\ y = Internal(kb, cb, p) /\ x = Internal(ka, ca, p)
                          /\ a = Orphans(cb, new) /\ sep = k2[mid + 1]
  OBVIOUS
<1>4. /\ l.pc = "parent" /\ root' = root
      /\ l.page \in Page /\ node[l.page].type = "internal"
      /\ new \in Page /\ node[new].type = "freed"
      /\ node' = [node EXCEPT ![new] = y, ![l.page] = x]
      /\ run' = [run EXCEPT ![TheWriter] =
                   [l EXCEPT !.pc = "adopt", !.then = "promote", !.right = new,
                             !.sep = sep, !.adopt = a]]
  BY <1>0, <1>1, <1>2, <1>3, NewPageIsFree DEF SplitInternal, At, IsInternal, Continue
<1>5. l \in Locals /\ node \in [Page -> Node] /\ root \in Page
  BY <1>0, NodesNow
<1>6. PICK h : TreeOf(node, root, l, h) /\ Local(node, l, h)
  BY <1>0, <1>4 DEF Inv, Good
<1>7. PICK live, kids : live = Live(node, l) /\ kids = Kids(node, l)
  OBVIOUS
<1>8. /\ live = {q \in Page : node[q].type # "freed"}
      /\ l.page \in live /\ l.right \in live /\ l.page # l.right /\ l.right \in Page
      /\ l.sep \in Key /\ node[l.right].parent = l.page /\ h[l.right] + 1 = h[l.page]
      /\ kids[l.page] = Range(node[l.page].children)
      /\ l.right \notin Range(node[l.page].children)
      /\ Tree(live, kids, root, {l.right}, {}, Parents(node), h)
  BY <1>4, <1>5, <1>6, <1>7, PromotingParts
<1>9. PICK old : old = node[l.page]
  OBVIOUS
<1>10. old \in Node /\ old.type = "internal" /\ Len(old.keys) \in Nat /\ p \in PageOrNone
  <2>1. old \in Node /\ old.type = "internal"
    BY <1>4, <1>5, <1>9
  <2> QED BY <1>1, <1>9, <2>1, InternalParts DEF InternalNodes
<1>11. /\ k2 \in Seq(Key) /\ Len(k2) = Len(old.keys) + 1
       /\ c2 \in Seq(Page) /\ Len(c2) = Len(old.keys) + 2 /\ IsInjective(c2)
       /\ Range(c2) = kids[l.page] \cup {l.right}
  BY <1>0, <1>1, <1>8, <1>9, <1>10, NewEntryParts
<1>12. Len(c2) = Len(k2) + 1 /\ Len(k2) >= 1
  BY <1>10, <1>11
<1>13. /\ ka \in Seq(Key) /\ kb \in Seq(Key) /\ sep \in Key
       /\ ca \in Seq(Page) /\ cb \in Seq(Page)
       /\ Len(ca) = Len(ka) + 1 /\ Len(cb) = Len(kb) + 1
       /\ IsInjective(ca) /\ IsInjective(cb)
       /\ Range(ca) \cup Range(cb) = Range(c2) /\ Range(ca) \cap Range(cb) = {}
  <2>1. Halved(k2, c2, ka, kb, sep, ca, cb)
    BY <1>1, <1>2, <1>3, <1>11, <1>12, Halves
  <2> QED BY <2>1 DEF Halved
<1>14. new # l.page /\ new \notin live
  BY <1>4, <1>8
<1>15. /\ node'[new] = y /\ node'[l.page] = x
       /\ \A q \in Page : q # new /\ q # l.page => node'[q] = node[q]
  BY <1>4, <1>5, <1>14
<1>16. x.type # "overrun" /\ y.type # "overrun"
  BY <1>4, <1>15 DEF NeverOverrun
<1>17. x \in Node /\ x.type = "internal" /\ x.parent = p /\ x.children = ca
  <2>1. FitsInternal(ka, ca, p)
    BY <1>3, <1>10, <1>13, <1>16 DEF FitsInternal
  <2> QED BY <1>3, <2>1, MadeInternal
<1>18. y \in Node /\ y.type = "internal" /\ y.parent = p /\ y.children = cb
  <2>1. FitsInternal(kb, cb, p)
    BY <1>3, <1>10, <1>13, <1>16 DEF FitsInternal
  <2> QED BY <1>3, <2>1, MadeInternal
<1>19. node' \in [Page -> Node]
  BY <1>4, <1>5, <1>17, <1>18
<1>20. new \in PageOrNone /\ sep \in 0 .. MaxKey
  BY <1>4, <1>13 DEF Page, PageOrNone, Key
<1>21. /\ a \in Seq(Page \X PageOrNone)
       /\ \A c, r : << c, r >> \in Range(a) <=> r = new /\ c \in Range(cb)
  BY <1>3, <1>13, <1>20, OrphanPairs
<1>22. PICK l2 : l2 = [l EXCEPT !.pc = "adopt", !.then = "promote", !.right = new,
                                !.sep = sep, !.adopt = a]
  OBVIOUS
<1>23. /\ l2 \in Locals /\ l2.pc = "adopt" /\ l2.then = "promote" /\ l2.right = new
       /\ l2.page = l.page /\ l2.sep = sep /\ l2.adopt = a
  BY <1>5, <1>20, <1>21, <1>22 DEF Locals
<1>24. ~ Merging(l2) /\ ~ Collapsing(l2) /\ Promoting(l2) /\ Splitting(l2) /\ ~ NewTop(l2)
  BY <1>23 DEF Merging, Collapsing, Promoting, Splitting, NewTop
<1>25. Top(root, l2) = root /\ Loose(l2) = {new} /\ Due(l2) = Range(a)
  BY <1>23, <1>24 DEF Top, Loose, Due
<1>26. Live(node', l2) = live \cup {new}
  BY <1>4, <1>8, <1>14, <1>15, <1>17, <1>18, <1>24 DEF Live
<1>27. PICK kids2, kids3 : /\ kids2 = Kids(node', l2)
                           /\ kids3 = [kids EXCEPT ![l.page] = @ \cup {l.right}]
  OBVIOUS
<1>28. /\ kids3[l.page] = kids[l.page] \cup {l.right}
       /\ \A q \in live : q # l.page => kids3[q] = kids[q]
  BY <1>4, <1>7, <1>8, <1>27 DEF Kids
<1>29. /\ kids2[l.page] = Range(ca) /\ kids2[new] = Range(cb)
       /\ \A q \in live : q # l.page => kids2[q] = kids3[q]
  <2>1. \A q \in Page : kids2[q] = IF node'[q].type # "internal" THEN {} ELSE Range(node'[q].children)
    BY <1>24, <1>27 DEF Kids
  <2>2. ~ Merging(l)
    BY <1>4 DEF Merging
  <2>3. \A q \in Page : kids[q] = IF node[q].type # "internal" THEN {} ELSE Range(node[q].children)
    BY <1>7, <2>2 DEF Kids
  <2>4. kids2[l.page] = Range(ca) /\ kids2[new] = Range(cb)
    BY <1>4, <1>15, <1>17, <1>18, <2>1
  <2>5. ASSUME NEW q \in live, q # l.page PROVE kids2[q] = kids3[q]
    <3>1. q \in Page /\ node'[q] = node[q]
      BY <1>8, <1>14, <1>15, <2>5
    <3> QED BY <1>28, <2>1, <2>3, <2>5, <3>1
  <2> QED BY <2>4, <2>5
<1>30. PICK due, up, up2, h2 : /\ due = Range(a) /\ up = Parents(node) /\ up2 = Parents(node')
                               /\ h2 = [h EXCEPT ![new] = h[l.page]]
  OBVIOUS
<1>31. (\A q \in live : up2[q] = up[q]) /\ up[l.right] = l.page
  BY <1>1, <1>8, <1>14, <1>15, <1>17, <1>30 DEF Parents
<1>32. Tree(live, kids3, root, {}, {}, up, h)
  <2>1. Tree(live, kids, root, {l.right}, {}, up, h)
    BY <1>8, <1>30
  <2>2. PICK none : none = {}
    OBVIOUS
  <2>3. \A c, q : << c, q >> \in none => c = l.right /\ q = l.page
    BY <2>2
  <2>4. Tree(live, kids3, root, {}, none, up, h)
    <3>1. Attaches(live, kids, h, up, l.right, l.page, kids3, up, none)
      BY <1>8, <1>28, <1>31, <2>3 DEF Attaches
    <3> QED BY <2>1, <3>1, Attach
  <2> QED BY <2>2, <2>4
<1>33. /\ Tree(live \cup {new}, kids2, root, {new}, due, up2, h2)
       /\ h2[new] = h2[l.page]
  <2>1. \A c, q : << c, q >> \in due <=> q = new /\ c \in kids2[new]
    BY <1>21, <1>29, <1>30
  <2>2. kids2[l.page] \cup kids2[new] = kids3[l.page] /\ kids2[l.page] \cap kids2[new] = {}
    BY <1>11, <1>13, <1>28, <1>29
  <2>3. SplitsOff(live, kids3, h, up, l.page, new, kids2, h2, up2, due)
    BY <1>4, <1>8, <1>14, <1>29, <1>30, <1>31, <2>1, <2>2 DEF SplitsOff
  <2>4. PICK page : page = l.page
    OBVIOUS
  <2>5. SplitsOff(live, kids3, h, up, page, new, kids2, h2, up2, due)
    BY <2>3, <2>4
  <2>6. h2[new] = h2[page]
    <3>1. h \in [Page -> Nat] /\ page \in Page
      BY <1>4, <1>32, <2>4 DEF Tree, Layered
    <3> QED BY <1>4, <1>14, <1>30, <2>4, <3>1
  <2>7. Tree(live \cup {new}, kids2, root, {new}, due, up2, h2)
    BY <1>32, <2>5, SplitOff
  <2> QED BY <2>4, <2>6, <2>7
<1>34. TreeOf(node', root, l2, h2)
  <2>1. h \in [Page -> Nat] /\ Ground(node, live, h)
    BY <1>6, <1>7 DEF TreeOf, Tree, Layered
  <2>2. \A q \in live : node'[q].type = node[q].type /\ h2[q] = h[q]
    BY <1>4, <1>8, <1>14, <1>15, <1>17, <1>30, <2>1
  <2>3. Ground(node', live \cup {new}, h2)
    BY <1>15, <1>18, <2>1, <2>2 DEF Ground
  <2> QED BY <1>25, <1>26, <1>27, <1>30, <1>33, <2>3 DEF TreeOf
<1>35. Local(node', l2, h2)
  <2>1. Beside(node', l2, h2)
    <3>1. \A c, q : << c, q >> \in Due(l2) => q = new
      BY <1>21, <1>25
    <3> QED BY <1>8, <1>14, <1>15, <1>17, <1>18, <1>23, <1>26, <1>33, <3>1 DEF Beside
  <2>2. Asked(l2)
    BY <1>13, <1>23 DEF Asked
  <2> QED BY <1>23, <1>24, <2>1, <2>2 DEF Local
<1>36. Good(node', root', l2)
  BY <1>4, <1>5, <1>19, <1>23, <1>34, <1>35 DEF Good, Typed
<1> QED BY <1>4, <1>22, <1>36, StepsTo

(* The two siblings a delete looks at. *)
Paired(l, h) ==
    /\ l.parent \in Page /\ node[l.parent].type = "internal"
    /\ l.page \in Live(node, l) /\ l.right \in Live(node, l) /\ l.parent \in Live(node, l)
    /\ l.page \in Page /\ l.right \in Page
    /\ l.page # l.right /\ l.parent # l.page /\ l.parent # l.right
    /\ node[l.page].parent = l.parent /\ node[l.right].parent = l.parent
    /\ l.page \in Kids(node, l)[l.parent] /\ l.right \in Kids(node, l)[l.parent]
    /\ Live(node, l) = {p \in Page : node[p].type # "freed"}
    /\ \A p \in Page :
          Kids(node, l)[p] = IF node[p].type = "internal" THEN Range(node[p].children) ELSE {}
    /\ Neighbours(node, l)
    /\ Tree(Live(node, l), Kids(node, l), root, {}, {}, Parents(node), h)
    /\ Ground(node, Live(node, l), h)

LEMMA SharingParts ==
    ASSUME Inv, NEW l, l = run[TheWriter], l.pc = "share"
    PROVE  \E h : Paired(l, h)
<1>1. Plain(l) /\ Good(node, root, l) /\ l.pc # "failed"
  BY DEF Inv, Plain
<1>2. PICK h : TreeOf(node, root, l, h) /\ Local(node, l, h)
  BY <1>1 DEF Good
<1>3. Neighbours(node, l) /\ Typed(node, root, l)
  BY <1>1, <1>2 DEF Local, Good
<1>4. /\ l.parent \in Page /\ l.page \in Live(node, l) /\ l.right \in Live(node, l)
      /\ l.page \in Page /\ l.right \in Page
      /\ l.page # l.right /\ l.parent # l.page /\ l.parent # l.right
      /\ node[l.page].parent = l.parent /\ node[l.right].parent = l.parent
      /\ l.page \in Kids(node, l)[l.parent] /\ l.right \in Kids(node, l)[l.parent]
  BY <1>1, <1>2, <1>3, NeighbourParts
<1>5. Tree(Live(node, l), Kids(node, l), root, {}, {}, Parents(node), h)
  BY <1>1, <1>2, PlainView DEF TreeOf
<1>6. /\ Live(node, l) = {p \in Page : node[p].type # "freed"}
      /\ \A p \in Page :
            Kids(node, l)[p] = IF node[p].type = "internal" THEN Range(node[p].children) ELSE {}
  BY <1>1, PlainView
<1>7. node[l.parent].type = "internal" /\ l.parent \in Live(node, l)
  BY <1>3 DEF Neighbours
<1>8. Ground(node, Live(node, l), h)
  BY <1>2 DEF TreeOf
<1>9. Paired(l, h)
  BY <1>3, <1>4, <1>5, <1>6, <1>7, <1>8 DEF Paired
<1> QED BY <1>9

(* The left sibling, as x, takes what the right one holds. *)
Absorbs(l, x, l2, due) ==
    /\ l.pc = "share" /\ x \in Node /\ x.parent = l.parent
    /\ x.type \in {"leaf", "internal"}
    /\ x.type = node[l.page].type /\ x.type = node[l.right].type
    /\ x.type = "internal" =>
          Range(x.children) = Range(node[l.page].children) \cup Range(node[l.right].children)
    /\ l2 \in Locals /\ l2.pc \in {"next", "adopt"} /\ l2.then = "free"
    /\ l2.page = l.page /\ l2.right = l.right /\ l2.parent = l.parent /\ l2.slot = l.slot
    /\ due = Due(l2)
    /\ \A c, r : << c, r >> \in due <=>
          r = l.page /\ x.type = "internal" /\ c \in Range(node[l.right].children)

LEMMA MergeStep ==
    ASSUME OneWriter, Inv, NEW l, l = run[TheWriter], root' = root,
           NEW x, node' = [node EXCEPT ![l.page] = x],
           NEW l2, run' = [run EXCEPT ![TheWriter] = l2],
           NEW due, Absorbs(l, x, l2, due)
    PROVE  Inv'
<1> USE DEF Absorbs
<1>1. node \in [Page -> Node] /\ root \in Page
  BY NodesNow
<1>2. PICK h : Paired(l, h)
  BY SharingParts
<1>3. PICK live, kids, up : live = Live(node, l) /\ kids = Kids(node, l) /\ up = Parents(node)
  OBVIOUS
<1>4. /\ l.parent \in live /\ l.page \in live /\ l.right \in live
      /\ l.parent \in Page /\ l.page \in Page /\ l.right \in Page
      /\ l.page # l.right /\ l.parent # l.page /\ l.parent # l.right
      /\ node[l.page].parent = l.parent /\ node[l.parent].type = "internal"
      /\ l.page \in kids[l.parent] /\ l.right \in kids[l.parent]
      /\ live = {p \in Page : node[p].type # "freed"}
      /\ \A p \in Page :
            kids[p] = IF node[p].type = "internal" THEN Range(node[p].children) ELSE {}
      /\ Tree(live, kids, root, {}, {}, up, h)
      /\ Neighbours(node, l)
  BY <1>2, <1>3 DEF Paired
<1>5. node' \in [Page -> Node] /\ node'[l.page] = x
      /\ \A p \in Page : p # l.page => node'[p] = node[p]
  BY <1>1, <1>4
<1>6. Merging(l2) /\ ~ Collapsing(l2) /\ ~ Promoting(l2) /\ ~ Splitting(l2) /\ ~ NewTop(l2)
  BY DEF Merging, Collapsing, Promoting, Splitting, NewTop
<1>7. Top(root, l2) = root /\ Loose(l2) = {}
  BY <1>6 DEF Top, Loose
<1>8. PICK live2, kids2, up2 :
         live2 = Live(node', l2) /\ kids2 = Kids(node', l2) /\ up2 = Parents(node')
  OBVIOUS
<1>9. live2 = live \ {l.right}
  BY <1>4, <1>5, <1>6, <1>8 DEF Live
<1>10. \A p \in Page :
          kids2[p] = IF node'[p].type # "internal" THEN {}
                     ELSE IF p = l.parent THEN Range(node'[p].children) \ {l.right}
                     ELSE Range(node'[p].children)
  BY <1>6, <1>8 DEF Kids
<1>11. kids2[l.page] = kids[l.page] \cup kids[l.right]
  <2>1. kids2[l.page] = IF x.type # "internal" THEN {} ELSE Range(x.children)
    BY <1>4, <1>5, <1>10
  <2>2. /\ kids[l.page] = IF x.type = "internal" THEN Range(node[l.page].children) ELSE {}
        /\ kids[l.right] = IF x.type = "internal" THEN Range(node[l.right].children) ELSE {}
    BY <1>4
  <2> QED BY <2>1, <2>2
<1>12. kids2[l.parent] = kids[l.parent] \ {l.right}
  BY <1>4, <1>5, <1>10
<1>13. ASSUME NEW r \in live, r \notin {l.parent, l.page, l.right} PROVE kids2[r] = kids[r]
  <2>1. r \in Page /\ node'[r] = node[r]
    BY <1>4, <1>5, <1>13
  <2>2. kids2[r] = IF node[r].type # "internal" THEN {} ELSE Range(node[r].children)
    <3> HIDE DEF Absorbs
    <3>1. r # l.parent
      BY <1>13
    <3>2. kids2[r] = IF node'[r].type # "internal" THEN {} ELSE Range(node'[r].children)
      BY <1>10, <2>1, <3>1
    <3> QED BY <2>1, <3>2
  <2>3. kids[r] = IF node[r].type = "internal" THEN Range(node[r].children) ELSE {}
    BY <1>4, <2>1
  <2> QED BY <2>2, <2>3
<1>14. \A r \in live : up2[r] = up[r]
  BY <1>3, <1>4, <1>5, <1>8 DEF Parents
<1>15. \A c, r : << c, r >> \in due <=> r = l.page /\ c \in kids[l.right]
  <2>1. \A c, r : << c, r >> \in due <=>
           r = l.page /\ x.type = "internal" /\ c \in Range(node[l.right].children)
    OBVIOUS
  <2>2. x.type = node[l.right].type
    OBVIOUS
  <2> HIDE DEF Absorbs
  <2>3. kids[l.right] = IF x.type = "internal" THEN Range(node[l.right].children) ELSE {}
    BY <1>4, <2>2
  <2> QED BY <2>1, <2>3
<1>16. Merges(live, kids, up, l.parent, l.page, l.right, kids2, up2, due)
  BY <1>4, <1>11, <1>12, <1>13, <1>14, <1>15 DEF Merges
<1>17. Tree(live2, kids2, root, {}, due, up2, h)
  BY <1>4, <1>9, <1>16, MergeTree
<1>18. TreeOf(node', root, l2, h)
  <2>1. Ground(node, live, h)
    BY <1>2, <1>3 DEF Paired
  <2>2. \A p \in live2 : p \in live /\ node'[p].type = node[p].type
    BY <1>4, <1>5, <1>9
  <2>3. Ground(node', live2, h)
    BY <2>1, <2>2 DEF Ground
  <2> QED BY <1>7, <1>8, <1>17, <2>3 DEF TreeOf
<1>19. Neighbours(node', l2)
  <2>1. node'[l.parent] = node[l.parent] /\ l.parent \in live2
    BY <1>4, <1>5, <1>9
  <2>2. l2.page = l.page /\ l2.right = l.right /\ l2.parent = l.parent /\ l2.slot = l.slot
    OBVIOUS
  <2> HIDE DEF Absorbs
  <2>3. PICK z : z = node[l.parent]
    OBVIOUS
  <2>4. /\ z.type = "internal" /\ l.slot \in 1 .. Len(z.keys)
        /\ z.children[l.slot] = l.page /\ z.children[l.slot + 1] = l.right
    BY <1>4, <2>3 DEF Neighbours
  <2>5. l2.parent \in Live(node', l2) /\ node'[l2.parent] = z
    BY <1>8, <2>1, <2>2, <2>3
  <2> QED BY <2>2, <2>4, <2>5 DEF Neighbours
<1>20. Local(node', l2, h)
  <2>1. Asked(l2)
    <3>1. l2.pc \notin {"find", "insert", "separator"}
      OBVIOUS
    <3> QED BY <1>6, <3>1 DEF Asked
  <2>2. l2.pc # "parent" /\ l2.pc # "remove" /\ l2.pc # "separator"
    OBVIOUS
  <2> QED BY <1>6, <1>19, <2>1, <2>2 DEF Local
<1>21. Good(node', root', l2)
  BY <1>1, <1>5, <1>18, <1>20 DEF Good, Typed
<1> QED BY <1>21, StepsTo

LEMMA MergeLeavesStep ==
    ASSUME OneWriter, Inv, NeverOverrun', MergeLeaves(TheWriter)
    PROVE  Inv'
<1>0. PICK l : l = run[TheWriter]
  OBVIOUS
<1>1. PICK e, x, next : /\ e = Merged(TheWriter) /\ next = node[l.right].next
                        /\ x = Leaf(e, l.parent, node[l.page].prev, next)
  OBVIOUS
<1>2. /\ l.pc = "share" /\ root' = root
      /\ l.page \in Page /\ node[l.page].type = "leaf"
      /\ l.right \in Page /\ node[l.right].type = "leaf"
      /\ node' = [node EXCEPT ![l.page] = x]
      /\ run' = [run EXCEPT ![TheWriter] = [l EXCEPT !.pc = "next", !.then = "free", !.next = next]]
  <2>1. node' = [node EXCEPT ![l.page] = Leaf(Merged(TheWriter), l.parent, @.prev, R(TheWriter).next)]
    BY <1>0 DEF MergeLeaves
  <2>2. node' = [node EXCEPT ![l.page] = x]
    BY <1>0, <1>1, <2>1 DEF R
  <2> QED BY <1>0, <1>1, <2>2 DEF MergeLeaves, At, IsLeaf, Continue, R
<1>3. l \in Locals /\ node \in [Page -> Node]
  BY <1>0, NodesNow
<1>4. node[l.page] \in LeafNodes /\ node[l.right] \in LeafNodes
  BY <1>2, <1>3, LeafParts
<1>5. PICK a \in Seq(Entry), b \in Seq(Entry) : a = node[l.page].entries /\ b = node[l.right].entries
  BY <1>4 DEF LeafNodes
<1>6. e \in Seq(Entry)
  <2>1. e = a \o b
    BY <1>0, <1>1, <1>5 DEF Merged, L, R
  <2> QED BY <2>1
<1>7. PICK p \in PageOrNone, prev \in PageOrNone : p = l.parent /\ prev = node[l.page].prev
  BY <1>3, <1>4 DEF Locals, LeafNodes
<1>8. next \in PageOrNone
  BY <1>1, <1>4 DEF LeafNodes
<1>9. node'[l.page] = x
  BY <1>2, <1>3
<1>10. x \in Node /\ x.type = "leaf" /\ x.parent = l.parent
  <2>1. x.type # "overrun"
    BY <1>2, <1>9 DEF NeverOverrun
  <2>2. x = Leaf(e, p, prev, next)
    BY <1>1, <1>7
  <2> QED BY <1>6, <1>7, <1>8, <2>1, <2>2, MadeLeaf
<1>11. PICK l2 : l2 = [l EXCEPT !.pc = "next", !.then = "free", !.next = next]
  OBVIOUS
<1>12. /\ l2 \in Locals /\ l2.pc = "next" /\ l2.then = "free" /\ l2.page = l.page
       /\ l2.right = l.right /\ l2.parent = l.parent /\ l2.slot = l.slot
  BY <1>3, <1>8, <1>11 DEF Locals
<1>13. PICK due : due = Due(l2) /\ due = {}
  BY <1>12 DEF Due
<1>14. \A c, r : << c, r >> \in due <=>
          r = l.page /\ x.type = "internal" /\ c \in Range(node[l.right].children)
  BY <1>10, <1>13
<1>15. Absorbs(l, x, l2, due)
  BY <1>2, <1>10, <1>12, <1>13, <1>14 DEF Absorbs
<1> QED BY <1>0, <1>2, <1>11, <1>15, MergeStep

(* Siblings have no child in common. *)
LEMMA ApartKids ==
    ASSUME NEW l, NEW h, Paired(l, h),
           node[l.page].type = "internal", node[l.right].type = "internal"
    PROVE  Range(node[l.page].children) \cap Range(node[l.right].children) = {}
<1>1. PICK live, kids, up : live = Live(node, l) /\ kids = Kids(node, l) /\ up = Parents(node)
  OBVIOUS
<1>2. /\ l.page \in live /\ l.right \in live /\ l.page # l.right
      /\ kids[l.page] = Range(node[l.page].children)
      /\ kids[l.right] = Range(node[l.right].children)
      /\ Tree(live, kids, root, {}, {}, up, h)
  BY <1>1 DEF Paired
<1>3. \A p, q \in live : \A c : c \in kids[p] /\ c \in kids[q] => p = q
  BY <1>2 DEF Tree, Linked
<1> QED BY <1>2, <1>3

(* The separator of two neighbours. *)
LEMMA SeparatorIsKey ==
    ASSUME Inv, NEW l, l = run[TheWriter], NEW h, Paired(l, h)
    PROVE  /\ Separator(TheWriter) \in Key /\ l.slot \in 1 .. Len(node[l.parent].keys)
           /\ Separator(TheWriter) = node[l.parent].keys[l.slot]
<1>1. node \in [Page -> Node] /\ l.parent \in Page /\ node[l.parent].type = "internal"
  BY NodesNow DEF Paired
<1>2. PICK k \in Seq(Key) : k = node[l.parent].keys
  BY <1>1, InternalParts
<1>3. l.slot \in 1 .. Len(k)
  BY <1>2 DEF Paired, Neighbours
<1>4. k[l.slot] \in Key
  BY <1>3
<1> QED BY <1>2, <1>3, <1>4 DEF Separator

LEMMA MergeInternalsStep ==
    ASSUME OneWriter, Inv, NeverOverrun', MergeInternals(TheWriter)
    PROVE  Inv'
<1>0. PICK l : l = run[TheWriter]
  OBVIOUS
<1>1. PICK sep, lk, lc, rk, rc : /\ sep = Separator(TheWriter)
                                 /\ lk = node[l.page].keys /\ lc = node[l.page].children
                                 /\ rk = node[l.right].keys /\ rc = node[l.right].children
  OBVIOUS
<1>2. PICK x, a : /\ x = Internal((lk \o << sep >>) \o rk, lc \o rc, l.parent)
                  /\ a = Orphans(rc, l.page)
  OBVIOUS
<1>3. /\ l.pc = "share" /\ root' = root
      /\ l.page \in Page /\ node[l.page].type = "internal"
      /\ l.right \in Page /\ node[l.right].type = "internal"
      /\ node' = [node EXCEPT ![l.page] = x]
      /\ run' = [run EXCEPT ![TheWriter] = [l EXCEPT !.pc = "adopt", !.then = "free", !.adopt = a]]
  <2>1. node' = [node EXCEPT ![l.page] =
                   Internal(@.keys \o << Separator(TheWriter) >> \o R(TheWriter).keys,
                            @.children \o R(TheWriter).children, l.parent)]
    BY <1>0 DEF MergeInternals
  <2>2. node' = [node EXCEPT ![l.page] = x]
    BY <1>0, <1>1, <1>2, <2>1 DEF R
  <2>3. run' = [run EXCEPT ![TheWriter] = [l EXCEPT !.pc = "adopt", !.then = "free", !.adopt = a]]
    BY <1>0, <1>1, <1>2 DEF MergeInternals, Continue, R
  <2> QED BY <1>0, <2>2, <2>3 DEF MergeInternals, At, IsInternal
<1>4. l \in Locals /\ node \in [Page -> Node]
  BY <1>0, NodesNow
<1>5. PICK h : Paired(l, h)
  BY <1>0, <1>3, SharingParts
<1>6. /\ lk \in Seq(Key) /\ lc \in Seq(Page) /\ Len(lc) = Len(lk) + 1 /\ IsInjective(lc)
      /\ Len(lk) \in Nat
  BY <1>1, <1>3, <1>4, InternalParts
<1>7. /\ rk \in Seq(Key) /\ rc \in Seq(Page) /\ Len(rc) = Len(rk) + 1 /\ IsInjective(rc)
      /\ Len(rk) \in Nat
  BY <1>1, <1>3, <1>4, InternalParts
<1>8. sep \in Key
  BY <1>0, <1>1, <1>5, SeparatorIsKey
<1>9. PICK k, c : k = (lk \o << sep >>) \o rk /\ c = lc \o rc
  OBVIOUS
<1>10. k \in Seq(Key) /\ Len(k) = Len(lk) + 1 + Len(rk)
  BY <1>6, <1>7, <1>8, <1>9
<1>11. /\ c \in Seq(Page) /\ Len(c) = Len(lc) + Len(rc) /\ Range(c) = Range(lc) \cup Range(rc)
       /\ IsInjective(c)
  <2>1. Range(lc) \cap Range(rc) = {}
    BY <1>1, <1>3, <1>5, ApartKids
  <2>2. Joined(Page, lc, rc, c)
    BY <1>6, <1>7, <1>9, JoinedSeq
  <2> QED BY <1>6, <1>7, <2>1, <2>2 DEF Joined
<1>12. Len(c) = Len(k) + 1
  BY <1>6, <1>7, <1>10, <1>11
<1>13. node'[l.page] = x
  BY <1>3, <1>4
<1>14. x \in Node /\ x.type = "internal" /\ x.parent = l.parent /\ x.children = c
  <2>1. x.type # "overrun"
    BY <1>3, <1>13 DEF NeverOverrun
  <2>2. PICK p \in PageOrNone : p = l.parent
    BY <1>4 DEF Locals
  <2>3. x = Internal(k, c, p)
    BY <1>2, <1>9, <2>2
  <2>4. FitsInternal(k, c, p)
    BY <1>10, <1>11, <1>12, <2>1, <2>3 DEF FitsInternal
  <2> QED BY <2>2, <2>3, <2>4, MadeInternal
<1>15. /\ a \in Seq(Page \X PageOrNone)
       /\ \A d, r : << d, r >> \in Range(a) <=> r = l.page /\ d \in Range(rc)
  <2>1. PICK q \in PageOrNone : q = l.page
    BY <1>4 DEF Locals
  <2> QED BY <1>2, <1>7, <2>1, OrphanPairs
<1>16. PICK l2 : l2 = [l EXCEPT !.pc = "adopt", !.then = "free", !.adopt = a]
  OBVIOUS
<1>17. /\ l2 \in Locals /\ l2.pc = "adopt" /\ l2.then = "free" /\ l2.page = l.page
       /\ l2.right = l.right /\ l2.parent = l.parent /\ l2.slot = l.slot /\ l2.adopt = a
  BY <1>4, <1>15, <1>16 DEF Locals
<1>18. PICK due : due = Due(l2) /\ due = Range(a)
  BY <1>17 DEF Due
<1>19. \A d, r : << d, r >> \in due <=>
          r = l.page /\ x.type = "internal" /\ d \in Range(node[l.right].children)
  BY <1>1, <1>14, <1>15, <1>18
<1>20. Range(x.children) = Range(node[l.page].children) \cup Range(node[l.right].children)
  BY <1>1, <1>11, <1>14
<1>21. Absorbs(l, x, l2, due)
  BY <1>3, <1>14, <1>17, <1>18, <1>19, <1>20 DEF Absorbs
<1> QED BY <1>0, <1>3, <1>16, <1>21, MergeStep

(* m goes from one sibling to the other; x, y and z are what the pages become. *)
Shifts(l, x, y, z, from, to, m) ==
    /\ l.pc = "share"
    /\ node[l.page].type = "internal" /\ node[l.right].type = "internal"
    /\ x \in Node /\ x.type = "internal" /\ x.parent = l.parent
    /\ y \in Node /\ y.type = "internal" /\ y.parent = l.parent
    /\ z \in Node /\ z.type = "internal" /\ z.parent = node[l.parent].parent
    /\ z.children = node[l.parent].children
    /\ \/ /\ from = l.page /\ to = l.right
          /\ Range(x.children) = Range(node[l.page].children) \ {m}
          /\ Range(y.children) = Range(node[l.right].children) \cup {m}
       \/ /\ from = l.right /\ to = l.page
          /\ Range(x.children) = Range(node[l.page].children) \cup {m}
          /\ Range(y.children) = Range(node[l.right].children) \ {m}
    /\ m \in Range(node[from].children) /\ m \in Page

(* After a share the children that moved are told of their parent, and the call returns. *)
Adopting(l, a, l2) == l2 = [l EXCEPT !.pc = "adopt", !.then = "return", !.adopt = a]

LEMMA AdoptingIs ==
    ASSUME NEW l \in Locals, NEW a \in Seq(Page \X PageOrNone), NEW l2, Adopting(l, a, l2)
    PROVE  l2 \in Locals /\ l2.pc = "adopt" /\ l2.then = "return" /\ l2.adopt = a
<1>1. l2 = [l EXCEPT !.pc = "adopt", !.then = "return", !.adopt = a]
  BY DEF Adopting
<1> QED BY <1>1 DEF Locals

LEMMA ShiftStep ==
    ASSUME OneWriter, Inv, NEW l, l = run[TheWriter], root' = root,
           NEW x, NEW y, NEW z,
           node' = [node EXCEPT ![l.page] = x, ![l.right] = y, ![l.parent] = z],
           NEW from, NEW to, NEW m, NEW a, a = << << m, to >> >>,
           run' = [run EXCEPT ![TheWriter] = [l EXCEPT !.pc = "adopt", !.then = "return",
                                                       !.adopt = a]],
           Shifts(l, x, y, z, from, to, m)
    PROVE  Inv'
<1> USE DEF Shifts
<1>1. node \in [Page -> Node] /\ root \in Page /\ l \in Locals
  BY NodesNow
<1>2. PICK h : Paired(l, h)
  BY SharingParts
<1>3. PICK live, kids, up : live = Live(node, l) /\ kids = Kids(node, l) /\ up = Parents(node)
  OBVIOUS
<1>4. /\ l.parent \in live /\ l.page \in live /\ l.right \in live
      /\ l.parent \in Page /\ l.page \in Page /\ l.right \in Page
      /\ l.page # l.right /\ l.parent # l.page /\ l.parent # l.right
      /\ node[l.page].parent = l.parent /\ node[l.right].parent = l.parent
      /\ node[l.parent].type = "internal"
      /\ l.page \in kids[l.parent] /\ l.right \in kids[l.parent]
      /\ live = {p \in Page : node[p].type # "freed"}
      /\ \A p \in Page :
            kids[p] = IF node[p].type = "internal" THEN Range(node[p].children) ELSE {}
      /\ Tree(live, kids, root, {}, {}, up, h)
  BY <1>2, <1>3 DEF Paired
<1>5. /\ node' \in [Page -> Node]
      /\ node'[l.page] = x /\ node'[l.right] = y /\ node'[l.parent] = z
      /\ \A p \in Page : p \notin {l.page, l.right, l.parent} => node'[p] = node[p]
  BY <1>1, <1>4
<1>6. /\ a \in Seq(Page \X PageOrNone)
      /\ \A c, r : << c, r >> \in Range(a) <=> c = m /\ r = to
  <2>1. to \in PageOrNone
    BY <1>1 DEF Locals
  <2> QED BY <2>1, OnePair
<1>7. PICK l2 : l2 = [l EXCEPT !.pc = "adopt", !.then = "return", !.adopt = a]
  OBVIOUS
<1>8. l2 \in Locals /\ l2.pc = "adopt" /\ l2.then = "return" /\ l2.adopt = a
  <2> HIDE DEF Shifts
  <2>1. PICK b \in Seq(Page \X PageOrNone) : b = a
    BY <1>6
  <2>2. PICK l1 \in Locals : l1 = l
    BY <1>1
  <2>3. Adopting(l1, b, l2)
    BY <1>7, <2>1, <2>2 DEF Adopting
  <2>4. l2 \in Locals /\ l2.pc = "adopt" /\ l2.then = "return" /\ l2.adopt = b
    BY <2>3, AdoptingIs
  <2> QED BY <2>1, <2>4
<1>9. ~ Merging(l2) /\ ~ Collapsing(l2) /\ ~ Promoting(l2) /\ ~ Splitting(l2) /\ ~ NewTop(l2)
  BY <1>8 DEF Merging, Collapsing, Promoting, Splitting, NewTop
<1>10. Top(root, l2) = root /\ Loose(l2) = {} /\ Due(l2) = Range(a)
  BY <1>8, <1>9 DEF Top, Loose, Due
<1>11. Live(node', l2) = live
  <2>1. Live(node', l2) = {p \in Page : node'[p].type # "freed"}
    BY <1>9 DEF Live
  <2>2. \A p \in Page : node'[p].type # "freed" <=> node[p].type # "freed"
    BY <1>4, <1>5
  <2> QED BY <1>4, <2>1, <2>2
<1>12. PICK kids2, up2, due : kids2 = Kids(node', l2) /\ up2 = Parents(node') /\ due = Range(a)
  OBVIOUS
<1>13. \A p \in Page : kids2[p] = IF node'[p].type # "internal" THEN {} ELSE Range(node'[p].children)
  BY <1>9, <1>12 DEF Kids
<1>14. kids2[l.page] = Range(x.children) /\ kids2[l.right] = Range(y.children)
  BY <1>4, <1>5, <1>13
<1>15. kids[l.page] = Range(node[l.page].children) /\ kids[l.right] = Range(node[l.right].children)
  BY <1>4
<1>16. ASSUME NEW r \in live, r \notin {l.page, l.right} PROVE kids2[r] = kids[r]
  <2>1. r \in Page
    BY <1>4
  <2>2. CASE r = l.parent
    <3>1. z.type = "internal" /\ z.children = node[l.parent].children
      OBVIOUS
    <3> HIDE DEF Shifts
    <3>2. kids2[r] = IF z.type # "internal" THEN {} ELSE Range(z.children)
      BY <1>5, <1>13, <2>1, <2>2
    <3>3. kids[r] = Range(node[l.parent].children)
      BY <1>4, <2>2
    <3> QED BY <3>1, <3>2, <3>3
  <2>3. CASE r # l.parent
    <3>1. node'[r] = node[r]
      BY <1>5, <1>16, <2>1, <2>3
    <3>2. kids2[r] = IF node[r].type # "internal" THEN {} ELSE Range(node[r].children)
      BY <1>13, <2>1, <3>1
    <3>3. kids[r] = IF node[r].type = "internal" THEN Range(node[r].children) ELSE {}
      BY <1>4, <2>1
    <3> QED BY <3>2, <3>3
  <2> QED BY <2>2, <2>3
<1>17. \A r \in live : up2[r] = up[r]
  BY <1>3, <1>4, <1>5, <1>12 DEF Parents
<1>18. Moves(live, kids, up, l.parent, from, to, m, kids2, up2, due)
  <2>1. ASSUME NEW c, NEW r PROVE << c, r >> \in due <=> r = to /\ c = m
    <3>1. << c, r >> \in Range(a) <=> c = m /\ r = to
      BY <1>6
    <3> QED BY <1>12, <3>1
  <2>2. /\ from \in kids[l.parent] /\ to \in kids[l.parent] /\ from # to /\ m \in kids[from]
        /\ kids2[from] = kids[from] \ {m} /\ kids2[to] = kids[to] \cup {m}
    BY <1>4, <1>14, <1>15
  <2>3. \A r \in live : r \notin {from, to} => kids2[r] = kids[r]
    BY <1>16
  <2> QED BY <1>4, <1>17, <2>1, <2>2, <2>3 DEF Moves
<1>19. Tree(live, kids2, root, {}, due, up2, h)
  BY <1>4, <1>18, MoveKid
<1>20. TreeOf(node', root, l2, h)
  <2>1. Ground(node, live, h)
    BY <1>2, <1>3 DEF Paired
  <2>2. \A p \in live : node'[p].type = node[p].type
    BY <1>4, <1>5
  <2>3. Ground(node', live, h)
    BY <2>1, <2>2 DEF Ground
  <2> QED BY <1>10, <1>11, <1>12, <1>19, <2>3 DEF TreeOf
<1>21. Local(node', l2, h)
  BY <1>8, <1>9 DEF Local, Asked
<1>22. Good(node', root', l2)
  BY <1>1, <1>5, <1>8, <1>20, <1>21 DEF Good, Typed
<1> QED BY <1>7, <1>22, StepsTo

(* The three pages that a moved child rewrites. *)
LEMMA ShareChildFromLeftStep ==
    ASSUME OneWriter, Inv, NeverOverrun', ShareChildFromLeft(TheWriter), root' = root,
           At(TheWriter, "share"), IsInternal(run[TheWriter].page),
           IsInternal(run[TheWriter].right), IsInternal(run[TheWriter].parent)
    PROVE  Inv'
<1>0. PICK l : l = run[TheWriter]
  OBVIOUS
<1>1. PICK lk, lc, rk, rc, pk, pc, pp :
         /\ lk = node[l.page].keys /\ lc = node[l.page].children
         /\ rk = node[l.right].keys /\ rc = node[l.right].children
         /\ pk = node[l.parent].keys /\ pc = node[l.parent].children
         /\ pp = node[l.parent].parent
  OBVIOUS
<1>2. PICK sep, m, top : sep = Separator(TheWriter) /\ m = Last(lc) /\ top = Last(lk)
  OBVIOUS
<1>3. PICK x, y, z, a : /\ x = Internal(Front(lk), Front(lc), l.parent)
                        /\ y = Internal(<< sep >> \o rk, << m >> \o rc, l.parent)
                        /\ z = Internal(ReplaceAt(pk, l.slot, top), pc, pp)
                        /\ a = << << m, l.right >> >>
  OBVIOUS
<1>4. /\ l.pc = "share"
      /\ l.page \in Page /\ node[l.page].type = "internal"
      /\ l.right \in Page /\ node[l.right].type = "internal"
      /\ l.parent \in Page /\ node[l.parent].type = "internal"
      /\ lk # << >>
  BY <1>0, <1>1 DEF At, IsInternal, ShareChildFromLeft, L
<1>5. l \in Locals /\ node \in [Page -> Node]
  BY <1>0, NodesNow
<1>6. PICK h : Paired(l, h)
  BY <1>0, <1>4, SharingParts
<1>7. l.page # l.right /\ l.parent # l.page /\ l.parent # l.right
  BY <1>6 DEF Paired
<1>8. /\ node' = [node EXCEPT ![l.page] = x, ![l.right] = y, ![l.parent] = z]
      /\ run' = [run EXCEPT ![TheWriter] = [l EXCEPT !.pc = "adopt", !.then = "return",
                                                     !.adopt = a]]
  <2>1. node' = [node EXCEPT
          ![l.page] = Internal(Front(@.keys), Front(@.children), l.parent),
          ![l.right] = Internal(<< sep >> \o @.keys, << m >> \o @.children, l.parent),
          ![l.parent] = Internal(ReplaceAt(@.keys, l.slot, top), @.children, @.parent)]
    BY <1>0, <1>1, <1>2 DEF ShareChildFromLeft, L
  <2>2. node' = [node EXCEPT ![l.page] = x, ![l.right] = y, ![l.parent] = z]
    BY <1>1, <1>3, <1>4, <1>5, <1>7, <2>1
  <2> QED BY <1>0, <1>1, <1>2, <1>3, <2>2 DEF ShareChildFromLeft, L, Continue
<1>9. /\ lk \in Seq(Key) /\ lc \in Seq(Page) /\ Len(lc) = Len(lk) + 1 /\ IsInjective(lc)
      /\ Len(lk) \in Nat
  BY <1>1, <1>4, <1>5, InternalParts
<1>10. /\ rk \in Seq(Key) /\ rc \in Seq(Page) /\ Len(rc) = Len(rk) + 1 /\ IsInjective(rc)
       /\ Len(rk) \in Nat
  BY <1>1, <1>4, <1>5, InternalParts
<1>11. /\ pk \in Seq(Key) /\ pc \in Seq(Page) /\ Len(pc) = Len(pk) + 1 /\ IsInjective(pc)
       /\ pp \in PageOrNone
  BY <1>1, <1>4, <1>5, InternalParts DEF InternalNodes
<1>12. sep \in Key /\ l.slot \in 1 .. Len(pk)
  BY <1>0, <1>1, <1>2, <1>6, SeparatorIsKey
<1>13. PICK fk, fc : fk = Front(lk) /\ fc = Front(lc)
  OBVIOUS
<1>14. fk \in Seq(Key) /\ Len(fk) = Len(lk) - 1 /\ top \in Key
  BY <1>2, <1>4, <1>9, <1>13, FrontParts
<1>15. /\ fc \in Seq(Page) /\ Len(fc) = Len(lc) - 1 /\ m \in Page /\ m \in Range(lc)
       /\ IsInjective(fc) /\ Range(fc) = Range(lc) \ {m}
  <2>1. lc # << >>
    BY <1>9
  <2> QED BY <1>2, <1>9, <1>13, <2>1, FrontParts
<1>16. PICK gk, gc, hk : gk = << sep >> \o rk /\ gc = << m >> \o rc /\ hk = ReplaceAt(pk, l.slot, top)
  OBVIOUS
<1>17. gk \in Seq(Key) /\ Len(gk) = Len(rk) + 1
  BY <1>10, <1>12, <1>16
<1>18. /\ gc \in Seq(Page) /\ Len(gc) = Len(rc) + 1 /\ IsInjective(gc)
       /\ Range(gc) = Range(rc) \cup {m}
  <2>1. Range(lc) \cap Range(rc) = {}
    BY <1>1, <1>4, <1>6, ApartKids
  <2>2. PICK one \in Seq(Page) : /\ one = << m >> /\ Len(one) = 1 /\ Range(one) = {m}
                                 /\ IsInjective(one)
    BY <1>15, SingleParts
  <2>3. Joined(Page, one, rc, gc)
    BY <1>10, <1>16, <2>2, JoinedSeq
  <2>4. Range(one) \cap Range(rc) = {}
    BY <1>15, <2>1, <2>2
  <2> QED BY <1>10, <2>2, <2>3, <2>4 DEF Joined
<1>19. hk \in Seq(Key) /\ Len(hk) = Len(pk)
  BY <1>11, <1>12, <1>14, <1>16, ReplaceParts
<1>20. node'[l.page] = x /\ node'[l.right] = y /\ node'[l.parent] = z
  BY <1>4, <1>5, <1>7, <1>8
<1>21. x.type # "overrun" /\ y.type # "overrun" /\ z.type # "overrun"
  BY <1>4, <1>20 DEF NeverOverrun
<1>22. PICK q \in PageOrNone : q = l.parent
  BY <1>5 DEF Locals
<1>23. x \in Node /\ x.type = "internal" /\ x.parent = q /\ x.children = fc
  <2>1. x = Internal(fk, fc, q)
    BY <1>3, <1>13, <1>22
  <2>2. FitsInternal(fk, fc, q)
    BY <1>9, <1>14, <1>15, <1>21, <2>1 DEF FitsInternal
  <2> QED BY <2>1, <2>2, MadeInternal
<1>24. y \in Node /\ y.type = "internal" /\ y.parent = q /\ y.children = gc
  <2>1. y = Internal(gk, gc, q)
    BY <1>3, <1>16, <1>22
  <2>2. FitsInternal(gk, gc, q)
    BY <1>10, <1>17, <1>18, <1>21, <2>1 DEF FitsInternal
  <2> QED BY <2>1, <2>2, MadeInternal
<1>25. z \in Node /\ z.type = "internal" /\ z.parent = pp /\ z.children = pc
  <2>1. z = Internal(hk, pc, pp)
    BY <1>3, <1>16
  <2>2. FitsInternal(hk, pc, pp)
    BY <1>11, <1>19, <1>21, <2>1 DEF FitsInternal
  <2> QED BY <2>1, <2>2, MadeInternal
<1>26. Shifts(l, x, y, z, l.page, l.right, m)
  BY <1>1, <1>4, <1>15, <1>18, <1>22, <1>23, <1>24, <1>25 DEF Shifts
<1>27. PICK to : to = l.right /\ a = << << m, to >> >>
  BY <1>3
<1> QED BY <1>0, <1>8, <1>26, <1>27, ShiftStep

LEMMA ShareChildFromRightStep ==
    ASSUME OneWriter, Inv, NeverOverrun', ShareChildFromRight(TheWriter), root' = root,
           At(TheWriter, "share"), IsInternal(run[TheWriter].page),
           IsInternal(run[TheWriter].right), IsInternal(run[TheWriter].parent)
    PROVE  Inv'
<1>0. PICK l : l = run[TheWriter]
  OBVIOUS
<1>1. PICK lk, lc, rk, rc, pk, pc, pp :
         /\ lk = node[l.page].keys /\ lc = node[l.page].children
         /\ rk = node[l.right].keys /\ rc = node[l.right].children
         /\ pk = node[l.parent].keys /\ pc = node[l.parent].children
         /\ pp = node[l.parent].parent
  OBVIOUS
<1>2. PICK sep, m, top : sep = Separator(TheWriter) /\ m = Head(rc) /\ top = Head(rk)
  OBVIOUS
<1>3. PICK x, y, z, a : /\ x = Internal(Append(lk, sep), Append(lc, m), l.parent)
                        /\ y = Internal(Tail(rk), Tail(rc), l.parent)
                        /\ z = Internal(ReplaceAt(pk, l.slot, top), pc, pp)
                        /\ a = << << m, l.page >> >>
  OBVIOUS
<1>4. /\ l.pc = "share"
      /\ l.page \in Page /\ node[l.page].type = "internal"
      /\ l.right \in Page /\ node[l.right].type = "internal"
      /\ l.parent \in Page /\ node[l.parent].type = "internal"
      /\ rk # << >>
  BY <1>0, <1>1 DEF At, IsInternal, ShareChildFromRight, R
<1>5. l \in Locals /\ node \in [Page -> Node]
  BY <1>0, NodesNow
<1>6. PICK h : Paired(l, h)
  BY <1>0, <1>4, SharingParts
<1>7. l.page # l.right /\ l.parent # l.page /\ l.parent # l.right
  BY <1>6 DEF Paired
<1>8. /\ node' = [node EXCEPT ![l.page] = x, ![l.right] = y, ![l.parent] = z]
      /\ run' = [run EXCEPT ![TheWriter] = [l EXCEPT !.pc = "adopt", !.then = "return",
                                                     !.adopt = a]]
  <2>1. node' = [node EXCEPT
          ![l.page] = Internal(Append(@.keys, sep), Append(@.children, m), l.parent),
          ![l.right] = Internal(Tail(@.keys), Tail(@.children), l.parent),
          ![l.parent] = Internal(ReplaceAt(@.keys, l.slot, top), @.children, @.parent)]
    BY <1>0, <1>1, <1>2 DEF ShareChildFromRight, R
  <2>2. node' = [node EXCEPT ![l.page] = x, ![l.right] = y, ![l.parent] = z]
    BY <1>1, <1>3, <1>4, <1>5, <1>7, <2>1
  <2> QED BY <1>0, <1>1, <1>2, <1>3, <2>2 DEF ShareChildFromRight, R, Continue
<1>9. /\ lk \in Seq(Key) /\ lc \in Seq(Page) /\ Len(lc) = Len(lk) + 1 /\ IsInjective(lc)
      /\ Len(lk) \in Nat
  BY <1>1, <1>4, <1>5, InternalParts
<1>10. /\ rk \in Seq(Key) /\ rc \in Seq(Page) /\ Len(rc) = Len(rk) + 1 /\ IsInjective(rc)
       /\ Len(rk) \in Nat
  BY <1>1, <1>4, <1>5, InternalParts
<1>11. /\ pk \in Seq(Key) /\ pc \in Seq(Page) /\ Len(pc) = Len(pk) + 1 /\ IsInjective(pc)
       /\ pp \in PageOrNone
  BY <1>1, <1>4, <1>5, InternalParts DEF InternalNodes
<1>12. sep \in Key /\ l.slot \in 1 .. Len(pk)
  BY <1>0, <1>1, <1>2, <1>6, SeparatorIsKey
<1>13. PICK fk, fc : fk = Tail(rk) /\ fc = Tail(rc)
  OBVIOUS
<1>14. fk \in Seq(Key) /\ Len(fk) = Len(rk) - 1 /\ top \in Key
  BY <1>2, <1>4, <1>10, <1>13, TailParts
<1>15. /\ fc \in Seq(Page) /\ Len(fc) = Len(rc) - 1 /\ m \in Page /\ m \in Range(rc)
       /\ IsInjective(fc) /\ Range(fc) = Range(rc) \ {m}
  <2>1. rc # << >>
    BY <1>10
  <2> QED BY <1>2, <1>10, <1>13, <2>1, TailParts
<1>16. PICK gk, gc, hk : gk = Append(lk, sep) /\ gc = Append(lc, m) /\ hk = ReplaceAt(pk, l.slot, top)
  OBVIOUS
<1>17. gk \in Seq(Key) /\ Len(gk) = Len(lk) + 1
  BY <1>9, <1>12, <1>16
<1>18. /\ gc \in Seq(Page) /\ Len(gc) = Len(lc) + 1 /\ IsInjective(gc)
       /\ Range(gc) = Range(lc) \cup {m}
  <2>1. Range(lc) \cap Range(rc) = {}
    BY <1>1, <1>4, <1>6, ApartKids
  <2>2. PICK one \in Seq(Page) : /\ one = << m >> /\ Len(one) = 1 /\ Range(one) = {m}
                                 /\ IsInjective(one)
    BY <1>15, SingleParts
  <2>3. gc = lc \o one
    BY <1>9, <1>15, <1>16, <2>2
  <2>4. Joined(Page, lc, one, gc)
    BY <1>9, <2>2, <2>3, JoinedSeq
  <2>5. Range(lc) \cap Range(one) = {}
    BY <1>15, <2>1, <2>2
  <2> QED BY <1>9, <2>2, <2>4, <2>5 DEF Joined
<1>19. hk \in Seq(Key) /\ Len(hk) = Len(pk)
  BY <1>11, <1>12, <1>14, <1>16, ReplaceParts
<1>20. node'[l.page] = x /\ node'[l.right] = y /\ node'[l.parent] = z
  BY <1>4, <1>5, <1>7, <1>8
<1>21. x.type # "overrun" /\ y.type # "overrun" /\ z.type # "overrun"
  BY <1>4, <1>20 DEF NeverOverrun
<1>22. PICK q \in PageOrNone : q = l.parent
  BY <1>5 DEF Locals
<1>23. y \in Node /\ y.type = "internal" /\ y.parent = q /\ y.children = fc
  <2>1. y = Internal(fk, fc, q)
    BY <1>3, <1>13, <1>22
  <2>2. FitsInternal(fk, fc, q)
    BY <1>10, <1>14, <1>15, <1>21, <2>1 DEF FitsInternal
  <2> QED BY <2>1, <2>2, MadeInternal
<1>24. x \in Node /\ x.type = "internal" /\ x.parent = q /\ x.children = gc
  <2>1. x = Internal(gk, gc, q)
    BY <1>3, <1>16, <1>22
  <2>2. FitsInternal(gk, gc, q)
    BY <1>9, <1>17, <1>18, <1>21, <2>1 DEF FitsInternal
  <2> QED BY <2>1, <2>2, MadeInternal
<1>25. z \in Node /\ z.type = "internal" /\ z.parent = pp /\ z.children = pc
  <2>1. z = Internal(hk, pc, pp)
    BY <1>3, <1>16
  <2>2. FitsInternal(hk, pc, pp)
    BY <1>11, <1>19, <1>21, <2>1 DEF FitsInternal
  <2> QED BY <2>1, <2>2, MadeInternal
<1>26. Shifts(l, x, y, z, l.right, l.page, m)
  BY <1>1, <1>4, <1>15, <1>18, <1>22, <1>23, <1>24, <1>25 DEF Shifts
<1>27. PICK to : to = l.page /\ a = << << m, to >> >>
  BY <1>3
<1> QED BY <1>0, <1>8, <1>26, <1>27, ShiftStep

LEMMA ShareChildrenStep ==
    ASSUME OneWriter, Inv, NeverOverrun', ShareChildren(TheWriter)
    PROVE  Inv'
BY ShareChildFromLeftStep, ShareChildFromRightStep DEF ShareChildren

Lone(b, g, z) ==
    /\ b \in Seq(Page \X PageOrNone)
    /\ \A d, r : << d, r >> \in Range(b) <=> d = g /\ r = z

(* What is in a list of one pair. *)
LEMMA LonePair ==
    ASSUME NEW g \in Page, NEW z \in PageOrNone, NEW b, b = << << g, z >> >>
    PROVE  Lone(b, g, z)
<1>1. /\ << << g, z >> >> \in Seq(Page \X PageOrNone)
      /\ \A c, r : << c, r >> \in Range(<< << g, z >> >>) <=> c = g /\ r = z
  BY OnePair
<1> QED BY <1>1 DEF Lone

(* What remove_entry leaves when the root has lost its last key. *)
TakenOver(l, h, a) ==
    /\ l = run[TheWriter] /\ l.pc = "remove" /\ node' = node /\ root' = root /\ l.parent = root
    /\ TreeOf(node, root, l, h) /\ Neighbours(node, l)
    /\ Len(node[l.parent].keys) = 1 /\ node[l.right].type = "freed"
    /\ a = << << l.page, 0 >> >>
    /\ run' = [run EXCEPT ![TheWriter] = [l EXCEPT !.pc = "adopt", !.then = "collapse",
                                                   !.right = l.page, !.adopt = a]]

(* The old root leaves the tree, which its only child takes over. *)
LEMMA CollapseStep ==
    ASSUME OneWriter, Inv, NEW l, NEW h, NEW a, TakenOver(l, h, a)
    PROVE  Inv'
<1>0. /\ l = run[TheWriter] /\ l.pc = "remove" /\ node' = node /\ root' = root /\ l.parent = root
      /\ TreeOf(node, root, l, h) /\ Neighbours(node, l)
      /\ Len(node[l.parent].keys) = 1 /\ node[l.right].type = "freed"
      /\ a = << << l.page, 0 >> >>
      /\ run' = [run EXCEPT ![TheWriter] = [l EXCEPT !.pc = "adopt", !.then = "collapse",
                                                     !.right = l.page, !.adopt = a]]
  BY DEF TakenOver
<1>1. node \in [Page -> Node] /\ root \in Page /\ l \in Locals
  BY <1>0, NodesNow
<1>2. Merging(l) /\ ~ Collapsing(l) /\ ~ Promoting(l) /\ ~ NewTop(l)
  BY <1>0 DEF Merging, Collapsing, Promoting, Splitting, NewTop
<1>3. Top(root, l) = root /\ Loose(l) = {} /\ Due(l) = {}
  BY <1>0, <1>2 DEF Top, Loose, Due
<1>4. PICK live, kids, up : live = Live(node, l) /\ kids = Kids(node, l) /\ up = Parents(node)
  OBVIOUS
<1>5. Tree(live, kids, root, {}, {}, up, h)
  BY <1>0, <1>3, <1>4 DEF TreeOf
<1>6. live = {p \in Page : node[p].type # "freed"}
  BY <1>0, <1>2, <1>4 DEF Live
<1>7. node[root].type = "internal" /\ l.slot \in 1 .. 1
      /\ node[root].children[l.slot] = l.page /\ node[root].children[l.slot + 1] = l.right
  BY <1>0 DEF Neighbours
<1>8. PICK c \in Seq(Page) : /\ c = node[root].children /\ DOMAIN c = 1 .. 2 /\ IsInjective(c)
                             /\ c[1] = l.page /\ c[2] = l.right
  <2>1. l.slot = 1
    BY <1>0, <1>7
  <2>2. PICK x \in Node : x = node[root] /\ x.type = "internal" /\ Len(x.keys) = 1
    BY <1>0, <1>1, <1>7
  <2>3. PICK c \in Seq(Page) : c = x.children /\ DOMAIN c = 1 .. 1 + 1 /\ IsInjective(c)
    BY <1>0, <2>2, InternalParts
  <2> QED BY <1>0, <1>7, <2>1, <2>2, <2>3
<1>9. Range(c) = {l.page, l.right} /\ l.page # l.right /\ l.page \in Page
  <2>1. 1 \in DOMAIN c /\ 2 \in DOMAIN c /\ \A i \in DOMAIN c : i = 1 \/ i = 2
    BY <1>0, <1>8
  <2>2. Range(c) = {l.page, l.right}
    BY <1>0, <1>8, <2>1 DEF Range
  <2>3. l.page # l.right
    BY <1>0, <1>8, <2>1 DEF IsInjective
  <2>4. c[1] \in Page
    BY <1>0, <2>1
  <2> QED BY <1>0, <1>8, <2>2, <2>3, <2>4
<1>10. kids[root] = {l.page}
  BY <1>0, <1>1, <1>2, <1>4, <1>7, <1>8, <1>9 DEF Kids
<1>11. l.page \in live /\ l.page # root
  BY <1>0, <1>5, <1>10 DEF Tree, Linked
<1>12. /\ a \in Seq(Page \X PageOrNone)
       /\ \A d, r : << d, r >> \in Range(a) <=> d = l.page /\ r = 0
  <2>1. PICK z \in PageOrNone, g \in Page : z = 0 /\ g = l.page
    BY <1>9, BTreeConstants DEF PageOrNone
  <2>2. PICK b : b = << << g, z >> >>
    OBVIOUS
  <2>3. Lone(b, g, z)
    BY <1>0, <2>2, LonePair
  <2>4. a = b
    BY <1>0, <2>1, <2>2
  <2>5. Lone(a, l.page, 0)
    BY <1>0, <2>1, <2>3, <2>4
  <2> QED BY <1>0, <2>5 DEF Lone
<1>13. PICK l2 : l2 = [l EXCEPT !.pc = "adopt", !.then = "collapse", !.right = l.page, !.adopt = a]
  OBVIOUS
<1>14. /\ l2 \in Locals /\ l2.pc = "adopt" /\ l2.then = "collapse" /\ l2.right = l.page
       /\ l2.parent = root /\ l2.adopt = a
  <2>0. l.page \in PageOrNone
    BY <1>0, <1>1 DEF Locals
  <2>1. PICK g \in PageOrNone : g = l.page
    BY <1>0, <2>0
  <2>2. a \in Seq(Page \X PageOrNone)
    BY <1>0, <1>12
  <2>3. l2 = [l EXCEPT !.pc = "adopt", !.then = "collapse", !.right = g, !.adopt = a]
    BY <1>0, <1>13, <2>1
  <2>4. /\ l2 \in Locals /\ l2.pc = "adopt" /\ l2.then = "collapse" /\ l2.right = g
        /\ l2.parent = l.parent /\ l2.adopt = a
    BY <1>1, <2>2, <2>3 DEF Locals
  <2> QED BY <1>0, <2>1, <2>4
<1>15. ~ Merging(l2) /\ Collapsing(l2) /\ ~ Promoting(l2) /\ ~ Splitting(l2) /\ NewTop(l2)
  BY <1>0, <1>14 DEF Merging, Collapsing, Promoting, Splitting, NewTop
<1>16. Top(root, l2) = l.page /\ Loose(l2) = {} /\ Due(l2) = Range(a)
  BY <1>0, <1>14, <1>15 DEF Top, Loose, Due
<1>17. Live(node, l2) = live \ {root}
  BY <1>0, <1>6, <1>14, <1>15 DEF Live
<1>18. PICK kids2, due : kids2 = Kids(node, l2) /\ due = Range(a)
  OBVIOUS
<1>19. ASSUME NEW r \in live, r # root PROVE kids2[r] = kids[r]
  <2>1. r \in Page
    BY <1>0, <1>6
  <2>2. kids2[r] = IF node[r].type # "internal" THEN {} ELSE Range(node[r].children)
    BY <1>0, <1>15, <1>18, <2>1 DEF Kids
  <2>3. kids[r] = IF node[r].type # "internal" THEN {} ELSE Range(node[r].children)
    BY <1>0, <1>4, <1>19, <2>1 DEF Kids
  <2> QED BY <1>0, <2>2, <2>3
<1>20. PICK child : child = l.page
  OBVIOUS
<1>21. Collapses(live, kids, root, up, child, kids2, up, due)
  <2>1. ASSUME NEW d, NEW r PROVE << d, r >> \in due <=> d = child /\ r = 0
    BY <1>12, <1>18, <1>20
  <2> QED BY <1>0, <1>10, <1>19, <1>20, <2>1 DEF Collapses
<1>22. Tree(live \ {root}, kids2, child, {}, due, up, h)
  BY <1>0, <1>5, <1>21, CollapseTree
<1>23. TreeOf(node, root, l2, h)
  <2>1. Ground(node, live, h)
    BY <1>0, <1>4 DEF TreeOf
  <2>2. Ground(node, live \ {root}, h)
    BY <2>1 DEF Ground
  <2> QED BY <1>0, <1>4, <1>16, <1>17, <1>18, <1>20, <1>22, <2>2 DEF TreeOf
<1>24. Local(node, l2, h)
  BY <1>0, <1>14, <1>15 DEF Local, Asked
<1>25. Good(node', root', l2)
  BY <1>0, <1>1, <1>14, <1>23, <1>24 DEF Good, Typed
<1> QED BY <1>0, <1>13, <1>25, StepsTo

(* The entry of the page that is gone leaves its parent. *)
LEMMA ShrinkStep ==
    ASSUME OneWriter, Inv, NEW l, l = run[TheWriter], l.pc = "remove", root' = root,
           NEW h, TreeOf(node, root, l, h), Neighbours(node, l),
           node[l.right].type = "freed",
           NEW k, k = RemoveAt(node[l.parent].keys, l.slot),
           NEW c, c = RemoveAt(node[l.parent].children, l.slot + 1),
           node' = [node EXCEPT ![l.parent].keys = k, ![l.parent].children = c],
           NEW l2 \in Locals, run' = [run EXCEPT ![TheWriter] = l2],
           l2.pc \in {"rebalance", "return"}
    PROVE  Inv'
<1>1. node \in [Page -> Node] /\ root \in Page /\ l \in Locals
  BY NodesNow
<1>2. Merging(l) /\ ~ Collapsing(l) /\ ~ Promoting(l) /\ ~ NewTop(l)
  BY DEF Merging, Collapsing, Promoting, Splitting, NewTop
<1>3. Top(root, l) = root /\ Loose(l) = {} /\ Due(l) = {}
  BY <1>2 DEF Top, Loose, Due
<1>4. PICK live, kids, up : live = Live(node, l) /\ kids = Kids(node, l) /\ up = Parents(node)
  OBVIOUS
<1>5. Tree(live, kids, root, {}, {}, up, h)
  BY <1>3, <1>4 DEF TreeOf
<1>6. live = {p \in Page : node[p].type # "freed"}
  BY <1>2, <1>4 DEF Live
<1>7. PICK x : x = node[l.parent]
  OBVIOUS
<1>8. /\ l.parent \in Page /\ x \in Node /\ x.type = "internal"
      /\ l.slot \in 1 .. Len(x.keys) /\ x.children[l.slot + 1] = l.right
  BY <1>1, <1>4, <1>6, <1>7 DEF Neighbours
<1>9. PICK k1 \in Seq(Key), c1 \in Seq(Page) :
         /\ k1 = x.keys /\ c1 = x.children /\ Len(c1) = Len(k1) + 1 /\ IsInjective(c1)
         /\ Len(k1) \in Nat
  BY <1>8, InternalParts
<1>10. PICK j \in 1 .. Len(c1) : j = l.slot + 1
  BY <1>8, <1>9
<1>11. k \in Seq(Key) /\ Len(k) = Len(k1) - 1
  <2>1. PICK i \in 1 .. Len(k1) : i = l.slot
    BY <1>8, <1>9
  <2>2. k = RemoveAt(k1, i)
    BY <1>7, <1>9, <2>1
  <2> QED BY <1>9, <2>2, RemoveParts
<1>12. c \in Seq(Page) /\ Len(c) = Len(c1) - 1 /\ IsInjective(c) /\ Range(c) = Range(c1) \ {l.right}
  <2>1. c = RemoveAt(c1, j) /\ c1[j] = l.right
    BY <1>7, <1>8, <1>9, <1>10
  <2> QED BY <1>9, <2>1, RemoveParts
<1>13. PICK y : y = [x EXCEPT !.keys = k, !.children = c]
  OBVIOUS
<1>14. /\ y \in Node /\ y.type = "internal" /\ y.parent = x.parent /\ y.children = c
  <2>1. x \in InternalNodes
    BY <1>8, InternalParts
  <2>2. /\ y \in InternalNodes /\ y.type = "internal" /\ y.parent = x.parent /\ y.children = c
        /\ y.keys = k
    BY <1>11, <1>12, <1>13, <2>1 DEF InternalNodes
  <2>3. Len(c) = Len(k) + 1
    BY <1>9, <1>11, <1>12
  <2> QED BY <1>12, <2>2, <2>3 DEF Node
<1>15. /\ node' \in [Page -> Node] /\ node'[l.parent] = y
       /\ \A p \in Page : p # l.parent => node'[p] = node[p]
  <2>1. node' = [node EXCEPT ![l.parent] = y]
    BY <1>1, <1>7, <1>8, <1>13
  <2>2. PICK g \in Page : g = l.parent
    BY <1>8
  <2>3. node' = [node EXCEPT ![g] = y]
    BY <2>1, <2>2
  <2>4. /\ node' \in [Page -> Node] /\ node'[g] = y
        /\ \A p \in Page : p # g => node'[p] = node[p]
    <3>1. PICK n2 : n2 = [node EXCEPT ![g] = y]
      OBVIOUS
    <3>2. n2 \in [Page -> Node] /\ n2[g] = y /\ \A p \in Page : p # g => n2[p] = node[p]
      BY <1>1, <1>14, <3>1
    <3> QED BY <2>3, <3>1, <3>2
  <2> QED BY <2>2, <2>4
<1>16. Plain(l2)
  BY DEF Plain
<1>17. /\ Top(root, l2) = root /\ Loose(l2) = {} /\ Due(l2) = {}
       /\ Live(node', l2) = {p \in Page : node'[p].type # "freed"}
       /\ \A p \in Page :
             Kids(node', l2)[p] = IF node'[p].type = "internal" THEN Range(node'[p].children) ELSE {}
       /\ ~ Merging(l2) /\ ~ Splitting(l2)
  <2>1. PICK n : n = node'
    OBVIOUS
  <2>2. /\ Top(root, l2) = root /\ Loose(l2) = {} /\ Due(l2) = {}
        /\ Live(n, l2) = {p \in Page : n[p].type # "freed"}
        /\ \A p \in Page :
              Kids(n, l2)[p] = IF n[p].type = "internal" THEN Range(n[p].children) ELSE {}
    BY <1>16, PlainView
  <2>3. ~ Merging(l2) /\ ~ Splitting(l2)
    BY <1>16, PlainView
  <2>4. /\ Top(root, l2) = root /\ Loose(l2) = {} /\ Due(l2) = {}
        /\ Live(node', l2) = {p \in Page : node'[p].type # "freed"}
    BY <2>1, <2>2
  <2>5. \A p \in Page :
           Kids(node', l2)[p] = IF node'[p].type = "internal" THEN Range(node'[p].children) ELSE {}
    <3>1. PICK f : f = Kids(node', l2)
      OBVIOUS
    <3>2. f = Kids(n, l2)
      BY <2>1, <3>1
    <3>3. \A p \in Page : f[p] = IF n[p].type = "internal" THEN Range(n[p].children) ELSE {}
      BY <2>2, <3>2
    <3>4. ASSUME NEW p \in Page
          PROVE  Kids(node', l2)[p] = IF node'[p].type = "internal" THEN Range(node'[p].children) ELSE {}
      <4>1. f[p] = IF n[p].type = "internal" THEN Range(n[p].children) ELSE {}
        BY <3>3
      <4>2. node'[p] = n[p]
        BY <2>1
      <4> QED BY <3>1, <4>1, <4>2
    <3> QED BY <3>4
  <2> QED BY <2>3, <2>4, <2>5
<1>18. Live(node', l2) = live
  <2>1. \A p \in Page : node'[p].type # "freed" <=> node[p].type # "freed"
    BY <1>7, <1>8, <1>14, <1>15
  <2> QED BY <1>6, <1>17, <2>1
<1>19. PICK kids2, up2 : kids2 = Kids(node', l2) /\ up2 = Parents(node')
  OBVIOUS
<1>20. ASSUME NEW r \in live PROVE kids2[r] = kids[r] /\ up2[r] = up[r]
  <2>1. r \in Page
    BY <1>6
  <2>2. CASE r = l.parent
    <3>0. kids2[r] = IF y.type = "internal" THEN Range(y.children) ELSE {}
      BY <1>15, <1>17, <1>19, <2>1, <2>2
    <3>1. kids2[r] = Range(c)
      BY <1>14, <3>0
    <3>2. kids[r] = Range(c1) \ {l.right}
      BY <1>2, <1>4, <1>7, <1>8, <1>9, <2>1, <2>2 DEF Kids
    <3>3. up2[r] = up[r]
      BY <1>4, <1>7, <1>14, <1>15, <1>19, <2>1, <2>2 DEF Parents
    <3> QED BY <1>12, <3>1, <3>2, <3>3
  <2>3. CASE r # l.parent
    <3>1. node'[r] = node[r]
      BY <1>15, <2>1, <2>3
    <3>0. kids2[r] = IF node'[r].type = "internal" THEN Range(node'[r].children) ELSE {}
      <4>1. Kids(node', l2)[r] = IF node'[r].type = "internal" THEN Range(node'[r].children) ELSE {}
        BY <1>17, <2>1
      <4> QED BY <1>19, <4>1
    <3>2. kids2[r] = IF node[r].type = "internal" THEN Range(node[r].children) ELSE {}
      BY <3>0, <3>1
    <3>3. kids[r] = IF node[r].type # "internal" THEN {} ELSE Range(node[r].children)
      BY <1>4, <2>1, <2>3 DEF Kids
    <3>4. up2[r] = up[r]
      <4>1. up2[r] = node'[r].parent
        BY <1>19, <2>1 DEF Parents
      <4>2. up[r] = node[r].parent
        BY <1>4, <2>1 DEF Parents
      <4> QED BY <3>1, <4>1, <4>2
    <3> QED BY <3>2, <3>3, <3>4
  <2> QED BY <2>2, <2>3
<1>21. Tree(live, kids2, root, {}, {}, up2, h)
  BY <1>5, <1>20, SameTree
<1>22. TreeOf(node', root, l2, h)
  <2>1. Ground(node, live, h)
    BY <1>4 DEF TreeOf
  <2>2. \A p \in live : node'[p].type = node[p].type
    BY <1>6, <1>7, <1>8, <1>14, <1>15
  <2>3. Ground(node', live, h)
    BY <2>1, <2>2 DEF Ground
  <2> QED BY <1>17, <1>18, <1>19, <1>21, <2>3 DEF TreeOf
<1>23. Local(node', l2, h)
  <2>1. Asked(l2)
    BY <1>16, PlainView DEF Asked
  <2> QED BY <1>17, <2>1 DEF Local
<1>24. Good(node', root', l2)
  BY <1>1, <1>15, <1>22, <1>23 DEF Good, Typed
<1> QED BY <1>24, StepsTo

LEMMA RemoveEntryStep ==
    ASSUME OneWriter, Inv, RemoveEntry(TheWriter)
    PROVE  Inv'
<1>0. PICK l : l = run[TheWriter]
  OBVIOUS
<1>1. PICK k, c : /\ k = RemoveAt(node[l.parent].keys, l.slot)
                  /\ c = RemoveAt(node[l.parent].children, l.slot + 1)
  OBVIOUS
<1>2. l.pc = "remove" /\ l.parent \in Page /\ node[l.parent].type = "internal" /\ root' = root
  BY <1>0 DEF RemoveEntry, At, IsInternal
<1>3. l \in Locals /\ node \in [Page -> Node] /\ root \in Page
  BY <1>0, NodesNow
<1>4. PICK h : TreeOf(node, root, l, h) /\ Local(node, l, h)
  BY <1>0, <1>2 DEF Inv, Good
<1>5. Neighbours(node, l) /\ node[l.right].type = "freed"
  <2>1. Merging(l)
    BY <1>2 DEF Merging
  <2> QED BY <1>2, <1>4, <2>1 DEF Local
<1>6. PICK k1 \in Seq(Key), c1 \in Seq(Page) :
         /\ k1 = node[l.parent].keys /\ c1 = node[l.parent].children /\ Len(c1) = Len(k1) + 1
         /\ Len(k1) \in Nat /\ IsInjective(c1)
  BY <1>2, <1>3, InternalParts
<1>7. l.slot \in 1 .. Len(k1) /\ c1[l.slot] = l.page
  BY <1>5, <1>6 DEF Neighbours
<1>8. k \in Seq(Key) /\ Len(k) = Len(k1) - 1
  BY <1>1, <1>6, <1>7, RemoveParts
<1>9. \/ /\ l.parent = root /\ k = << >> /\ node' = node
         /\ Continue(TheWriter, [l EXCEPT !.pc = "adopt", !.then = "collapse",
                                          !.right = c[1], !.adopt = << << c[1], 0 >> >>])
      \/ /\ node' = [node EXCEPT ![l.parent].keys = k, ![l.parent].children = c]
         /\ \/ Continue(TheWriter, [l EXCEPT !.pc = "rebalance", !.page = l.parent])
            \/ Continue(TheWriter, [l EXCEPT !.pc = "return"])
  BY <1>0, <1>1 DEF RemoveEntry
<1>10. CASE /\ l.parent = root /\ k = << >> /\ node' = node
            /\ Continue(TheWriter, [l EXCEPT !.pc = "adopt", !.then = "collapse",
                                             !.right = c[1], !.adopt = << << c[1], 0 >> >>])
  <2>1. Len(k1) = 1 /\ l.slot = 1
    <3>1. Len(k) = 0
      BY <1>10, EmptyParts
    <3>2. PICK m \in Nat : m = Len(k1)
      BY <1>6
    <3>3. m = 1
      BY <1>8, <3>1, <3>2
    <3> QED BY <1>7, <3>2, <3>3
  <2>2. c[1] = l.page
    <3>1. PICK two \in 1 .. Len(c1) : two = 2 /\ c = RemoveAt(c1, two)
      BY <1>1, <1>6, <2>1
    <3>2. /\ c \in Seq(Page) /\ Len(c) = Len(c1) - 1
          /\ Range(c) = Range(c1) \ {c1[two]}
      BY <1>6, <3>1, RemoveParts
    <3>3. 1 \in DOMAIN c /\ DOMAIN c1 = 1 .. 2
      BY <1>6, <2>1, <3>2
    <3>4. c[1] \in Range(c)
      BY <3>3 DEF Range
    <3>5. PICK i \in 1 .. 2 : c[1] = c1[i] /\ i # two
      BY <3>2, <3>3, <3>4 DEF Range
    <3> QED BY <1>7, <2>1, <3>1, <3>5
  <2>3. PICK a : a = << << l.page, 0 >> >>
    OBVIOUS
  <2>5. root' = root /\ node' = node /\ l.parent = root /\ Len(node[l.parent].keys) = 1
    BY <1>2, <1>6, <1>10, <2>1
  <2>4. run' = [run EXCEPT ![TheWriter] = [l EXCEPT !.pc = "adopt", !.then = "collapse",
                                                    !.right = l.page, !.adopt = a]]
    BY <1>10, <2>2, <2>3 DEF Continue
  <2>6. TakenOver(l, h, a)
    BY <1>0, <1>2, <1>4, <1>5, <2>3, <2>4, <2>5 DEF TakenOver
  <2> QED BY <2>6, CollapseStep
<1>11. ASSUME NEW l2, l2 \in Locals, l2.pc \in {"rebalance", "return"},
              run' = [run EXCEPT ![TheWriter] = l2],
              node' = [node EXCEPT ![l.parent].keys = k, ![l.parent].children = c]
       PROVE  Inv'
  BY <1>0, <1>1, <1>2, <1>4, <1>5, <1>11, ShrinkStep
<1>12. PICK l3, l4 : /\ l3 = [l EXCEPT !.pc = "rebalance", !.page = l.parent]
                     /\ l4 = [l EXCEPT !.pc = "return"]
  OBVIOUS
<1>13. l3 \in Locals /\ l3.pc = "rebalance" /\ l4 \in Locals /\ l4.pc = "return"
  BY <1>3, <1>12 DEF Locals
<1> QED BY <1>9, <1>10, <1>11, <1>12, <1>13 DEF Continue

-----------------------------------------------------------------------------
(* The whole run. *)
LEMMA InitInv ==
    ASSUME OneWriter, Init, NeverOverrun
    PROVE  Inv
<1>1. PICK l, x : l = Idle /\ x = Leaf(<< >>, 0, 0, 0)
  OBVIOUS
<1>2. 1 \in Page /\ 0 \in PageOrNone
  BY BTreeConstants DEF Page, PageOrNone
<1>3. node = [p \in Page |-> IF p = 1 THEN x ELSE Freed] /\ root = 1 /\ run = [w \in Writer |-> l]
  BY <1>1 DEF Init
<1>4. x \in Node /\ x.type = "leaf" /\ x.parent = 0
  <2>1. x.type # "overrun"
    BY <1>2, <1>3 DEF NeverOverrun
  <2>2. << >> \in Seq(Entry)
    BY EmptyParts
  <2>3. PICK e \in Seq(Entry), z \in PageOrNone : e = << >> /\ z = 0
    BY <1>2, <2>2
  <2>4. x = Leaf(e, z, z, z)
    BY <1>1, <2>3
  <2>5. x \in Node /\ x.type = "leaf" /\ x.parent = z
    BY <2>1, <2>4, MadeLeaf
  <2> QED BY <2>3, <2>5
<1>5. l \in Locals /\ l.pc = "idle" /\ Plain(l)
  <2>1. << >> \in Seq(Page \X PageOrNone)
    BY EmptyParts
  <2> QED BY <1>1, <2>1, BTreeConstants DEF Idle, Locals, PageOrNone, Plain
<1>6. node \in [Page -> Node] /\ root \in Page
  BY <1>2, <1>3, <1>4, FreedIsNode
<1>7. Typed(node, root, l)
  BY <1>5, <1>6 DEF Typed
<1>8. PICK live, kids, up : live = Live(node, l) /\ kids = Kids(node, l) /\ up = Parents(node)
  OBVIOUS
<1>9. live = {1}
  <2>1. live = {p \in Page : node[p].type # "freed"}
    BY <1>5, <1>8, PlainView
  <2>2. \A p \in Page : node[p] = IF p = 1 THEN x ELSE Freed
    BY <1>3
  <2>3. \A p \in Page : node[p].type # "freed" <=> p = 1
    BY <1>4, <2>2, FreedIsNode
  <2> QED BY <1>2, <2>1, <2>3
<1>10. kids[1] = {}
  <2>1. kids[1] = IF node[1].type = "internal" THEN Range(node[1].children) ELSE {}
    BY <1>2, <1>5, <1>8, PlainView
  <2> QED BY <1>2, <1>3, <1>4, <2>1
<1>11. up[1] = 0
  BY <1>2, <1>3, <1>4, <1>8 DEF Parents
<1>12. PICK h : h = [p \in Page |-> 0]
  OBVIOUS
<1>13. Tree(live, kids, root, {}, {}, up, h)
  <2>1. Linked(live, kids, root, {})
    BY <1>2, <1>3, <1>9, <1>10 DEF Linked
  <2>2. Named(live, kids, root, {}, up)
    BY <1>3, <1>9, <1>10, <1>11 DEF Named
  <2>3. Layered(live, kids, h)
    BY <1>9, <1>10, <1>12 DEF Layered
  <2> QED BY <2>1, <2>2, <2>3 DEF Tree
<1>14. TreeOf(node, root, l, h)
  <2>1. Top(root, l) = root /\ Loose(l) = {} /\ Due(l) = {}
    BY <1>5, PlainView
  <2>2. Ground(node, live, h)
    BY <1>2, <1>9, <1>12 DEF Ground
  <2> QED BY <1>8, <1>13, <2>1, <2>2 DEF TreeOf
<1>15. Local(node, l, h)
  BY <1>5 DEF Local, Asked, Promoting, Splitting, Merging
<1>16. Good(node, root, l)
  BY <1>7, <1>14, <1>15 DEF Good
<1>17. run[TheWriter] = l /\ run = [w \in Writer |-> run[w]]
  BY <1>3 DEF OneWriter
<1> QED BY <1>16, <1>17 DEF Inv

LEMMA StepInv ==
    ASSUME OneWriter, Inv, NeverOverrun', Step(TheWriter)
    PROVE  Inv'
<1>1. ASSUME NEW k \in Key, NEW v \in Value, Call(TheWriter, "insert", k, v)
      PROVE  Inv'
  <2>1. PICK op : op = "insert"
    OBVIOUS
  <2>2. v \in Value \cup {NoValue} /\ (op = "insert" => v \in Value) /\ Call(TheWriter, op, k, v)
    BY <1>1, <2>1
  <2> QED BY <1>1, <2>2, CallStep
<1>2. ASSUME NEW k \in Key, Call(TheWriter, "delete", k, NoValue)
      PROVE  Inv'
  <2>1. PICK op, v : op = "delete" /\ v = NoValue
    OBVIOUS
  <2>2. v \in Value \cup {NoValue} /\ (op = "insert" => v \in Value) /\ Call(TheWriter, op, k, v)
    BY <1>2, <2>1
  <2> QED BY <1>2, <2>2, CallStep
<1> QED
  BY <1>1, <1>2, FindStep, AdoptStep, AdoptedStep, StoreRootStep, InsertInPlaceStep,
      SplitLeafStep,
     FixNextStep, GrowRootStep, ToParentStep, InsertEntryStep, SplitInternalStep, RemoveKeyStep,
     RebalanceStep, SiblingsStep, ShareLeavesStep, SetSeparatorStep, MergeLeavesStep,
     ShareChildrenStep, MergeInternalsStep, FreeRightStep, RemoveEntryStep, FreeRootStep,
         DoneStep,
     FailStep DEF Step

LEMMA NextOrRead ==
    ASSUME [ReaderNext]_<< vars, reader, shared >>
    PROVE  Next \/ UNCHANGED << node, root, run >>
<1>1. ASSUME NEW r \in Reader, ReaderStep(r) PROVE UNCHANGED << node, root, run >>
  <2>1. ASSUME NEW locals, Become(r, locals) PROVE UNCHANGED << node, root, run >>
    BY <2>1 DEF Become
  <2>2. PICK locals : Become(r, locals)
    <3>1. ASSUME NEW k \in Key, GetCall(r, k) PROVE \E locals : Become(r, locals)
      BY <3>1 DEF GetCall
    <3>2. Fetch(r) => \E locals : Become(r, locals)
      BY DEF Fetch
    <3>3. Descend(r) => \E locals : Become(r, locals)
      BY DEF Descend
    <3>4. ReadLeaf(r) => \E locals : Become(r, locals)
      BY DEF ReadLeaf, Answer
    <3>5. Forget(r) => \E locals : Become(r, locals)
      BY DEF Forget
    <3> QED BY <1>1, <3>1, <3>2, <3>3, <3>4, <3>5 DEF ReaderStep
  <2> QED BY <2>1, <2>2
<1>2. UNCHANGED << vars, reader, shared >> => UNCHANGED << node, root, run >>
  BY DEF vars
<1> QED BY <1>1, <1>2 DEF ReaderNext

LEMMA ReaderNextInv ==
    ASSUME OneWriter, Inv, NeverOverrun', [ReaderNext]_<< vars, reader, shared >>
    PROVE  Inv'
<1>1. CASE Next
  BY <1>1, StepInv DEF Next, OneWriter
<1>2. CASE UNCHANGED << node, root, run >>
  BY <1>2 DEF Inv
<1> QED BY <1>1, <1>2, NextOrRead

-----------------------------------------------------------------------------
(* Between two calls.  Every non-empty set of naturals has a least element. *)
LEMMA LeastNatural ==
    ASSUME NEW S, S \subseteq Nat, S # {}
    PROVE  \E m \in S : \A x \in S : m <= x
<1>0. S \subseteq Nat
  OBVIOUS
<1>1. PICK m \in S : \A x \in Nat : << x, m >> \in OpToRel(<, Nat) => x \notin S
  BY <1>0, NatLessThanWellFounded, WFMin, Zenon
<1>2. \A x \in S : ~ (x < m)
  BY <1>1 DEF OpToRel
<1>3. \A x \in S : x \in Nat /\ m \in Nat
  OBVIOUS
<1> QED BY <1>2, <1>3

(* The heights of finitely many pages have a bound. *)
LEMMA HeightsBounded ==
    ASSUME NEW h \in [Page -> Nat]
    PROVE  \E b \in Nat : \A p \in Page : h[p] <= b
<1> DEFINE Bounds(n) == \E b \in Nat : \A p \in Page : p <= n => h[p] <= b
<1>1. MaxPage \in Nat /\ Page \subseteq Nat
  BY BTreeConstants DEF Page
<1>2. SUFFICES ASSUME \E n \in Nat : ~ Bounds(n) PROVE FALSE
  <2>1. SUFFICES Bounds(MaxPage)
    BY <1>1 DEF Page
  <2> QED BY <1>1, <1>2
<1>3. PICK n \in {m \in Nat : ~ Bounds(m)} : \A m \in {x \in Nat : ~ Bounds(x)} : n <= m
  <2>1. {m \in Nat : ~ Bounds(m)} \subseteq Nat /\ {m \in Nat : ~ Bounds(m)} # {}
    BY <1>2
  <2> HIDE DEF Bounds
  <2> QED BY <2>1, LeastNatural
<1>4. n \in Nat /\ ~ Bounds(n)
  BY <1>3
<1>5. n # 0
  <2>1. Bounds(0)
    <3>1. \A p \in Page : ~ (p <= 0)
      BY DEF Page
    <3> QED BY <3>1
  <2> QED BY <1>4, <2>1
<1>6. n - 1 \in Nat /\ n - 1 < n
  BY <1>4, <1>5
<1>7. Bounds(n - 1)
  <2>1. n - 1 \in {m \in Nat : ~ Bounds(m)} => n <= n - 1
    BY <1>3
  <2> HIDE DEF Bounds
  <2> QED BY <1>6, <2>1
<1>8. PICK b \in Nat : \A p \in Page : p <= n - 1 => h[p] <= b
  BY <1>7
<1>9. CASE n \notin Page
  <2>1. \A p \in Page : p <= n => p <= n - 1
    BY <1>1, <1>4, <1>9
  <2> QED BY <1>4, <1>8, <2>1
<1>10. CASE n \in Page
  <2>1. PICK c \in Nat : c = b + h[n]
    BY <1>10
  <2>2. h[n] \in Nat
    BY <1>10
  <2>3. ASSUME NEW p \in Page, p <= n PROVE h[p] <= c
    <3>1. h[p] \in Nat
      OBVIOUS
    <3>2. CASE p = n
      BY <2>1, <2>2, <3>2
    <3>3. CASE p # n
      <4>1. p <= n - 1
        BY <1>1, <1>4, <2>3, <3>3
      <4>2. h[p] <= b
        BY <1>8, <4>1
      <4> QED BY <2>1, <2>2, <3>1, <4>2
    <3> QED BY <3>2, <3>3
  <2> QED BY <1>4, <2>3
<1> QED BY <1>9, <1>10

(* f gives what is below each page: the page and what is below its children. *)
Downward(f, kids) ==
    f = [p \in Page |-> {p} \cup UNION {f[c] : c \in kids[p]}]

(* There is such a function ... *)
LEMMA DownwardExists ==
    ASSUME NEW kids, \A p \in Page : kids[p] \subseteq Page
    PROVE  \E f : Downward(f, kids)
<1> DEFINE Closed(S) == \A x \in S : kids[x] \subseteq S
           Reach(p) == {q \in Page : \A S \in SUBSET Page : p \in S /\ Closed(S) => q \in S}
<1>1. PICK f : f = [p \in Page |-> Reach(p)]
  <2>1. ASSUME NEW X PROVE \E f : f = X
    OBVIOUS
  <2> HIDE DEF Reach
  <2> QED BY <2>1, Zenon
<1>2. ASSUME NEW p \in Page PROVE f[p] = {p} \cup UNION {f[c] : c \in kids[p]}
  <2>1. f[p] = Reach(p) /\ p \in f[p] /\ f[p] \subseteq Page
    BY <1>1
  <2>2. ASSUME NEW c \in kids[p], NEW q \in f[c] PROVE q \in f[p]
    <3>1. c \in Page /\ f[c] = Reach(c)
      BY <1>1
    <3>2. ASSUME NEW S \in SUBSET Page, p \in S, Closed(S) PROVE q \in S
      BY <2>2, <3>1, <3>2
    <3> QED BY <2>1, <2>2, <3>1, <3>2
  <2>3. PICK T : T = {p} \cup UNION {f[c] : c \in kids[p]}
    OBVIOUS
  <2>4. \A c \in Page : c \in f[c] /\ f[c] \subseteq Page
    BY <1>1
  <2>5. T \in SUBSET Page /\ p \in T
    BY <2>3, <2>4
  <2>6. ASSUME NEW x \in T PROVE kids[x] \subseteq T
    <3>1. CASE x = p
      BY <2>3, <2>4, <3>1
    <3>2. CASE x # p
      <4>1. PICK c \in kids[p] : x \in f[c]
        BY <2>3, <2>6, <3>2
      <4>2. c \in Page /\ x \in Page /\ f[c] = Reach(c)
        BY <1>1, <2>4, <4>1
      <4>3. ASSUME NEW d \in kids[x] PROVE d \in f[c]
        <5>1. d \in Page
          BY <4>2
        <5>2. ASSUME NEW S \in SUBSET Page, c \in S, Closed(S) PROVE d \in S
          <6>1. x \in S
            BY <4>1, <4>2, <5>2
          <6> QED BY <4>3, <5>2, <6>1
        <5> QED BY <4>2, <5>1, <5>2
      <4> QED BY <2>3, <4>3
    <3> QED BY <3>1, <3>2
  <2>7. f[p] \subseteq T
    <3>1. Closed(T)
      BY <2>6
    <3> QED BY <2>1, <2>5, <3>1
  <2>8. T \subseteq f[p]
    BY <2>1, <2>2, <2>3
  <2> QED BY <2>3, <2>7, <2>8
<1> HIDE DEF Reach
<1>3. f = [p \in Page |-> f[p]]
  BY <1>1
<1> QED BY <1>2, <1>3 DEF Downward

(* ... and in a tree it finds every page below the root, and no other. *)
LEMMA AllBelowTop ==
    ASSUME NEW live, NEW kids, NEW top, NEW up, NEW h, Tree(live, kids, top, {}, {}, up, h),
           NEW f, Downward(f, kids)
    PROVE  live = f[top]
<1>1. live \subseteq Page /\ h \in [Page -> Nat] /\ top \in live
  BY DEF Tree, Linked, Layered
<1>2. \A p \in live : f[p] = {p} \cup UNION {f[c] : c \in kids[p]}
  BY <1>1 DEF Downward
<1>3. ASSUME NEW p \in live, NEW c \in kids[p]
      PROVE  c \in live /\ h[c] \in Nat /\ h[p] \in Nat /\ h[c] + 1 = h[p]
  <2>1. c \in live
    BY DEF Tree, Linked
  <2>2. h[c] + 1 = h[p]
    BY DEF Tree, Layered
  <2> QED BY <1>1, <2>1, <2>2
<1>4. ASSUME NEW p \in live PROVE f[p] \subseteq live
  <2> DEFINE Bad == {q \in live : ~ (f[q] \subseteq live)}
  <2>1. SUFFICES ASSUME Bad # {} PROVE FALSE
    OBVIOUS
  <2>2. PICK n \in {h[q] : q \in Bad} : \A m \in {h[q] : q \in Bad} : n <= m
    <3>1. {h[q] : q \in Bad} \subseteq Nat /\ {h[q] : q \in Bad} # {}
      BY <1>1, <2>1
    <3> QED BY <3>1, LeastNatural
  <2>3. PICK q \in live : n = h[q] /\ ~ (f[q] \subseteq live)
    BY <2>2
  <2>4. PICK c \in kids[q] : ~ (f[c] \subseteq live)
    BY <1>2, <2>3
  <2>5. c \in Bad /\ h[c] \in Nat /\ h[q] \in Nat /\ h[c] + 1 = h[q]
    BY <1>3, <2>4
  <2>6. h[q] <= h[c]
    BY <2>2, <2>3, <2>5
  <2> QED BY <2>5, <2>6
<1>5. ASSUME NEW p \in live, NEW q \in f[p] PROVE f[q] \subseteq f[p]
  <2> DEFINE Bad == {x \in live : \E y \in f[x] : ~ (f[y] \subseteq f[x])}
  <2>1. SUFFICES ASSUME Bad # {} PROVE FALSE
    BY <1>5
  <2>2. PICK n \in {h[x] : x \in Bad} : \A m \in {h[x] : x \in Bad} : n <= m
    <3>1. {h[x] : x \in Bad} \subseteq Nat /\ {h[x] : x \in Bad} # {}
      BY <1>1, <2>1
    <3> QED BY <3>1, LeastNatural
  <2>3. PICK x \in live : n = h[x] /\ \E y \in f[x] : ~ (f[y] \subseteq f[x])
    BY <2>2
  <2>4. PICK y \in f[x] : ~ (f[y] \subseteq f[x])
    BY <2>3
  <2>5. PICK c \in kids[x] : y \in f[c]
    BY <1>2, <2>4
  <2>6. f[c] \subseteq f[x]
    BY <1>2, <2>5
  <2>7. c \in Bad /\ h[c] \in Nat /\ h[x] \in Nat /\ h[c] + 1 = h[x]
    BY <1>3, <2>4, <2>5, <2>6
  <2>8. h[x] <= h[c]
    BY <2>2, <2>3, <2>7
  <2> QED BY <2>7, <2>8
<1>6. ASSUME NEW p \in live PROVE p \in f[top]
  <2> DEFINE Bad == {q \in live : q \notin f[top]}
  <2>1. SUFFICES ASSUME Bad # {} PROVE FALSE
    OBVIOUS
  <2>2. PICK b \in Nat : \A q \in Page : h[q] <= b
    BY <1>1, HeightsBounded
  <2>3. \A q \in live : b - h[q] \in Nat /\ h[q] \in Nat
    BY <1>1, <2>2
  <2>4. PICK n \in {b - h[q] : q \in Bad} : \A m \in {b - h[q] : q \in Bad} : n <= m
    <3>1. {b - h[q] : q \in Bad} \subseteq Nat /\ {b - h[q] : q \in Bad} # {}
      BY <2>1, <2>3
    <3> QED BY <3>1, LeastNatural
  <2>5. PICK c \in live : n = b - h[c] /\ c \notin f[top]
    BY <2>4
  <2>6. c # top
    BY <1>1, <1>2, <2>5
  <2>7. PICK q \in live : c \in kids[q]
    BY <2>5, <2>6 DEF Tree, Linked
  <2>8. h[c] \in Nat /\ h[q] \in Nat /\ h[c] + 1 = h[q]
    BY <1>3, <2>7
  <2>9. q \notin f[top]
    <3>1. SUFFICES ASSUME q \in f[top] PROVE FALSE
      OBVIOUS
    <3>2. f[q] \subseteq f[top]
      BY <1>1, <1>5, <3>1
    <3>3. c \in f[c] /\ f[c] \subseteq f[q]
      BY <1>2, <2>5, <2>7
    <3> QED BY <2>5, <3>2, <3>3
  <2>10. b - h[c] <= b - h[q]
    BY <2>4, <2>5, <2>9
  <2> QED BY <2>8, <2>10
<1> QED BY <1>1, <1>4, <1>6

(* Below is such a function where every child is a page. *)
LEMMA BelowIsDownward ==
    ASSUME NEW kids,
           \A p \in Page : /\ kids[p] = IF IsInternal(p) THEN Range(node[p].children) ELSE {}
                           /\ kids[p] \subseteq Page
    PROVE  Downward(Below, kids)
<1> DEFINE Recurs(f) ==
        f = [p \in Page |->
               {p} \cup (IF IsInternal(p) THEN UNION {f[c] : c \in Range(node[p].children)}
                         ELSE {})]
<1>1. Below = CHOOSE f : Recurs(f)
  BY DEF Below
<1>2. ASSUME NEW f PROVE Recurs(f) <=> Downward(f, kids)
  <2>1. ASSUME NEW p \in Page
        PROVE  {p} \cup (IF IsInternal(p) THEN UNION {f[c] : c \in Range(node[p].children)} ELSE {})
                  = {p} \cup UNION {f[c] : c \in kids[p]}
    <3>1. CASE IsInternal(p)
      BY <3>1
    <3>2. CASE ~ IsInternal(p)
      <4>1. kids[p] = {}
        BY <3>2
      <4> QED BY <3>2, <4>1
    <3> QED BY <3>1, <3>2
  <2> QED BY <2>1 DEF Downward
<1>3. \E f : Recurs(f)
  <2>1. PICK f : Downward(f, kids)
    BY DownwardExists
  <2> QED BY <1>2, <2>1
<1> HIDE DEF Recurs
<1>4. Recurs(Below)
  BY <1>1, <1>3
<1> QED BY <1>2, <1>4

(* The invariant of the writer gives what the calls leave. *)
LEMMA InvParents ==
    ASSUME OneWriter, Inv
    PROVE  ParentsAgree
<1>0. SUFFICES ASSUME Quiet
               PROVE  /\ node[root].parent = 0
                      /\ \A p \in Page : IsInternal(p) =>
                            \A i \in DOMAIN node[p].children : node[node[p].children[i]].parent = p
                      /\ Below[root] \cup FreePages = Page
  BY DEF ParentsAgree
<1>1. PICK l : l = run[TheWriter]
  OBVIOUS
<1>2. l.pc = "idle" /\ Plain(l)
  BY <1>0, <1>1 DEF Quiet, OneWriter, At, Plain
<1>3. PICK h : TreeOf(node, root, l, h)
  BY <1>1, <1>2 DEF Inv, Good
<1>4. PICK live, kids, up : live = Live(node, l) /\ kids = Kids(node, l) /\ up = Parents(node)
  OBVIOUS
<1>5. Tree(live, kids, root, {}, {}, up, h)
  <2>1. Top(root, l) = root /\ Loose(l) = {} /\ Due(l) = {}
    BY <1>2, PlainView
  <2> QED BY <1>3, <1>4, <2>1 DEF TreeOf
<1>6. live = {p \in Page : node[p].type # "freed"}
  BY <1>2, <1>4, PlainView
<1>7. \A p \in Page : kids[p] = IF IsInternal(p) THEN Range(node[p].children) ELSE {}
  <2>1. \A p \in Page :
           kids[p] = IF node[p].type = "internal" THEN Range(node[p].children) ELSE {}
    BY <1>2, <1>4, PlainView
  <2> QED BY <2>1 DEF IsInternal
<1>8. \A p \in Page : kids[p] \subseteq Page
  <2>1. \A p \in live : kids[p] \subseteq Page
    BY <1>5 DEF Tree, Linked
  <2>2. \A p \in Page : p \notin live => kids[p] = {}
    BY <1>6, <1>7 DEF IsInternal
  <2> QED BY <2>1, <2>2
<1>9. live = Below[root]
  BY <1>5, <1>7, <1>8, BelowIsDownward, AllBelowTop
<1>10. Below[root] \cup FreePages = Page
  BY <1>6, <1>9 DEF FreePages
<1>11. node[root].parent = 0
  <2>1. up[root] = 0 /\ root \in Page
    BY <1>5 DEF Tree, Named, Linked
  <2> QED BY <1>4, <2>1 DEF Parents
<1>12. ASSUME NEW p \in Page, IsInternal(p), NEW i \in DOMAIN node[p].children
       PROVE  node[node[p].children[i]].parent = p
  <2>1. p \in live
    BY <1>6, <1>12 DEF IsInternal
  <2>2. PICK c : c = node[p].children[i]
    OBVIOUS
  <2>3. c \in kids[p]
    BY <1>7, <1>12, <2>2 DEF Range
  <2>4. up[c] = p /\ c \in Page
    BY <1>5, <1>8, <2>1, <2>3 DEF Tree, Named
  <2> QED BY <1>4, <2>2, <2>4 DEF Parents
<1> QED BY <1>10, <1>11, <1>12

-----------------------------------------------------------------------------
(* Room.  Where keys have one length and values another, what a node takes
   depends on how many it has. *)
OneSize(c, d) ==
    /\ c \in Nat /\ d \in Nat
    /\ \A k \in Key : KeyLen(k) = c
    /\ \A v \in Value : ValueLen(v) = d
    /\ LEAF_HEADER_LEN + LEAF_SLOT_LEN + c + d <= PageSize
    /\ INTERNAL_HEADER_LEN + INTERNAL_SLOT_LEN + c <= PageSize

(* Entries are all of one size, and one fits a page. *)
EntriesAlike == \E c \in Nat, d \in Nat : OneSize(c, d)

LEMMA TimesRises ==
    ASSUME NEW n \in Nat, NEW m \in Nat, NEW c \in Nat
    PROVE  /\ n * c \in Nat /\ (n + 1) * c = n * c + c
           /\ n <= m => n * c <= m * c
<1>1. n * c \in Nat /\ (n + 1) * c = n * c + c
  OBVIOUS
<1>2. ASSUME n <= m PROVE n * c <= m * c
  <2>1. PICK d \in Nat : m = n + d
    <3>1. m - n \in Nat /\ m = n + (m - n)
      BY <1>2
    <3> QED BY <3>1
  <2>2. (n + d) * c = n * c + d * c /\ d * c \in Nat /\ n * c \in Nat
    OBVIOUS
  <2> QED BY <2>1, <2>2
<1> QED BY <1>1, <1>2

LEMMA SumOfAlike ==
    ASSUME NEW s \in Seq(Nat), NEW c \in Nat, \A i \in DOMAIN s : s[i] = c
    PROVE  SumOf(s) = Len(s) * c
<1> DEFINE N == Len(s)
           Sums(t) == t = [i \in 0 .. N |-> IF i = 0 THEN 0 ELSE t[i - 1] + s[i]]
<1>1. N \in Nat /\ DOMAIN s = 1 .. N
  OBVIOUS
<1>2. RunningTotal(s) = CHOOSE t : Sums(t)
  BY DEF RunningTotal
<1>3. \E t : Sums(t)
  <2>1. PICK t : t = [i \in 0 .. N |-> i * c]
    OBVIOUS
  <2>2. ASSUME NEW i \in 0 .. N PROVE t[i] = IF i = 0 THEN 0 ELSE t[i - 1] + s[i]
    <3>1. CASE i = 0
      <4>1. t[0] = 0 * c
        BY <1>1, <2>1, <3>1
      <4>2. 0 * c = 0
        OBVIOUS
      <4> QED BY <3>1, <4>1, <4>2
    <3>2. CASE i # 0
      <4>1. PICK j \in Nat : i = j + 1 /\ i - 1 = j /\ j \in 0 .. N /\ i \in 1 .. N
        <5>1. i - 1 \in Nat /\ i = (i - 1) + 1 /\ i - 1 \in 0 .. N /\ i \in 1 .. N
          BY <1>1, <3>2
        <5> QED BY <5>1
      <4>2. t[i] = (j + 1) * c /\ t[i - 1] = j * c
        BY <2>1, <4>1
      <4>3. s[i] = c
        BY <1>1, <4>1
      <4>4. (j + 1) * c = j * c + c
        BY TimesRises
      <4> QED BY <3>2, <4>2, <4>3, <4>4
    <3> QED BY <3>1, <3>2
  <2>3. Sums(t)
    BY <2>1, <2>2
  <2> QED BY <2>3
<1>4. PICK t : t = RunningTotal(s)
  OBVIOUS
<1>5. Sums(t)
  BY <1>2, <1>3, <1>4
<1> HIDE DEF N
<1>6. t[0] = 0
  BY <1>1, <1>5
<1>7. ASSUME NEW i \in 1 .. N PROVE t[i] = t[i - 1] + s[i]
  BY <1>1, <1>5
<1>8. \A i \in 0 .. N : t[i] = i * c
  <2>1. SUFFICES ASSUME \E i \in 0 .. N : t[i] # i * c PROVE FALSE
    OBVIOUS
  <2>2. PICK n \in {i \in 0 .. N : t[i] # i * c} :
            \A m \in {i \in 0 .. N : t[i] # i * c} : n <= m
    <3>1. {i \in 0 .. N : t[i] # i * c} \subseteq Nat /\ {i \in 0 .. N : t[i] # i * c} # {}
      BY <2>1
    <3> QED BY <3>1, LeastNatural
  <2>3. n \in 0 .. N /\ t[n] # n * c
    BY <2>2
  <2>4. n # 0
    <3>1. 0 * c = 0
      OBVIOUS
    <3> QED BY <1>6, <2>3, <3>1
  <2>5. PICK j \in Nat : n = j + 1 /\ n - 1 = j /\ j \in 0 .. N /\ n \in 1 .. N
    <3>1. n - 1 \in Nat /\ n = (n - 1) + 1 /\ n - 1 \in 0 .. N /\ n \in 1 .. N
      BY <1>1, <2>3, <2>4
    <3> QED BY <3>1
  <2>6. ~ (n <= j)
    BY <2>5
  <2>7. t[j] = j * c
    BY <2>2, <2>5, <2>6
  <2>8. t[n] = t[j] + c
    BY <1>1, <1>7, <2>5 DEF N
  <2>9. (j + 1) * c = j * c + c
    BY TimesRises
  <2> QED BY <2>3, <2>5, <2>7, <2>8, <2>9
<1>9. SumOf(s) = t[N]
  BY <1>4 DEF SumOf, N
<1>10. N \in 0 .. N
  BY <1>1
<1> QED BY <1>8, <1>9, <1>10 DEF N

LEMMA LeafTakes ==
    ASSUME NEW c \in Nat, NEW d \in Nat, OneSize(c, d), NEW e \in Seq(Entry)
    PROVE  LeafUsed(e) = LEAF_HEADER_LEN + Len(e) * LEAF_SLOT_LEN + Len(e) * (c + d)
<1>1. PICK s : s = [i \in DOMAIN e |-> KeyLen(e[i].key) + ValueLen(e[i].value)]
  OBVIOUS
<1>2. Len(e) \in Nat /\ DOMAIN e = 1 .. Len(e) /\ c + d \in Nat
  OBVIOUS
<1>3. \A i \in DOMAIN e : s[i] = c + d
  <2>1. \A i \in DOMAIN e : e[i].key \in Key /\ e[i].value \in Value
    <3>1. \A i \in DOMAIN e : e[i] \in Entry
      OBVIOUS
    <3> QED BY <3>1 DEF Entry
  <2> QED BY <1>1, <2>1 DEF OneSize
<1>4. s \in Seq(Nat) /\ Len(s) = Len(e) /\ DOMAIN s = DOMAIN e
  <2>1. s \in [1 .. Len(e) -> Nat]
    BY <1>1, <1>2, <1>3
  <2>2. s \in Seq(Nat)
    BY <1>2, <2>1, IsASeq
  <2>3. DOMAIN s = 1 .. Len(e)
    BY <2>1
  <2> QED BY <1>2, <2>2, <2>3
<1>5. SumOf(s) = Len(s) * (c + d)
  BY <1>2, <1>3, <1>4, SumOfAlike
<1> QED BY <1>1, <1>4, <1>5 DEF LeafUsed

LEMMA InternalTakes ==
    ASSUME NEW c \in Nat, NEW d \in Nat, OneSize(c, d), NEW k \in Seq(Key)
    PROVE  InternalUsed(k) = INTERNAL_HEADER_LEN + Len(k) * INTERNAL_SLOT_LEN + Len(k) * c
<1>1. PICK s : s = [i \in DOMAIN k |-> KeyLen(k[i])]
  OBVIOUS
<1>2. Len(k) \in Nat /\ DOMAIN k = 1 .. Len(k)
  OBVIOUS
<1>3. \A i \in DOMAIN k : s[i] = c
  <2>1. \A i \in DOMAIN k : k[i] \in Key
    OBVIOUS
  <2> QED BY <1>1, <2>1 DEF OneSize
<1>4. s \in Seq(Nat) /\ Len(s) = Len(k) /\ DOMAIN s = DOMAIN k
  <2>1. s \in [1 .. Len(k) -> Nat]
    BY <1>1, <1>2, <1>3
  <2>2. s \in Seq(Nat)
    BY <1>2, <2>1, IsASeq
  <2>3. DOMAIN s = 1 .. Len(k)
    BY <2>1
  <2> QED BY <1>2, <2>2, <2>3
<1>5. SumOf(s) = Len(s) * c
  BY <1>3, <1>4, SumOfAlike
<1> QED BY <1>1, <1>4, <1>5 DEF InternalUsed

(* h for the header, s and c for each of n. *)
Takes(h, s, c, n) == h + n * s + n * c

LEMMA TakesParts ==
    ASSUME NEW h \in Nat, NEW s \in Nat, NEW c \in Nat, NEW n \in Nat, NEW m \in Nat
    PROVE  /\ Takes(h, s, c, n) \in Nat
           /\ Takes(h, s, c, n + 1) = Takes(h, s, c, n) + s + c
           /\ Takes(h, s, c, 0) = h
           /\ n <= m => Takes(h, s, c, n) <= Takes(h, s, c, m)
<1>1. /\ n * s \in Nat /\ n * c \in Nat /\ m * s \in Nat /\ m * c \in Nat
      /\ (n + 1) * s = n * s + s /\ (n + 1) * c = n * c + c
  BY TimesRises
<1>2. n <= m => n * s <= m * s /\ n * c <= m * c
  BY TimesRises
<1>3. 0 * s = 0 /\ 0 * c = 0
  OBVIOUS
<1>4. PICK a \in Nat, b \in Nat, x \in Nat, y \in Nat :
         a = n * s /\ b = n * c /\ x = m * s /\ y = m * c
  BY <1>1
<1>5. n <= m => h + a + b <= h + x + y
  BY <1>2, <1>4
<1>6. /\ Takes(h, s, c, n) = h + a + b /\ Takes(h, s, c, m) = h + x + y
      /\ Takes(h, s, c, 0) = h + 0 + 0
  BY <1>3, <1>4 DEF Takes
<1>7. Takes(h, s, c, n + 1) = h + (a + s) + (b + c)
  BY <1>1, <1>4 DEF Takes
<1> QED BY <1>5, <1>6, <1>7

(* A node that underflows, or is empty, has room for one more. *)
LEMMA RoomWhenShort ==
    ASSUME NEW h \in Nat, NEW s \in Nat, NEW c \in Nat, NEW n \in Nat, NEW m \in Nat,
           h + s + c <= PageSize, m <= n + 1, Underflow(Takes(h, s, c, n), n)
    PROVE  Takes(h, s, c, m) <= PageSize
<1>0. PageSize \in Nat
  BY BTreeConstants
<1>1. PICK k \in Nat, z \in Nat, one \in Nat : k = n + 1 /\ z = 0 /\ one = 1
  OBVIOUS
<1>2. PICK t \in Nat, t1 \in Nat, u \in Nat, t0 \in Nat, i \in Nat :
         /\ t = Takes(h, s, c, n) /\ t1 = Takes(h, s, c, k) /\ u = Takes(h, s, c, m)
         /\ t0 = Takes(h, s, c, z) /\ i = Takes(h, s, c, one)
  <2>1. \A x \in Nat : Takes(h, s, c, x) \in Nat
    BY TakesParts
  <2> QED BY <2>1
<1>3. t1 = t + s + c
  <2>1. Takes(h, s, c, n + 1) = Takes(h, s, c, n) + s + c
    BY TakesParts
  <2> QED BY <1>1, <1>2, <2>1
<1>4. u <= t1
  <2>1. m <= k
    BY <1>1
  <2> QED BY <1>2, <2>1, TakesParts
<1>5. i = h + s + c
  <2>0. Takes(h, s, c, 0) = h
    BY TakesParts
  <2>1. Takes(h, s, c, z + 1) = Takes(h, s, c, z) + s + c
    BY TakesParts
  <2>2. z + 1 = one
    BY <1>1
  <2>3. t0 = h /\ i = t0 + s + c
    BY <1>1, <1>2, <2>0, <2>1, <2>2
  <2> QED BY <2>3
<1>6. CASE n = 0
  <2>1. k = one
    BY <1>1, <1>6
  <2>2. t1 = i
    BY <1>2, <2>1
  <2>3. i <= PageSize
    BY <1>5
  <2> QED BY <1>0, <1>2, <1>4, <2>2, <2>3
<1>7. CASE n # 0
  <2>1. one <= n
    BY <1>1, <1>7
  <2>2. i <= t
    BY <1>2, <2>1, TakesParts
  <2>3. t < PageSize \div 3
    BY <1>2, <1>7 DEF Underflow
  <2>4. t + t <= PageSize
    BY <1>0, <2>3
  <2> QED BY <1>0, <1>2, <1>3, <1>4, <1>5, <2>2, <2>4
<1> QED BY <1>6, <1>7

LEMMA LeavesFit ==
    ASSUME EntriesAlike, NEW e \in Seq(Entry), NEW f \in Seq(Entry)
    PROVE  /\ Len(f) <= Len(e) /\ Fits(LeafUsed(e)) => Fits(LeafUsed(f))
           /\ Len(f) <= 1 => Fits(LeafUsed(f))
           /\ Underflow(LeafUsed(e), Len(e)) /\ Len(f) <= Len(e) + 1 => Fits(LeafUsed(f))
<1>1. PICK c \in Nat, d \in Nat : OneSize(c, d)
  BY DEF EntriesAlike
<1>2. PICK h \in Nat, s \in Nat, g \in Nat, n \in Nat, m \in Nat :
         h = LEAF_HEADER_LEN /\ s = LEAF_SLOT_LEN /\ g = c + d /\ n = Len(e) /\ m = Len(f)
  <2>1. LEAF_HEADER_LEN \in Nat /\ LEAF_SLOT_LEN \in Nat /\ c + d \in Nat
        /\ Len(e) \in Nat /\ Len(f) \in Nat
    BY BTreeConstants
  <2> QED BY <2>1
<1>3. LeafUsed(e) = Takes(h, s, g, n) /\ LeafUsed(f) = Takes(h, s, g, m)
  BY <1>1, <1>2, LeafTakes DEF Takes
<1>4. h + s + g <= PageSize /\ PageSize \in Nat
  <2>1. h + s + c + d <= PageSize /\ PageSize \in Nat
    BY <1>1, <1>2, BTreeConstants DEF OneSize
  <2> QED BY <1>2, <2>1
<1>5. Takes(h, s, g, n) \in Nat /\ Takes(h, s, g, m) \in Nat
      /\ (m <= n => Takes(h, s, g, m) <= Takes(h, s, g, n))
  BY TakesParts
<1>6. Fits(LeafUsed(e)) <=> Takes(h, s, g, n) <= PageSize
  BY <1>3 DEF Fits
<1>7. Fits(LeafUsed(f)) <=> Takes(h, s, g, m) <= PageSize
  BY <1>3 DEF Fits
<1>8. m <= n /\ Takes(h, s, g, n) <= PageSize => Takes(h, s, g, m) <= PageSize
  BY <1>4, <1>5
<1>9. m <= 1 => Takes(h, s, g, m) <= PageSize
  <2>1. Underflow(Takes(h, s, g, 0), 0) /\ 0 \in Nat
    BY DEF Underflow
  <2> QED BY <1>4, <2>1, RoomWhenShort
<1>10. Underflow(Takes(h, s, g, n), n) /\ m <= n + 1 => Takes(h, s, g, m) <= PageSize
  BY <1>4, RoomWhenShort
<1> QED BY <1>2, <1>3, <1>6, <1>7, <1>8, <1>9, <1>10

LEMMA InternalsFit ==
    ASSUME EntriesAlike, NEW e \in Seq(Key), NEW f \in Seq(Key)
    PROVE  /\ Len(f) <= Len(e) /\ Fits(InternalUsed(e)) => Fits(InternalUsed(f))
           /\ Len(f) <= 1 => Fits(InternalUsed(f))
           /\ Underflow(InternalUsed(e), Len(e)) /\ Len(f) <= Len(e) + 1 => Fits(InternalUsed(f))
<1>1. PICK c \in Nat, d \in Nat : OneSize(c, d)
  BY DEF EntriesAlike
<1>2. PICK h \in Nat, s \in Nat, n \in Nat, m \in Nat :
         h = INTERNAL_HEADER_LEN /\ s = INTERNAL_SLOT_LEN /\ n = Len(e) /\ m = Len(f)
  <2>1. INTERNAL_HEADER_LEN \in Nat /\ INTERNAL_SLOT_LEN \in Nat
        /\ Len(e) \in Nat /\ Len(f) \in Nat
    BY BTreeConstants
  <2> QED BY <2>1
<1>3. InternalUsed(e) = Takes(h, s, c, n) /\ InternalUsed(f) = Takes(h, s, c, m)
  BY <1>1, <1>2, InternalTakes DEF Takes
<1>4. h + s + c <= PageSize /\ PageSize \in Nat
  BY <1>1, <1>2, BTreeConstants DEF OneSize
<1>5. Takes(h, s, c, n) \in Nat /\ Takes(h, s, c, m) \in Nat
      /\ (m <= n => Takes(h, s, c, m) <= Takes(h, s, c, n))
  BY TakesParts
<1>6. Fits(InternalUsed(e)) <=> Takes(h, s, c, n) <= PageSize
  BY <1>3 DEF Fits
<1>7. Fits(InternalUsed(f)) <=> Takes(h, s, c, m) <= PageSize
  BY <1>3 DEF Fits
<1>8. m <= n /\ Takes(h, s, c, n) <= PageSize => Takes(h, s, c, m) <= PageSize
  BY <1>4, <1>5
<1>9. m <= 1 => Takes(h, s, c, m) <= PageSize
  <2>1. Underflow(Takes(h, s, c, 0), 0) /\ 0 \in Nat
    BY DEF Underflow
  <2> QED BY <1>4, <2>1, RoomWhenShort
<1>10. Underflow(Takes(h, s, c, n), n) /\ m <= n + 1 => Takes(h, s, c, m) <= PageSize
  BY <1>4, RoomWhenShort
<1> QED BY <1>2, <1>3, <1>6, <1>7, <1>8, <1>9, <1>10

(* A node that is no overrun fits its page. *)
Whole(x) ==
    /\ x.type # "overrun"
    /\ x.type = "leaf" => Fits(LeafUsed(x.entries))
    /\ x.type = "internal" => Fits(InternalUsed(x.keys))

AllWhole(n) == \A p \in Page : Whole(n[p])

(* One entry or one key more would fit too. *)
RoomForOne(x) ==
    /\ x.type = "leaf" =>
          \A f \in Seq(Entry) : Len(f) <= Len(x.entries) + 1 => Fits(LeafUsed(f))
    /\ x.type = "internal" =>
          \A f \in Seq(Key) : Len(f) <= Len(x.keys) + 1 => Fits(InternalUsed(f))

(* The node that is being rebalanced. *)
Short(l) == IF l.pc = "share" /\ l.then = "left" THEN l.right ELSE l.page

Rebalancing(l) == l.pc \in {"rebalance", "siblings", "share"}

Roomy(n, l) ==
    /\ AllWhole(n)
    /\ Rebalancing(l) => RoomForOne(n[Short(l)])
    /\ l.pc = "share" => l.then \in {"left", "right"}

Roomed == Roomy(node, run[TheWriter])

LEMMA AllWholeNoOverrun ==
    ASSUME AllWhole(node')
    PROVE  NeverOverrun'
BY DEF AllWhole, Whole, NeverOverrun

(* The writer's step. *)
LEMMA RoomyNext ==
    ASSUME OneWriter, Inv, NEW l2, run' = [run EXCEPT ![TheWriter] = l2], Roomy(node', l2)
    PROVE  NeverOverrun' /\ Roomed'
<1>1. run'[TheWriter] = l2
  BY DEF Inv, OneWriter
<1>2. Roomed'
  BY <1>1 DEF Roomed
<1>3. AllWhole(node')
  BY DEF Roomy
<1> QED BY <1>2, <1>3, AllWholeNoOverrun

LEMMA RoomKept ==
    ASSUME OneWriter, Inv, NEW l2, run' = [run EXCEPT ![TheWriter] = l2], AllWhole(node'),
           ~ Rebalancing(l2)
    PROVE  NeverOverrun' /\ Roomed'
<1>1. Roomy(node', l2)
  BY DEF Roomy, Rebalancing
<1> QED BY <1>1, RoomyNext

LEMMA SomeReplaced ==
    ASSUME AllWhole(node), \A p \in Page : node'[p] = node[p] \/ Whole(node'[p])
    PROVE  AllWhole(node')
BY DEF AllWhole

LEMMA OneReplaced ==
    ASSUME node \in [Page -> Node], AllWhole(node), NEW p, NEW x, Whole(x),
           node' = [node EXCEPT ![p] = x]
    PROVE  AllWhole(node')
<1>1. ASSUME NEW q \in Page PROVE node'[q] = node[q] \/ node'[q] = x
  OBVIOUS
<1>2. ASSUME NEW q \in Page PROVE node'[q] = node[q] \/ Whole(node'[q])
  BY <1>1
<1> QED BY <1>2, SomeReplaced

LEMMA TwoReplaced ==
    ASSUME node \in [Page -> Node], AllWhole(node), NEW p, NEW x, Whole(x), NEW r, NEW y,
        Whole(y),
           node' = [node EXCEPT ![p] = x, ![r] = y]
    PROVE  AllWhole(node')
<1>1. ASSUME NEW q \in Page PROVE node'[q] = node[q] \/ node'[q] = x \/ node'[q] = y
  OBVIOUS
<1>2. ASSUME NEW q \in Page PROVE node'[q] = node[q] \/ Whole(node'[q])
  BY <1>1
<1> QED BY <1>2, SomeReplaced

LEMMA ThreeReplaced ==
    ASSUME node \in [Page -> Node], AllWhole(node), NEW p, NEW x, Whole(x), NEW r, NEW y,
        Whole(y),
           NEW s, NEW z, Whole(z),
           node' = [node EXCEPT ![p] = x, ![r] = y, ![s] = z]
    PROVE  AllWhole(node')
<1>1. ASSUME NEW q \in Page PROVE node'[q] = node[q] \/ node'[q] = x \/ node'[q] = y \/ node'[q] = z
  OBVIOUS
<1>2. ASSUME NEW q \in Page PROVE node'[q] = node[q] \/ Whole(node'[q])
  BY <1>1
<1> QED BY <1>2, SomeReplaced

LEMMA WholeLeaf ==
    ASSUME EntriesAlike, NEW e \in Seq(Entry), Fits(LeafUsed(e)), NEW a, NEW b, NEW c
    PROVE  /\ Whole(Leaf(e, a, b, c)) /\ Leaf(e, a, b, c).type = "leaf"
           /\ Leaf(e, a, b, c).entries = e
<1>1. LeafUsed(e) <= PageSize
  BY DEF Fits
<1>2. Leaf(e, a, b, c) = [type |-> "leaf", entries |-> e, parent |-> a, prev |-> b, next |-> c]
  BY <1>1 DEF Leaf
<1> QED BY <1>2 DEF Whole

LEMMA WholeInternal ==
    ASSUME EntriesAlike, NEW k \in Seq(Key), Fits(InternalUsed(k)), NEW c, NEW a
    PROVE  /\ Whole(Internal(k, c, a)) /\ Internal(k, c, a).type = "internal"
           /\ Internal(k, c, a).keys = k
<1>1. InternalUsed(k) <= PageSize
  BY DEF Fits
<1>2. Internal(k, c, a) = [type |-> "internal", keys |-> k, children |-> c, parent |-> a]
  BY <1>1 DEF Internal
<1> QED BY <1>2 DEF Whole

LEMMA WholeFreed == Whole(Freed)
BY DEF Whole, Freed

(* The steps that write no page. *)
LEMMA StillRoom ==
    ASSUME OneWriter, Inv, Roomed, node' = node, NEW l2, Continue(TheWriter, l2),
           ~ Rebalancing(l2)
    PROVE  NeverOverrun' /\ Roomed'
<1>1. AllWhole(node')
  BY DEF Roomed, Roomy
<1> QED BY <1>1, RoomKept DEF Continue

LEMMA CallRoom ==
    ASSUME OneWriter, Inv, Roomed, NEW op, NEW k, NEW v, Call(TheWriter, op, k, v)
    PROVE  NeverOverrun' /\ Roomed'
<1>1. PICK l2 : l2 = [Idle EXCEPT !.pc = "find", !.op = op, !.key = k, !.value = v, !.page = root]
  OBVIOUS
<1>2. run' = [run EXCEPT ![TheWriter] = l2] /\ node' = node
  BY <1>1 DEF Call, Continue
<1>3. ~ Rebalancing(l2)
  BY <1>1 DEF Idle, Rebalancing
<1> QED BY <1>2, <1>3, StillRoom DEF Continue

LEMMA WalkingRoom ==
    ASSUME OneWriter, Inv, Roomed,
           \/ Find(TheWriter) \/ StoreRoot(TheWriter) \/ ToParent(TheWriter) \/ Done(TheWriter)
           \/ Fail(TheWriter) \/ Adopted(TheWriter)
    PROVE  NeverOverrun' /\ Roomed'
<1>0. PICK l : l = run[TheWriter]
  OBVIOUS
<1>1. l \in Locals
  BY <1>0, NodesNow
<1>2. ~ Rebalancing(Idle)
  BY DEF Idle, Rebalancing
<1>3. CASE StoreRoot(TheWriter) \/ Done(TheWriter)
  <2>1. node' = node /\ Continue(TheWriter, Idle)
    BY <1>3 DEF StoreRoot, Done, Return
  <2> QED BY <1>2, <2>1, StillRoom
<1>4. CASE Fail(TheWriter)
  <2>1. PICK l2 : l2 = [Idle EXCEPT !.pc = "failed"]
    OBVIOUS
  <2>2. ~ Rebalancing(l2)
    BY <2>1 DEF Idle, Rebalancing
  <2>3. node' = node /\ Continue(TheWriter, l2)
    BY <1>4, <2>1 DEF Fail
  <2> QED BY <2>2, <2>3, StillRoom
<1>5. CASE Find(TheWriter)
  <2>1. l.pc = "find" /\ node' = node
    BY <1>0, <1>5 DEF Find, At
  <2>2. l.op \in {"insert", "delete"}
    BY <1>0, <2>1 DEF Inv, Good, Local, Asked
  <2>3. PICK l2, l3 : /\ l2 = [l EXCEPT !.pc = l.op]
                      /\ l3 = [l EXCEPT !.page = FindChild(l.page, l.key)]
    OBVIOUS
  <2>4. Continue(TheWriter, l2) \/ Continue(TheWriter, l3)
    BY <1>0, <1>5, <2>3 DEF Find
  <2>5. l2.pc = l.op /\ l3.pc = "find"
    BY <1>1, <2>1, <2>3 DEF Locals
  <2>6. ~ Rebalancing(l2) /\ ~ Rebalancing(l3)
    BY <2>2, <2>5 DEF Rebalancing
  <2> QED BY <2>1, <2>4, <2>6, StillRoom
<1>6. CASE ToParent(TheWriter)
  <2>1. PICK l2 : l2 = [l EXCEPT !.pc = "parent", !.page = node[l.page].parent]
    OBVIOUS
  <2>2. l2.pc = "parent"
    BY <1>1, <2>1 DEF Locals
  <2>3. node' = node /\ Continue(TheWriter, l2)
    BY <1>0, <1>6, <2>1 DEF ToParent
  <2>4. ~ Rebalancing(l2)
    BY <2>2 DEF Rebalancing
  <2> QED BY <2>3, <2>4, StillRoom
<1>7. CASE Adopted(TheWriter)
  <2>1. l.pc = "adopt" /\ node' = node
    BY <1>0, <1>7 DEF Adopted, At
  <2>2. l.then \in {"root", "return", "promote", "free", "collapse"}
    BY <1>0, <2>1 DEF Inv, Good, Local, Asked
  <2>3. PICK l2 : l2 = [l EXCEPT !.pc = l.then]
    OBVIOUS
  <2>4. Continue(TheWriter, Idle) \/ Continue(TheWriter, l2)
    BY <1>0, <1>7, <2>3 DEF Adopted, Return
  <2>5. l2.pc = l.then
    BY <1>1, <2>3 DEF Locals
  <2>6. ~ Rebalancing(l2)
    BY <2>2, <2>5 DEF Rebalancing
  <2> QED BY <1>2, <2>1, <2>4, <2>6, StillRoom
<1> QED BY <1>3, <1>4, <1>5, <1>6, <1>7

LEMMA RebalanceRoom ==
    ASSUME OneWriter, Inv, Roomed, Rebalance(TheWriter)
    PROVE  NeverOverrun' /\ Roomed'
<1>0. PICK l : l = run[TheWriter]
  OBVIOUS
<1>1. l \in Locals /\ l.pc = "rebalance" /\ node' = node
  BY <1>0, NodesNow DEF Rebalance, At
<1>2. PICK l2 : l2 = [l EXCEPT !.pc = "siblings", !.parent = node[l.page].parent]
  OBVIOUS
<1>3. Continue(TheWriter, Idle) \/ Continue(TheWriter, l2)
  BY <1>0, <1>2 DEF Rebalance, Return
<1>4. ~ Rebalancing(Idle)
  BY DEF Idle, Rebalancing
<1>5. l2.pc = "siblings" /\ l2.page = l.page
  BY <1>1, <1>2 DEF Locals
<1>6. Roomy(node, l)
  BY <1>0 DEF Roomed
<1>7. Roomy(node', l2)
  <2>1. Short(l2) = Short(l)
    BY <1>1, <1>5 DEF Short
  <2> QED BY <1>1, <1>5, <1>6, <2>1 DEF Roomy, Rebalancing
<1> QED BY <1>1, <1>3, <1>4, <1>7, StillRoom, RoomyNext DEF Continue

LEMMA SiblingsRoom ==
    ASSUME OneWriter, Inv, Roomed, Siblings(TheWriter)
    PROVE  NeverOverrun' /\ Roomed'
<1>0. PICK l : l = run[TheWriter]
  OBVIOUS
<1>1. l \in Locals /\ l.pc = "siblings" /\ node' = node
  BY <1>0, NodesNow DEF Siblings, At
<1>2. l.parent \in Page /\ node[l.parent].type = "internal" /\ node[l.parent] \in Node
  BY <1>0, <1>1, NodesNow DEF Siblings, IsInternal
<1>3. PICK n \in Nat : /\ n = Len(node[l.parent].keys)
                       /\ DOMAIN node[l.parent].children = 1 .. n + 1
                       /\ Len(node[l.parent].children) = n + 1
                       /\ node[l.parent].children \in Seq(Page)
  BY <1>2, InternalParts
<1>4. PICK c : c = node[l.parent].children
  OBVIOUS
<1>5. PICK i \in 1 .. n + 1 :
         /\ c[i] = l.page
         /\ IF i > 1
            THEN Continue(TheWriter, [l EXCEPT !.pc = "share", !.then = "left",
                                !.page = c[i - 1], !.right = c[i], !.slot = i - 1])
            ELSE IF Len(c) > 1
            THEN Continue(TheWriter, [l EXCEPT !.pc = "share", !.then = "right",
                                !.right = c[2], !.slot = 1])
            ELSE Return(TheWriter)
  BY <1>0, <1>3, <1>4, ZenonT(30) DEF Siblings
<1>6. Roomy(node, l) /\ RoomForOne(node[l.page]) /\ AllWhole(node)
  <2>1. Roomy(node, l)
    BY <1>0 DEF Roomed
  <2> QED BY <1>1, <2>1 DEF Roomy, Rebalancing, Short
<1>7. ASSUME NEW l2, Continue(TheWriter, l2), l2.pc = "share", l2.then \in {"left", "right"},
             Short(l2) = l.page
      PROVE  NeverOverrun' /\ Roomed'
  <2>1. Roomy(node', l2)
    BY <1>1, <1>6, <1>7 DEF Roomy
  <2> QED BY <1>7, <2>1, RoomyNext DEF Continue
<1>8. CASE Continue(TheWriter, [l EXCEPT !.pc = "share", !.then = "left",
                                         !.page = c[i - 1], !.right = c[i], !.slot = i - 1])
  <2>1. PICK l2 : l2 = [l EXCEPT !.pc = "share", !.then = "left",
                                 !.page = c[i - 1], !.right = c[i], !.slot = i - 1]
    OBVIOUS
  <2>2. l2.pc = "share" /\ l2.then = "left" /\ l2.right = c[i]
    BY <1>1, <2>1 DEF Locals
  <2>3. Short(l2) = l.page
    BY <1>5, <2>2 DEF Short
  <2> QED BY <1>7, <1>8, <2>1, <2>2, <2>3
<1>9. CASE Continue(TheWriter, [l EXCEPT !.pc = "share", !.then = "right",
                                         !.right = c[2], !.slot = 1])
  <2>1. PICK l2 : l2 = [l EXCEPT !.pc = "share", !.then = "right", !.right = c[2], !.slot = 1]
    OBVIOUS
  <2>2. l2.pc = "share" /\ l2.then = "right" /\ l2.page = l.page
    BY <1>1, <2>1 DEF Locals
  <2>3. Short(l2) = l.page
    BY <2>2 DEF Short
  <2> QED BY <1>7, <1>9, <2>1, <2>2, <2>3
<1>10. CASE Return(TheWriter)
  <2>1. ~ Rebalancing(Idle)
    BY DEF Idle, Rebalancing
  <2> QED BY <1>1, <1>10, <2>1, StillRoom DEF Return
<1> QED BY <1>5, <1>8, <1>9, <1>10

(* The steps that write one page and leave its size alone. *)
LEMMA AdoptRoom ==
    ASSUME OneWriter, Inv, Roomed, Adopt(TheWriter)
    PROVE  NeverOverrun' /\ Roomed'
<1>0. PICK l : l = run[TheWriter]
  OBVIOUS
<1>1. PICK c, q, l2 : c = l.adopt[1][1] /\ q = l.adopt[1][2]
                      /\ l2 = [l EXCEPT !.adopt = Tail(l.adopt)]
  OBVIOUS
<1>2. l.pc = "adopt" /\ c \in Page /\ node' = [node EXCEPT ![c].parent = q]
  BY <1>0, <1>1 DEF Adopt, At, IsLeaf, IsInternal
<1>3. run' = [run EXCEPT ![TheWriter] = l2]
  BY <1>0, <1>1 DEF Adopt, Continue
<1>4. l \in Locals /\ node \in [Page -> Node] /\ node[c] \in Node
  BY <1>0, <1>2, NodesNow
<1>5. l2.pc = "adopt"
  BY <1>1, <1>2, <1>4 DEF Locals
<1>6. AllWhole(node)
  BY DEF Roomed, Roomy
<1>7. PICK x : x = [node[c] EXCEPT !.parent = q]
  OBVIOUS
<1>8. Whole(x)
  <2>1. Whole(node[c])
    BY <1>2, <1>6 DEF AllWhole
  <2>2. CASE node[c].type = "leaf"
    <3>1. node[c] \in LeafNodes
      BY <1>4, <2>2, LeafParts
    <3>2. x.type = "leaf" /\ x.entries = node[c].entries
      BY <1>7, <3>1 DEF LeafNodes
    <3> QED BY <2>1, <2>2, <3>2 DEF Whole
  <2>3. CASE node[c].type = "internal"
    <3>1. node[c] \in InternalNodes
      BY <1>4, <2>3, InternalParts
    <3>2. x.type = "internal" /\ x.keys = node[c].keys
      BY <1>7, <3>1 DEF InternalNodes
    <3> QED BY <2>1, <2>3, <3>2 DEF Whole
  <2>4. node[c].type \in {"leaf", "internal"}
    BY <1>0, <1>1 DEF Adopt, IsLeaf, IsInternal
  <2> QED BY <2>2, <2>3, <2>4
<1>9. node' = [node EXCEPT ![c] = x]
  BY <1>2, <1>4, <1>7
<1>10. AllWhole(node')
  BY <1>4, <1>6, <1>8, <1>9, OneReplaced
<1>11. ~ Rebalancing(l2)
  BY <1>5 DEF Rebalancing
<1> QED BY <1>3, <1>10, <1>11, RoomKept

LEMMA FixNextRoom ==
    ASSUME OneWriter, Inv, Roomed, FixNext(TheWriter)
    PROVE  NeverOverrun' /\ Roomed'
<1>0. PICK l : l = run[TheWriter]
  OBVIOUS
<1>1. PICK next, prev, l2 :
         /\ next = l.next /\ prev = IF l.op = "insert" THEN l.right ELSE l.page
         /\ l2 = [l EXCEPT !.next = 0, !.pc = l.then]
  OBVIOUS
<1>2. l.pc = "next" /\ run' = [run EXCEPT ![TheWriter] = l2]
  BY <1>0, <1>1 DEF FixNext, At, Continue
<1>3. \/ node' = node
      \/ next \in Page /\ node[next].type = "leaf" /\ node' = [node EXCEPT ![next].prev = prev]
  BY <1>0, <1>1 DEF FixNext, IsLeaf
<1>4. l \in Locals /\ node \in [Page -> Node]
  BY <1>0, NodesNow
<1>5. l.then \in {"promote", "free"}
  BY <1>0, <1>2 DEF Inv, Good, Local, Asked
<1>6. l2.pc = l.then
  BY <1>1, <1>4 DEF Locals
<1>7. ~ Rebalancing(l2)
  BY <1>5, <1>6 DEF Rebalancing
<1>8. AllWhole(node)
  BY DEF Roomed, Roomy
<1>9. CASE node' = node
  BY <1>2, <1>7, <1>8, <1>9, RoomKept
<1>10. CASE next \in Page /\ node[next].type = "leaf" /\ node' = [node EXCEPT ![next].prev = prev]
  <2>1. node[next] \in LeafNodes /\ Whole(node[next])
    BY <1>4, <1>8, <1>10, LeafParts DEF AllWhole
  <2>2. PICK x : x = [node[next] EXCEPT !.prev = prev]
    OBVIOUS
  <2>3. x.type = "leaf" /\ x.entries = node[next].entries
    BY <2>1, <2>2 DEF LeafNodes
  <2>4. Whole(x)
    BY <1>10, <2>1, <2>3 DEF Whole
  <2>5. node' = [node EXCEPT ![next] = x]
    BY <1>4, <1>10, <2>2
  <2>6. AllWhole(node')
    BY <1>4, <1>8, <2>4, <2>5, OneReplaced
  <2> QED BY <1>2, <1>7, <2>6, RoomKept
<1> QED BY <1>3, <1>9, <1>10

LEMMA FreePageRoom ==
    ASSUME OneWriter, Inv, Roomed, NEW p, FreePage(TheWriter, p),
           run[TheWriter].pc \in {"free", "collapse"}
    PROVE  NeverOverrun' /\ Roomed'
<1>0. PICK l : l = run[TheWriter]
  OBVIOUS
<1>1. l \in Locals /\ node \in [Page -> Node] /\ AllWhole(node)
  BY <1>0, NodesNow DEF Roomed, Roomy
<1>2. PICK l2, l3 : /\ l2 = [Idle EXCEPT !.pc = "failed"]
                    /\ l3 = [l EXCEPT !.pc = IF l.pc = "free" THEN "remove" ELSE "root"]
  OBVIOUS
<1>3. \/ node' = node /\ run' = [run EXCEPT ![TheWriter] = l2]
      \/ node' = [node EXCEPT ![p] = Freed] /\ run' = [run EXCEPT ![TheWriter] = l3]
  BY <1>0, <1>2 DEF FreePage, Continue
<1>4. ~ Rebalancing(l2) /\ ~ Rebalancing(l3)
  <2>1. l2.pc = "failed"
    BY <1>2 DEF Idle
  <2>2. l3.pc \in {"remove", "root"}
    BY <1>1, <1>2 DEF Locals
  <2> QED BY <2>1, <2>2 DEF Rebalancing
<1>5. node' = node => AllWhole(node')
  BY <1>1
<1>6. node' = [node EXCEPT ![p] = Freed] => AllWhole(node')
  <2>1. PICK x : x = Freed
    OBVIOUS
  <2> QED BY <1>1, <2>1, WholeFreed, OneReplaced
<1> QED BY <1>3, <1>4, <1>5, <1>6, RoomKept

LEMMA FreeingRoom ==
    ASSUME OneWriter, Inv, Roomed, FreeRight(TheWriter) \/ FreeRoot(TheWriter)
    PROVE  NeverOverrun' /\ Roomed'
<1>1. CASE FreeRight(TheWriter)
  BY <1>1, FreePageRoom DEF FreeRight, At
<1>2. CASE FreeRoot(TheWriter)
  BY <1>2, FreePageRoom DEF FreeRoot, At
<1> QED BY <1>1, <1>2

LEMMA InsertInPlaceRoom ==
    ASSUME OneWriter, Inv, Roomed, InsertInPlace(TheWriter)
    PROVE  NeverOverrun' /\ Roomed'
<1>0. PICK l : l = run[TheWriter]
  OBVIOUS
<1>1. PICK e : e = With(node[l.page].entries, l.key, l.value)
  OBVIOUS
<1>2. /\ l.page \in Page /\ node[l.page].type = "leaf" /\ Fits(LeafUsed(e))
      /\ node' = [node EXCEPT ![l.page].entries = e]
  BY <1>0, <1>1 DEF InsertInPlace, IsLeaf, Entries
<1>3. PICK l2 : l2 = [l EXCEPT !.done = TRUE, !.pc = "return"]
  OBVIOUS
<1>4. run' = [run EXCEPT ![TheWriter] = l2]
  BY <1>0, <1>3 DEF InsertInPlace, Continue
<1>5. l \in Locals /\ node \in [Page -> Node] /\ AllWhole(node) /\ node[l.page] \in LeafNodes
  BY <1>0, <1>2, NodesNow, LeafParts DEF Roomed, Roomy
<1>6. ~ Rebalancing(l2)
  <2>1. l2.pc = "return"
    BY <1>3, <1>5 DEF Locals
  <2> QED BY <2>1 DEF Rebalancing
<1>7. PICK x : x = [node[l.page] EXCEPT !.entries = e]
  OBVIOUS
<1>8. Whole(x)
  <2>1. x.type = "leaf" /\ x.entries = e
    BY <1>5, <1>7 DEF LeafNodes
  <2> QED BY <1>2, <2>1 DEF Whole
<1>9. node' = [node EXCEPT ![l.page] = x]
  BY <1>2, <1>5, <1>7
<1>10. AllWhole(node')
  BY <1>5, <1>8, <1>9, OneReplaced
<1> QED BY <1>4, <1>6, <1>10, RoomKept

LEMMA RemoveKeyRoom ==
    ASSUME OneWriter, EntriesAlike, Inv, Roomed, RemoveKey(TheWriter)
    PROVE  NeverOverrun' /\ Roomed'
<1>0. PICK l : l = run[TheWriter]
  OBVIOUS
<1>1. PICK e, pc :
         /\ e = IF Holds(node[l.page].entries, l.key)
                THEN Without(node[l.page].entries, l.key) ELSE node[l.page].entries
         /\ pc = IF /\ e # node[l.page].entries /\ l.page # root
                    /\ Underflow(LeafUsed(e), Len(e)) THEN "rebalance" ELSE "return"
  OBVIOUS
<1>2. l.page \in Page /\ node[l.page].type = "leaf" /\ node' = [node EXCEPT ![l.page].entries = e]
  BY <1>0, <1>1 DEF RemoveKey, IsLeaf
<1>3. PICK l2 : l2 = [l EXCEPT !.done = TRUE, !.pc = pc]
  OBVIOUS
<1>4. run' = [run EXCEPT ![TheWriter] = l2]
  BY <1>0, <1>1, <1>3 DEF RemoveKey, Continue
<1>5. l \in Locals /\ node \in [Page -> Node] /\ AllWhole(node) /\ node[l.page] \in LeafNodes
  BY <1>0, <1>2, NodesNow, LeafParts DEF Roomed, Roomy
<1>6. PICK s \in Seq(Entry) : s = node[l.page].entries /\ Fits(LeafUsed(s))
  BY <1>2, <1>5 DEF LeafNodes, AllWhole, Whole
<1>7. e \in Seq(Entry) /\ Len(e) <= Len(s)
  <2>1. CASE Holds(s, l.key)
    <3>1. PICK i \in DOMAIN s : s[i].key = l.key
      BY <2>1 DEF Holds
    <3>2. s[i] \in Entry
      BY <3>1
    <3>3. l.key \in Key
      BY <3>1, <3>2 DEF Entry
    <3>4. Without(s, l.key) \in Seq(Entry) /\ Len(Without(s, l.key)) = Len(s) - 1
      BY <2>1, <3>3, WithoutParts
    <3>5. Len(s) - 1 <= Len(s)
      OBVIOUS
    <3> QED BY <1>1, <1>6, <2>1, <3>4, <3>5
  <2>2. CASE ~ Holds(s, l.key)
    <3>1. Len(s) <= Len(s)
      OBVIOUS
    <3> QED BY <1>1, <1>6, <2>2, <3>1
  <2> QED BY <2>1, <2>2
<1>8. Fits(LeafUsed(e))
  BY <1>6, <1>7, LeavesFit
<1>9. PICK x : x = [node[l.page] EXCEPT !.entries = e]
  OBVIOUS
<1>10. x.type = "leaf" /\ x.entries = e
  BY <1>5, <1>9 DEF LeafNodes
<1>11. node' = [node EXCEPT ![l.page] = x] /\ node'[l.page] = x
  BY <1>2, <1>5, <1>9
<1>12. AllWhole(node')
  <2>1. Whole(x)
    BY <1>8, <1>10 DEF Whole
  <2> QED BY <1>5, <1>11, <2>1, OneReplaced
<1>13. l2.pc = pc /\ l2.page = l.page
  BY <1>3, <1>5 DEF Locals
<1>14. CASE pc = "return"
  <2>1. ~ Rebalancing(l2)
    BY <1>13, <1>14 DEF Rebalancing
  <2> QED BY <1>4, <1>12, <2>1, RoomKept
<1>15. CASE pc # "return"
  <2>1. pc = "rebalance" /\ Underflow(LeafUsed(e), Len(e))
    BY <1>1, <1>15
  <2>2. RoomForOne(x)
    <3>1. \A f \in Seq(Entry) : Len(f) <= Len(e) + 1 => Fits(LeafUsed(f))
      BY <1>7, <2>1, LeavesFit
    <3> QED BY <1>10, <3>1 DEF RoomForOne
  <2>3. Short(l2) = l.page
    BY <1>13, <2>1 DEF Short
  <2>4. Roomy(node', l2)
    BY <1>11, <1>12, <1>13, <2>1, <2>2, <2>3 DEF Roomy
  <2> QED BY <1>4, <2>4, RoomyNext
<1> QED BY <1>14, <1>15

(* The steps that insert. *)
LEMMA SplitLeafRoom ==
    ASSUME OneWriter, EntriesAlike, Inv, Roomed, SplitLeaf(TheWriter)
    PROVE  NeverOverrun' /\ Roomed'
<1>0. PICK l : l = run[TheWriter]
  OBVIOUS
<1>1. PICK e, mid, new, leaf : /\ e = With(node[l.page].entries, l.key, l.value)
                               /\ mid = Half(e) /\ new = NewPage /\ leaf = node[l.page]
  OBVIOUS
<1>2. PICK x, y : /\ x = Leaf(SubSeq(e, mid + 1, Len(e)), leaf.parent, l.page, leaf.next)
                  /\ y = Leaf(SubSeq(e, 1, mid), leaf.parent, leaf.prev, new)
  OBVIOUS
<1>3. /\ l.pc = "insert" /\ l.page \in Page /\ leaf.type = "leaf"
      /\ ~ Fits(LeafUsed(e))
      /\ node' = [node EXCEPT ![new] = x, ![l.page] = y]
      /\ run' = [run EXCEPT ![TheWriter] =
                   [l EXCEPT !.done = TRUE, !.right = new, !.sep = e[mid + 1].key,
                             !.next = leaf.next, !.pc = "next", !.then = "promote"]]
  BY <1>0, <1>1, <1>2 DEF SplitLeaf, At, IsLeaf, Entries, Continue
<1>4. l \in Locals /\ node \in [Page -> Node] /\ leaf \in LeafNodes /\ AllWhole(node)
  BY <1>0, <1>1, <1>3, NodesNow, LeafParts DEF Roomed, Roomy
<1>5. PICK s \in Seq(Entry) : s = leaf.entries /\ Fits(LeafUsed(s))
  BY <1>1, <1>3, <1>4 DEF LeafNodes, AllWhole, Whole
<1>6. l.key \in Key /\ l.value \in Value
  <2>1. l.op = "insert" /\ l.key \in Key /\ (l.op = "insert" => l.value \in Value)
    BY <1>0, <1>3 DEF Inv, Good, Local, Asked
  <2> QED BY <2>1
<1>7. e \in Seq(Entry) /\ Len(e) <= Len(s) + 1
  <2>1. With(s, l.key, l.value) \in Seq(Entry)
        /\ Len(With(s, l.key, l.value)) = IF Holds(s, l.key) THEN Len(s) ELSE Len(s) + 1
    BY <1>6, WithParts
  <2>2. Len(s) <= Len(s) + 1 /\ Len(s) + 1 <= Len(s) + 1
    OBVIOUS
  <2> QED BY <1>1, <1>5, <2>1, <2>2
<1>8. Len(e) >= 2
  <2>1. ~ (Len(e) <= 1)
    BY <1>3, <1>7, LeavesFit
  <2> QED BY <1>7, <2>1
<1>9. mid \in 0 .. Len(e) /\ mid >= 1 /\ mid <= Len(e) - 1
  BY <1>1, <1>7, <1>8 DEF Half
<1>10. PICK f \in Seq(Entry), g \in Seq(Entry) :
         /\ f = SubSeq(e, mid + 1, Len(e)) /\ g = SubSeq(e, 1, mid)
         /\ Len(f) <= Len(s) /\ Len(g) <= Len(s)
  <2>0. PICK f, g : f = SubSeq(e, mid + 1, Len(e)) /\ g = SubSeq(e, 1, mid)
    OBVIOUS
  <2>1. CutInto(Entry, e, mid, g, f)
    BY <1>7, <1>9, <2>0, CutParts
  <2>2. f \in Seq(Entry) /\ g \in Seq(Entry) /\ Len(g) = mid /\ Len(f) = Len(e) - mid
    BY <2>1 DEF CutInto
  <2>3. Len(f) <= Len(s) /\ Len(g) <= Len(s)
    <3>1. PICK n \in Nat, m \in Nat, i \in Nat : n = Len(e) /\ m = Len(s) /\ i = mid
      <4>1. Len(e) \in Nat /\ Len(s) \in Nat /\ mid \in Nat
        BY <1>7, <1>9
      <4> QED BY <4>1
    <3>2. n <= m + 1 /\ i >= 1 /\ i <= n - 1
      BY <1>7, <1>9, <3>1
    <3>3. n - i <= m /\ i <= m
      BY <3>2
    <3> QED BY <2>2, <3>1, <3>3
  <2> QED BY <2>0, <2>2, <2>3
<1>11. Whole(x) /\ Whole(y)
  <2>1. Fits(LeafUsed(f)) /\ Fits(LeafUsed(g))
    BY <1>5, <1>10, LeavesFit
  <2> QED BY <1>2, <1>10, <2>1, WholeLeaf, Zenon
<1>12. AllWhole(node')
  BY <1>3, <1>4, <1>11, TwoReplaced
<1>13. PICK l2 : l2 = [l EXCEPT !.done = TRUE, !.right = new, !.sep = e[mid + 1].key,
                                !.next = leaf.next, !.pc = "next", !.then = "promote"]
  OBVIOUS
<1>14. run' = [run EXCEPT ![TheWriter] = l2]
  BY <1>3, <1>13
<1>15. ~ Rebalancing(l2)
  <2>1. l2.pc = "next"
    BY <1>4, <1>13 DEF Locals
  <2> QED BY <2>1 DEF Rebalancing
<1> QED BY <1>12, <1>15, <1>14, RoomKept

LEMMA GrowRootRoom ==
    ASSUME OneWriter, EntriesAlike, Inv, Roomed, GrowRoot(TheWriter)
    PROVE  NeverOverrun' /\ Roomed'
<1>0. PICK l : l = run[TheWriter]
  OBVIOUS
<1>1. PICK new, c, k : new = NewPage /\ c = << l.page, l.right >> /\ k = << l.sep >>
  OBVIOUS
<1>2. PICK x, a : /\ x = Internal(k, c, 0)
                  /\ a = << << l.page, new >>, << l.right, new >> >>
  OBVIOUS
<1>3. /\ l.pc = "promote" /\ node' = [node EXCEPT ![new] = x]
      /\ run' = [run EXCEPT ![TheWriter] =
                   [l EXCEPT !.pc = "adopt", !.then = "root", !.right = new, !.adopt = a]]
  BY <1>0, <1>1, <1>2 DEF GrowRoot, At, Continue
<1>4. l \in Locals /\ node \in [Page -> Node] /\ AllWhole(node)
  BY <1>0, NodesNow DEF Roomed, Roomy
<1>5. l.sep \in Key
  BY <1>0, <1>3 DEF Inv, Good, Local, Asked, Promoting, Splitting
<1>6. Whole(x)
  <2>1. k \in Seq(Key) /\ Len(k) <= 1
    BY <1>1, <1>5
  <2>2. Fits(InternalUsed(k))
    BY <2>1, InternalsFit
  <2> QED BY <1>2, <2>1, <2>2, WholeInternal
<1>7. AllWhole(node')
  BY <1>3, <1>4, <1>6, OneReplaced
<1>8. PICK l2 : l2 = [l EXCEPT !.pc = "adopt", !.then = "root", !.right = new, !.adopt = a]
  OBVIOUS
<1>9. ~ Rebalancing(l2)
  <2>1. l2.pc = "adopt"
    BY <1>4, <1>8 DEF Locals
  <2> QED BY <2>1 DEF Rebalancing
<1> QED BY <1>3, <1>7, <1>8, <1>9, RoomKept

(* What goes up to the parent has a place there. *)
LEMMA NewKeysNow ==
    ASSUME Inv, NEW l, l = run[TheWriter], l.pc = "parent",
           l.page \in Page, node[l.page].type = "internal"
    PROVE  /\ node[l.page].keys \in Seq(Key) /\ NewKeys(TheWriter) \in Seq(Key)
           /\ Len(NewKeys(TheWriter)) = Len(node[l.page].keys) + 1
<1>1. l \in Locals /\ node \in [Page -> Node]
  BY NodesNow
<1>2. PICK h : TreeOf(node, root, l, h) /\ Local(node, l, h)
  BY DEF Inv, Good
<1>3. l.sep \in Key /\ l.right \in Page /\ l.right \notin Range(node[l.page].children)
  BY <1>1, <1>2, PromotingParts
<1>4. PICK x \in Node : x = node[l.page] /\ x.type = "internal" /\ x.keys \in Seq(Key)
  <2>1. node[l.page] \in Node /\ node[l.page].keys \in Seq(Key)
    BY <1>1, InternalParts
  <2> QED BY <2>1
<1>5. /\ NewKeys(TheWriter) \in Seq(Key) /\ Len(NewKeys(TheWriter)) = Len(x.keys) + 1
  BY <1>3, <1>4, NewEntryParts
<1> QED BY <1>4, <1>5

LEMMA InsertEntryRoom ==
    ASSUME OneWriter, EntriesAlike, Inv, Roomed, InsertEntry(TheWriter)
    PROVE  NeverOverrun' /\ Roomed'
<1>0. PICK l : l = run[TheWriter]
  OBVIOUS
<1>1. PICK k2, c2, a : /\ k2 = NewKeys(TheWriter) /\ c2 = NewChildren(TheWriter)
                       /\ a = << << l.right, l.page >> >>
  OBVIOUS
<1>2. /\ l.pc = "parent" /\ l.page \in Page /\ node[l.page].type = "internal"
      /\ Fits(InternalUsed(k2))
      /\ node' = [node EXCEPT ![l.page].keys = k2, ![l.page].children = c2]
      /\ run' = [run EXCEPT ![TheWriter] =
                   [l EXCEPT !.pc = "adopt", !.then = "return", !.adopt = a]]
  BY <1>0, <1>1 DEF InsertEntry, At, IsInternal, Continue
<1>3. l \in Locals /\ node \in [Page -> Node] /\ AllWhole(node) /\ node[l.page] \in InternalNodes
  BY <1>0, <1>2, NodesNow, InternalParts DEF Roomed, Roomy
<1>4. PICK x : x = [node[l.page] EXCEPT !.keys = k2, !.children = c2]
  OBVIOUS
<1>5. Whole(x)
  <2>1. x.type = "internal" /\ x.keys = k2
    BY <1>3, <1>4 DEF InternalNodes
  <2> QED BY <1>2, <2>1 DEF Whole
<1>6. node' = [node EXCEPT ![l.page] = x]
  BY <1>2, <1>3, <1>4
<1>7. AllWhole(node')
  BY <1>3, <1>5, <1>6, OneReplaced
<1>8. PICK l2 : l2 = [l EXCEPT !.pc = "adopt", !.then = "return", !.adopt = a]
  OBVIOUS
<1>9. ~ Rebalancing(l2)
  <2>1. l2.pc = "adopt"
    BY <1>3, <1>8 DEF Locals
  <2> QED BY <2>1 DEF Rebalancing
<1> QED BY <1>2, <1>7, <1>8, <1>9, RoomKept

LEMMA SplitInternalRoom ==
    ASSUME OneWriter, EntriesAlike, Inv, Roomed, SplitInternal(TheWriter)
    PROVE  NeverOverrun' /\ Roomed'
<1>0. PICK l : l = run[TheWriter]
  OBVIOUS
<1>1. PICK k2, c2, mid, new, p :
         /\ k2 = NewKeys(TheWriter) /\ c2 = NewChildren(TheWriter) /\ mid = Half(k2)
         /\ new = NewPage /\ p = node[l.page].parent
  OBVIOUS
<1>2. PICK ka, kb, ca, cb : /\ ka = SubSeq(k2, 1, mid) /\ kb = SubSeq(k2, mid + 2, Len(k2))
                            /\ ca = SubSeq(c2, 1, mid + 1) /\ cb = SubSeq(c2, mid + 2, Len(c2))
  OBVIOUS
<1>3. PICK x, y, a, sep : /\ y = Internal(kb, cb, p) /\ x = Internal(ka, ca, p)
                          /\ a = Orphans(cb, new) /\ sep = k2[mid + 1]
  OBVIOUS
<1>4. /\ l.pc = "parent" /\ l.page \in Page /\ node[l.page].type = "internal"
      /\ node' = [node EXCEPT ![new] = y, ![l.page] = x]
      /\ run' = [run EXCEPT ![TheWriter] =
                   [l EXCEPT !.pc = "adopt", !.then = "promote", !.right = new,
                             !.sep = sep, !.adopt = a]]
  BY <1>0, <1>1, <1>2, <1>3 DEF SplitInternal, At, IsInternal, Continue
<1>5. l \in Locals /\ node \in [Page -> Node] /\ AllWhole(node)
  BY <1>0, NodesNow DEF Roomed, Roomy
<1>6. PICK k \in Seq(Key) : k = node[l.page].keys /\ Fits(InternalUsed(k))
  <2>1. node[l.page].keys \in Seq(Key)
    BY <1>4, <1>5, InternalParts
  <2> QED BY <1>4, <1>5, <2>1 DEF AllWhole, Whole
<1>7. k2 \in Seq(Key) /\ Len(k2) = Len(k) + 1
  BY <1>0, <1>1, <1>4, <1>6, NewKeysNow
<1>8. PICK n \in Nat : n = Len(k) /\ Len(k2) = n + 1
  BY <1>7
<1>9. mid \in 0 .. n + 1 /\ mid <= n
  BY <1>1, <1>8 DEF Half
<1>10. ka \in Seq(Key) /\ Len(ka) <= Len(k)
  <2>1. CutInto(Key, k2, mid, ka, SubSeq(k2, mid + 1, Len(k2)))
    BY <1>2, <1>7, <1>8, <1>9, CutParts
  <2> QED BY <1>8, <1>9, <2>1 DEF CutInto
<1>11. kb \in Seq(Key) /\ Len(kb) <= Len(k)
  <2>1. PICK m \in 0 .. n + 1 : m = mid + 1
    BY <1>9
  <2>2. kb = SubSeq(k2, m + 1, Len(k2))
    BY <1>2, <1>9, <2>1
  <2>3. CutInto(Key, k2, m, SubSeq(k2, 1, m), kb)
    BY <1>7, <1>8, <2>1, <2>2, CutParts
  <2>4. kb \in Seq(Key) /\ Len(kb) = Len(k2) - m
    BY <2>3 DEF CutInto
  <2> QED BY <1>8, <1>9, <2>1, <2>4
<1>12. Whole(x) /\ Whole(y)
  <2>1. Fits(InternalUsed(ka)) /\ Fits(InternalUsed(kb))
    BY <1>6, <1>10, <1>11, InternalsFit
  <2> QED BY <1>3, <1>10, <1>11, <2>1, WholeInternal
<1>13. AllWhole(node')
  BY <1>4, <1>5, <1>12, TwoReplaced
<1>14. PICK l2 : l2 = [l EXCEPT !.pc = "adopt", !.then = "promote", !.right = new,
                                !.sep = sep, !.adopt = a]
  OBVIOUS
<1>15. ~ Rebalancing(l2)
  <2>1. l2.pc = "adopt"
    BY <1>5, <1>14 DEF Locals
  <2> QED BY <2>1 DEF Rebalancing
<1> QED BY <1>4, <1>13, <1>14, <1>15, RoomKept

(* The steps that delete.  What changes sides makes room on one of them, and
   try_redistribute has looked at the other. *)
LEMMA SharedFit ==
    ASSUME EntriesAlike, NEW w, L(w).entries \in Seq(Entry), R(w).entries \in Seq(Entry),
           Fits(LeafUsed(L(w).entries)), Fits(LeafUsed(R(w).entries)), CanShare(w)
    PROVE  /\ SharedLeft(w) \in Seq(Entry) /\ SharedRight(w) \in Seq(Entry)
           /\ Fits(LeafUsed(SharedLeft(w))) /\ Fits(LeafUsed(SharedRight(w)))
<1>1. PICK a \in Seq(Entry), b \in Seq(Entry) : a = L(w).entries /\ b = R(w).entries
  OBVIOUS
<1>2. PICK f \in Seq(Entry), g \in Seq(Entry) : f = SharedLeft(w) /\ g = SharedRight(w)
  BY SharedParts
<1>3. Len(a) \in Nat /\ Len(b) \in Nat
  OBVIOUS
<1>4. CASE FromLeft(w)
  <2>1. Fits(LeafUsed(g))
    BY <1>2, <1>4 DEF CanShare
  <2>2. Len(f) = Len(a) - 1
    BY <1>1, <1>2, <1>4, SharedParts
  <2>3. Len(f) <= Len(a)
    BY <1>3, <2>2
  <2>4. Fits(LeafUsed(f))
    BY <1>1, <2>3, LeavesFit
  <2> QED BY <1>2, <2>1, <2>4
<1>5. CASE ~ FromLeft(w)
  <2>1. Fits(LeafUsed(f))
    BY <1>2, <1>5 DEF CanShare
  <2>2. Len(g) = Len(b) - 1
    BY <1>1, <1>2, <1>5, SharedParts
  <2>3. Len(g) <= Len(b)
    BY <1>3, <2>2
  <2>4. Fits(LeafUsed(g))
    BY <1>1, <2>3, LeavesFit
  <2> QED BY <1>2, <2>1, <2>4
<1> QED BY <1>4, <1>5

LEMMA ShareLeavesRoom ==
    ASSUME OneWriter, EntriesAlike, Inv, Roomed, ShareLeaves(TheWriter)
    PROVE  NeverOverrun' /\ Roomed'
<1>0. PICK l : l = run[TheWriter]
  OBVIOUS
<1>1. /\ l.pc = "share" /\ l.page \in Page /\ node[l.page].type = "leaf"
      /\ l.right \in Page /\ node[l.right].type = "leaf"
      /\ CanShare(TheWriter)
  BY <1>0 DEF ShareLeaves, At, IsLeaf
<1>2. /\ l \in Locals /\ node \in [Page -> Node] /\ AllWhole(node)
      /\ node[l.page] \in LeafNodes /\ node[l.right] \in LeafNodes
  BY <1>0, <1>1, NodesNow, LeafParts DEF Roomed, Roomy
<1>3. PICK h : Paired(l, h)
  BY <1>0, <1>1, SharingParts
<1>4. l.page # l.right
  BY <1>3 DEF Paired
<1>5. PICK a \in Seq(Entry), b \in Seq(Entry) :
         /\ a = SharedLeft(TheWriter) /\ b = SharedRight(TheWriter)
         /\ Fits(LeafUsed(a)) /\ Fits(LeafUsed(b))
  <2>1. /\ L(TheWriter).entries \in Seq(Entry) /\ R(TheWriter).entries \in Seq(Entry)
        /\ Fits(LeafUsed(L(TheWriter).entries)) /\ Fits(LeafUsed(R(TheWriter).entries))
    BY <1>0, <1>1, <1>2 DEF L, R, LeafNodes, AllWhole, Whole
  <2> QED BY <1>1, <2>1, SharedFit
<1>6. PICK x, y, s : /\ x = Leaf(a, l.parent, node[l.page].prev, l.right)
                     /\ y = Leaf(b, l.parent, l.page, node[l.right].next)
                     /\ s = NewSeparator(TheWriter)
  OBVIOUS
<1>7. PICK l2 : l2 = [l EXCEPT !.pc = "separator", !.sep = s]
  OBVIOUS
<1>8. /\ node' = [node EXCEPT ![l.page] = x, ![l.right] = y]
      /\ run' = [run EXCEPT ![TheWriter] = l2]
  <2>1. /\ node' = [node EXCEPT
              ![l.page] = Leaf(SharedLeft(TheWriter), l.parent, @.prev, l.right),
              ![l.right] = Leaf(SharedRight(TheWriter), l.parent, l.page, @.next)]
        /\ Continue(TheWriter, [l EXCEPT !.pc = "separator", !.sep = NewSeparator(TheWriter)])
    BY <1>0 DEF ShareLeaves
  <2> QED BY <1>2, <1>4, <1>5, <1>6, <1>7, <2>1 DEF Continue
<1>9. Whole(x) /\ Whole(y)
  BY <1>5, <1>6, WholeLeaf
<1>10. AllWhole(node')
  BY <1>2, <1>8, <1>9, TwoReplaced
<1>11. ~ Rebalancing(l2)
  <2>1. l2.pc = "separator"
    BY <1>2, <1>7 DEF Locals
  <2> QED BY <2>1 DEF Rebalancing
<1> QED BY <1>8, <1>10, <1>11, RoomKept

LEMMA SetSeparatorRoom ==
    ASSUME OneWriter, EntriesAlike, Inv, Roomed, SetSeparator(TheWriter)
    PROVE  NeverOverrun' /\ Roomed'
<1>0. PICK l : l = run[TheWriter]
  OBVIOUS
<1>1. /\ Plain(l) /\ l.pc = "separator" /\ l.pc # "failed"
      /\ l.parent \in Page /\ node[l.parent].type = "internal" /\ Return(TheWriter)
  BY <1>0 DEF SetSeparator, At, Plain, IsInternal
<1>2. l \in Locals /\ node \in [Page -> Node] /\ node[l.parent] \in Node /\ AllWhole(node)
  BY <1>0, <1>1, NodesNow DEF Roomed, Roomy
<1>3. PICK h : Local(node, l, h)
  BY <1>0, <1>1 DEF Inv, Good
<1>4. l.slot \in 1 .. Len(node[l.parent].keys) /\ l.sep \in Key
  BY <1>1, <1>3 DEF Local, Asked
<1>5. PICK k \in Seq(Key) : k = node[l.parent].keys /\ Fits(InternalUsed(k))
  <2>1. node[l.parent].keys \in Seq(Key)
    BY <1>1, <1>2, InternalParts
  <2> QED BY <1>1, <1>2, <2>1 DEF AllWhole, Whole
<1>6. PICK k2 \in Seq(Key) : k2 = ReplaceAt(k, l.slot, l.sep) /\ Len(k2) = Len(k)
  <2>1. PICK i, s : i = l.slot /\ s = l.sep
    OBVIOUS
  <2>2. i \in 1 .. Len(k) /\ s \in Key
    BY <1>4, <1>5, <2>1
  <2>3. ReplaceAt(k, i, s) \in Seq(Key) /\ Len(ReplaceAt(k, i, s)) = Len(k)
    BY <2>2, ReplaceParts
  <2> QED BY <2>1, <2>3
<1>7. PICK x : x = Internal(k2, node[l.parent].children, node[l.parent].parent)
  OBVIOUS
<1>8. node' = [node EXCEPT ![l.parent] = x]
  BY <1>0, <1>5, <1>6, <1>7 DEF SetSeparator
<1>9. Whole(x)
  <2>1. Len(k2) <= Len(k)
    BY <1>6
  <2>2. Fits(InternalUsed(k2))
    BY <1>5, <2>1, InternalsFit
  <2> QED BY <1>7, <2>2, WholeInternal
<1>10. AllWhole(node')
  BY <1>2, <1>8, <1>9, OneReplaced
<1>11. PICK l2 : l2 = Idle
  OBVIOUS
<1>12. ~ Rebalancing(l2) /\ run' = [run EXCEPT ![TheWriter] = l2]
  BY <1>1, <1>11 DEF Return, Continue, Idle, Rebalancing
<1> QED BY <1>10, <1>12, RoomKept

LEMMA MergedRoom ==
    ASSUME OneWriter, EntriesAlike, Inv, NEW l, l \in Locals,
           node \in [Page -> Node], AllWhole(node), NEW e \in Seq(Entry), Fits(LeafUsed(e)),
           NEW q, NEW prev, NEW next, NEW x, x = Leaf(e, q, prev, next),
           node' = [node EXCEPT ![l.page] = x], NEW l2, l2.pc = "next",
           run' = [run EXCEPT ![TheWriter] = l2]
    PROVE  NeverOverrun' /\ Roomed'
<1>1. AllWhole(node')
  <2>1. Whole(x)
    BY WholeLeaf
  <2> QED BY <2>1, OneReplaced
<1>2. ~ Rebalancing(l2)
  BY DEF Rebalancing
<1> QED BY <1>1, <1>2, RoomKept

(* Siblings that cannot share: one has room for one more entry, and the other
   has no more than one. *)
LEMMA MergeLeavesRoom ==
    ASSUME OneWriter, EntriesAlike, Inv, Roomed, MergeLeaves(TheWriter)
    PROVE  NeverOverrun' /\ Roomed'
<1>0. PICK l : l = run[TheWriter]
  OBVIOUS
<1>1. PICK e, x, next : /\ e = Merged(TheWriter) /\ next = node[l.right].next
                        /\ x = Leaf(e, l.parent, node[l.page].prev, next)
  OBVIOUS
<1>2. PICK l2 : l2 = [l EXCEPT !.pc = "next", !.then = "free", !.next = next]
  OBVIOUS
<1>3. /\ l.pc = "share" /\ ~ CanShare(TheWriter)
      /\ l.page \in Page /\ node[l.page].type = "leaf"
      /\ l.right \in Page /\ node[l.right].type = "leaf"
      /\ node' = [node EXCEPT ![l.page] = x]
      /\ run' = [run EXCEPT ![TheWriter] = l2]
  <2>1. node' = [node EXCEPT ![l.page] = Leaf(Merged(TheWriter), l.parent, @.prev, R(TheWriter).next)]
    BY <1>0 DEF MergeLeaves
  <2>2. node' = [node EXCEPT ![l.page] = x]
    BY <1>0, <1>1, <2>1 DEF R
  <2> QED BY <1>0, <1>1, <1>2, <2>2 DEF MergeLeaves, At, IsLeaf, Continue, R
<1>4. l \in Locals /\ node \in [Page -> Node] /\ AllWhole(node)
  BY <1>0, NodesNow DEF Roomed, Roomy
<1>5. node[l.page] \in LeafNodes /\ node[l.right] \in LeafNodes
  BY <1>3, <1>4, LeafParts
<1>6. PICK a \in Seq(Entry), b \in Seq(Entry) : a = node[l.page].entries /\ b = node[l.right].entries
  BY <1>5 DEF LeafNodes
<1>7. e \in Seq(Entry) /\ Len(e) = Len(a) + Len(b)
  <2>1. e = a \o b
    BY <1>0, <1>1, <1>6 DEF Merged, L, R
  <2> QED BY <2>1
<1>8. PICK q, prev : x = Leaf(e, q, prev, next)
  BY <1>1
<1>9. l2.pc = "next"
  BY <1>2, <1>4 DEF Locals
<1>10. PICK i \in Nat, j \in Nat : i = Len(a) /\ j = Len(b)
  <2>1. Len(a) \in Nat /\ Len(b) \in Nat
    OBVIOUS
  <2> QED BY <2>1
<1>11. l.then \in {"left", "right"} /\ RoomForOne(node[Short(l)])
  BY <1>0, <1>3 DEF Roomed, Roomy, Rebalancing
<1>12. L(TheWriter).entries = a /\ R(TheWriter).entries = b
  BY <1>0, <1>6 DEF L, R
<1>13. CASE l.then = "left"
  <2>1. \A f \in Seq(Entry) : Len(f) <= j + 1 => Fits(LeafUsed(f))
    <3>1. Short(l) = l.right
      BY <1>3, <1>13 DEF Short
    <3> QED BY <1>3, <1>6, <1>10, <1>11, <3>1 DEF RoomForOne
  <2>2. ~ (i > 1)
    <3>1. SUFFICES ASSUME i > 1 PROVE FALSE
      OBVIOUS
    <3>2. FromLeft(TheWriter)
      BY <1>0, <1>13 DEF FromLeft
    <3>3. SharedRight(TheWriter) = << Last(a) >> \o b
      BY <1>12, <3>2 DEF SharedRight
    <3>4. a # << >>
      BY <1>10, <3>1
    <3>5. PICK z \in Entry : z = Last(a)
      BY <3>4, FrontParts
    <3>6. << z >> \o b \in Seq(Entry) /\ Len(<< z >> \o b) = j + 1
      BY <1>10
    <3>7. j + 1 <= j + 1
      BY <1>10
    <3>8. Fits(LeafUsed(SharedRight(TheWriter)))
      BY <2>1, <3>3, <3>5, <3>6, <3>7
    <3> QED BY <1>3, <1>10, <1>12, <3>1, <3>2, <3>8 DEF CanShare
  <2>3. Len(e) <= j + 1
    BY <1>7, <1>10, <2>2
  <2>4. Fits(LeafUsed(e))
    BY <1>7, <2>1, <2>3
  <2> QED BY <1>3, <1>4, <1>7, <1>8, <1>9, <2>4, MergedRoom
<1>14. CASE l.then = "right"
  <2>1. \A f \in Seq(Entry) : Len(f) <= i + 1 => Fits(LeafUsed(f))
    <3>1. Short(l) = l.page
      BY <1>14 DEF Short
    <3> QED BY <1>3, <1>6, <1>10, <1>11, <3>1 DEF RoomForOne
  <2>2. ~ (j > 1)
    <3>1. SUFFICES ASSUME j > 1 PROVE FALSE
      OBVIOUS
    <3>2. ~ FromLeft(TheWriter)
      BY <1>0, <1>14 DEF FromLeft
    <3>3. SharedLeft(TheWriter) = Append(a, Head(b))
      BY <1>12, <3>2 DEF SharedLeft
    <3>4. b # << >>
      BY <1>10, <3>1
    <3>5. PICK z \in Entry : z = Head(b)
      BY <3>4, TailParts
    <3>6. Append(a, z) \in Seq(Entry) /\ Len(Append(a, z)) = i + 1
      BY <1>10
    <3>7. i + 1 <= i + 1
      BY <1>10
    <3>8. Fits(LeafUsed(SharedLeft(TheWriter)))
      BY <2>1, <3>3, <3>5, <3>6, <3>7
    <3> QED BY <1>3, <1>10, <1>12, <3>1, <3>2, <3>8 DEF CanShare
  <2>3. Len(e) <= i + 1
    BY <1>7, <1>10, <2>2
  <2>4. Fits(LeafUsed(e))
    BY <1>7, <2>1, <2>3
  <2> QED BY <1>3, <1>4, <1>7, <1>8, <1>9, <2>4, MergedRoom
<1> QED BY <1>11, <1>13, <1>14

(* A child and a key change sides. *)
LEMMA ShareChildFromLeftRoom ==
    ASSUME OneWriter, EntriesAlike, Inv, Roomed, ShareChildFromLeft(TheWriter),
           At(TheWriter, "share"), IsInternal(run[TheWriter].page),
           IsInternal(run[TheWriter].right), IsInternal(run[TheWriter].parent)
    PROVE  NeverOverrun' /\ Roomed'
<1>0. PICK l : l = run[TheWriter]
  OBVIOUS
<1>1. PICK lk, lc, rk, rc, pk, pc, pp :
         /\ lk = node[l.page].keys /\ lc = node[l.page].children
         /\ rk = node[l.right].keys /\ rc = node[l.right].children
         /\ pk = node[l.parent].keys /\ pc = node[l.parent].children
         /\ pp = node[l.parent].parent
  OBVIOUS
<1>2. PICK sep, m, top : sep = Separator(TheWriter) /\ m = Last(lc) /\ top = Last(lk)
  OBVIOUS
<1>3. PICK fk, gk, hk : fk = Front(lk) /\ gk = << sep >> \o rk /\ hk = ReplaceAt(pk, l.slot, top)
  OBVIOUS
<1>4. PICK x, y, z, l2 : /\ x = Internal(fk, Front(lc), l.parent)
                         /\ y = Internal(gk, << m >> \o rc, l.parent)
                         /\ z = Internal(hk, pc, pp)
                         /\ l2 = [l EXCEPT !.pc = "adopt", !.then = "return",
                                           !.adopt = << << m, l.right >> >>]
  OBVIOUS
<1>5. /\ l.pc = "share" /\ l.then = "left"
      /\ l.page \in Page /\ node[l.page].type = "internal"
      /\ l.right \in Page /\ node[l.right].type = "internal"
      /\ l.parent \in Page /\ node[l.parent].type = "internal"
      /\ lk # << >>
  BY <1>0, <1>1 DEF At, IsInternal, ShareChildFromLeft, L, FromLeft
<1>6. l \in Locals /\ node \in [Page -> Node] /\ AllWhole(node) /\ RoomForOne(node[Short(l)])
  BY <1>0, <1>5, NodesNow DEF Roomed, Roomy, Rebalancing
<1>7. PICK h : Paired(l, h)
  BY <1>0, <1>5, SharingParts
<1>8. l.page # l.right /\ l.parent # l.page /\ l.parent # l.right
  BY <1>7 DEF Paired
<1>9. /\ node' = [node EXCEPT ![l.page] = x, ![l.right] = y, ![l.parent] = z]
      /\ run' = [run EXCEPT ![TheWriter] = l2]
  <2>1. node' = [node EXCEPT
          ![l.page] = Internal(Front(@.keys), Front(@.children), l.parent),
          ![l.right] = Internal(<< sep >> \o @.keys, << m >> \o @.children, l.parent),
          ![l.parent] = Internal(ReplaceAt(@.keys, l.slot, top), @.children, @.parent)]
    BY <1>0, <1>1, <1>2 DEF ShareChildFromLeft, L
  <2>2. node' = [node EXCEPT ![l.page] = x, ![l.right] = y, ![l.parent] = z]
    BY <1>1, <1>3, <1>4, <1>5, <1>6, <1>8, <2>1
  <2> QED BY <1>0, <1>1, <1>2, <1>4, <2>2 DEF ShareChildFromLeft, L, Continue
<1>10. /\ lk \in Seq(Key) /\ rk \in Seq(Key) /\ pk \in Seq(Key)
       /\ Fits(InternalUsed(lk)) /\ Fits(InternalUsed(pk))
  <2>1. lk \in Seq(Key) /\ rk \in Seq(Key) /\ pk \in Seq(Key)
    BY <1>1, <1>5, <1>6, InternalParts
  <2> QED BY <1>1, <1>5, <1>6, <2>1 DEF AllWhole, Whole
<1>11. sep \in Key /\ l.slot \in 1 .. Len(pk)
  BY <1>0, <1>1, <1>2, <1>7, SeparatorIsKey
<1>12. fk \in Seq(Key) /\ Len(fk) = Len(lk) - 1 /\ top \in Key
  BY <1>2, <1>3, <1>5, <1>10, FrontParts
<1>13. hk \in Seq(Key) /\ Len(hk) = Len(pk)
  BY <1>3, <1>10, <1>11, <1>12, ReplaceParts
<1>14. gk \in Seq(Key) /\ Len(gk) = Len(rk) + 1
  BY <1>3, <1>10, <1>11
<1>15. Fits(InternalUsed(fk))
  <2>1. Len(fk) <= Len(lk)
    BY <1>10, <1>12
  <2> QED BY <1>10, <1>12, <2>1, InternalsFit
<1>16. Fits(InternalUsed(hk))
  <2>1. Len(hk) <= Len(pk)
    BY <1>10, <1>13
  <2> QED BY <1>10, <1>13, <2>1, InternalsFit
<1>17. Fits(InternalUsed(gk))
  <2>1. Short(l) = l.right
    BY <1>5 DEF Short
  <2>2. \A f \in Seq(Key) : Len(f) <= Len(rk) + 1 => Fits(InternalUsed(f))
    BY <1>1, <1>5, <1>6, <2>1 DEF RoomForOne
  <2>3. Len(gk) <= Len(rk) + 1
    BY <1>10, <1>14
  <2> QED BY <1>14, <2>2, <2>3
<1>18. Whole(x) /\ Whole(y) /\ Whole(z)
  <2>1. Whole(x)
    BY <1>4, <1>12, <1>15, WholeInternal
  <2>2. Whole(y)
    BY <1>4, <1>14, <1>17, WholeInternal
  <2>3. Whole(z)
    BY <1>4, <1>13, <1>16, WholeInternal
  <2> QED BY <2>1, <2>2, <2>3
<1>19. AllWhole(node')
  BY <1>6, <1>9, <1>18, ThreeReplaced
<1>20. ~ Rebalancing(l2)
  <2>1. l2.pc = "adopt"
    BY <1>4, <1>6 DEF Locals
  <2> QED BY <2>1 DEF Rebalancing
<1> QED BY <1>9, <1>19, <1>20, RoomKept

LEMMA ShareChildFromRightRoom ==
    ASSUME OneWriter, EntriesAlike, Inv, Roomed, ShareChildFromRight(TheWriter),
           At(TheWriter, "share"), IsInternal(run[TheWriter].page),
           IsInternal(run[TheWriter].right), IsInternal(run[TheWriter].parent)
    PROVE  NeverOverrun' /\ Roomed'
<1>0. PICK l : l = run[TheWriter]
  OBVIOUS
<1>1. PICK lk, lc, rk, rc, pk, pc, pp :
         /\ lk = node[l.page].keys /\ lc = node[l.page].children
         /\ rk = node[l.right].keys /\ rc = node[l.right].children
         /\ pk = node[l.parent].keys /\ pc = node[l.parent].children
         /\ pp = node[l.parent].parent
  OBVIOUS
<1>2. PICK sep, m, top : sep = Separator(TheWriter) /\ m = Head(rc) /\ top = Head(rk)
  OBVIOUS
<1>3. PICK fk, gk, hk : fk = Tail(rk) /\ gk = Append(lk, sep) /\ hk = ReplaceAt(pk, l.slot, top)
  OBVIOUS
<1>4. PICK x, y, z, l2 : /\ x = Internal(gk, Append(lc, m), l.parent)
                         /\ y = Internal(fk, Tail(rc), l.parent)
                         /\ z = Internal(hk, pc, pp)
                         /\ l2 = [l EXCEPT !.pc = "adopt", !.then = "return",
                                           !.adopt = << << m, l.page >> >>]
  OBVIOUS
<1>5. /\ l.pc = "share" /\ l.then # "left"
      /\ l.page \in Page /\ node[l.page].type = "internal"
      /\ l.right \in Page /\ node[l.right].type = "internal"
      /\ l.parent \in Page /\ node[l.parent].type = "internal"
      /\ rk # << >>
  BY <1>0, <1>1 DEF At, IsInternal, ShareChildFromRight, R, FromLeft
<1>6. l \in Locals /\ node \in [Page -> Node] /\ AllWhole(node) /\ RoomForOne(node[Short(l)])
  BY <1>0, <1>5, NodesNow DEF Roomed, Roomy, Rebalancing
<1>7. PICK h : Paired(l, h)
  BY <1>0, <1>5, SharingParts
<1>8. l.page # l.right /\ l.parent # l.page /\ l.parent # l.right
  BY <1>7 DEF Paired
<1>9. /\ node' = [node EXCEPT ![l.page] = x, ![l.right] = y, ![l.parent] = z]
      /\ run' = [run EXCEPT ![TheWriter] = l2]
  <2>1. node' = [node EXCEPT
          ![l.page] = Internal(Append(@.keys, sep), Append(@.children, m), l.parent),
          ![l.right] = Internal(Tail(@.keys), Tail(@.children), l.parent),
          ![l.parent] = Internal(ReplaceAt(@.keys, l.slot, top), @.children, @.parent)]
    BY <1>0, <1>1, <1>2 DEF ShareChildFromRight, R
  <2>2. node' = [node EXCEPT ![l.page] = x, ![l.right] = y, ![l.parent] = z]
    BY <1>1, <1>3, <1>4, <1>5, <1>6, <1>8, <2>1
  <2> QED BY <1>0, <1>1, <1>2, <1>4, <2>2 DEF ShareChildFromRight, R, Continue
<1>10. /\ lk \in Seq(Key) /\ rk \in Seq(Key) /\ pk \in Seq(Key)
       /\ Fits(InternalUsed(rk)) /\ Fits(InternalUsed(pk))
  <2>1. lk \in Seq(Key) /\ rk \in Seq(Key) /\ pk \in Seq(Key)
    BY <1>1, <1>5, <1>6, InternalParts
  <2> QED BY <1>1, <1>5, <1>6, <2>1 DEF AllWhole, Whole
<1>11. sep \in Key /\ l.slot \in 1 .. Len(pk)
  BY <1>0, <1>1, <1>2, <1>7, SeparatorIsKey
<1>12. fk \in Seq(Key) /\ Len(fk) = Len(rk) - 1 /\ top \in Key
  BY <1>2, <1>3, <1>5, <1>10, TailParts
<1>13. hk \in Seq(Key) /\ Len(hk) = Len(pk)
  BY <1>3, <1>10, <1>11, <1>12, ReplaceParts
<1>14. gk \in Seq(Key) /\ Len(gk) = Len(lk) + 1
  BY <1>3, <1>10, <1>11
<1>15. Fits(InternalUsed(fk))
  <2>1. Len(fk) <= Len(rk)
    BY <1>10, <1>12
  <2> QED BY <1>10, <1>12, <2>1, InternalsFit
<1>16. Fits(InternalUsed(hk))
  <2>1. Len(hk) <= Len(pk)
    BY <1>10, <1>13
  <2> QED BY <1>10, <1>13, <2>1, InternalsFit
<1>17. Fits(InternalUsed(gk))
  <2>1. Short(l) = l.page
    BY <1>5 DEF Short
  <2>2. \A f \in Seq(Key) : Len(f) <= Len(lk) + 1 => Fits(InternalUsed(f))
    BY <1>1, <1>5, <1>6, <2>1 DEF RoomForOne
  <2>3. Len(gk) <= Len(lk) + 1
    BY <1>10, <1>14
  <2> QED BY <1>14, <2>2, <2>3
<1>18. Whole(x) /\ Whole(y) /\ Whole(z)
  <2>1. Whole(x)
    BY <1>4, <1>14, <1>17, WholeInternal
  <2>2. Whole(y)
    BY <1>4, <1>12, <1>15, WholeInternal
  <2>3. Whole(z)
    BY <1>4, <1>13, <1>16, WholeInternal
  <2> QED BY <2>1, <2>2, <2>3
<1>19. AllWhole(node')
  BY <1>6, <1>9, <1>18, ThreeReplaced
<1>20. ~ Rebalancing(l2)
  <2>1. l2.pc = "adopt"
    BY <1>4, <1>6 DEF Locals
  <2> QED BY <2>1 DEF Rebalancing
<1> QED BY <1>9, <1>19, <1>20, RoomKept

LEMMA ShareChildrenRoom ==
    ASSUME OneWriter, EntriesAlike, Inv, Roomed, ShareChildren(TheWriter)
    PROVE  NeverOverrun' /\ Roomed'
BY ShareChildFromLeftRoom, ShareChildFromRightRoom DEF ShareChildren

(* The sibling of the one that underflows has no key to give. *)
LEMMA MergeInternalsRoom ==
    ASSUME OneWriter, EntriesAlike, Inv, Roomed, MergeInternals(TheWriter)
    PROVE  NeverOverrun' /\ Roomed'
<1>0. PICK l : l = run[TheWriter]
  OBVIOUS
<1>1. PICK sep, lk, lc, rk, rc : /\ sep = Separator(TheWriter)
                                 /\ lk = node[l.page].keys /\ lc = node[l.page].children
                                 /\ rk = node[l.right].keys /\ rc = node[l.right].children
  OBVIOUS
<1>2. PICK x, a : /\ x = Internal((lk \o << sep >>) \o rk, lc \o rc, l.parent)
                  /\ a = Orphans(rc, l.page)
  OBVIOUS
<1>3. /\ l.pc = "share"
      /\ l.page \in Page /\ node[l.page].type = "internal"
      /\ l.right \in Page /\ node[l.right].type = "internal"
      /\ node' = [node EXCEPT ![l.page] = x]
      /\ run' = [run EXCEPT ![TheWriter] = [l EXCEPT !.pc = "adopt", !.then = "free", !.adopt = a]]
  <2>1. node' = [node EXCEPT ![l.page] =
                   Internal(@.keys \o << Separator(TheWriter) >> \o R(TheWriter).keys,
                            @.children \o R(TheWriter).children, l.parent)]
    BY <1>0 DEF MergeInternals
  <2>2. node' = [node EXCEPT ![l.page] = x]
    BY <1>0, <1>1, <1>2, <2>1 DEF R
  <2>3. run' = [run EXCEPT ![TheWriter] = [l EXCEPT !.pc = "adopt", !.then = "free", !.adopt = a]]
    BY <1>0, <1>1, <1>2 DEF MergeInternals, Continue, R
  <2> QED BY <1>0, <2>2, <2>3 DEF MergeInternals, At, IsInternal
<1>4. IF l.then = "left" THEN lk = << >> ELSE rk = << >>
  BY <1>0, <1>1 DEF MergeInternals, FromLeft, L, R
<1>5. PICK k, l2 : /\ k = (lk \o << sep >>) \o rk
                    /\ l2 = [l EXCEPT !.pc = "adopt", !.then = "free", !.adopt = a]
  OBVIOUS
<1>6. l \in Locals /\ node \in [Page -> Node] /\ AllWhole(node) /\ RoomForOne(node[Short(l)])
  BY <1>0, <1>3, NodesNow DEF Roomed, Roomy, Rebalancing
<1>7. PICK h : Paired(l, h)
  BY <1>0, <1>3, SharingParts
<1>8. /\ lk \in Seq(Key) /\ rk \in Seq(Key) /\ Len(lk) \in Nat /\ Len(rk) \in Nat
  BY <1>1, <1>3, <1>6, InternalParts
<1>9. sep \in Key
  BY <1>0, <1>1, <1>7, SeparatorIsKey
<1>10. k \in Seq(Key) /\ Len(k) = Len(lk) + 1 + Len(rk)
  BY <1>8, <1>9, <1>5
<1>11. Fits(InternalUsed(k))
  <2>1. CASE l.then = "left"
    <3>1. Short(l) = l.right
      BY <1>3, <2>1 DEF Short
    <3>2. \A f \in Seq(Key) : Len(f) <= Len(rk) + 1 => Fits(InternalUsed(f))
      BY <1>1, <1>3, <1>6, <3>1 DEF RoomForOne
    <3>3. Len(lk) = 0
      BY <1>4, <2>1
    <3>4. Len(k) <= Len(rk) + 1
      BY <1>8, <1>10, <3>3
    <3> QED BY <1>10, <3>2, <3>4
  <2>2. CASE l.then # "left"
    <3>1. Short(l) = l.page
      BY <2>2 DEF Short
    <3>2. \A f \in Seq(Key) : Len(f) <= Len(lk) + 1 => Fits(InternalUsed(f))
      BY <1>1, <1>3, <1>6, <3>1 DEF RoomForOne
    <3>3. Len(rk) = 0
      BY <1>4, <2>2
    <3>4. Len(k) <= Len(lk) + 1
      BY <1>8, <1>10, <3>3
    <3> QED BY <1>10, <3>2, <3>4
  <2> QED BY <2>1, <2>2
<1>12. Whole(x)
  BY <1>2, <1>10, <1>11, <1>5, WholeInternal
<1>13. AllWhole(node')
  BY <1>3, <1>6, <1>12, OneReplaced
<1>14. ~ Rebalancing(l2)
  <2>1. l2.pc = "adopt"
    BY <1>6, <1>5 DEF Locals
  <2> QED BY <2>1 DEF Rebalancing
<1> QED BY <1>3, <1>13, <1>14, <1>5, RoomKept

LEMMA RemoveEntryRoom ==
    ASSUME OneWriter, EntriesAlike, Inv, Roomed, RemoveEntry(TheWriter)
    PROVE  NeverOverrun' /\ Roomed'
<1>0. PICK l : l = run[TheWriter]
  OBVIOUS
<1>1. PICK k, c : /\ k = RemoveAt(node[l.parent].keys, l.slot)
                  /\ c = RemoveAt(node[l.parent].children, l.slot + 1)
  OBVIOUS
<1>2. l.pc = "remove" /\ l.parent \in Page /\ node[l.parent].type = "internal"
  BY <1>0 DEF RemoveEntry, At, IsInternal
<1>3. /\ l \in Locals /\ node \in [Page -> Node] /\ AllWhole(node)
      /\ node[l.parent] \in InternalNodes
  BY <1>0, <1>2, NodesNow, InternalParts DEF Roomed, Roomy
<1>4. PICK h : TreeOf(node, root, l, h) /\ Local(node, l, h)
  BY <1>0, <1>2 DEF Inv, Good
<1>5. Neighbours(node, l)
  <2>1. Merging(l)
    BY <1>2 DEF Merging
  <2> QED BY <1>2, <1>4, <2>1 DEF Local
<1>6. PICK k1 \in Seq(Key) : /\ k1 = node[l.parent].keys /\ Len(k1) \in Nat
                             /\ Fits(InternalUsed(k1))
  <2>1. node[l.parent].keys \in Seq(Key) /\ Len(node[l.parent].keys) \in Nat
    BY <1>2, <1>3, InternalParts
  <2> QED BY <1>2, <1>3, <2>1 DEF AllWhole, Whole
<1>7. l.slot \in 1 .. Len(k1)
  BY <1>5, <1>6 DEF Neighbours
<1>8. k \in Seq(Key) /\ Len(k) = Len(k1) - 1
  BY <1>1, <1>6, <1>7, RemoveParts
<1>9. Fits(InternalUsed(k))
  <2>1. Len(k) <= Len(k1)
    BY <1>6, <1>8
  <2> QED BY <1>6, <1>8, <2>1, InternalsFit
<1>10. PICK l2, l3, l4 : /\ l2 = [l EXCEPT !.pc = "adopt", !.then = "collapse",
                                           !.right = c[1], !.adopt = << << c[1], 0 >> >>]
                         /\ l3 = [l EXCEPT !.pc = "rebalance", !.page = l.parent]
                         /\ l4 = [l EXCEPT !.pc = "return"]
  OBVIOUS
<1>11. l2.pc = "adopt" /\ l3.pc = "rebalance" /\ l3.page = l.parent /\ l4.pc = "return"
  BY <1>3, <1>10 DEF Locals
<1>12. \/ node' = node /\ Continue(TheWriter, l2)
       \/ /\ node' = [node EXCEPT ![l.parent].keys = k, ![l.parent].children = c]
          /\ \/ Underflow(InternalUsed(k), Len(k)) /\ Continue(TheWriter, l3)
             \/ Continue(TheWriter, l4)
  BY <1>0, <1>1, <1>10 DEF RemoveEntry
<1>13. CASE node' = node /\ Continue(TheWriter, l2)
  <2>1. ~ Rebalancing(l2)
    BY <1>11 DEF Rebalancing
  <2> QED BY <1>13, <2>1, StillRoom
<1>14. PICK x : x = [node[l.parent] EXCEPT !.keys = k, !.children = c]
  OBVIOUS
<1>15. x.type = "internal" /\ x.keys = k
  BY <1>3, <1>14 DEF InternalNodes
<1>16. CASE node' = [node EXCEPT ![l.parent].keys = k, ![l.parent].children = c]
  <2>1. node' = [node EXCEPT ![l.parent] = x] /\ node'[l.parent] = x
    BY <1>2, <1>3, <1>14, <1>16
  <2>2. Whole(x)
    BY <1>9, <1>15 DEF Whole
  <2>3. AllWhole(node')
    BY <1>3, <2>1, <2>2, OneReplaced
  <2>4. CASE Underflow(InternalUsed(k), Len(k)) /\ Continue(TheWriter, l3)
    <3>1. \A f \in Seq(Key) : Len(f) <= Len(k) + 1 => Fits(InternalUsed(f))
      BY <1>8, <2>4, InternalsFit
    <3>2. RoomForOne(x)
      BY <1>15, <3>1 DEF RoomForOne
    <3>3. Short(l3) = l.parent
      BY <1>11 DEF Short
    <3>4. Roomy(node', l3)
      BY <1>11, <2>1, <2>3, <3>2, <3>3 DEF Roomy
    <3> QED BY <2>4, <3>4, RoomyNext DEF Continue
  <2>5. CASE Continue(TheWriter, l4)
    <3>1. ~ Rebalancing(l4)
      BY <1>11 DEF Rebalancing
    <3> QED BY <2>3, <2>5, <3>1, RoomKept DEF Continue
  <2>6. \/ Underflow(InternalUsed(k), Len(k)) /\ Continue(TheWriter, l3)
        \/ Continue(TheWriter, l4)
        \/ node' = node /\ Continue(TheWriter, l2)
    BY <1>12
  <2> QED BY <1>13, <2>4, <2>5, <2>6
<1> QED BY <1>12, <1>13, <1>16

(* The whole run. *)
LEMMA StepRoom ==
    ASSUME OneWriter, EntriesAlike, Inv, Roomed, Step(TheWriter)
    PROVE  NeverOverrun' /\ Roomed'
<1>1. ASSUME NEW k \in Key, NEW v \in Value, Call(TheWriter, "insert", k, v)
      PROVE  NeverOverrun' /\ Roomed'
  <2>1. PICK op : op = "insert"
    OBVIOUS
  <2> QED BY <1>1, <2>1, CallRoom
<1>2. ASSUME NEW k \in Key, Call(TheWriter, "delete", k, NoValue)
      PROVE  NeverOverrun' /\ Roomed'
  <2>1. PICK op, v : op = "delete" /\ v = NoValue
    OBVIOUS
  <2> QED BY <1>2, <2>1, CallRoom
<1> QED
  BY <1>1, <1>2, WalkingRoom, AdoptRoom, InsertInPlaceRoom, SplitLeafRoom, FixNextRoom,
      GrowRootRoom,
     InsertEntryRoom, SplitInternalRoom, RemoveKeyRoom, RebalanceRoom, SiblingsRoom,
     ShareLeavesRoom, SetSeparatorRoom, MergeLeavesRoom, ShareChildrenRoom, MergeInternalsRoom,
     FreeingRoom, RemoveEntryRoom DEF Step

LEMMA InitRoom ==
    ASSUME OneWriter, EntriesAlike, Init
    PROVE  NeverOverrun /\ Roomed
<1>0. PICK z : z = 0
  OBVIOUS
<1>1. PICK e \in Seq(Entry) : e = << >>
  BY EmptyParts
<1>2. PICK x, l : x = Leaf(e, z, z, z) /\ l = Idle
  OBVIOUS
<1>3. node = [p \in Page |-> IF p = 1 THEN x ELSE Freed] /\ run = [w \in Writer |-> l]
  BY <1>0, <1>1, <1>2 DEF Init
<1>4. Whole(x)
  <2>1. Len(e) <= 1
    BY <1>1, EmptyParts
  <2>2. Fits(LeafUsed(e))
    BY <2>1, LeavesFit
  <2> QED BY <1>2, <2>2, WholeLeaf
<1>5. AllWhole(node)
  <2>1. \A p \in Page : node[p] = x \/ node[p] = Freed
    BY <1>3
  <2> QED BY <1>4, <2>1, WholeFreed DEF AllWhole
<1>6. run[TheWriter] = l
  BY <1>3 DEF OneWriter
<1>7. ~ Rebalancing(l) /\ l.pc # "share"
  BY <1>2 DEF Idle, Rebalancing
<1> QED BY <1>5, <1>6, <1>7 DEF Roomed, Roomy, AllWhole, Whole, NeverOverrun

LEMMA ReaderNextRoom ==
    ASSUME OneWriter, EntriesAlike, Inv, NeverOverrun, Roomed,
           [ReaderNext]_<< vars, reader, shared >>
    PROVE  NeverOverrun' /\ Roomed'
<1>1. Next \/ UNCHANGED << node, root, run >>
  BY NextOrRead
<1>2. CASE Next
  BY <1>2, StepRoom DEF Next, OneWriter
<1>3. CASE UNCHANGED << node, root, run >>
  BY <1>3 DEF NeverOverrun, Roomed, Roomy
<1> QED BY <1>1, <1>2, <1>3

(* Whatever splits, shares and merges the calls went through, between two calls
   every parent pointer names the real parent and every page is in the tree or
   free, until a call fails: btree.rs relies on the pointers to promote and to
   rebalance.  Whatever the entries' sizes, as long as no rebuild is given more
   than a page holds. *)
THEOREM PointersAgreeUnlessOverrun ==
    ASSUME OneWriter
    PROVE  ReaderSpec /\ []NeverOverrun => []ParentsAgree
<1>1. ReaderInit /\ NeverOverrun => Inv
  BY InitInv DEF ReaderInit
<1>2. Inv /\ NeverOverrun' /\ [ReaderNext]_<< vars, reader, shared >> => Inv'
  BY ReaderNextInv
<1>3. Inv => ParentsAgree
  BY InvParents
<1> QED BY <1>1, <1>2, <1>3, PTL DEF ReaderSpec

(* Where entries are all of one size, and a page holds one, no split, share or
   merge gives a page more than it holds: btree.rs:41 "Nodes split on overflow".
   A node that is being rebalanced has room for one more, and that is all that a
   merge adds.  The code makes no such restriction (btree.rs:56-59), and with
   sizes that differ a rebuild can be given too much. *)
THEOREM NothingOverruns ==
    ASSUME OneWriter, EntriesAlike
    PROVE  ReaderSpec => []NeverOverrun
<1>1. ReaderInit => Inv /\ NeverOverrun /\ Roomed
  BY InitRoom, InitInv DEF ReaderInit
<1>2. ASSUME Inv, NeverOverrun, Roomed, [ReaderNext]_<< vars, reader, shared >>
      PROVE  Inv' /\ NeverOverrun' /\ Roomed'
  BY <1>2, ReaderNextRoom, ReaderNextInv
<1> QED BY <1>1, <1>2, PTL DEF ReaderSpec

-----------------------------------------------------------------------------
(* Sequences, place by place. *)
JoinedAt(S, s, t, j) ==
    /\ j \in Seq(S) /\ Len(j) = Len(s) + Len(t)
    /\ \A i \in 1 .. Len(s) : j[i] = s[i]
    /\ \A i \in 1 .. Len(t) : j[Len(s) + i] = t[i]

LEMMA JoinedPlaces ==
    ASSUME NEW S, NEW s \in Seq(S), NEW t \in Seq(S)
    PROVE  JoinedAt(S, s, t, s \o t)
<1>1. s \o t \in Seq(S)
  OBVIOUS
<1>2. Len(s) \in Nat /\ Len(t) \in Nat
  OBVIOUS
<1>3. Len(s \o t) = Len(s) + Len(t)
  OBVIOUS
<1>4. \A i \in 1 .. Len(s) : (s \o t)[i] = s[i]
  BY <1>2
<1>5. \A i \in 1 .. Len(t) : (s \o t)[Len(s) + i] = t[i]
  BY <1>2
<1> QED BY <1>1, <1>3, <1>4, <1>5 DEF JoinedAt

Slice(S, s, a, b, t) ==
    /\ t \in Seq(S) /\ Len(t) = b - a + 1
    /\ \A i \in 1 .. b - a + 1 : t[i] = s[a + i - 1]

LEMMA SlicePlaces ==
    ASSUME NEW S, NEW s \in Seq(S), NEW a \in 1 .. Len(s) + 1, NEW b \in a - 1 .. Len(s)
    PROVE  Slice(S, s, a, b, SubSeq(s, a, b))
<1>1. a \in Nat /\ b \in Nat /\ Len(s) \in Nat
  OBVIOUS
<1>2. \A i \in a .. b : s[i] \in S
  BY <1>1
<1>3. SubSeq(s, a, b) = [i \in 1 .. b - a + 1 |-> s[a + i - 1]]
  BY <1>1
<1>4. b - a + 1 \in Nat
  BY <1>1
<1>5. \A i \in 1 .. b - a + 1 : s[a + i - 1] \in S
  BY <1>1, <1>2
<1>6. SubSeq(s, a, b) \in Seq(S)
  BY <1>3, <1>4, <1>5
<1>7. Len(SubSeq(s, a, b)) = b - a + 1
  BY <1>3, <1>4
<1> QED BY <1>3, <1>6, <1>7 DEF Slice

InsertedAt(S, s, i, e, t) ==
    /\ t \in Seq(S) /\ Len(t) = Len(s) + 1
    /\ \A j \in 1 .. Len(s) + 1 :
          t[j] = IF j < i THEN s[j] ELSE IF j = i THEN e ELSE s[j - 1]

LEMMA InsertPlaces ==
    ASSUME NEW S, NEW s \in Seq(S), NEW i \in 1 .. Len(s) + 1, NEW e \in S
    PROVE  InsertedAt(S, s, i, e, InsertAt(s, i, e))
<1>0. Len(s) \in Nat /\ i \in Nat /\ i - 1 \in 0 .. Len(s)
  OBVIOUS
<1>1. PICK a, b, one : a = SubSeq(s, 1, i - 1) /\ b = SubSeq(s, i, Len(s)) /\ one = << e >>
  OBVIOUS
<1>2. Slice(S, s, 1, i - 1, a)
  BY <1>0, <1>1, SlicePlaces
<1>3. Slice(S, s, i, Len(s), b)
  BY <1>0, <1>1, SlicePlaces
<1>4. one \in Seq(S) /\ Len(one) = 1 /\ one[1] = e
  BY <1>1
<1>5. PICK c : c = a \o one
  OBVIOUS
<1>6. JoinedAt(S, a, one, c)
  BY <1>2, <1>4, <1>5, JoinedPlaces DEF Slice
<1>17. c \in Seq(S) /\ b \in Seq(S)
  BY <1>3, <1>6 DEF Slice, JoinedAt
<1>7. JoinedAt(S, c, b, c \o b)
  BY <1>17, JoinedPlaces
<1>8. InsertAt(s, i, e) = c \o b
  BY <1>1, <1>5 DEF InsertAt
<1>9. PICK t : t = c \o b
  OBVIOUS
<1>10. Len(a) = i - 1 /\ Len(c) = i /\ Len(b) = Len(s) - i + 1
  BY <1>0, <1>2, <1>3, <1>4, <1>6 DEF Slice, JoinedAt
<1>11. t \in Seq(S) /\ Len(t) = Len(s) + 1
  BY <1>0, <1>7, <1>9, <1>10 DEF JoinedAt
<1>12. ASSUME NEW j \in 1 .. Len(s) + 1
       PROVE  t[j] = IF j < i THEN s[j] ELSE IF j = i THEN e ELSE s[j - 1]
  <2>1. CASE j < i
    <3>1. j \in 1 .. Len(a) /\ j \in 1 .. Len(c)
      BY <1>0, <1>10, <2>1
    <3>2. t[j] = c[j] /\ c[j] = a[j] /\ a[j] = s[1 + j - 1]
      BY <1>0, <1>2, <1>6, <1>7, <1>9, <1>10, <3>1 DEF Slice, JoinedAt
    <3> QED BY <2>1, <3>2
  <2>2. CASE j = i
    <3>1. j \in 1 .. Len(c) /\ j = Len(a) + 1
      BY <1>0, <1>10, <2>2
    <3>2. t[j] = c[j] /\ c[j] = one[1]
      BY <1>4, <1>6, <1>7, <1>9, <3>1 DEF JoinedAt
    <3> QED BY <1>4, <2>2, <3>2
  <2>3. CASE j > i
    <3>1. j - i \in 1 .. Len(b) /\ j = Len(c) + (j - i)
      BY <1>0, <1>10, <2>3
    <3>2. t[j] = b[j - i]
      BY <1>7, <1>9, <3>1 DEF JoinedAt
    <3>3. b[j - i] = s[i + (j - i) - 1]
      BY <1>0, <1>3, <1>10, <3>1 DEF Slice
    <3> QED BY <1>0, <2>3, <3>2, <3>3
  <2> QED BY <1>0, <2>1, <2>2, <2>3
<1> QED BY <1>8, <1>9, <1>11, <1>12 DEF InsertedAt

RemovedAt(S, s, i, t) ==
    /\ t \in Seq(S) /\ Len(t) = Len(s) - 1
    /\ \A j \in 1 .. Len(s) - 1 : t[j] = IF j < i THEN s[j] ELSE s[j + 1]

LEMMA RemovePlaces ==
    ASSUME NEW S, NEW s \in Seq(S), NEW i \in 1 .. Len(s)
    PROVE  RemovedAt(S, s, i, RemoveAt(s, i))
<1>0. Len(s) \in Nat /\ i \in Nat /\ i - 1 \in 0 .. Len(s)
  OBVIOUS
<1>1. PICK a, b : a = SubSeq(s, 1, i - 1) /\ b = SubSeq(s, i + 1, Len(s))
  OBVIOUS
<1>2. Slice(S, s, 1, i - 1, a)
  BY <1>0, <1>1, SlicePlaces
<1>3. Slice(S, s, i + 1, Len(s), b)
  BY <1>0, <1>1, SlicePlaces
<1>4. PICK t : t = a \o b
  OBVIOUS
<1>5. JoinedAt(S, a, b, t)
  BY <1>2, <1>3, <1>4, JoinedPlaces DEF Slice
<1>6. Len(a) = i - 1 /\ Len(b) = Len(s) - i
  BY <1>0, <1>2, <1>3 DEF Slice
<1>7. ASSUME NEW j \in 1 .. Len(s) - 1
      PROVE  t[j] = IF j < i THEN s[j] ELSE s[j + 1]
  <2>1. CASE j < i
    <3>1. j \in 1 .. Len(a)
      BY <1>0, <1>6, <2>1
    <3>2. t[j] = a[j] /\ a[j] = s[1 + j - 1]
      BY <1>0, <1>2, <1>5, <1>6, <3>1 DEF Slice, JoinedAt
    <3> QED BY <2>1, <3>2
  <2>2. CASE j >= i
    <3>1. j - i + 1 \in 1 .. Len(b) /\ j = Len(a) + (j - i + 1)
      BY <1>0, <1>6, <2>2
    <3>2. t[j] = b[j - i + 1]
      BY <1>5, <3>1 DEF JoinedAt
    <3>3. b[j - i + 1] = s[i + 1 + (j - i + 1) - 1]
      BY <1>0, <1>3, <1>6, <3>1 DEF Slice
    <3> QED BY <1>0, <2>2, <3>2, <3>3
  <2> QED BY <1>0, <2>1, <2>2
<1>8. RemoveAt(s, i) = t
  BY <1>1, <1>4 DEF RemoveAt
<1> QED BY <1>0, <1>5, <1>6, <1>7, <1>8 DEF RemovedAt, JoinedAt

ReplacedAt(S, s, i, e, t) ==
    /\ t \in Seq(S) /\ Len(t) = Len(s)
    /\ \A j \in 1 .. Len(s) : t[j] = IF j = i THEN e ELSE s[j]

LEMMA ReplacePlaces ==
    ASSUME NEW S, NEW s \in Seq(S), NEW i \in 1 .. Len(s), NEW e \in S
    PROVE  ReplacedAt(S, s, i, e, ReplaceAt(s, i, e))
<1>1. ReplaceAt(s, i, e) \in Seq(S) /\ Len(ReplaceAt(s, i, e)) = Len(s)
  BY ReplaceParts
<1>2. ReplaceAt(s, i, e) = [s EXCEPT ![i] = e] /\ DOMAIN s = 1 .. Len(s)
  BY DEF ReplaceAt
<1> QED BY <1>1, <1>2 DEF ReplacedAt

(* A set of places that holds the earlier ones with each is an initial stretch. *)
LEMMA InitialStretch ==
    ASSUME NEW n \in Nat, NEW S, S \subseteq 1 .. n,
           \A i \in 1 .. n, j \in 1 .. n : j \in S /\ i < j => i \in S
    PROVE  S = 1 .. Cardinality(S) /\ Cardinality(S) \in 0 .. n
<1>1. Cardinality(S) \in 0 .. n
  BY CountIn
<1>2. \E m \in 0 .. n : S = 1 .. m
  <2>1. PICK T : T = {x \in 0 .. n : \A i \in S : i <= x}
    OBVIOUS
  <2>2. T \subseteq Nat /\ n \in T
    BY <2>1
  <2>3. PICK m \in T : \A x \in T : m <= x
    BY <2>2, LeastNatural
  <2>4. m \in 0 .. n /\ \A i \in S : i \in 1 .. n /\ i <= m
    BY <2>1
  <2>5. m \in S \/ m = 0
    <3> SUFFICES ASSUME m \notin S, m # 0 PROVE FALSE
      OBVIOUS
    <3>1. m - 1 \in 0 .. n /\ \A i \in S : i <= m - 1
      BY <2>4
    <3>2. m - 1 \in T
      BY <2>1, <3>1
    <3> QED BY <2>3, <2>4, <3>2
  <2>6. \A i \in 1 .. m : i \in S
    BY <2>4, <2>5
  <2>7. S = 1 .. m
    <3>1. \A i \in S : i \in 1 .. m
      BY <2>4
    <3> QED BY <2>6, <3>1
  <2> QED BY <2>4, <2>7
<1>3. PICK m \in 0 .. n : S = 1 .. m
  BY <1>2
<1>4. Cardinality(1 .. m) = m
  BY FS_Interval
<1> QED BY <1>1, <1>3, <1>4

-----------------------------------------------------------------------------
(* Leaves: entries in the order of their keys. *)
Arranged(e) == \A i, j \in 1 .. Len(e) : i < j => e[i].key < e[j].key

LEMMA EntryParts ==
    ASSUME NEW e \in Seq(Entry)
    PROVE  /\ Len(e) \in Nat /\ DOMAIN e = 1 .. Len(e)
           /\ \A i \in 1 .. Len(e) : e[i] \in Entry /\ e[i].key \in Key /\ e[i].key \in Int
                                     /\ e[i] \in Range(e)
           /\ \A x \in Range(e) : x \in Entry /\ x.key \in Int
                                  /\ \E i \in 1 .. Len(e) : e[i] = x
<1>1. Len(e) \in Nat /\ DOMAIN e = 1 .. Len(e)
  OBVIOUS
<1>2. \A i \in 1 .. Len(e) : e[i] \in Entry
  OBVIOUS
<1>3. \A x \in Entry : x.key \in Key /\ x.key \in Int
  <2>1. Key \subseteq Int
    BY BTreeConstants DEF Key
  <2> QED BY <2>1 DEF Entry
<1> QED BY <1>1, <1>2, <1>3 DEF Range

(* Before a place there are the smaller keys, from it on the others. *)
LEMMA BeforeIs ==
    ASSUME NEW e \in Seq(Entry), Arranged(e), NEW k \in Key
    PROVE  /\ Before(e, k) \in 0 .. Len(e)
           /\ \A i \in 1 .. Len(e) : e[i].key < k <=> i <= Before(e, k)
           /\ Holds(e, k) <=> Before(e, k) + 1 <= Len(e) /\ e[Before(e, k) + 1].key = k
<1>0. k \in Int
  BY BTreeConstants DEF Key
<1>1. PICK S : S = {i \in DOMAIN e : e[i].key < k}
  OBVIOUS
<1>2. S \subseteq 1 .. Len(e) /\ Len(e) \in Nat
  BY <1>1, EntryParts
<1>3. \A i \in 1 .. Len(e), j \in 1 .. Len(e) : j \in S /\ i < j => i \in S
  BY <1>0, <1>1, EntryParts DEF Arranged
<1>4. S = 1 .. Cardinality(S) /\ Cardinality(S) \in 0 .. Len(e)
  BY <1>2, <1>3, InitialStretch
<1>5. PICK b \in 0 .. Len(e) : b = Before(e, k) /\ S = 1 .. b
  BY <1>1, <1>4 DEF Before
<1>6. \A i \in 1 .. Len(e) : e[i].key < k <=> i <= b
  BY <1>1, <1>2, <1>5, EntryParts
<1>7. ASSUME Holds(e, k) PROVE b + 1 <= Len(e) /\ e[b + 1].key = k
  <2>1. PICK i \in 1 .. Len(e) : e[i].key = k
    BY <1>7, EntryParts DEF Holds
  <2>2. i > b
    BY <1>0, <1>5, <1>6, <2>1
  <2>3. b + 1 \in 1 .. Len(e) /\ ~ e[b + 1].key < k
    BY <1>5, <1>6, <2>2
  <2>4. b + 1 < i => e[b + 1].key < k
    BY <2>1, <2>3 DEF Arranged
  <2> QED BY <1>5, <2>1, <2>2, <2>3, <2>4
<1>8. ASSUME b + 1 <= Len(e), e[b + 1].key = k PROVE Holds(e, k)
  BY <1>5, <1>8, EntryParts DEF Holds
<1> QED BY <1>5, <1>6, <1>7, <1>8

LEMMA WithIs ==
    ASSUME NEW e \in Seq(Entry), Arranged(e), NEW k \in Key, NEW v \in Value
    PROVE  /\ With(e, k, v) \in Seq(Entry) /\ Arranged(With(e, k, v))
           /\ Range(With(e, k, v)) = {x \in Range(e) : x.key # k} \cup {[key |-> k, value |-> v]}
<1>0. k \in Int /\ Len(e) \in Nat
  BY BTreeConstants DEF Key
<1>1. PICK b \in 0 .. Len(e) : b = Before(e, k)
  BY BeforeIs
<1>2. /\ \A i \in 1 .. Len(e) : e[i].key < k <=> i <= b
      /\ Holds(e, k) <=> b + 1 <= Len(e) /\ e[b + 1].key = k
  BY <1>1, BeforeIs
<1>3. PICK x : x = [key |-> k, value |-> v]
  OBVIOUS
<1>4. x \in Entry /\ x.key = k
  BY <1>3 DEF Entry
<1>5. PICK t : t = With(e, k, v)
  OBVIOUS
<1>6. CASE Holds(e, k)
  <2>1. b + 1 \in 1 .. Len(e) /\ e[b + 1].key = k
    BY <1>0, <1>1, <1>2, <1>6
  <2>2. ReplacedAt(Entry, e, b + 1, x, t)
    <3>1. t = ReplaceAt(e, b + 1, x)
      BY <1>1, <1>3, <1>5, <1>6 DEF With
    <3> QED BY <1>4, <2>1, <3>1, ReplacePlaces
  <2>3. t \in Seq(Entry) /\ Len(t) = Len(e) /\ DOMAIN t = 1 .. Len(e)
        /\ \A j \in 1 .. Len(e) : t[j] = IF j = b + 1 THEN x ELSE e[j]
    BY <2>2 DEF ReplacedAt
  <2>4. \A j \in 1 .. Len(e) : t[j].key = e[j].key
    BY <1>4, <2>1, <2>3
  <2>5. Arranged(t)
    BY <2>3, <2>4 DEF Arranged
  <2>6. \A j \in 1 .. Len(e) : e[j].key = k <=> j = b + 1
    BY <2>1, <1>0, EntryParts DEF Arranged
  <2>7. ASSUME NEW y PROVE y \in Range(t) <=> (y \in Range(e) /\ y.key # k) \/ y = x
    <3>1. y \in Range(t) <=> \E j \in 1 .. Len(e) : t[j] = y
      BY <2>3 DEF Range
    <3>2. y \in Range(e) <=> \E j \in 1 .. Len(e) : e[j] = y
      BY EntryParts DEF Range
    <3> QED BY <1>4, <2>1, <2>3, <2>6, <3>1, <3>2
  <2>8. Range(t) = {y \in Range(e) : y.key # k} \cup {x}
    BY <2>7
  <2> QED BY <1>3, <1>5, <2>3, <2>5, <2>8
<1>7. CASE ~ Holds(e, k)
  <2>1. InsertedAt(Entry, e, b + 1, x, t)
    <3>1. t = InsertAt(e, b + 1, x) /\ b + 1 \in 1 .. Len(e) + 1
      BY <1>0, <1>1, <1>3, <1>5, <1>7 DEF With
    <3> QED BY <1>4, <3>1, InsertPlaces
  <2>2. t \in Seq(Entry) /\ Len(t) = Len(e) + 1 /\ DOMAIN t = 1 .. Len(e) + 1
        /\ \A j \in 1 .. Len(e) + 1 :
              t[j] = IF j < b + 1 THEN e[j] ELSE IF j = b + 1 THEN x ELSE e[j - 1]
    BY <2>1 DEF InsertedAt
  <2>3. \A j \in 1 .. Len(e) : e[j].key # k
    BY <1>7, EntryParts DEF Holds
  <2>4. \A j \in 1 .. Len(e) : j > b => e[j].key > k
    BY <1>0, <1>1, <1>2, <2>3, EntryParts
  <2>5. ASSUME NEW i \in 1 .. Len(t), NEW j \in 1 .. Len(t), i < j PROVE t[i].key < t[j].key
    <3>1. CASE j < b + 1
      <4>1. i \in 1 .. Len(e) /\ j \in 1 .. Len(e) /\ i < j /\ t[i] = e[i] /\ t[j] = e[j]
        BY <1>0, <1>1, <2>2, <2>5, <3>1
      <4> QED BY <4>1 DEF Arranged
    <3>2. CASE j = b + 1
      <4>1. i \in 1 .. Len(e) /\ i <= b /\ t[i] = e[i] /\ t[j] = x
        BY <1>0, <1>1, <2>2, <2>5, <3>2
      <4> QED BY <1>2, <1>4, <4>1
    <3>3. CASE j > b + 1 /\ i < b + 1
      <4>1. i \in 1 .. Len(e) /\ j - 1 \in 1 .. Len(e) /\ i < j - 1
            /\ t[i] = e[i] /\ t[j] = e[j - 1]
        BY <1>0, <1>1, <2>2, <2>5, <3>3
      <4> QED BY <4>1 DEF Arranged
    <3>4. CASE i = b + 1
      <4>1. j - 1 \in 1 .. Len(e) /\ j - 1 > b /\ t[i] = x /\ t[j] = e[j - 1]
        BY <1>0, <1>1, <2>2, <2>5, <3>4
      <4>2. e[j - 1].key > k /\ e[j - 1].key \in Int
        BY <2>4, <4>1, EntryParts
      <4> QED BY <1>0, <1>4, <4>1, <4>2
    <3>5. CASE i > b + 1
      <4>1. i - 1 \in 1 .. Len(e) /\ j - 1 \in 1 .. Len(e) /\ i - 1 < j - 1
            /\ t[i] = e[i - 1] /\ t[j] = e[j - 1]
        BY <1>0, <1>1, <2>2, <2>5, <3>5
      <4> QED BY <4>1 DEF Arranged
    <3> QED BY <1>0, <1>1, <2>2, <2>5, <3>1, <3>2, <3>3, <3>4, <3>5
  <2>6. ASSUME NEW y PROVE y \in Range(t) <=> y \in Range(e) \/ y = x
    <3>1. y \in Range(t) <=> \E j \in 1 .. Len(e) + 1 : t[j] = y
      BY <2>2 DEF Range
    <3>2. y \in Range(e) <=> \E j \in 1 .. Len(e) : e[j] = y
      BY EntryParts DEF Range
    <3>3. \A j \in 1 .. Len(e) + 1 : t[j] = x \/ \E i \in 1 .. Len(e) : t[j] = e[i]
      BY <1>0, <1>1, <2>2
    <3>4. b + 1 \in 1 .. Len(e) + 1 /\ t[b + 1] = x
      BY <1>0, <1>1, <2>2
    <3>5. \A i \in 1 .. Len(e) : \E j \in 1 .. Len(e) + 1 : t[j] = e[i]
      <4> SUFFICES ASSUME NEW i \in 1 .. Len(e)
                   PROVE  \E j \in 1 .. Len(e) + 1 : t[j] = e[i]
        OBVIOUS
      <4>1. CASE i <= b
        <5>1. i \in 1 .. Len(e) + 1 /\ t[i] = e[i]
          BY <1>0, <1>1, <2>2, <4>1
        <5> QED BY <5>1
      <4>2. CASE i > b
        <5>1. PICK j \in 1 .. Len(e) + 1 : j = i + 1 /\ ~ j < b + 1 /\ j # b + 1 /\ j - 1 = i
          BY <1>0, <1>1, <4>2
        <5>2. t[j] = e[j - 1]
          BY <2>2, <5>1
        <5> QED BY <5>1, <5>2
      <4> QED BY <1>0, <1>1, <4>1, <4>2
    <3> QED BY <3>1, <3>2, <3>3, <3>4, <3>5
  <2>7. \A y \in Range(e) : y.key # k
    BY <2>3, EntryParts
  <2>8. Range(t) = {y \in Range(e) : y.key # k} \cup {x}
    BY <2>6, <2>7
  <2>9. Arranged(t)
    BY <2>5 DEF Arranged
  <2> QED BY <1>3, <1>5, <2>2, <2>8, <2>9
<1> QED BY <1>6, <1>7

LEMMA WithoutIs ==
    ASSUME NEW e \in Seq(Entry), Arranged(e), NEW k \in Key, Holds(e, k)
    PROVE  /\ Without(e, k) \in Seq(Entry) /\ Arranged(Without(e, k))
           /\ Range(Without(e, k)) = {x \in Range(e) : x.key # k}
<1>0. k \in Int /\ Len(e) \in Nat
  BY BTreeConstants DEF Key
<1>1. PICK i : i = Before(e, k) + 1
  OBVIOUS
<1>2. i \in 1 .. Len(e) /\ e[i].key = k
  BY <1>0, <1>1, BeforeIs
<1>3. PICK t : t = Without(e, k)
  OBVIOUS
<1>4. RemovedAt(Entry, e, i, t)
  BY <1>1, <1>2, <1>3, RemovePlaces DEF Without
<1>5. t \in Seq(Entry) /\ Len(t) = Len(e) - 1 /\ DOMAIN t = 1 .. Len(e) - 1
      /\ \A j \in 1 .. Len(e) - 1 : t[j] = IF j < i THEN e[j] ELSE e[j + 1]
  BY <1>0, <1>2, <1>4 DEF RemovedAt
<1>6. \A j \in 1 .. Len(e) : e[j].key = k <=> j = i
  BY <1>0, <1>2, EntryParts DEF Arranged
<1>7. ASSUME NEW m \in 1 .. Len(t), NEW j \in 1 .. Len(t), m < j PROVE t[m].key < t[j].key
  <2>1. CASE j < i
    BY <1>0, <1>2, <1>5, <1>7, <2>1 DEF Arranged
  <2>2. CASE j >= i /\ m < i
    <3>1. m \in 1 .. Len(e) /\ j + 1 \in 1 .. Len(e) /\ m < j + 1
          /\ t[m] = e[m] /\ t[j] = e[j + 1]
      BY <1>0, <1>2, <1>5, <1>7, <2>2
    <3> QED BY <3>1 DEF Arranged
  <2>3. CASE m >= i
    <3>1. m + 1 \in 1 .. Len(e) /\ j + 1 \in 1 .. Len(e) /\ m + 1 < j + 1
          /\ t[m] = e[m + 1] /\ t[j] = e[j + 1]
      BY <1>0, <1>2, <1>5, <1>7, <2>3
    <3> QED BY <3>1 DEF Arranged
  <2> QED BY <1>0, <1>2, <1>5, <1>7, <2>1, <2>2, <2>3
<1>8. ASSUME NEW y PROVE y \in Range(t) <=> y \in Range(e) /\ y.key # k
  <2>1. y \in Range(t) <=> \E j \in 1 .. Len(e) - 1 : t[j] = y
    BY <1>5 DEF Range
  <2>2. y \in Range(e) <=> \E j \in 1 .. Len(e) : e[j] = y
    BY EntryParts DEF Range
  <2>3. \A j \in 1 .. Len(e) - 1 : \E m \in 1 .. Len(e) : m # i /\ t[j] = e[m]
    <3> SUFFICES ASSUME NEW j \in 1 .. Len(e) - 1
                 PROVE  \E m \in 1 .. Len(e) : m # i /\ t[j] = e[m]
      OBVIOUS
    <3>1. CASE j < i
      BY <1>0, <1>2, <1>5, <3>1
    <3>2. CASE j >= i
      <4>1. j + 1 \in 1 .. Len(e) /\ j + 1 # i /\ t[j] = e[j + 1]
        BY <1>0, <1>2, <1>5, <3>2
      <4> QED BY <4>1
    <3> QED BY <1>0, <1>2, <3>1, <3>2
  <2>4. \A m \in 1 .. Len(e) : m # i => \E j \in 1 .. Len(e) - 1 : t[j] = e[m]
    <3> SUFFICES ASSUME NEW m \in 1 .. Len(e), m # i
                 PROVE  \E j \in 1 .. Len(e) - 1 : t[j] = e[m]
      OBVIOUS
    <3>1. CASE m < i
      <4>1. m \in 1 .. Len(e) - 1 /\ t[m] = e[m]
        BY <1>0, <1>2, <1>5, <3>1
      <4> QED BY <4>1
    <3>2. CASE m > i
      <4>1. m - 1 \in 1 .. Len(e) - 1 /\ t[m - 1] = e[m - 1 + 1]
        BY <1>0, <1>2, <1>5, <3>2
      <4> QED BY <4>1
    <3>3. m < i \/ m > i
      BY <1>0, <1>2
    <3> QED BY <3>1, <3>2, <3>3
  <2>5. y \in Range(t) => y \in Range(e) /\ y.key # k
    BY <1>6, <2>1, <2>2, <2>3
  <2>6. y \in Range(e) /\ y.key # k => y \in Range(t)
    BY <1>6, <2>1, <2>2, <2>4
  <2> QED BY <2>5, <2>6
<1>9. Range(t) = {y \in Range(e) : y.key # k}
  BY <1>8
<1>10. Arranged(t)
  BY <1>7 DEF Arranged
<1> QED BY <1>3, <1>5, <1>9, <1>10

(* A leaf is cut, or two are joined. *)
LEMMA SliceArranged ==
    ASSUME NEW s \in Seq(Entry), Arranged(s), NEW a \in 1 .. Len(s) + 1,
        NEW b \in a - 1 .. Len(s),
           NEW t, Slice(Entry, s, a, b, t)
    PROVE  t \in Seq(Entry) /\ Arranged(t)
<1>1. t \in Seq(Entry) /\ Len(t) = b - a + 1 /\ \A i \in 1 .. b - a + 1 : t[i] = s[a + i - 1]
  BY DEF Slice
<1>2. Len(s) \in Nat /\ a \in Int /\ b \in Int
  OBVIOUS
<1>3. ASSUME NEW i \in 1 .. Len(t), NEW j \in 1 .. Len(t), i < j PROVE t[i].key < t[j].key
  <2>1. a + i - 1 \in 1 .. Len(s) /\ a + j - 1 \in 1 .. Len(s) /\ a + i - 1 < a + j - 1
    BY <1>1, <1>2, <1>3
  <2>2. t[i] = s[a + i - 1] /\ t[j] = s[a + j - 1]
    BY <1>1
  <2> QED BY <2>1, <2>2 DEF Arranged
<1> QED BY <1>1, <1>3 DEF Arranged

LEMMA JoinArranged ==
    ASSUME NEW s \in Seq(Entry), NEW t \in Seq(Entry), Arranged(s), Arranged(t),
           \A x \in Range(s), y \in Range(t) : x.key < y.key
    PROVE  s \o t \in Seq(Entry) /\ Arranged(s \o t) /\ Range(s \o t) = Range(s) \cup Range(t)
<1>1. PICK j : j = s \o t
  OBVIOUS
<1>2. j \in Seq(Entry) /\ Range(j) = Range(s) \cup Range(t)
  BY <1>1, JoinedParts
<1>3. /\ Len(j) = Len(s) + Len(t)
      /\ \A i \in 1 .. Len(s) : j[i] = s[i]
      /\ \A i \in 1 .. Len(t) : j[Len(s) + i] = t[i]
  BY <1>1, JoinedPlaces DEF JoinedAt
<1>4. Len(s) \in Nat /\ Len(t) \in Nat
  OBVIOUS
<1>5. ASSUME NEW a \in 1 .. Len(j), NEW b \in 1 .. Len(j), a < b PROVE j[a].key < j[b].key
  <2>1. CASE b <= Len(s)
    BY <1>3, <1>4, <1>5, <2>1 DEF Arranged
  <2>2. CASE b > Len(s) /\ a <= Len(s)
    <3>1. a \in 1 .. Len(s) /\ b - Len(s) \in 1 .. Len(t) /\ b = Len(s) + (b - Len(s))
      BY <1>3, <1>4, <1>5, <2>2
    <3>2. j[a] = s[a] /\ j[b] = t[b - Len(s)]
      BY <1>3, <3>1
    <3>3. j[a] \in Range(s) /\ j[b] \in Range(t)
      BY <3>1, <3>2, EntryParts
    <3> QED BY <3>3
  <2>3. CASE a > Len(s)
    <3>1. /\ a - Len(s) \in 1 .. Len(t) /\ a = Len(s) + (a - Len(s))
          /\ b - Len(s) \in 1 .. Len(t) /\ b = Len(s) + (b - Len(s))
          /\ a - Len(s) < b - Len(s)
      BY <1>3, <1>4, <1>5, <2>3
    <3>2. j[a] = t[a - Len(s)] /\ j[b] = t[b - Len(s)]
      BY <1>3, <3>1
    <3> QED BY <3>1, <3>2 DEF Arranged
  <2> QED BY <1>3, <1>4, <1>5, <2>1, <2>2, <2>3
<1>6. Arranged(j)
  BY <1>5 DEF Arranged
<1> QED BY <1>1, <1>2, <1>6

-----------------------------------------------------------------------------
(* Nodes above the leaves: a node for the keys from a up to b, with keys k and
   children c, is a row of edges; child i is for the keys from edge i - 1 up to
   edge i.  from and upto: what the node above each page takes its bounds to be. *)
Bound == 0 .. MaxKey + 1

LEMMA BoundParts ==
    /\ Bound \subseteq Int /\ MaxKey \in Nat /\ 0 \in Bound /\ MaxKey + 1 \in Bound
    /\ \A k \in Key : k \in Bound /\ k \in Int /\ 0 < k /\ k < MaxKey + 1
    /\ \A b \in Bound : b \in Int /\ 0 <= b /\ b <= MaxKey + 1
BY BTreeConstants DEF Bound, Key

Edge(k, a, b, i) == IF i = 0 THEN a ELSE IF i = Len(k) + 1 THEN b ELSE k[i]

Fence(k, c, a, b, from, upto) ==
    /\ \A i \in 1 .. Len(k) + 1 : from[c[i]] = Edge(k, a, b, i - 1) /\ upto[c[i]] = Edge(k, a, b, i)
    /\ \A i, j \in 0 .. Len(k) + 1 : i < j => Edge(k, a, b, i) < Edge(k, a, b, j)

(* The keys and the children of a node. *)
Slots(k, c) == k \in Seq(Key) /\ c \in Seq(Page) /\ Len(c) = Len(k) + 1 /\ IsInjective(c)

LEMMA SlotParts ==
    ASSUME NEW k, NEW c, Slots(k, c)
    PROVE  /\ Len(k) \in Nat /\ Len(c) = Len(k) + 1 /\ DOMAIN c = 1 .. Len(k) + 1
           /\ DOMAIN k = 1 .. Len(k)
           /\ \A i \in 1 .. Len(k) : k[i] \in Key /\ k[i] \in Int
           /\ \A i \in 1 .. Len(k) + 1 : c[i] \in Page /\ c[i] \in Range(c)
           /\ \A i, j \in 1 .. Len(k) + 1 : c[i] = c[j] => i = j
           /\ \A x \in Range(c) : x \in Page /\ \E i \in 1 .. Len(k) + 1 : c[i] = x
<1>1. Len(k) \in Nat /\ Len(c) = Len(k) + 1 /\ DOMAIN c = 1 .. Len(k) + 1 /\ DOMAIN k = 1 .. Len(k)
  BY DEF Slots
<1>2. \A i \in 1 .. Len(k) : k[i] \in Key /\ k[i] \in Int
  BY BoundParts DEF Slots
<1>3. \A i \in 1 .. Len(k) + 1 : c[i] \in Page
  BY <1>1 DEF Slots
<1>4. \A i, j \in 1 .. Len(k) + 1 : c[i] = c[j] => i = j
  BY <1>1 DEF Slots, IsInjective
<1> QED BY <1>1, <1>2, <1>3, <1>4 DEF Range

LEMMA EdgeParts ==
    ASSUME NEW k \in Seq(Key), NEW a \in Bound, NEW b \in Bound
    PROVE  /\ \A i \in 0 .. Len(k) + 1 : Edge(k, a, b, i) \in Int
           /\ \A i \in 1 .. Len(k) : Edge(k, a, b, i) = k[i]
           /\ Edge(k, a, b, 0) = a /\ Edge(k, a, b, Len(k) + 1) = b
<1>1. Len(k) \in Nat /\ \A i \in 1 .. Len(k) : k[i] \in Int
  BY BoundParts
<1>2. a \in Int /\ b \in Int
  BY BoundParts
<1> QED BY <1>1, <1>2 DEF Edge

(* The bounds of the children are as they were. *)
LEMMA FenceKept ==
    ASSUME NEW k, NEW c, NEW a, NEW b, NEW from, NEW upto, NEW from2, NEW upto2,
           Slots(k, c), Fence(k, c, a, b, from, upto),
           \A x \in Range(c) : from2[x] = from[x] /\ upto2[x] = upto[x]
    PROVE  Fence(k, c, a, b, from2, upto2)
BY SlotParts DEF Fence

(* find_child goes to the child for the key. *)
LEMMA FindsChild ==
    ASSUME NEW k, NEW c, NEW a \in Bound, NEW b \in Bound, NEW from, NEW upto,
           Slots(k, c), Fence(k, c, a, b, from, upto), NEW x \in Key, a <= x, x < b,
           NEW q, q = c[Cardinality({i \in DOMAIN k : k[i] <= x}) + 1]
    PROVE  q \in Range(c) /\ from[q] <= x /\ x < upto[q]
<1>0. Len(k) \in Nat /\ DOMAIN k = 1 .. Len(k) /\ x \in Int /\ k \in Seq(Key)
  BY SlotParts, BoundParts DEF Slots
<1>1. PICK S : S = {i \in DOMAIN k : k[i] <= x}
  OBVIOUS
<1>2. /\ \A i \in 1 .. Len(k) : Edge(k, a, b, i) = k[i] /\ k[i] \in Int
      /\ Edge(k, a, b, 0) = a /\ Edge(k, a, b, Len(k) + 1) = b
  BY <1>0, EdgeParts, SlotParts
<1>3. \A i, j \in 1 .. Len(k) : i < j => k[i] < k[j]
  <2>1. \A i \in 1 .. Len(k) : i \in 0 .. Len(k) + 1
    BY <1>0
  <2> QED BY <1>2, <2>1 DEF Fence
<1>4. S = 1 .. Cardinality(S) /\ Cardinality(S) \in 0 .. Len(k)
  <2>1. S \subseteq 1 .. Len(k)
    BY <1>0, <1>1
  <2>2. \A i \in 1 .. Len(k), j \in 1 .. Len(k) : j \in S /\ i < j => i \in S
    BY <1>0, <1>1, <1>2, <1>3
  <2> QED BY <1>0, <2>1, <2>2, InitialStretch
<1>5. PICK m \in 0 .. Len(k) : S = 1 .. m /\ q = c[m + 1]
  BY <1>1, <1>4
<1>6. m + 1 \in 1 .. Len(k) + 1 /\ m + 1 - 1 = m
  BY <1>0
<1>7. q \in Range(c) /\ from[q] = Edge(k, a, b, m) /\ upto[q] = Edge(k, a, b, m + 1)
  BY <1>5, <1>6, SlotParts DEF Fence
<1>8. Edge(k, a, b, m) <= x
  <2>1. CASE m = 0
    BY <1>2, <2>1
  <2>2. CASE m # 0
    <3>1. m \in 1 .. Len(k) /\ m \in S
      BY <1>0, <1>5, <2>2
    <3> QED BY <1>1, <1>2, <3>1
  <2> QED BY <2>1, <2>2
<1>9. x < Edge(k, a, b, m + 1)
  <2>1. CASE m = Len(k)
    BY <1>2, <2>1
  <2>2. CASE m # Len(k)
    <3>1. m + 1 \in 1 .. Len(k)
      <4>1. PICK n \in Nat : n = Len(k)
        BY <1>0
      <4>2. m \in 0 .. n /\ m # n
        BY <1>5, <2>2, <4>1
      <4>3. m + 1 \in 1 .. n
        BY <4>2
      <4> QED BY <4>1, <4>3
    <3>2. m + 1 \notin 1 .. m
      BY <1>0
    <3>3. m + 1 \notin S
      BY <1>5, <3>2
    <3> QED BY <1>0, <1>1, <1>2, <3>1, <3>3
  <2> QED BY <2>1, <2>2
<1> QED BY <1>7, <1>8, <1>9

(* A key that is between the bounds of a child goes in after that child. *)
LEMMA PlaceOfKey ==
    ASSUME NEW k, NEW c, NEW a \in Bound, NEW b \in Bound, NEW from, NEW upto,
           Slots(k, c), Fence(k, c, a, b, from, upto), NEW x \in Key,
           NEW m \in 1 .. Len(k) + 1, from[c[m]] < x, x < upto[c[m]]
    PROVE  Cardinality({i \in DOMAIN k : k[i] < x}) = m - 1
<1>0. Len(k) \in Nat /\ DOMAIN k = 1 .. Len(k) /\ x \in Int /\ k \in Seq(Key)
  BY SlotParts, BoundParts DEF Slots
<1>1. /\ \A i \in 1 .. Len(k) : Edge(k, a, b, i) = k[i] /\ k[i] \in Int
      /\ \A i \in 0 .. Len(k) + 1 : Edge(k, a, b, i) \in Int
  BY <1>0, EdgeParts, SlotParts
<1>2. Edge(k, a, b, m - 1) < x /\ x < Edge(k, a, b, m)
  BY DEF Fence
<1>3. ASSUME NEW i \in 1 .. Len(k) PROVE k[i] < x <=> i <= m - 1
  <2>1. i \in 0 .. Len(k) + 1 /\ m \in 0 .. Len(k) + 1 /\ m - 1 \in 0 .. Len(k) + 1
    BY <1>0
  <2>2. CASE i <= m - 1
    <3>0. PICK d \in 0 .. Len(k) + 1 : d = m - 1 /\ (i = d \/ i < d)
      BY <2>1, <2>2
    <3>1. Edge(k, a, b, i) <= Edge(k, a, b, d)
      <4>1. i < d => Edge(k, a, b, i) < Edge(k, a, b, d)
        BY <2>1 DEF Fence
      <4> QED BY <1>1, <2>1, <3>0, <4>1
    <3> QED BY <1>0, <1>1, <1>2, <2>1, <2>2, <3>0, <3>1
  <2>3. CASE i > m - 1
    <3>0. i = m \/ m < i
      BY <2>1, <2>3
    <3>1. Edge(k, a, b, m) <= Edge(k, a, b, i)
      BY <1>1, <2>1, <3>0 DEF Fence
    <3> QED BY <1>0, <1>1, <1>2, <2>1, <2>3, <3>1
  <2> QED BY <2>1, <2>2, <2>3
<1>4. {i \in DOMAIN k : k[i] < x} = 1 .. m - 1
  <2>1. \A i : i \in 1 .. m - 1 => i \in 1 .. Len(k)
    BY <1>0
  <2>2. \A i \in 1 .. Len(k) : i \in 1 .. m - 1 <=> i <= m - 1
    BY <1>0
  <2> QED BY <1>0, <1>3, <2>1, <2>2
<1>5. Cardinality(1 .. m - 1) = m - 1
  <2>1. m - 1 \in Int /\ m - 1 >= 0
    BY <1>0
  <2> QED BY <1>0, <2>1, FS_Interval
<1> QED BY <1>4, <1>5

(* A new child, with the key it begins at, after the one it was split from. *)
Widens(k, c, m, x, q, k2, c2) ==
    /\ m \in 1 .. Len(k) + 1
    /\ InsertedAt(Key, k, m, x, k2) /\ InsertedAt(Page, c, m + 1, q, c2)

LEMMA FenceWidens ==
    ASSUME NEW k, NEW c, NEW a \in Bound, NEW b \in Bound, NEW from, NEW upto,
           Slots(k, c), Fence(k, c, a, b, from, upto),
           NEW m, NEW x \in Key, NEW q, NEW k2, NEW c2, Widens(k, c, m, x, q, k2, c2),
           from[c[m]] < x, x < upto[c[m]],
           NEW from2, NEW upto2, from2[q] = x, upto2[q] = upto[c[m]],
           \A y \in Range(c) : from2[y] = from[y] /\ upto2[y] = IF y = c[m] THEN x ELSE upto[y]
    PROVE  Fence(k2, c2, a, b, from2, upto2)
<1>0. Len(k) \in Nat /\ x \in Int /\ k \in Seq(Key) /\ m \in 1 .. Len(k) + 1
  BY SlotParts, BoundParts DEF Slots, Widens
<1>1. PICK n \in Nat : n = Len(k)
  BY <1>0
<1>2. PICK E : E = [i \in 0 .. n + 1 |-> Edge(k, a, b, i)]
  OBVIOUS
<1>3. /\ \A i \in 0 .. n + 1 : E[i] \in Int
      /\ \A i, j \in 0 .. n + 1 : i < j => E[i] < E[j]
  BY <1>0, <1>1, <1>2, EdgeParts DEF Fence
<1>4. \A i \in 1 .. n : E[i] = k[i]
  BY <1>0, <1>1, <1>2, EdgeParts
<1>5. E[0] = a /\ E[n + 1] = b
  BY <1>0, <1>1, <1>2, EdgeParts
<1>6. \A i \in 1 .. n + 1 : from[c[i]] = E[i - 1] /\ upto[c[i]] = E[i]
  BY <1>1, <1>2 DEF Fence
<1>7. /\ Len(k2) = n + 1
      /\ \A j \in 1 .. n + 1 : k2[j] = IF j < m THEN k[j] ELSE IF j = m THEN x ELSE k[j - 1]
      /\ \A j \in 1 .. n + 2 : c2[j] = IF j < m + 1 THEN c[j] ELSE IF j = m + 1 THEN q ELSE c[j - 1]
  <2>1. Len(c) = n + 1 /\ Len(c) + 1 = n + 2
    BY <1>1, SlotParts
  <2> QED BY <1>1, <2>1 DEF Widens, InsertedAt
<1>8. PICK F : F = [i \in 0 .. n + 2 |-> Edge(k2, a, b, i)]
  OBVIOUS
<1>9. \A i \in 0 .. n + 2 : F[i] = IF i < m THEN E[i] ELSE IF i = m THEN x ELSE E[i - 1]
  <2> SUFFICES ASSUME NEW i \in 0 .. n + 2
               PROVE  F[i] = IF i < m THEN E[i] ELSE IF i = m THEN x ELSE E[i - 1]
    OBVIOUS
  <2>1. F[i] = IF i = 0 THEN a ELSE IF i = n + 2 THEN b ELSE k2[i]
    BY <1>7, <1>8 DEF Edge
  <2>2. CASE i = 0
    BY <1>0, <1>5, <2>1, <2>2
  <2>3. CASE i = n + 2
    <3>1. i - 1 = n + 1 /\ ~ i < m /\ i # m /\ F[i] = b
      BY <1>0, <1>1, <2>1, <2>3
    <3> QED BY <1>5, <3>1
  <2>4. CASE i # 0 /\ i # n + 2
    <3>1. i \in 1 .. n + 1 /\ F[i] = k2[i]
      BY <2>1, <2>4
    <3>2. i < m => i \in 1 .. n /\ F[i] = k[i]
      BY <1>0, <1>1, <1>7, <3>1
    <3>3. i = m => F[i] = x
      BY <1>0, <1>7, <3>1
    <3>4. i > m => i - 1 \in 1 .. n /\ F[i] = k[i - 1]
      BY <1>0, <1>1, <1>7, <3>1
    <3> QED BY <1>0, <1>4, <3>2, <3>3, <3>4
  <2> QED BY <2>2, <2>3, <2>4
<1>10. E[m - 1] < x /\ x < E[m] /\ m \in 1 .. n + 1
  BY <1>0, <1>1, <1>6
<1>11. ASSUME NEW i \in 0 .. n + 2, NEW j \in 0 .. n + 2, i < j PROVE F[i] < F[j]
  <2>1. CASE j < m
    <3>1. i \in 0 .. n + 1 /\ j \in 0 .. n + 1 /\ F[i] = E[i] /\ F[j] = E[j]
      BY <1>9, <1>10, <1>11, <2>1
    <3> QED BY <1>3, <1>11, <3>1
  <2>2. CASE j = m
    <3>1. PICK d \in 0 .. n + 1 : d = m - 1 /\ (i = d \/ i < d)
      BY <1>10, <1>11, <2>2
    <3>2. i \in 0 .. n + 1 /\ F[i] = E[i] /\ F[j] = x /\ E[d] < x
      BY <1>9, <1>10, <1>11, <2>2, <3>1
    <3> QED BY <1>0, <1>3, <3>1, <3>2
  <2>3. CASE j > m /\ i < m
    <3>1. PICK d \in 0 .. n + 1 : d = j - 1 /\ i < d
      BY <1>10, <1>11, <2>3
    <3>2. i \in 0 .. n + 1 /\ F[i] = E[i] /\ F[j] = E[d]
      BY <1>9, <1>10, <1>11, <2>3, <3>1
    <3> QED BY <1>3, <3>1, <3>2
  <2>4. CASE i = m
    <3>1. PICK d \in 0 .. n + 1 : d = j - 1 /\ (m = d \/ m < d)
      BY <1>10, <1>11, <2>4
    <3>2. m \in 0 .. n + 1 /\ F[i] = x /\ F[j] = E[d] /\ x < E[m]
      BY <1>9, <1>10, <1>11, <2>4, <3>1
    <3> QED BY <1>0, <1>3, <3>1, <3>2
  <2>5. CASE i > m
    <3>1. PICK d \in 0 .. n + 1, e \in 0 .. n + 1 : d = j - 1 /\ e = i - 1 /\ e < d
      BY <1>10, <1>11, <2>5
    <3>2. F[i] = E[e] /\ F[j] = E[d]
      BY <1>9, <1>10, <1>11, <2>5, <3>1
    <3> QED BY <1>3, <3>1, <3>2
  <2> QED BY <1>10, <1>11, <2>1, <2>2, <2>3, <2>4, <2>5
<1>12. \A i \in 1 .. n + 1 : c[i] \in Range(c) /\ (c[i] = c[m] <=> i = m)
  BY <1>1, <1>10, SlotParts
<1>13. ASSUME NEW i \in 1 .. n + 2 PROVE from2[c2[i]] = F[i - 1] /\ upto2[c2[i]] = F[i]
  <2>0. i - 1 \in 0 .. n + 2 /\ i \in 0 .. n + 2
    OBVIOUS
  <2>1. CASE i < m
    <3>1. i \in 1 .. n + 1 /\ c2[i] = c[i] /\ F[i - 1] = E[i - 1] /\ F[i] = E[i] /\ i # m
      BY <1>7, <1>9, <1>10, <2>0, <2>1
    <3> QED BY <1>6, <1>12, <3>1
  <2>2. CASE i = m
    <3>1. i \in 1 .. n + 1 /\ c2[i] = c[m] /\ F[i - 1] = E[i - 1] /\ F[i] = x
      BY <1>7, <1>9, <1>10, <2>0, <2>2
    <3> QED BY <1>6, <1>12, <2>2, <3>1
  <2>3. CASE i = m + 1
    <3>1. c2[i] = q /\ F[i - 1] = x /\ F[i] = E[m] /\ m \in 1 .. n + 1
      BY <1>7, <1>9, <1>10, <2>0, <2>3
    <3> QED BY <1>6, <3>1
  <2>4. CASE i > m + 1
    <3>1. PICK d \in 1 .. n + 1 : d = i - 1 /\ d # m
      BY <1>10, <2>4
    <3>2. c2[i] = c[d] /\ F[i] = E[d] /\ F[i - 1] = E[d - 1]
      BY <1>7, <1>9, <1>10, <2>0, <2>4, <3>1
    <3> QED BY <1>6, <1>12, <3>1, <3>2
  <2> QED BY <1>10, <2>1, <2>2, <2>3, <2>4
<1>14. \A i \in 0 .. n + 2 : Edge(k2, a, b, i) = F[i]
  BY <1>8
<1>15. \A i \in 1 .. n + 2 : i \in 0 .. n + 2 /\ i - 1 \in 0 .. n + 2
  OBVIOUS
<1>16. Len(k2) + 1 = n + 2
  BY <1>7
<1>17. \A i \in 1 .. n + 2 : from2[c2[i]] = Edge(k2, a, b, i - 1) /\ upto2[c2[i]] = Edge(k2, a, b, i)
  BY <1>13, <1>14, <1>15
<1>18. \A i, j \in 0 .. n + 2 : i < j => Edge(k2, a, b, i) < Edge(k2, a, b, j)
  BY <1>11, <1>14
<1> QED BY <1>16, <1>17, <1>18 DEF Fence

(* The key between two children changes, and their bounds with it. *)
LEMMA FenceMoves ==
    ASSUME NEW k, NEW c, NEW a \in Bound, NEW b \in Bound, NEW from, NEW upto,
           Slots(k, c), Fence(k, c, a, b, from, upto),
           NEW m \in 1 .. Len(k), NEW x \in Key, NEW k2, ReplacedAt(Key, k, m, x, k2),
           from[c[m]] < x, x < upto[c[m + 1]],
           NEW from2, NEW upto2,
           \A y \in Range(c) : /\ from2[y] = IF y = c[m + 1] THEN x ELSE from[y]
                               /\ upto2[y] = IF y = c[m] THEN x ELSE upto[y]
    PROVE  Fence(k2, c, a, b, from2, upto2)
<1>0. Len(k) \in Nat /\ x \in Int /\ k \in Seq(Key)
  BY SlotParts, BoundParts DEF Slots
<1>1. PICK n \in Nat : n = Len(k)
  BY <1>0
<1>2. PICK E : E = [i \in 0 .. n + 1 |-> Edge(k, a, b, i)]
  OBVIOUS
<1>3. /\ \A i \in 0 .. n + 1 : E[i] \in Int
      /\ \A i, j \in 0 .. n + 1 : i < j => E[i] < E[j]
  BY <1>0, <1>1, <1>2, EdgeParts DEF Fence
<1>4. \A i \in 1 .. n : E[i] = k[i]
  BY <1>0, <1>1, <1>2, EdgeParts
<1>5. E[0] = a /\ E[n + 1] = b
  BY <1>0, <1>1, <1>2, EdgeParts
<1>6. \A i \in 1 .. n + 1 : from[c[i]] = E[i - 1] /\ upto[c[i]] = E[i]
  BY <1>1, <1>2 DEF Fence
<1>7. Len(k2) = n /\ \A j \in 1 .. n : k2[j] = IF j = m THEN x ELSE k[j]
  BY <1>1 DEF ReplacedAt
<1>8. PICK F : F = [i \in 0 .. n + 1 |-> Edge(k2, a, b, i)]
  OBVIOUS
<1>9. m \in 1 .. n
  BY <1>1
<1>10. \A i \in 0 .. n + 1 : F[i] = IF i = m THEN x ELSE E[i]
  <2> SUFFICES ASSUME NEW i \in 0 .. n + 1 PROVE F[i] = IF i = m THEN x ELSE E[i]
    OBVIOUS
  <2>1. F[i] = IF i = 0 THEN a ELSE IF i = n + 1 THEN b ELSE k2[i]
    BY <1>7, <1>8 DEF Edge
  <2>2. i # 0 /\ i # n + 1 => i \in 1 .. n
    OBVIOUS
  <2> QED BY <1>4, <1>5, <1>7, <1>9, <2>1, <2>2
<1>11. PICK d \in 0 .. n + 1, e \in 0 .. n + 1 : d = m - 1 /\ e = m + 1
  BY <1>9
<1>12. E[d] < x /\ x < E[e]
  <2>1. m \in 1 .. n + 1 /\ m + 1 \in 1 .. n + 1
    BY <1>9
  <2> QED BY <1>6, <1>11, <2>1
<1>13. ASSUME NEW i \in 0 .. n + 1, NEW j \in 0 .. n + 1, i < j PROVE F[i] < F[j]
  <2>1. CASE i = m
    <3>1. F[i] = x /\ F[j] = E[j] /\ (e = j \/ e < j)
      BY <1>9, <1>10, <1>11, <1>13, <2>1
    <3> QED BY <1>0, <1>3, <1>12, <3>1
  <2>2. CASE j = m
    <3>1. F[j] = x /\ F[i] = E[i] /\ (d = i \/ i < d)
      BY <1>9, <1>10, <1>11, <1>13, <2>2
    <3> QED BY <1>0, <1>3, <1>12, <3>1
  <2>3. CASE i # m /\ j # m
    BY <1>3, <1>10, <1>13, <2>3
  <2> QED BY <2>1, <2>2, <2>3
<1>14. \A i \in 1 .. n + 1 : c[i] \in Range(c) /\ (c[i] = c[m] <=> i = m) /\ (c[i] = c[m + 1] <=> i = m + 1)
  <2>1. m \in 1 .. n + 1 /\ m + 1 \in 1 .. n + 1
    BY <1>9
  <2> QED BY <1>1, <2>1, SlotParts
<1>15. ASSUME NEW i \in 1 .. n + 1 PROVE from2[c[i]] = F[i - 1] /\ upto2[c[i]] = F[i]
  <2>1. i \in 0 .. n + 1 /\ i - 1 \in 0 .. n + 1 /\ (i - 1 = m <=> i = m + 1)
    BY <1>9
  <2>2. F[i] = (IF i = m THEN x ELSE E[i]) /\ F[i - 1] = (IF i = m + 1 THEN x ELSE E[i - 1])
    BY <1>10, <2>1
  <2>3. from2[c[i]] = (IF i = m + 1 THEN x ELSE from[c[i]]) /\ upto2[c[i]] = (IF i = m THEN x ELSE upto[c[i]])
    BY <1>14
  <2>4. from[c[i]] = E[i - 1] /\ upto[c[i]] = E[i]
    BY <1>6
  <2> QED BY <2>2, <2>3, <2>4
<1>16. \A i \in 0 .. n + 1 : Edge(k2, a, b, i) = F[i]
  BY <1>8
<1>17. \A i \in 1 .. n + 1 : i \in 0 .. n + 1 /\ i - 1 \in 0 .. n + 1
  OBVIOUS
<1>18. \A i \in 1 .. Len(k2) + 1 :
          from2[c[i]] = Edge(k2, a, b, i - 1) /\ upto2[c[i]] = Edge(k2, a, b, i)
  <2>1. ASSUME NEW i \in 1 .. n + 1
        PROVE  from2[c[i]] = Edge(k2, a, b, i - 1) /\ upto2[c[i]] = Edge(k2, a, b, i)
    <3>1. i \in 0 .. n + 1 /\ i - 1 \in 0 .. n + 1
      BY <1>17
    <3>2. Edge(k2, a, b, i) = F[i] /\ Edge(k2, a, b, i - 1) = F[i - 1]
      BY <1>16, <3>1
    <3> QED BY <1>15, <3>2
  <2> QED BY <1>7, <2>1
<1>19. \A i, j \in 0 .. Len(k2) + 1 : i < j => Edge(k2, a, b, i) < Edge(k2, a, b, j)
  BY <1>7, <1>13, <1>16
<1> QED BY <1>18, <1>19 DEF Fence

(* A child gives way to the one before it, and the key between them goes. *)
LEMMA FenceNarrows ==
    ASSUME NEW k, NEW c, NEW a \in Bound, NEW b \in Bound, NEW from, NEW upto,
           Slots(k, c), Fence(k, c, a, b, from, upto),
           NEW m \in 1 .. Len(k), NEW k2, RemovedAt(Key, k, m, k2),
           NEW c2, RemovedAt(Page, c, m + 1, c2), NEW upto2,
           \A y \in Range(c) : upto2[y] = IF y = c[m] THEN upto[c[m + 1]] ELSE upto[y]
    PROVE  Fence(k2, c2, a, b, from, upto2)
<1>0. Len(k) \in Nat /\ k \in Seq(Key)
  BY SlotParts, BoundParts DEF Slots
<1>1. PICK n \in Nat : n = Len(k)
  BY <1>0
<1>2. PICK E : E = [i \in 0 .. n + 1 |-> Edge(k, a, b, i)]
  OBVIOUS
<1>3. \A i, j \in 0 .. n + 1 : i < j => E[i] < E[j]
  BY <1>0, <1>1, <1>2 DEF Fence
<1>4. \A i \in 1 .. n : E[i] = k[i]
  BY <1>0, <1>1, <1>2, EdgeParts
<1>5. E[0] = a /\ E[n + 1] = b
  BY <1>0, <1>1, <1>2, EdgeParts
<1>6. \A i \in 1 .. n + 1 : from[c[i]] = E[i - 1] /\ upto[c[i]] = E[i]
  BY <1>1, <1>2 DEF Fence
<1>7. /\ Len(k2) = n - 1 /\ \A j \in 1 .. n - 1 : k2[j] = IF j < m THEN k[j] ELSE k[j + 1]
      /\ \A j \in 1 .. n : c2[j] = IF j < m + 1 THEN c[j] ELSE c[j + 1]
  <2>1. Len(c) - 1 = n
    BY <1>1, SlotParts
  <2> QED BY <1>1, <2>1 DEF RemovedAt
<1>8. PICK F : F = [i \in 0 .. n |-> Edge(k2, a, b, i)]
  OBVIOUS
<1>9. m \in 1 .. n
  BY <1>1
<1>10. \A i \in 0 .. n : F[i] = IF i < m THEN E[i] ELSE E[i + 1]
  <2> SUFFICES ASSUME NEW i \in 0 .. n PROVE F[i] = IF i < m THEN E[i] ELSE E[i + 1]
    OBVIOUS
  <2>1. F[i] = IF i = 0 THEN a ELSE IF i = n THEN b ELSE k2[i]
    BY <1>7, <1>8 DEF Edge
  <2>2. CASE i = 0
    BY <1>5, <1>9, <2>1, <2>2
  <2>3. CASE i = n
    BY <1>5, <1>9, <2>1, <2>3
  <2>4. CASE i # 0 /\ i # n
    <3>1. i \in 1 .. n - 1 /\ i \in 1 .. n /\ i + 1 \in 1 .. n /\ F[i] = k2[i]
      BY <2>1, <2>4
    <3>2. F[i] = IF i < m THEN k[i] ELSE k[i + 1]
      BY <1>7, <3>1
    <3> QED BY <1>4, <3>1, <3>2
  <2> QED BY <2>2, <2>3, <2>4
<1>11. ASSUME NEW i \in 0 .. n, NEW j \in 0 .. n, i < j PROVE F[i] < F[j]
  <2>1. PICK d \in 0 .. n + 1, e \in 0 .. n + 1 :
           d = (IF i < m THEN i ELSE i + 1) /\ e = (IF j < m THEN j ELSE j + 1) /\ d < e
    BY <1>9, <1>11
  <2>2. F[i] = E[d] /\ F[j] = E[e]
    BY <1>10, <2>1
  <2> QED BY <1>3, <2>1, <2>2
<1>12. \A i \in 1 .. n + 1 : c[i] \in Range(c) /\ (c[i] = c[m] <=> i = m)
  <2>1. m \in 1 .. n + 1
    BY <1>9
  <2> QED BY <1>1, <2>1, SlotParts
<1>13. ASSUME NEW i \in 1 .. n PROVE from[c2[i]] = F[i - 1] /\ upto2[c2[i]] = F[i]
  <2>0. i - 1 \in 0 .. n /\ i \in 0 .. n /\ i \in 1 .. n + 1 /\ i + 1 \in 1 .. n + 1
    OBVIOUS
  <2>1. CASE i < m
    <3>1. c2[i] = c[i] /\ F[i - 1] = E[i - 1] /\ F[i] = E[i] /\ i # m
      BY <1>7, <1>9, <1>10, <2>0, <2>1
    <3> QED BY <1>6, <1>12, <2>0, <3>1
  <2>2. CASE i = m
    <3>1. c2[i] = c[i] /\ F[i - 1] = E[i - 1] /\ F[i] = E[i + 1]
      BY <1>7, <1>9, <1>10, <2>0, <2>2
    <3>2. upto2[c[i]] = upto[c[i + 1]]
      BY <1>12, <2>0, <2>2
    <3> QED BY <1>6, <2>0, <3>1, <3>2
  <2>3. CASE i > m
    <3>1. PICK d \in 1 .. n + 1 : d = i + 1 /\ d # m /\ d - 1 = i
      BY <1>9, <2>3
    <3>2. c2[i] = c[d] /\ F[i] = E[d] /\ F[i - 1] = E[d - 1]
      BY <1>7, <1>9, <1>10, <2>0, <2>3, <3>1
    <3> QED BY <1>6, <1>12, <3>1, <3>2
  <2> QED BY <1>9, <2>1, <2>2, <2>3
<1>14. \A i \in 0 .. n : Edge(k2, a, b, i) = F[i]
  BY <1>8
<1>15. \A i \in 1 .. n : i \in 0 .. n /\ i - 1 \in 0 .. n
  OBVIOUS
<1>16. Len(k2) + 1 = n
  BY <1>7
<1> QED BY <1>11, <1>13, <1>14, <1>15, <1>16 DEF Fence

(* A node that is two nodes in a row, with the key s between them. *)
Spliced(k, c, ka, ca, s, kb, cb) ==
    /\ s \in Key /\ k \in Seq(Key) /\ ka \in Seq(Key) /\ kb \in Seq(Key)
    /\ Len(k) = Len(ka) + 1 + Len(kb)
    /\ \A i \in 1 .. Len(ka) : k[i] = ka[i]
    /\ k[Len(ka) + 1] = s
    /\ \A i \in 1 .. Len(kb) : k[Len(ka) + 1 + i] = kb[i]
    /\ \A i \in 1 .. Len(ka) + 1 : c[i] = ca[i]
    /\ \A i \in 1 .. Len(kb) + 1 : c[Len(ka) + 1 + i] = cb[i]

SplicedRow(k, ka, s, kb, a, b, m, n) ==
    /\ m \in Nat /\ n \in Nat /\ m = Len(ka) /\ n = Len(kb) /\ Len(k) + 1 = m + n + 2
    /\ \A i \in 0 .. m : Edge(k, a, b, i) = Edge(ka, a, s, i)
    /\ Edge(k, a, b, m + 1) = s /\ Edge(ka, a, s, m + 1) = s /\ Edge(kb, s, b, 0) = s
    /\ \A i \in 1 .. n + 1 : Edge(k, a, b, m + 1 + i) = Edge(kb, s, b, i)
    /\ \A i \in 0 .. m + 1 : Edge(ka, a, s, i) \in Int
    /\ \A i \in 0 .. n + 1 : Edge(kb, s, b, i) \in Int

LEMMA SplicedEdges ==
    ASSUME NEW k, NEW c, NEW ka, NEW ca, NEW s, NEW kb, NEW cb, Spliced(k, c, ka, ca, s, kb, cb),
           NEW a \in Bound, NEW b \in Bound
    PROVE  \E m, n : SplicedRow(k, ka, s, kb, a, b, m, n)
<1>0. PICK m, n : m = Len(ka) /\ n = Len(kb)
  OBVIOUS
<1>1. m \in Nat /\ n \in Nat /\ Len(k) = m + 1 + n
  BY <1>0 DEF Spliced
<1>2. Len(k) + 1 = m + n + 2
  BY <1>1
<1>3. ASSUME NEW i \in 0 .. m PROVE Edge(k, a, b, i) = Edge(ka, a, s, i)
  <2>1. i # 0 => i \in 1 .. m
    BY <1>1
  <2>2. i # 0 => k[i] = ka[i]
    BY <1>0, <2>1 DEF Spliced
  <2>3. i # Len(k) + 1 /\ i # m + 1
    BY <1>1, <1>2
  <2> QED BY <1>0, <2>2, <2>3 DEF Edge
<1>4. Edge(k, a, b, m + 1) = s
  <2>1. m + 1 # 0 /\ m + 1 # Len(k) + 1
    BY <1>1, <1>2
  <2>2. k[m + 1] = s
    BY <1>0 DEF Spliced
  <2> QED BY <2>1, <2>2 DEF Edge
<1>5. Edge(ka, a, s, m + 1) = s /\ Edge(kb, s, b, 0) = s
  <2>1. m + 1 # 0
    BY <1>1
  <2> QED BY <1>0, <2>1 DEF Edge
<1>6. ASSUME NEW i \in 1 .. n + 1 PROVE Edge(k, a, b, m + 1 + i) = Edge(kb, s, b, i)
  <2>1. i # 0 /\ m + 1 + i # 0
    BY <1>1
  <2>2. CASE i = n + 1
    <3>1. m + 1 + i = Len(k) + 1
      BY <1>1, <1>2, <2>2
    <3> QED BY <1>0, <2>1, <2>2, <3>1 DEF Edge
  <2>3. CASE i # n + 1
    <3>1. i \in 1 .. n
      BY <1>1, <2>3
    <3>2. m + 1 + i # Len(k) + 1
      BY <1>1, <1>2, <2>3
    <3>3. k[m + 1 + i] = kb[i]
      BY <1>0, <3>1 DEF Spliced
    <3> QED BY <1>0, <2>1, <2>3, <3>2, <3>3 DEF Edge
  <2> QED BY <2>2, <2>3
<1>7. s \in Bound
  BY BoundParts DEF Spliced
<1>8. \A i \in 0 .. m + 1 : Edge(ka, a, s, i) \in Int
  BY <1>0, <1>7, EdgeParts DEF Spliced
<1>9. \A i \in 0 .. n + 1 : Edge(kb, s, b, i) \in Int
  BY <1>0, <1>7, EdgeParts DEF Spliced
<1>10. SplicedRow(k, ka, s, kb, a, b, m, n)
  BY <1>0, <1>1, <1>2, <1>3, <1>4, <1>5, <1>6, <1>8, <1>9 DEF SplicedRow
<1> QED BY <1>10

LEMMA FenceCut ==
    ASSUME NEW k, NEW c, NEW ka, NEW ca, NEW s, NEW kb, NEW cb, Spliced(k, c, ka, ca, s, kb, cb),
           NEW a \in Bound, NEW b \in Bound, NEW from, NEW upto, Fence(k, c, a, b, from, upto)
    PROVE  /\ Fence(ka, ca, a, s, from, upto) /\ Fence(kb, cb, s, b, from, upto)
           /\ a < s /\ s < b
<1>0. PICK m, n : SplicedRow(k, ka, s, kb, a, b, m, n)
  BY SplicedEdges
<1>1. m = Len(ka) /\ n = Len(kb)
  BY <1>0 DEF SplicedRow
<1>2. /\ m \in Nat /\ n \in Nat /\ Len(k) + 1 = m + n + 2
      /\ \A i \in 0 .. m : Edge(k, a, b, i) = Edge(ka, a, s, i)
      /\ Edge(k, a, b, m + 1) = s /\ Edge(ka, a, s, m + 1) = s /\ Edge(kb, s, b, 0) = s
      /\ \A i \in 1 .. n + 1 : Edge(k, a, b, m + 1 + i) = Edge(kb, s, b, i)
  BY <1>0 DEF SplicedRow
<1>3. PICK E, A, B : /\ E = [i \in 0 .. m + n + 2 |-> Edge(k, a, b, i)]
                     /\ A = [i \in 0 .. m + 1 |-> Edge(ka, a, s, i)]
                     /\ B = [i \in 0 .. n + 1 |-> Edge(kb, s, b, i)]
  OBVIOUS
<1>4. \A i \in 0 .. m + 1 : A[i] = E[i] /\ i \in 0 .. m + n + 2
  <2> SUFFICES ASSUME NEW i \in 0 .. m + 1 PROVE A[i] = E[i] /\ i \in 0 .. m + n + 2
    OBVIOUS
  <2>1. i \in 0 .. m + n + 2 /\ (i \in 0 .. m \/ i = m + 1)
    BY <1>2
  <2> QED BY <1>2, <1>3, <2>1
<1>5. \A i \in 0 .. n + 1 : B[i] = E[m + 1 + i] /\ m + 1 + i \in 0 .. m + n + 2
  <2> SUFFICES ASSUME NEW i \in 0 .. n + 1 PROVE B[i] = E[m + 1 + i] /\ m + 1 + i \in 0 .. m + n + 2
    OBVIOUS
  <2>1. m + 1 + i \in 0 .. m + n + 2 /\ (i \in 1 .. n + 1 \/ (i = 0 /\ m + 1 + i = m + 1))
    BY <1>2
  <2> QED BY <1>2, <1>3, <2>1
<1>6. \A i, j \in 0 .. m + n + 2 : i < j => E[i] < E[j]
  BY <1>2, <1>3 DEF Fence
<1>7. \A i \in 1 .. m + n + 2 : from[c[i]] = E[i - 1] /\ upto[c[i]] = E[i]
  <2>1. \A i \in 1 .. m + n + 2 : i \in 0 .. m + n + 2 /\ i - 1 \in 0 .. m + n + 2
    BY <1>2
  <2> QED BY <1>2, <1>3, <2>1 DEF Fence
<1>8. Fence(ka, ca, a, s, from, upto)
  <2>1. ASSUME NEW i \in 0 .. m + 1, NEW j \in 0 .. m + 1, i < j PROVE A[i] < A[j]
    BY <1>4, <1>6, <2>1
  <2>2. ASSUME NEW i \in 1 .. m + 1 PROVE from[ca[i]] = A[i - 1] /\ upto[ca[i]] = A[i]
    <3>1. i \in 1 .. m + n + 2 /\ i \in 0 .. m + 1 /\ i - 1 \in 0 .. m + 1
      BY <1>2
    <3>2. c[i] = ca[i]
      BY <1>1 DEF Spliced
    <3> QED BY <1>4, <1>7, <3>1, <3>2
  <2>3. \A i \in 1 .. m + 1 : i \in 0 .. m + 1 /\ i - 1 \in 0 .. m + 1
    BY <1>2
  <2>4. \A i \in 0 .. m + 1 : Edge(ka, a, s, i) = A[i]
    BY <1>3
  <2> QED BY <1>1, <2>1, <2>2, <2>3, <2>4 DEF Fence
<1>9. Fence(kb, cb, s, b, from, upto)
  <2>1. ASSUME NEW i \in 0 .. n + 1, NEW j \in 0 .. n + 1, i < j PROVE B[i] < B[j]
    <3>1. m + 1 + i < m + 1 + j
      BY <1>2, <2>1
    <3> QED BY <1>5, <1>6, <3>1
  <2>2. ASSUME NEW i \in 1 .. n + 1 PROVE from[cb[i]] = B[i - 1] /\ upto[cb[i]] = B[i]
    <3>1. PICK d \in 1 .. m + n + 2 : d = m + 1 + i /\ d - 1 = m + 1 + (i - 1)
      BY <1>2
    <3>2. i \in 0 .. n + 1 /\ i - 1 \in 0 .. n + 1
      BY <1>2
    <3>3. c[d] = cb[i]
      BY <1>1, <3>1 DEF Spliced
    <3>4. from[cb[i]] = E[d - 1] /\ upto[cb[i]] = E[d]
      BY <1>7, <3>3
    <3> QED BY <1>5, <3>1, <3>2, <3>4
  <2>3. \A i \in 1 .. n + 1 : i \in 0 .. n + 1 /\ i - 1 \in 0 .. n + 1
    BY <1>2
  <2>4. \A i \in 0 .. n + 1 : Edge(kb, s, b, i) = B[i]
    BY <1>3
  <2> QED BY <1>1, <2>1, <2>2, <2>3, <2>4 DEF Fence
<1>10. E[0] = a /\ E[m + 1] = s /\ E[m + n + 2] = b
  <2>1. 0 \in 0 .. m + n + 2 /\ m + 1 \in 0 .. m + n + 2 /\ m + n + 2 \in 0 .. m + n + 2
        /\ m + n + 2 # 0
    BY <1>2
  <2>2. Edge(k, a, b, 0) = a /\ Edge(k, a, b, m + n + 2) = b
    BY <1>2, <2>1 DEF Edge
  <2> QED BY <1>2, <1>3, <2>1, <2>2
<1>11. E[0] < E[m + 1] /\ E[m + 1] < E[m + n + 2]
  <2>1. 0 \in 0 .. m + n + 2 /\ m + 1 \in 0 .. m + n + 2 /\ m + n + 2 \in 0 .. m + n + 2
        /\ 0 < m + 1 /\ m + 1 < m + n + 2
    BY <1>2
  <2> QED BY <1>6, <2>1
<1> QED BY <1>8, <1>9, <1>10, <1>11

LEMMA FenceJoined ==
    ASSUME NEW k, NEW c, NEW ka, NEW ca, NEW s, NEW kb, NEW cb, Spliced(k, c, ka, ca, s, kb, cb),
           NEW a \in Bound, NEW b \in Bound, NEW from, NEW upto,
           Fence(ka, ca, a, s, from, upto), Fence(kb, cb, s, b, from, upto)
    PROVE  Fence(k, c, a, b, from, upto)
<1>0. PICK m, n : SplicedRow(k, ka, s, kb, a, b, m, n)
  BY SplicedEdges
<1>1. m = Len(ka) /\ n = Len(kb)
  BY <1>0 DEF SplicedRow
<1>2. /\ m \in Nat /\ n \in Nat /\ Len(k) + 1 = m + n + 2
      /\ \A i \in 0 .. m : Edge(k, a, b, i) = Edge(ka, a, s, i)
      /\ Edge(k, a, b, m + 1) = s /\ Edge(ka, a, s, m + 1) = s /\ Edge(kb, s, b, 0) = s
      /\ \A i \in 1 .. n + 1 : Edge(k, a, b, m + 1 + i) = Edge(kb, s, b, i)
      /\ \A i \in 0 .. m + 1 : Edge(ka, a, s, i) \in Int
      /\ \A i \in 0 .. n + 1 : Edge(kb, s, b, i) \in Int
  BY <1>0 DEF SplicedRow
<1>3. PICK E, A, B : /\ E = [i \in 0 .. m + n + 2 |-> Edge(k, a, b, i)]
                     /\ A = [i \in 0 .. m + 1 |-> Edge(ka, a, s, i)]
                     /\ B = [i \in 0 .. n + 1 |-> Edge(kb, s, b, i)]
  OBVIOUS
<1>4. \A i \in 0 .. m + 1 : A[i] = E[i] /\ A[i] \in Int
  <2> SUFFICES ASSUME NEW i \in 0 .. m + 1 PROVE A[i] = E[i] /\ A[i] \in Int
    OBVIOUS
  <2>1. i \in 0 .. m + n + 2 /\ (i \in 0 .. m \/ i = m + 1)
    BY <1>2
  <2> QED BY <1>2, <1>3, <2>1
<1>5. \A i \in 0 .. n + 1 : B[i] = E[m + 1 + i] /\ B[i] \in Int
  <2> SUFFICES ASSUME NEW i \in 0 .. n + 1 PROVE B[i] = E[m + 1 + i] /\ B[i] \in Int
    OBVIOUS
  <2>1. m + 1 + i \in 0 .. m + n + 2 /\ (i \in 1 .. n + 1 \/ (i = 0 /\ m + 1 + i = m + 1))
    BY <1>2
  <2> QED BY <1>2, <1>3, <2>1
<1>6. \A i, j \in 0 .. m + 1 : i < j => A[i] < A[j]
  BY <1>1, <1>3 DEF Fence
<1>7. \A i, j \in 0 .. n + 1 : i < j => B[i] < B[j]
  BY <1>1, <1>3 DEF Fence
<1>8. \A i \in 1 .. m + 1 : from[ca[i]] = A[i - 1] /\ upto[ca[i]] = A[i]
  <2>1. \A i \in 1 .. m + 1 : i \in 0 .. m + 1 /\ i - 1 \in 0 .. m + 1
    BY <1>2
  <2> QED BY <1>1, <1>3, <2>1 DEF Fence
<1>9. \A i \in 1 .. n + 1 : from[cb[i]] = B[i - 1] /\ upto[cb[i]] = B[i]
  <2>1. \A i \in 1 .. n + 1 : i \in 0 .. n + 1 /\ i - 1 \in 0 .. n + 1
    BY <1>2
  <2> QED BY <1>1, <1>3, <2>1 DEF Fence
<1>10. \A i \in 0 .. m + n + 2 : i \in 0 .. m + 1 \/ (i - m - 1 \in 0 .. n + 1 /\ m + 1 + (i - m - 1) = i)
  BY <1>2
<1>11. A[m + 1] = s /\ B[0] = s /\ m + 1 \in 0 .. m + 1 /\ 0 \in 0 .. n + 1 /\ s \in Int
  <2>1. m + 1 \in 0 .. m + 1 /\ 0 \in 0 .. n + 1
    BY <1>2
  <2> QED BY <1>2, <1>3, <2>1
<1>12. ASSUME NEW i \in 0 .. m + n + 2, NEW j \in 0 .. m + n + 2, i < j PROVE E[i] < E[j]
  <2>1. CASE j \in 0 .. m + 1
    <3>1. i \in 0 .. m + 1
      BY <1>2, <1>12, <2>1
    <3> QED BY <1>4, <1>6, <1>12, <2>1, <3>1
  <2>2. CASE i \in 0 .. m + 1 /\ j > m + 1
    <3>1. PICK d \in 0 .. n + 1 : d = j - m - 1 /\ m + 1 + d = j /\ 0 < d
      BY <1>2, <2>2
    <3>2. E[i] = A[i] /\ E[i] \in Int /\ E[j] = B[d] /\ E[j] \in Int
      BY <1>4, <1>5, <2>2, <3>1
    <3>3. i = m + 1 \/ i < m + 1
      BY <1>2, <2>2
    <3>4. A[i] <= s
      BY <1>4, <1>6, <1>11, <2>2, <3>3
    <3>5. s < B[d]
      BY <1>7, <1>11, <3>1
    <3> QED BY <1>11, <3>2, <3>4, <3>5
  <2>3. CASE i > m + 1
    <3>1. PICK d \in 0 .. n + 1, e \in 0 .. n + 1 :
             d = i - m - 1 /\ m + 1 + d = i /\ e = j - m - 1 /\ m + 1 + e = j /\ d < e
      BY <1>2, <1>12, <2>3
    <3> QED BY <1>5, <1>7, <3>1
  <2> QED BY <1>2, <1>12, <2>1, <2>2, <2>3
<1>13. ASSUME NEW i \in 1 .. m + n + 2 PROVE from[c[i]] = E[i - 1] /\ upto[c[i]] = E[i]
  <2>1. CASE i \in 1 .. m + 1
    <3>1. i \in 0 .. m + 1 /\ i - 1 \in 0 .. m + 1
      BY <1>2, <2>1
    <3>2. c[i] = ca[i]
      BY <1>1, <2>1 DEF Spliced
    <3> QED BY <1>4, <1>8, <2>1, <3>1, <3>2
  <2>2. CASE i > m + 1
    <3>1. PICK d \in 1 .. n + 1 : d = i - m - 1 /\ m + 1 + d = i /\ m + 1 + (d - 1) = i - 1
                                  /\ d \in 0 .. n + 1 /\ d - 1 \in 0 .. n + 1
      BY <1>2, <2>2
    <3>2. c[i] = cb[d]
      BY <1>1, <3>1 DEF Spliced
    <3>3. B[d] = E[i] /\ B[d - 1] = E[i - 1]
      BY <1>5, <3>1
    <3> QED BY <1>9, <3>1, <3>2, <3>3
  <2> QED BY <1>2, <2>1, <2>2
<1>14. \A i \in 0 .. m + n + 2 : Edge(k, a, b, i) = E[i]
  BY <1>3
<1>15. \A i \in 1 .. m + n + 2 : from[c[i]] = Edge(k, a, b, i - 1) /\ upto[c[i]] = Edge(k, a, b, i)
  <2>1. \A i \in 1 .. m + n + 2 : i \in 0 .. m + n + 2 /\ i - 1 \in 0 .. m + n + 2
    BY <1>2
  <2> QED BY <1>13, <1>14, <2>1
<1>16. \A i, j \in 0 .. m + n + 2 : i < j => Edge(k, a, b, i) < Edge(k, a, b, j)
  BY <1>12, <1>14
<1> QED BY <1>2, <1>15, <1>16 DEF Fence

LEMMA CutIsSpliced ==
    ASSUME NEW k \in Seq(Key), NEW c \in Seq(Page), Len(c) = Len(k) + 1,
           NEW m \in 0 .. Len(k) - 1
    PROVE  Spliced(k, c, SubSeq(k, 1, m), SubSeq(c, 1, m + 1), k[m + 1],
                   SubSeq(k, m + 2, Len(k)), SubSeq(c, m + 2, Len(c)))
<1>1. PICK n \in Nat : n = Len(k)
  OBVIOUS
<1>2. m \in 0 .. n - 1 /\ Len(c) = n + 1
  BY <1>1
<1>3. Slice(Key, k, 1, m, SubSeq(k, 1, m))
  <2>1. 1 \in 1 .. Len(k) + 1 /\ m \in 1 - 1 .. Len(k)
    BY <1>1, <1>2
  <2> QED BY <2>1, SlicePlaces
<1>4. Slice(Key, k, m + 2, n, SubSeq(k, m + 2, Len(k)))
  <2>1. m + 2 \in 1 .. Len(k) + 1 /\ n \in m + 2 - 1 .. Len(k)
    BY <1>1, <1>2
  <2> QED BY <1>1, <2>1, SlicePlaces
<1>5. Slice(Page, c, 1, m + 1, SubSeq(c, 1, m + 1))
  <2>1. 1 \in 1 .. Len(c) + 1 /\ m + 1 \in 1 - 1 .. Len(c)
    BY <1>2
  <2> QED BY <2>1, SlicePlaces
<1>6. Slice(Page, c, m + 2, n + 1, SubSeq(c, m + 2, Len(c)))
  <2>1. m + 2 \in 1 .. Len(c) + 1 /\ n + 1 \in m + 2 - 1 .. Len(c)
    BY <1>2
  <2> QED BY <1>2, <2>1, SlicePlaces
<1>7. PICK ka, kb, ca, cb : /\ ka = SubSeq(k, 1, m) /\ kb = SubSeq(k, m + 2, Len(k))
                            /\ ca = SubSeq(c, 1, m + 1) /\ cb = SubSeq(c, m + 2, Len(c))
  OBVIOUS
<1>8. /\ ka \in Seq(Key) /\ Len(ka) = m /\ \A i \in 1 .. m : ka[i] = k[i]
      /\ \A i \in 1 .. m + 1 : ca[i] = c[i]
  <2>1. m - 1 + 1 = m /\ m + 1 - 1 + 1 = m + 1 /\ \A i \in 1 .. m + 1 : 1 + i - 1 = i
    BY <1>2
  <2>2. \A i \in 1 .. m : 1 + i - 1 = i
    BY <1>2
  <2> QED BY <1>3, <1>5, <1>7, <2>1, <2>2 DEF Slice
<1>9. /\ kb \in Seq(Key) /\ Len(kb) = n - m - 1
      /\ \A i \in 1 .. n - m - 1 : kb[i] = k[m + 1 + i]
      /\ \A i \in 1 .. n - m : cb[i] = c[m + 1 + i]
  <2>1. n - (m + 2) + 1 = n - m - 1 /\ n + 1 - (m + 2) + 1 = n - m
        /\ \A i \in 1 .. n - m : m + 2 + i - 1 = m + 1 + i
    BY <1>2
  <2>2. \A i \in 1 .. n - m - 1 : i \in 1 .. n - m
    BY <1>2
  <2>3. kb \in Seq(Key) /\ Len(kb) = n - m - 1
        /\ \A i \in 1 .. n - m - 1 : kb[i] = k[m + 2 + i - 1]
    BY <1>4, <1>7, <2>1 DEF Slice
  <2>4. \A i \in 1 .. n - m : cb[i] = c[m + 2 + i - 1]
    BY <1>6, <1>7, <2>1 DEF Slice
  <2> QED BY <2>1, <2>2, <2>3, <2>4
<1>10. k[m + 1] \in Key /\ n = m + 1 + (n - m - 1) /\ n - m - 1 + 1 = n - m
  <2>1. m + 1 \in 1 .. Len(k)
    BY <1>1, <1>2
  <2> QED BY <1>2, <2>1
<1>11. Spliced(k, c, ka, ca, k[m + 1], kb, cb)
  BY <1>1, <1>8, <1>9, <1>10 DEF Spliced
<1> QED BY <1>7, <1>11

LEMMA JoinIsSpliced ==
    ASSUME NEW ka, NEW ca, Slots(ka, ca), NEW s \in Key, NEW kb, NEW cb, Slots(kb, cb)
    PROVE  Spliced(ka \o << s >> \o kb, ca \o cb, ka, ca, s, kb, cb)
<1>1. ka \in Seq(Key) /\ kb \in Seq(Key) /\ ca \in Seq(Page) /\ cb \in Seq(Page)
      /\ Len(ca) = Len(ka) + 1 /\ Len(cb) = Len(kb) + 1
  BY DEF Slots
<1>2. PICK one, j, k, c : one = << s >> /\ j = ka \o one /\ k = j \o kb /\ c = ca \o cb
  OBVIOUS
<1>3. one \in Seq(Key) /\ Len(one) = 1 /\ one[1] = s
  BY <1>2
<1>4. JoinedAt(Key, ka, one, j)
  BY <1>1, <1>2, <1>3, JoinedPlaces
<1>5. j \in Seq(Key)
  BY <1>4 DEF JoinedAt
<1>6. JoinedAt(Key, j, kb, k)
  BY <1>1, <1>2, <1>5, JoinedPlaces
<1>7. JoinedAt(Page, ca, cb, c)
  BY <1>1, <1>2, JoinedPlaces
<1>8. PICK m \in Nat, n \in Nat : m = Len(ka) /\ n = Len(kb)
  BY <1>1
<1>9. Len(j) = m + 1 /\ (\A i \in 1 .. m : j[i] = ka[i]) /\ j[m + 1] = s
  BY <1>3, <1>4, <1>8 DEF JoinedAt
<1>10. k \in Seq(Key) /\ Len(k) = m + 1 + n /\ (\A i \in 1 .. m + 1 : k[i] = j[i])
       /\ \A i \in 1 .. n : k[m + 1 + i] = kb[i]
  BY <1>6, <1>8, <1>9 DEF JoinedAt
<1>11. (\A i \in 1 .. m + 1 : c[i] = ca[i]) /\ \A i \in 1 .. n + 1 : c[m + 1 + i] = cb[i]
  BY <1>1, <1>7, <1>8 DEF JoinedAt
<1>12. (\A i \in 1 .. m : i \in 1 .. m + 1) /\ m + 1 \in 1 .. m + 1
  BY <1>8
<1>13. (\A i \in 1 .. m : k[i] = ka[i]) /\ k[m + 1] = s
  BY <1>9, <1>10, <1>12
<1>14. Spliced(k, c, ka, ca, s, kb, cb)
  BY <1>1, <1>8, <1>10, <1>11, <1>13 DEF Spliced
<1> QED BY <1>2, <1>14

LEMMA SliceOfOne ==
    ASSUME NEW S, NEW s \in Seq(S), NEW i \in 1 .. Len(s)
    PROVE  SubSeq(s, i, i) = << s[i] >>
<1>1. i \in i .. Len(s) /\ i \in i .. i /\ i \in Nat
  OBVIOUS
<1>2. PICK t : t = SubSeq(s, i, i)
  OBVIOUS
<1>3. i \in 1 .. Len(s) + 1 /\ i \in i - 1 .. Len(s)
  OBVIOUS
<1>4. Slice(S, s, i, i, t)
  BY <1>2, <1>3, SlicePlaces
<1>5. i - i + 1 = 1 /\ 1 \in 1 .. 1 /\ i + 1 - 1 = i
  BY <1>1
<1>6. t \in Seq(S) /\ Len(t) = 1 /\ t[1] = s[i]
  BY <1>4, <1>5 DEF Slice
<1>7. t = << t[1] >>
  BY <1>6
<1> QED BY <1>2, <1>6, <1>7

(* A node with one child and no key. *)
LEMMA OneChild ==
    ASSUME NEW x \in Page
    PROVE  Slots(<< >>, << x >>)
<1>1. << x >> \in Seq(Page) /\ Len(<< x >>) = 1 /\ IsInjective(<< x >>)
  BY SingleParts
<1>2. << >> \in Seq(Key) /\ Len(<< >>) = 0
  OBVIOUS
<1> QED BY <1>1, <1>2 DEF Slots

LEMMA FirstIsSpliced ==
    ASSUME NEW k, NEW c, Slots(k, c), NEW s \in Key, NEW x \in Page
    PROVE  Spliced(<< s >> \o k, << x >> \o c, << >>, << x >>, s, k, c)
<1>1. Spliced(<< >> \o << s >> \o k, << x >> \o c, << >>, << x >>, s, k, c)
  BY OneChild, JoinIsSpliced
<1>2. << >> \o << s >> = << s >>
  OBVIOUS
<1> QED BY <1>1, <1>2

LEMMA LastIsSpliced ==
    ASSUME NEW k, NEW c, Slots(k, c), NEW s \in Key, NEW x \in Page
    PROVE  Spliced(Append(k, s), Append(c, x), k, c, s, << >>, << x >>)
<1>1. Spliced(k \o << s >> \o << >>, c \o << x >>, k, c, s, << >>, << x >>)
  BY OneChild, JoinIsSpliced
<1>2. k \in Seq(Key) /\ c \in Seq(Page)
  BY DEF Slots
<1>3. k \o << s >> = Append(k, s) /\ c \o << x >> = Append(c, x)
  BY <1>2
<1>4. Append(k, s) \in Seq(Key)
  BY <1>2
<1>5. Append(k, s) \o << >> = Append(k, s)
  BY <1>4
<1> QED BY <1>1, <1>3, <1>5

LEMMA FrontIsSpliced ==
    ASSUME NEW k, NEW c, Slots(k, c), k # << >>
    PROVE  Spliced(k, c, Front(k), Front(c), Last(k), << >>, << Last(c) >>)
<1>1. k \in Seq(Key) /\ c \in Seq(Page) /\ Len(c) = Len(k) + 1
  BY DEF Slots
<1>2. PICK n \in Nat : n = Len(k) /\ n >= 1
  BY <1>1
<1>3. PICK m \in 0 .. n - 1 : m = n - 1 /\ m + 1 = n /\ m + 2 = n + 1
  BY <1>2
<1>4. m \in 0 .. Len(k) - 1
  BY <1>2, <1>3
<1>5. Spliced(k, c, SubSeq(k, 1, m), SubSeq(c, 1, m + 1), k[m + 1],
              SubSeq(k, m + 2, Len(k)), SubSeq(c, m + 2, Len(c)))
  BY <1>1, <1>4, CutIsSpliced
<1>6. SubSeq(k, 1, m) = Front(k) /\ SubSeq(c, 1, m + 1) = Front(c)
  <2>1. Len(k) - 1 = m /\ Len(c) - 1 = m + 1
    BY <1>1, <1>2, <1>3
  <2> QED BY <2>1 DEF Front
<1>7. k[m + 1] = Last(k)
  BY <1>2, <1>3 DEF Last
<1>8. SubSeq(k, m + 2, Len(k)) = << >>
  BY <1>1, <1>2, <1>3
<1>9. SubSeq(c, m + 2, Len(c)) = << Last(c) >>
  <2>1. m + 2 = Len(c) /\ Len(c) \in 1 .. Len(c)
    BY <1>1, <1>2, <1>3
  <2>2. SubSeq(c, Len(c), Len(c)) = << c[Len(c)] >>
    BY <1>1, <2>1, SliceOfOne
  <2> QED BY <2>1, <2>2 DEF Last
<1> QED BY <1>5, <1>6, <1>7, <1>8, <1>9

LEMMA TailIsSpliced ==
    ASSUME NEW k, NEW c, Slots(k, c), k # << >>
    PROVE  Spliced(k, c, << >>, << Head(c) >>, Head(k), Tail(k), Tail(c))
<1>1. k \in Seq(Key) /\ c \in Seq(Page) /\ Len(c) = Len(k) + 1
  BY DEF Slots
<1>2. Len(k) \in Nat /\ Len(k) >= 1
  BY <1>1
<1>3. 0 \in 0 .. Len(k) - 1 /\ 0 + 1 = 1 /\ 0 + 2 = 2
  BY <1>2
<1>4. Spliced(k, c, SubSeq(k, 1, 0), SubSeq(c, 1, 1), k[1],
              SubSeq(k, 2, Len(k)), SubSeq(c, 2, Len(c)))
  <2>1. Spliced(k, c, SubSeq(k, 1, 0), SubSeq(c, 1, 0 + 1), k[0 + 1],
                SubSeq(k, 0 + 2, Len(k)), SubSeq(c, 0 + 2, Len(c)))
    BY <1>1, <1>3, CutIsSpliced
  <2> QED BY <1>3, <2>1
<1>5. SubSeq(k, 1, 0) = << >>
  BY <1>1
<1>6. SubSeq(c, 1, 1) = << Head(c) >>
  <2>1. 1 \in 1 .. Len(c) /\ Head(c) = c[1]
    BY <1>1, <1>2
  <2> QED BY <1>1, <2>1, SliceOfOne
<1>7. k[1] = Head(k) /\ SubSeq(k, 2, Len(k)) = Tail(k) /\ SubSeq(c, 2, Len(c)) = Tail(c)
  BY <1>1, <1>2
<1> QED BY <1>4, <1>5, <1>6, <1>7

-----------------------------------------------------------------------------
(* The row of leaves.  S: the pages that are leaves of the tree; a leaf p is for
   the keys from lo[p] up to hi[p], and the next one begins where it ends. *)
Shelf(e, a, b) ==
    /\ e \in Seq(Entry) /\ Arranged(e)
    /\ \A x \in Range(e) : a <= x.key /\ x.key < b

Places(S, lo, hi) ==
    /\ S \subseteq Page /\ lo \in [Page -> Bound] /\ hi \in [Page -> Bound]
    /\ \A p \in S : lo[p] < hi[p]

Follows(n, S, p, lo, hi) ==
    IF hi[p] = MaxKey + 1 THEN n[p].next = 0
    ELSE n[p].next \in S /\ lo[n[p].next] = hi[p]

Row(n, S, lo, hi) ==
    /\ Places(S, lo, hi)
    /\ FirstLeaf \in S /\ lo[FirstLeaf] = 0
    /\ \A p \in S : Shelf(n[p].entries, lo[p], hi[p]) /\ Follows(n, S, p, lo, hi)
    /\ \A p, q \in S : p # q => hi[p] <= lo[q] \/ hi[q] <= lo[p]

(* Everything that the leaves hold. *)
Stock(n, S) == UNION {Range(n[p].entries) : p \in S}

SameLeaf(x, y) == y.entries = x.entries /\ y.next = x.next

LEMMA RowParts ==
    ASSUME NEW n, NEW S, NEW lo, NEW hi, Row(n, S, lo, hi)
    PROVE  /\ S \subseteq Page /\ lo \in [Page -> Bound] /\ hi \in [Page -> Bound]
           /\ \A p \in Page : /\ lo[p] \in Int /\ 0 <= lo[p] /\ lo[p] <= MaxKey + 1
                              /\ hi[p] \in Int /\ 0 <= hi[p] /\ hi[p] <= MaxKey + 1
           /\ \A p \in S : p \in Page /\ lo[p] < hi[p]
           /\ MaxKey + 1 \in Int
<1>1. S \subseteq Page /\ lo \in [Page -> Bound] /\ hi \in [Page -> Bound]
  BY DEF Row, Places
<1>2. \A p \in Page : lo[p] \in Bound /\ hi[p] \in Bound
  BY <1>1
<1> QED BY <1>1, <1>2, BoundParts DEF Row, Places

(* What ends where a leaf begins is the leaf before it. *)
LEMMA OneBefore ==
    ASSUME NEW n, NEW S, NEW lo, NEW hi, Row(n, S, lo, hi),
           NEW p \in S, NEW r \in S, hi[p] = lo[r]
    PROVE  /\ p # r /\ n[p].next = r /\ r # FirstLeaf
           /\ \A q \in S : n[q].next = r => q = p
           /\ hi[p] # MaxKey + 1
<1>1. lo[p] < hi[p] /\ lo[r] < hi[r] /\ hi[r] <= MaxKey + 1 /\ 0 <= lo[p]
      /\ lo[p] \in Int /\ hi[p] \in Int /\ lo[r] \in Int /\ hi[r] \in Int /\ MaxKey + 1 \in Int
  BY RowParts
<1>2. p # r /\ hi[p] # MaxKey + 1
  BY <1>1
<1>3. n[p].next \in S /\ lo[n[p].next] = hi[p]
  BY <1>2 DEF Row, Follows
<1>4. n[p].next = r
  <2>1. PICK x \in S : x = n[p].next /\ lo[x] = lo[r]
    BY <1>3
  <2>2. lo[x] < hi[x] /\ hi[x] \in Int /\ lo[x] \in Int
    BY RowParts
  <2>3. x # r => hi[x] <= lo[r] \/ hi[r] <= lo[x]
    BY DEF Row
  <2> QED BY <1>1, <2>1, <2>2, <2>3
<1>5. r # FirstLeaf
  BY <1>1 DEF Row
<1>6. ASSUME NEW q \in S, n[q].next = r PROVE q = p
  <2>1. hi[q] = lo[r]
    <3>1. r # 0
      <4>1. r \in Page
        BY RowParts
      <4> QED BY <4>1, BTreeConstants DEF Page
    <3> QED BY <1>6, <3>1 DEF Row, Follows
  <2>2. lo[q] < hi[q] /\ hi[q] \in Int /\ lo[q] \in Int
    BY RowParts
  <2>3. q # p => hi[q] <= lo[p] \/ hi[p] <= lo[q]
    BY DEF Row
  <2> QED BY <1>1, <2>1, <2>2, <2>3
<1> QED BY <1>2, <1>4, <1>5, <1>6

LEMMA RowKept ==
    ASSUME NEW n, NEW S, NEW lo, NEW hi, Row(n, S, lo, hi), NEW n2, NEW lo2, NEW hi2,
           lo2 \in [Page -> Bound], hi2 \in [Page -> Bound],
           \A p \in S : SameLeaf(n[p], n2[p]) /\ lo2[p] = lo[p] /\ hi2[p] = hi[p]
    PROVE  Row(n2, S, lo2, hi2) /\ Stock(n2, S) = Stock(n, S)
<1>1. Places(S, lo2, hi2)
  BY DEF Row, Places
<1>2. \A p \in S : Follows(n2, S, p, lo2, hi2)
  BY DEF Row, Follows, SameLeaf
<1>3. \A p \in S : n2[p].entries = n[p].entries
  BY DEF SameLeaf
<1>4. \A p \in S : Shelf(n2[p].entries, lo2[p], hi2[p])
  BY <1>3 DEF Row
<1>5. FirstLeaf \in S /\ lo2[FirstLeaf] = 0
  BY DEF Row
<1>6. \A p, q \in S : p # q => hi2[p] <= lo2[q] \/ hi2[q] <= lo2[p]
  BY DEF Row
<1>7. Stock(n2, S) = Stock(n, S)
  BY <1>3 DEF Stock
<1> QED BY <1>1, <1>2, <1>4, <1>5, <1>6, <1>7 DEF Row

(* One leaf holds something else. *)
LEMMA RowRefilled ==
    ASSUME NEW n, NEW S, NEW lo, NEW hi, Row(n, S, lo, hi), NEW n2, NEW p \in S,
           \A q \in S : n2[q].next = n[q].next /\ (q # p => n2[q].entries = n[q].entries),
           Shelf(n2[p].entries, lo[p], hi[p])
    PROVE  Row(n2, S, lo, hi)
<1>1. \A q \in S : Follows(n2, S, q, lo, hi)
  BY DEF Row, Follows
<1>2. \A q \in S : Shelf(n2[q].entries, lo[q], hi[q])
  BY DEF Row
<1> QED BY <1>1, <1>2 DEF Row

(* Its upper part goes to a new leaf after it. *)
LEMMA RowSplit ==
    ASSUME NEW n, NEW S, NEW lo, NEW hi, Row(n, S, lo, hi), NEW n2, NEW p \in S,
           NEW q \in Page, q \notin S, NEW m \in Int, lo[p] < m, m < hi[p],
           \A s \in S : s # p => SameLeaf(n[s], n2[s]),
           n2[p].next = q, n2[q].next = n[p].next,
           Shelf(n2[p].entries, lo[p], m), Shelf(n2[q].entries, m, hi[p]),
           NEW lo2, lo2 = [lo EXCEPT ![q] = m],
           NEW hi2, hi2 = [hi EXCEPT ![p] = m, ![q] = hi[p]]
    PROVE  Row(n2, S \cup {q}, lo2, hi2)
<1>0. /\ p \in Page /\ lo \in [Page -> Bound] /\ hi \in [Page -> Bound] /\ S \subseteq Page
      /\ \A s \in Page : lo[s] \in Int /\ hi[s] \in Int
      /\ \A s \in S : lo[s] < hi[s]
      /\ 0 <= lo[p] /\ hi[p] <= MaxKey + 1 /\ MaxKey + 1 \in Int
  BY RowParts
<1>1. m \in Bound /\ m # MaxKey + 1
  BY <1>0, BoundParts DEF Bound
<1>2. p # q
  OBVIOUS
<1>3. lo2 \in [Page -> Bound] /\ hi2 \in [Page -> Bound]
  BY <1>0, <1>1
<1>4. /\ lo2[q] = m /\ hi2[q] = hi[p] /\ lo2[p] = lo[p] /\ hi2[p] = m
      /\ \A s \in S : lo2[s] = lo[s] /\ (s # p => hi2[s] = hi[s])
  BY <1>0, <1>2
<1>5. Places(S \cup {q}, lo2, hi2)
  BY <1>0, <1>3, <1>4 DEF Places
<1>6. FirstLeaf \in S \cup {q} /\ lo2[FirstLeaf] = 0
  BY <1>4 DEF Row
<1>7. \A s \in S \cup {q} : Shelf(n2[s].entries, lo2[s], hi2[s])
  <2> SUFFICES ASSUME NEW s \in S \cup {q} PROVE Shelf(n2[s].entries, lo2[s], hi2[s])
    OBVIOUS
  <2>1. CASE s = p
    BY <1>4, <2>1
  <2>2. CASE s = q
    BY <1>4, <2>2
  <2>3. CASE s # p /\ s # q
    <3>1. s \in S /\ Shelf(n[s].entries, lo[s], hi[s])
      BY <2>3 DEF Row
    <3>2. n2[s].entries = n[s].entries
      BY <2>3, <3>1 DEF SameLeaf
    <3> QED BY <1>4, <2>3, <3>1, <3>2
  <2> QED BY <2>1, <2>2, <2>3
<1>8. ASSUME NEW s \in S \cup {q} PROVE Follows(n2, S \cup {q}, s, lo2, hi2)
  <2>1. CASE s = p
    BY <1>1, <1>4, <2>1 DEF Follows
  <2>2. CASE s = q
    BY <1>4, <2>2 DEF Follows, Row
  <2>3. CASE s # p /\ s # q
    <3>1. s \in S /\ n2[s].next = n[s].next
      BY <2>3 DEF SameLeaf
    <3>2. Follows(n, S, s, lo, hi)
      BY <3>1 DEF Row
    <3> QED BY <1>4, <2>3, <3>1, <3>2 DEF Follows
  <2> QED BY <2>1, <2>2, <2>3
<1>9. ASSUME NEW s \in S \cup {q}, NEW t \in S \cup {q}, s # t
      PROVE  hi2[s] <= lo2[t] \/ hi2[t] <= lo2[s]
  <2>1. \A u \in S : u # p => hi[u] <= lo[p] \/ hi[p] <= lo[u]
    BY DEF Row
  <2>2. CASE s \in S /\ t \in S
    <3>1. hi[s] <= lo[t] \/ hi[t] <= lo[s]
      BY <1>9, <2>2 DEF Row
    <3>2. hi2[s] <= hi[s] /\ hi2[t] <= hi[t] /\ lo2[s] = lo[s] /\ lo2[t] = lo[t]
      BY <1>0, <1>4, <2>2
    <3>3. s \in Page /\ t \in Page /\ hi2[s] \in Int /\ hi2[t] \in Int
      BY <1>0, <1>4, <2>2
    <3> QED BY <1>0, <3>1, <3>2, <3>3
  <2>3. CASE s = q /\ t = p
    BY <1>0, <1>4, <2>3
  <2>4. CASE t = q /\ s = p
    BY <1>0, <1>4, <2>4
  <2>5. CASE s = q /\ t \in S /\ t # p
    BY <1>0, <1>4, <2>1, <2>5
  <2>6. CASE t = q /\ s \in S /\ s # p
    BY <1>0, <1>4, <2>1, <2>6
  <2> QED BY <1>9, <2>2, <2>3, <2>4, <2>5, <2>6
<1> QED BY <1>5, <1>6, <1>7, <1>8, <1>9 DEF Row

(* Two leaves in a row share what they hold. *)
LEMMA RowShared ==
    ASSUME NEW n, NEW S, NEW lo, NEW hi, Row(n, S, lo, hi), NEW n2, NEW p \in S, NEW r \in S,
           hi[p] = lo[r], NEW m \in Int, lo[p] < m, m < hi[r],
           \A s \in S : s # p /\ s # r => SameLeaf(n[s], n2[s]),
           n2[p].next = r, n2[r].next = n[r].next,
           Shelf(n2[p].entries, lo[p], m), Shelf(n2[r].entries, m, hi[r]),
           NEW lo2, lo2 = [lo EXCEPT ![r] = m], NEW hi2, hi2 = [hi EXCEPT ![p] = m]
    PROVE  Row(n2, S, lo2, hi2)
<1>0. /\ p \in Page /\ r \in Page /\ lo \in [Page -> Bound] /\ hi \in [Page -> Bound]
      /\ S \subseteq Page /\ \A s \in Page : lo[s] \in Int /\ hi[s] \in Int
      /\ \A s \in S : lo[s] < hi[s]
      /\ 0 <= lo[p] /\ hi[r] <= MaxKey + 1 /\ MaxKey + 1 \in Int
  BY RowParts
<1>1. m \in Bound /\ m # MaxKey + 1
  BY <1>0, BoundParts DEF Bound
<1>2. p # r /\ n[p].next = r /\ r # FirstLeaf /\ \A q \in S : n[q].next = r => q = p
  BY OneBefore
<1>3. lo2 \in [Page -> Bound] /\ hi2 \in [Page -> Bound]
  BY <1>0, <1>1
<1>4. /\ lo2[r] = m /\ hi2[r] = hi[r] /\ lo2[p] = lo[p] /\ hi2[p] = m
      /\ \A s \in S : (s # r => lo2[s] = lo[s]) /\ (s # p => hi2[s] = hi[s])
  BY <1>0, <1>2
<1>5. Places(S, lo2, hi2)
  BY <1>0, <1>3, <1>4 DEF Places
<1>6. FirstLeaf \in S /\ lo2[FirstLeaf] = 0
  BY <1>2, <1>4 DEF Row
<1>7. \A s \in S : Shelf(n2[s].entries, lo2[s], hi2[s])
  BY <1>4 DEF Row, SameLeaf
<1>8. ASSUME NEW s \in S PROVE Follows(n2, S, s, lo2, hi2)
  <2>1. CASE s = p
    BY <1>1, <1>4, <2>1 DEF Follows
  <2>2. CASE s # p
    <3>1. n2[s].next = n[s].next /\ Follows(n, S, s, lo, hi) /\ hi2[s] = hi[s]
      BY <1>4, <2>2 DEF Row, SameLeaf
    <3>2. n[s].next # r
      BY <1>2, <2>2
    <3> QED BY <1>4, <3>1, <3>2 DEF Follows
  <2> QED BY <2>1, <2>2
<1>9. ASSUME NEW s \in S, NEW t \in S, s # t
      PROVE  hi2[s] <= lo2[t] \/ hi2[t] <= lo2[s]
  <2>0. \A u \in S : u \in Page /\ lo2[u] \in Int /\ hi2[u] \in Int
    BY <1>0, <1>4
  <2>1. \A u \in S : u # p /\ u # r => (hi[u] <= lo[p] \/ hi[r] <= lo[u])
    <3> SUFFICES ASSUME NEW u \in S, u # p, u # r PROVE hi[u] <= lo[p] \/ hi[r] <= lo[u]
      OBVIOUS
    <3>1. hi[u] <= lo[p] \/ hi[p] <= lo[u]
      BY DEF Row
    <3>2. hi[u] <= lo[r] \/ hi[r] <= lo[u]
      BY DEF Row
    <3>3. u \in Page /\ lo[u] < hi[u]
      BY <1>0
    <3> QED BY <1>0, <3>1, <3>2, <3>3
  <2>2. CASE s \notin {p, r} /\ t \notin {p, r}
    <3>1. hi[s] <= lo[t] \/ hi[t] <= lo[s]
      BY <1>9 DEF Row
    <3> QED BY <1>4, <2>2, <3>1
  <2>3. CASE s \in {p, r} /\ t \in {p, r}
    BY <1>0, <1>4, <1>9, <2>3
  <2>4. CASE s \in {p, r} /\ t \notin {p, r}
    <3>1. hi[t] <= lo[p] \/ hi[r] <= lo[t]
      BY <2>1, <2>4
    <3>2. lo2[t] = lo[t] /\ hi2[t] = hi[t] /\ t \in Page
      BY <1>0, <1>4, <2>4
    <3>3. lo[p] <= lo2[s] /\ hi2[s] <= hi[r] /\ lo2[s] \in Int /\ hi2[s] \in Int
      BY <1>0, <1>4, <2>4
    <3> QED BY <1>0, <3>1, <3>2, <3>3
  <2>5. CASE t \in {p, r} /\ s \notin {p, r}
    <3>1. hi[s] <= lo[p] \/ hi[r] <= lo[s]
      BY <2>1, <2>5
    <3>2. lo2[s] = lo[s] /\ hi2[s] = hi[s] /\ s \in Page
      BY <1>0, <1>4, <2>5
    <3>3. lo[p] <= lo2[t] /\ hi2[t] <= hi[r] /\ lo2[t] \in Int /\ hi2[t] \in Int
      BY <1>0, <1>4, <2>5
    <3> QED BY <1>0, <3>1, <3>2, <3>3
  <2> QED BY <2>2, <2>3, <2>4, <2>5
<1> QED BY <1>5, <1>6, <1>7, <1>8, <1>9 DEF Row

(* The second of two leaves in a row is emptied into the first. *)
LEMMA RowMerged ==
    ASSUME NEW n, NEW S, NEW lo, NEW hi, Row(n, S, lo, hi), NEW n2, NEW p \in S, NEW r \in S,
           hi[p] = lo[r],
           \A s \in S : s # p /\ s # r => SameLeaf(n[s], n2[s]),
           n2[p].next = n[r].next, Shelf(n2[p].entries, lo[p], hi[r]),
           NEW hi2, hi2 = [hi EXCEPT ![p] = hi[r]]
    PROVE  Row(n2, S \ {r}, lo, hi2)
<1>0. /\ p \in Page /\ r \in Page /\ lo \in [Page -> Bound] /\ hi \in [Page -> Bound]
      /\ S \subseteq Page /\ \A s \in Page : lo[s] \in Int /\ hi[s] \in Int
      /\ \A s \in S : lo[s] < hi[s]
  BY RowParts
<1>2. p # r /\ n[p].next = r /\ r # FirstLeaf /\ \A q \in S : n[q].next = r => q = p
  BY OneBefore
<1>3. hi2 \in [Page -> Bound]
  BY <1>0
<1>4. hi2[p] = hi[r] /\ \A s \in S : s # p => hi2[s] = hi[s]
  BY <1>0, <1>2
<1>5. Places(S \ {r}, lo, hi2)
  BY <1>0, <1>3, <1>4 DEF Places
<1>6. FirstLeaf \in S \ {r} /\ lo[FirstLeaf] = 0
  BY <1>2 DEF Row
<1>7. \A s \in S \ {r} : Shelf(n2[s].entries, lo[s], hi2[s])
  BY <1>4 DEF Row, SameLeaf
<1>8. ASSUME NEW s \in S \ {r} PROVE Follows(n2, S \ {r}, s, lo, hi2)
  <2>1. CASE s = p
    <3>1. Follows(n, S, r, lo, hi)
      BY DEF Row
    <3>2. n[r].next # r
      BY <1>2
    <3> QED BY <1>4, <2>1, <3>1, <3>2 DEF Follows
  <2>2. CASE s # p
    <3>1. n2[s].next = n[s].next /\ Follows(n, S, s, lo, hi) /\ hi2[s] = hi[s]
      BY <1>4, <2>2 DEF Row, SameLeaf
    <3>2. n[s].next # r
      BY <1>2, <2>2
    <3> QED BY <3>1, <3>2 DEF Follows
  <2> QED BY <2>1, <2>2
<1>9. ASSUME NEW s \in S \ {r}, NEW t \in S \ {r}, s # t
      PROVE  hi2[s] <= lo[t] \/ hi2[t] <= lo[s]
  <2>1. \A u \in S : u # p /\ u # r => (hi[u] <= lo[p] \/ hi[r] <= lo[u])
    <3> SUFFICES ASSUME NEW u \in S, u # p, u # r PROVE hi[u] <= lo[p] \/ hi[r] <= lo[u]
      OBVIOUS
    <3>1. hi[u] <= lo[p] \/ hi[p] <= lo[u]
      BY DEF Row
    <3>2. hi[u] <= lo[r] \/ hi[r] <= lo[u]
      BY DEF Row
    <3>3. u \in Page /\ lo[u] < hi[u]
      BY <1>0
    <3> QED BY <1>0, <3>1, <3>2, <3>3
  <2>2. CASE s # p /\ t # p
    <3>1. hi[s] <= lo[t] \/ hi[t] <= lo[s]
      BY <1>9 DEF Row
    <3> QED BY <1>4, <2>2, <3>1
  <2>3. CASE s = p
    BY <1>4, <1>9, <2>1, <2>3
  <2>4. CASE t = p
    BY <1>4, <1>9, <2>1, <2>4
  <2> QED BY <2>2, <2>3, <2>4
<1> QED BY <1>5, <1>6, <1>7, <1>8, <1>9 DEF Row

-----------------------------------------------------------------------------
(* What a walk along the row gathers. *)
LeafPage(n, p) == p \in Page /\ n[p].type = "leaf"

Gathers(f, n) ==
    f = [p \in 0 .. MaxPage |->
           IF ~ LeafPage(n, p) THEN << >> ELSE n[p].entries \o f[n[p].next]]

(* Every leaf is in the row, or leads into it. *)
RowReached(n, S) ==
    /\ \A p \in S : n[p].type = "leaf"
    /\ \A p \in Page : n[p].type = "leaf" => p \in S \/ n[p].next \in S \cup {0}

(* What each leaf has, strung together along the leaves. *)
Strings(f, n, piece) ==
    f = [p \in 0 .. MaxPage |->
           IF ~ LeafPage(n, p) THEN << >> ELSE piece[p] \o f[n[p].next]]

StringsFrom(f, n, piece, X, S, lo, m) ==
    /\ f \in [0 .. MaxPage -> Seq(X)] /\ f[0] = << >>
    /\ \A p \in S : lo[p] >= m => f[p] = piece[p] \o f[n[p].next]

LEMMA NextInRow ==
    ASSUME NEW n, NEW S, NEW lo, NEW hi, Row(n, S, lo, hi), NEW p \in S
    PROVE  /\ n[p].next \in S \cup {0} /\ n[p].next \in 0 .. MaxPage
           /\ n[p].next = 0 <=> hi[p] = MaxKey + 1
           /\ n[p].next # 0 => n[p].next \in S /\ lo[n[p].next] = hi[p]
           /\ n[p].next # p
           /\ n[p].entries \in Seq(Entry)
<1>1. Follows(n, S, p, lo, hi) /\ n[p].entries \in Seq(Entry)
  BY DEF Row, Shelf
<1>2. S \subseteq Page /\ Page \subseteq 0 .. MaxPage /\ 0 \notin Page /\ 0 \in 0 .. MaxPage
  BY RowParts, BTreeConstants DEF Page
<1>3. lo[p] < hi[p] /\ lo[p] \in Int /\ hi[p] \in Int /\ p \in Page
  BY RowParts
<1>4. CASE hi[p] = MaxKey + 1
  <2>1. n[p].next = 0
    BY <1>1, <1>4 DEF Follows
  <2> QED BY <1>1, <1>2, <1>3, <1>4, <2>1
<1>5. CASE hi[p] # MaxKey + 1
  <2>1. n[p].next \in S /\ lo[n[p].next] = hi[p]
    BY <1>1, <1>5 DEF Follows
  <2>2. n[p].next # p
    BY <1>3, <2>1
  <2> QED BY <1>1, <1>2, <1>5, <2>1, <2>2
<1> QED BY <1>4, <1>5

LEMMA StringExists ==
    ASSUME NEW n, NEW S, NEW lo, NEW hi, Row(n, S, lo, hi), RowReached(n, S),
           NEW X, NEW piece, \A p \in S : piece[p] \in Seq(X)
    PROVE  \E f : Strings(f, n, piece)
<1>1. PICK M : M = {m \in 0 .. MaxKey + 1 : \E f : StringsFrom(f, n, piece, X, S, lo, m)}
  OBVIOUS
<1>2. MaxKey \in Nat /\ \A p \in S : p \in Page /\ lo[p] \in Int /\ hi[p] \in Int /\ 0 <= lo[p]
                                     /\ lo[p] < hi[p] /\ hi[p] <= MaxKey + 1
  BY RowParts, BoundParts
<1>3. Page \subseteq 0 .. MaxPage /\ 0 \in 0 .. MaxPage /\ 0 \notin Page
  BY BTreeConstants DEF Page
<1>4. MaxKey + 1 \in M
  <2>1. PICK f : f = [p \in 0 .. MaxPage |-> << >>]
    OBVIOUS
  <2>2. f \in [0 .. MaxPage -> Seq(X)] /\ f[0] = << >>
    BY <1>3, <2>1
  <2>3. \A p \in S : ~ lo[p] >= MaxKey + 1
    BY <1>2
  <2>4. StringsFrom(f, n, piece, X, S, lo, MaxKey + 1)
    BY <2>2, <2>3 DEF StringsFrom
  <2> QED BY <1>1, <1>2, <2>4
<1>5. PICK m \in M : \A x \in M : m <= x
  <2>1. M \subseteq Nat /\ M # {}
    BY <1>1, <1>2, <1>4
  <2> QED BY <2>1, LeastNatural
<1>6. m \in 0 .. MaxKey + 1
  BY <1>1
<1>7. PICK f : StringsFrom(f, n, piece, X, S, lo, m)
  BY <1>1, <1>5
<1>8. f \in [0 .. MaxPage -> Seq(X)] /\ f[0] = << >>
      /\ \A p \in S : lo[p] >= m => f[p] = piece[p] \o f[n[p].next]
  BY <1>7 DEF StringsFrom
<1>9. \A p \in S : piece[p] \o f[n[p].next] \in Seq(X)
  <2> SUFFICES ASSUME NEW p \in S PROVE piece[p] \o f[n[p].next] \in Seq(X)
    OBVIOUS
  <2>1. n[p].next \in 0 .. MaxPage /\ piece[p] \in Seq(X)
    BY NextInRow
  <2>2. f[n[p].next] \in Seq(X)
    BY <1>8, <2>1
  <2> QED BY <2>1, <2>2
<1>10. m = 0
  <2> SUFFICES ASSUME m # 0 PROVE FALSE
    OBVIOUS
  <2>1. PICK d \in 0 .. MaxKey + 1 : d = m - 1 /\ d < m
    BY <1>2, <1>6
  <2>2. PICK g : g = [p \in 0 .. MaxPage |->
                        IF p \in S /\ lo[p] = d THEN piece[p] \o f[n[p].next] ELSE f[p]]
    OBVIOUS
  <2>3. g \in [0 .. MaxPage -> Seq(X)] /\ g[0] = << >>
    BY <1>2, <1>3, <1>8, <1>9, <2>2
  <2>4. ASSUME NEW p \in S, lo[p] >= d PROVE g[p] = piece[p] \o g[n[p].next]
    <3>1. n[p].next \in 0 .. MaxPage /\ (n[p].next # 0 => n[p].next \in S /\ lo[n[p].next] = hi[p])
      BY NextInRow
    <3>2. p \in 0 .. MaxPage
      BY <1>2, <1>3
    <3>3. g[n[p].next] = f[n[p].next]
      <4>1. CASE n[p].next = 0
        BY <1>2, <1>3, <2>2, <4>1
      <4>2. CASE n[p].next # 0
        <5>1. lo[n[p].next] # d
          BY <1>2, <2>1, <2>4, <3>1, <4>2
        <5> QED BY <2>2, <3>1, <5>1
      <4> QED BY <4>1, <4>2
    <3>4. CASE lo[p] = d
      BY <2>2, <3>2, <3>3, <3>4
    <3>5. CASE lo[p] # d
      <4>1. lo[p] >= m
        <5>1. lo[p] \in Int /\ m \in Int /\ lo[p] > d
          BY <1>2, <1>6, <2>1, <2>4, <3>5
        <5> QED BY <2>1, <5>1
      <4> QED BY <1>8, <2>2, <3>2, <3>3, <3>5, <4>1
    <3> QED BY <3>4, <3>5
  <2>5. StringsFrom(g, n, piece, X, S, lo, d)
    BY <2>3, <2>4 DEF StringsFrom
  <2>6. d \in M
    BY <1>1, <2>5
  <2> QED BY <1>5, <1>6, <2>1, <2>6
<1>11. \A p \in S : f[p] = piece[p] \o f[n[p].next]
  BY <1>2, <1>8, <1>10
<1>12. PICK g : g = [p \in 0 .. MaxPage |->
                       IF ~ LeafPage(n, p) THEN << >> ELSE piece[p] \o f[n[p].next]]
  OBVIOUS
<1>13. \A p \in S \cup {0} : g[p] = f[p]
  <2>1. \A p \in S : p \in 0 .. MaxPage /\ LeafPage(n, p)
    BY <1>2, <1>3 DEF LeafPage, RowReached
  <2>2. ~ LeafPage(n, 0)
    BY <1>3 DEF LeafPage
  <2> QED BY <1>3, <1>8, <1>11, <1>12, <2>1, <2>2
<1>14. \A p \in 0 .. MaxPage : LeafPage(n, p) => g[n[p].next] = f[n[p].next]
  <2> SUFFICES ASSUME NEW p \in 0 .. MaxPage, LeafPage(n, p) PROVE g[n[p].next] = f[n[p].next]
    OBVIOUS
  <2>1. n[p].next \in S \cup {0}
    BY NextInRow DEF LeafPage, RowReached
  <2> QED BY <1>13, <2>1
<1>15. g = [p \in 0 .. MaxPage |->
              IF ~ LeafPage(n, p) THEN << >> ELSE piece[p] \o g[n[p].next]]
  BY <1>12, <1>14
<1> QED BY <1>15 DEF Strings

LEMMA GatherExists ==
    ASSUME NEW n, NEW S, NEW lo, NEW hi, Row(n, S, lo, hi), RowReached(n, S)
    PROVE  \E f : Gathers(f, n)
<1>1. PICK piece : piece = [p \in Page |-> n[p].entries]
  OBVIOUS
<1>2. \A p \in S : piece[p] \in Seq(Entry)
  BY <1>1, NextInRow, RowParts
<1>3. PICK f : Strings(f, n, piece)
  BY <1>2, StringExists
<1>4. \A p \in 0 .. MaxPage : LeafPage(n, p) => piece[p] = n[p].entries
  BY <1>1 DEF LeafPage
<1>5. Gathers(f, n)
  BY <1>3, <1>4 DEF Strings, Gathers
<1> QED BY <1>5

(* The entries of the leaves from p on. *)
Beyond(n, S, lo, p) == UNION {Range(n[q].entries) : q \in {r \in S : lo[r] >= lo[p]}}

Lists(c, n, S, lo, p) ==
    /\ c \in Seq(Entry) /\ Arranged(c) /\ Range(c) = Beyond(n, S, lo, p)
    /\ \A x \in Range(c) : lo[p] <= x.key

LEMMA LastInRow ==
    ASSUME NEW n, NEW S, NEW lo, NEW hi, Row(n, S, lo, hi), NEW X, X \subseteq S, X # {}
    PROVE  \E p \in X : \A q \in X : lo[q] <= lo[p]
<1>1. MaxKey \in Nat /\ \A p \in S : p \in Page /\ lo[p] \in Int /\ hi[p] \in Int /\ 0 <= lo[p]
                                     /\ lo[p] < hi[p] /\ hi[p] <= MaxKey + 1
  BY RowParts, BoundParts
<1>2. PICK D : D = {d \in Nat : \E q \in X : d = MaxKey + 1 - lo[q]}
  OBVIOUS
<1>3. \A q \in X : MaxKey + 1 - lo[q] \in D
  <2> SUFFICES ASSUME NEW q \in X PROVE MaxKey + 1 - lo[q] \in D
    OBVIOUS
  <2>1. q \in S
    OBVIOUS
  <2>2. MaxKey + 1 - lo[q] \in Nat
    BY <1>1, <2>1
  <2> QED BY <1>2, <2>2
<1>4. D \subseteq Nat /\ D # {}
  BY <1>2, <1>3
<1>5. PICK d \in D : \A e \in D : d <= e
  BY <1>4, LeastNatural
<1>6. PICK p \in X : d = MaxKey + 1 - lo[p]
  BY <1>2, <1>5
<1>7. \A q \in X : lo[q] <= lo[p]
  <2> SUFFICES ASSUME NEW q \in X PROVE lo[q] <= lo[p]
    OBVIOUS
  <2>1. d <= MaxKey + 1 - lo[q]
    BY <1>3, <1>5
  <2>2. p \in S /\ q \in S
    OBVIOUS
  <2> QED BY <1>1, <1>6, <2>1, <2>2
<1> QED BY <1>7

LEMMA GatheredLists ==
    ASSUME NEW n, NEW S, NEW lo, NEW hi, Row(n, S, lo, hi), RowReached(n, S),
           NEW f, Gathers(f, n)
    PROVE  \A p \in S : Lists(f[p], n, S, lo, p)
<1>1. PICK X : X = {p \in S : ~ Lists(f[p], n, S, lo, p)}
  OBVIOUS
<1>2. SUFFICES ASSUME X # {} PROVE FALSE
  BY <1>1
<1>3. MaxKey \in Nat /\ \A p \in S : p \in Page /\ lo[p] \in Int /\ hi[p] \in Int /\ 0 <= lo[p]
                                     /\ lo[p] < hi[p] /\ hi[p] <= MaxKey + 1
  BY RowParts, BoundParts
<1>4. PICK p \in X : \A q \in X : lo[q] <= lo[p]
  <2>1. X \subseteq S
    BY <1>1
  <2> QED BY <1>2, <2>1, LastInRow
<1>5. p \in S /\ p \in Page /\ p \in 0 .. MaxPage /\ LeafPage(n, p) /\ 0 \in 0 .. MaxPage /\ ~ LeafPage(n, 0)
  BY <1>1, <1>3, BTreeConstants DEF Page, LeafPage, RowReached
<1>6. f[p] = n[p].entries \o f[n[p].next] /\ f[0] = << >>
  BY <1>5 DEF Gathers
<1>7. PICK e, t, c : e = n[p].entries /\ t = f[n[p].next] /\ c = e \o t
  OBVIOUS
<1>8. e \in Seq(Entry) /\ Arranged(e) /\ \A x \in Range(e) : lo[p] <= x.key /\ x.key < hi[p]
  BY <1>5, <1>7 DEF Row, Shelf
<1>9. \A q \in S : q # p => (lo[q] >= lo[p] <=> lo[q] >= hi[p])
  <2> SUFFICES ASSUME NEW q \in S, q # p PROVE lo[q] >= lo[p] <=> lo[q] >= hi[p]
    OBVIOUS
  <2>1. hi[p] <= lo[q] \/ hi[q] <= lo[p]
    BY <1>5 DEF Row
  <2> QED BY <1>3, <1>5, <2>1
<1>10. t \in Seq(Entry) /\ Arranged(t)
       /\ Range(t) = UNION {Range(n[q].entries) : q \in {r \in S : lo[r] >= hi[p]}}
       /\ \A x \in Range(t) : hi[p] <= x.key
  <2>1. CASE n[p].next = 0
    <3>1. t = << >> /\ Range(t) = {} /\ t \in Seq(Entry) /\ Len(t) = 0
      BY <1>6, <1>7, <2>1, EmptyParts
    <3>2. hi[p] = MaxKey + 1
      BY <1>5, <2>1, NextInRow
    <3>3. {r \in S : lo[r] >= hi[p]} = {}
      BY <1>3, <3>2
    <3>4. Arranged(t)
      BY <3>1 DEF Arranged
    <3> QED BY <3>1, <3>3, <3>4
  <2>2. CASE n[p].next # 0
    <3>1. PICK r \in S : r = n[p].next /\ lo[r] = hi[p]
      BY <1>5, <2>2, NextInRow
    <3>2. r \notin X
      <4>1. lo[p] < lo[r] /\ lo[p] \in Int /\ lo[r] \in Int
        BY <1>3, <1>5, <3>1
      <4>2. ~ lo[r] <= lo[p]
        BY <4>1
      <4> QED BY <1>4, <4>2
    <3>3. Lists(t, n, S, lo, r)
      BY <1>1, <1>7, <3>1, <3>2
    <3> QED BY <3>1, <3>3 DEF Lists, Beyond
  <2> QED BY <2>1, <2>2
<1>11. \A x \in Range(e), y \in Range(t) : x.key < y.key
  <2> SUFFICES ASSUME NEW x \in Range(e), NEW y \in Range(t) PROVE x.key < y.key
    OBVIOUS
  <2>1. x.key < hi[p] /\ hi[p] <= y.key /\ x.key \in Int /\ y.key \in Int
    BY <1>8, <1>10, EntryParts
  <2> QED BY <1>3, <1>5, <2>1
<1>12. c \in Seq(Entry) /\ Arranged(c) /\ Range(c) = Range(e) \cup Range(t)
  BY <1>7, <1>8, <1>10, <1>11, JoinArranged
<1>13. Range(c) = Beyond(n, S, lo, p)
  <2>1. {r \in S : lo[r] >= lo[p]} = {p} \cup {r \in S : lo[r] >= hi[p]}
    <3>1. \A r \in S : lo[r] >= lo[p] <=> r = p \/ lo[r] >= hi[p]
      BY <1>3, <1>5, <1>9
    <3> QED BY <1>5, <3>1
  <2>2. Range(e) = UNION {Range(n[q].entries) : q \in {p}}
    BY <1>7
  <2> QED BY <1>10, <1>12, <2>1, <2>2 DEF Beyond
<1>14. \A x \in Range(c) : lo[p] <= x.key
  <2> SUFFICES ASSUME NEW x \in Range(c) PROVE lo[p] <= x.key
    OBVIOUS
  <2>1. CASE x \in Range(e)
    BY <1>8, <2>1
  <2>2. CASE x \in Range(t)
    <3>1. hi[p] <= x.key /\ x.key \in Int
      BY <1>10, <2>2, EntryParts
    <3> QED BY <1>3, <1>5, <3>1
  <2> QED BY <1>12, <2>1, <2>2
<1>15. Lists(f[p], n, S, lo, p)
  BY <1>6, <1>7, <1>12, <1>13, <1>14 DEF Lists
<1> QED BY <1>1, <1>4, <1>15

(* From the first leaf on, the walk meets every entry, in the order of the keys. *)
LEMMA RowListed ==
    ASSUME NEW S, NEW lo, NEW hi, Row(node, S, lo, hi), RowReached(node, S)
    PROVE  /\ \A p \in S : Lists(EntriesFrom[p], node, S, lo, p)
           /\ Contents \in Seq(Entry) /\ Arranged(Contents) /\ Range(Contents) = Stock(node, S)
           /\ Gathers(EntriesFrom, node)
<1>1. PICK f : Gathers(f, node)
  BY GatherExists
<1>2. Gathers(EntriesFrom, node)
  <2>1. \A p : LeafPage(node, p) <=> IsLeaf(p)
    BY DEF LeafPage, IsLeaf
  <2>2. f = [p \in 0 .. MaxPage |-> IF ~ IsLeaf(p) THEN << >> ELSE node[p].entries \o f[node[p].next]]
    BY <1>1, <2>1 DEF Gathers
  <2>3. EntriesFrom = CHOOSE g : g = [p \in 0 .. MaxPage |->
                         IF ~ IsLeaf(p) THEN << >> ELSE node[p].entries \o g[node[p].next]]
    BY DEF EntriesFrom
  <2>4. EntriesFrom = [p \in 0 .. MaxPage |->
                         IF ~ IsLeaf(p) THEN << >> ELSE node[p].entries \o EntriesFrom[node[p].next]]
    BY <2>2, <2>3
  <2> QED BY <2>1, <2>4 DEF Gathers
<1>3. \A p \in S : Lists(EntriesFrom[p], node, S, lo, p)
  BY <1>2, GatheredLists
<1>4. FirstLeaf \in S /\ \A q \in S : lo[q] >= lo[FirstLeaf]
  <2>1. FirstLeaf \in S /\ lo[FirstLeaf] = 0
    BY DEF Row
  <2> QED BY <2>1, RowParts
<1>5. Beyond(node, S, lo, FirstLeaf) = Stock(node, S)
  <2>1. {r \in S : lo[r] >= lo[FirstLeaf]} = S
    BY <1>4
  <2> QED BY <2>1 DEF Beyond, Stock
<1> QED BY <1>2, <1>3, <1>4, <1>5 DEF Lists, Contents

-----------------------------------------------------------------------------
(* The pages of the tree: the row of leaves and the nodes above it.  The bounds
   that the keys of the nodes give to their children, from and upto, are those
   of the children, lo and hi, but for the children that a call is about. *)
Leaves(n, live) == {p \in live : n[p].type = "leaf"}

Fenced(n, live, lo, hi, from, upto) ==
    \A p \in live : n[p].type = "internal" =>
        Fence(n[p].keys, n[p].children, lo[p], hi[p], from, upto)

Pages(n, live, top, lo, hi, from, upto) ==
    /\ live \subseteq Page /\ top \in live
    /\ lo \in [Page -> Bound] /\ hi \in [Page -> Bound]
    /\ from \in [Page -> Bound] /\ upto \in [Page -> Bound]
    /\ \A p \in live : lo[p] < hi[p]
    /\ Row(n, Leaves(n, live), lo, hi)
    /\ Fenced(n, live, lo, hi, from, upto)
    /\ from[top] = 0 /\ upto[top] = MaxKey + 1

(* A node has been split, and the one above it does not know of right yet. *)
Splits(n, l, lo, hi, upto, left) ==
    /\ left # l.right /\ l.right \in Page
    /\ Splitting(l) => left = l.page
    /\ l.pc = "parent" => left \in Range(n[l.page].children)
    /\ lo[l.right] = l.sep /\ hi[left] = l.sep /\ upto = [hi EXCEPT ![left] = hi[l.right]]

(* Two leaves have shared, and the node above them has the old separator. *)
Shifted(n, l, lo, hi, from, upto) ==
    /\ Neighbours(n, l) /\ n[l.page].type = "leaf" /\ n[l.right].type = "leaf"
    /\ lo[l.right] = l.sep /\ hi[l.page] = l.sep
    /\ from = [lo EXCEPT ![l.right] = n[l.parent].keys[l.slot]]
    /\ upto = [hi EXCEPT ![l.page] = n[l.parent].keys[l.slot]]

Sight(n, l, lo, hi, from, upto) ==
    /\ l.pc # "separator" => from = lo
    /\ ~ Promoting(l) /\ ~ Merging(l) /\ l.pc # "separator" => upto = hi
    /\ Promoting(l) => \E left \in Live(n, l) : Splits(n, l, lo, hi, upto, left)
    /\ Merging(l) => upto = [hi EXCEPT ![l.page] = lo[l.right]] /\ hi[l.page] = hi[l.right]
    /\ l.pc = "separator" => Shifted(n, l, lo, hi, from, upto)

(* A descent is at the page for its key. *)
Seek(n, l, lo, hi) ==
    l.pc \in {"find", "insert", "delete"} =>
        l.page \in Live(n, l) /\ lo[l.page] <= l.key /\ l.key < hi[l.page]

(* What is on its way out. *)
Emptied(n, l) ==
    /\ Merging(l) /\ n[l.right].type = "leaf" =>
          n[l.page].type = "leaf" /\ n[l.right].next = n[l.page].next
    /\ Collapsing(l) => l.parent \in Page /\ n[l.parent].type = "internal"

Order(n, rt, l, lo, hi, from, upto) ==
    /\ Pages(n, Live(n, l), Top(rt, l), lo, hi, from, upto)
    /\ Sight(n, l, lo, hi, from, upto) /\ Seek(n, l, lo, hi) /\ Emptied(n, l)

InOrder(n, rt, l) == \E lo, hi, from, upto : Order(n, rt, l, lo, hi, from, upto)

Ordered == run[TheWriter].pc # "failed" => InOrder(node, root, run[TheWriter])

(* What the tree holds. *)
Book(n, l) == Stock(n, Leaves(n, Live(n, l)))

Like(x, y) ==
    /\ y.type = x.type
    /\ x.type = "internal" => y.keys = x.keys /\ y.children = x.children
    /\ x.type = "leaf" => SameLeaf(x, y)

LEMMA LikeItself == \A x : Like(x, x)
BY DEF Like, SameLeaf

(* The nodes above the leaves have changed, and their bounds. *)
LEMMA UpperChange ==
    ASSUME NEW n, NEW live, NEW top, NEW lo, NEW hi, NEW from, NEW upto,
           Pages(n, live, top, lo, hi, from, upto),
           NEW n2, NEW live2, NEW top2, NEW lo2, NEW hi2, NEW from2, NEW upto2,
           live2 \subseteq Page, top2 \in live2,
           lo2 \in [Page -> Bound], hi2 \in [Page -> Bound],
           from2 \in [Page -> Bound], upto2 \in [Page -> Bound],
           \A p \in live2 : lo2[p] < hi2[p],
           Leaves(n2, live2) = Leaves(n, live),
           \A p \in Leaves(n, live) : SameLeaf(n[p], n2[p]) /\ lo2[p] = lo[p] /\ hi2[p] = hi[p],
           Fenced(n2, live2, lo2, hi2, from2, upto2),
           from2[top2] = 0, upto2[top2] = MaxKey + 1
    PROVE  /\ Pages(n2, live2, top2, lo2, hi2, from2, upto2)
           /\ Stock(n2, Leaves(n2, live2)) = Stock(n, Leaves(n, live))
<1>1. Row(n, Leaves(n, live), lo, hi)
  BY DEF Pages
<1>2. Row(n2, Leaves(n, live), lo2, hi2) /\ Stock(n2, Leaves(n, live)) = Stock(n, Leaves(n, live))
  BY <1>1, RowKept
<1> QED BY <1>2 DEF Pages

(* Nothing has changed that the order depends on. *)
LEMMA StillOrder ==
    ASSUME NEW n, NEW rt, NEW l, NEW lo, NEW hi, NEW from, NEW upto,
           Order(n, rt, l, lo, hi, from, upto),
           NEW n2, NEW rt2, NEW l2, Live(n2, l2) = Live(n, l), Top(rt2, l2) = Top(rt, l),
           \A p \in Live(n, l) : Like(n[p], n2[p]),
           Sight(n2, l2, lo, hi, from, upto), Seek(n2, l2, lo, hi), Emptied(n2, l2)
    PROVE  Order(n2, rt2, l2, lo, hi, from, upto) /\ Book(n2, l2) = Book(n, l)
<1>1. PICK live, top : live = Live(n, l) /\ top = Top(rt, l)
  OBVIOUS
<1>2. Pages(n, live, top, lo, hi, from, upto)
  BY <1>1 DEF Order
<1>3. Leaves(n2, live) = Leaves(n, live)
  BY <1>1 DEF Leaves, Like
<1>4. \A p \in Leaves(n, live) : SameLeaf(n[p], n2[p])
  BY <1>1 DEF Leaves, Like
<1>5. Fenced(n2, live, lo, hi, from, upto)
  BY <1>1, <1>2 DEF Fenced, Pages, Like
<1>6. /\ Pages(n2, live, top, lo, hi, from, upto)
      /\ Stock(n2, Leaves(n2, live)) = Stock(n, Leaves(n, live))
  <2>1. /\ live \subseteq Page /\ top \in live
        /\ lo \in [Page -> Bound] /\ hi \in [Page -> Bound]
        /\ from \in [Page -> Bound] /\ upto \in [Page -> Bound]
        /\ \A p \in live : lo[p] < hi[p]
        /\ from[top] = 0 /\ upto[top] = MaxKey + 1
    BY <1>2 DEF Pages
  <2> QED BY <1>2, <1>3, <1>4, <1>5, <2>1, UpperChange
<1> QED BY <1>1, <1>6 DEF Order, Book

(* The tree that the writer sees, node by node. *)
Shaped(n) == n \in [Page -> Node]

LEMMA NodeSlots ==
    ASSUME NEW n, Shaped(n), NEW p \in Page, n[p].type = "internal"
    PROVE  Slots(n[p].keys, n[p].children)
<1>1. n[p] \in Node
  BY DEF Shaped
<1> QED BY <1>1, InternalParts DEF Slots

(* The step of the writer has brought it to l2. *)
Goes(l2) == InOrder(node', root', l2) /\ Book(node', l2) = Book(node, run[TheWriter])

(* Each page is still for the keys that it was for. *)
Kept(lo, hi, from, upto) == Order(node', root', run'[TheWriter], lo, hi, from, upto)

LEMMA QuietGoes ==
    ASSUME NEW l, l = run[TheWriter], NEW lo, NEW hi, NEW from, NEW upto,
           Order(node, root, l, lo, hi, from, upto), NEW l2,
           Live(node', l2) = Live(node, l), Top(root', l2) = Top(root, l),
           \A p \in Live(node, l) : Like(node[p], node'[p]),
           Sight(node', l2, lo, hi, from, upto), Seek(node', l2, lo, hi), Emptied(node', l2)
    PROVE  Goes(l2)
BY StillOrder DEF Goes, InOrder

LEMMA OrderParts ==
    ASSUME NEW n, NEW rt, NEW l, NEW lo, NEW hi, NEW from, NEW upto,
           Order(n, rt, l, lo, hi, from, upto)
    PROVE  /\ Pages(n, Live(n, l), Top(rt, l), lo, hi, from, upto)
           /\ Sight(n, l, lo, hi, from, upto) /\ Seek(n, l, lo, hi) /\ Emptied(n, l)
           /\ Live(n, l) \subseteq Page
           /\ \A p \in Page : /\ lo[p] \in Bound /\ hi[p] \in Bound /\ from[p] \in Bound
                              /\ upto[p] \in Bound
                              /\ lo[p] \in Int /\ hi[p] \in Int /\ from[p] \in Int /\ upto[p] \in Int
           /\ \A p \in Live(n, l) : lo[p] < hi[p]
<1>1. Pages(n, Live(n, l), Top(rt, l), lo, hi, from, upto)
  BY DEF Order
<1>2. \A p \in Page : lo[p] \in Bound /\ hi[p] \in Bound /\ from[p] \in Bound /\ upto[p] \in Bound
  BY <1>1 DEF Pages
<1>3. \A p \in Page : lo[p] \in Int /\ hi[p] \in Int /\ from[p] \in Int /\ upto[p] \in Int
  BY <1>2, BoundParts
<1> QED BY <1>1, <1>2, <1>3 DEF Order, Pages

LEMMA PlainSight ==
    ASSUME NEW n, NEW l, NEW lo, NEW hi, NEW from, NEW upto, Sight(n, l, lo, hi, from, upto),
           ~ Promoting(l), ~ Merging(l), l.pc # "separator",
           NEW n2, NEW l2, ~ Promoting(l2), ~ Merging(l2), l2.pc # "separator"
    PROVE  Sight(n2, l2, lo, hi, from, upto) /\ from = lo /\ upto = hi
BY DEF Sight

LEMMA PlainEmptied ==
    ASSUME NEW n, NEW l, ~ Merging(l), ~ Collapsing(l)
    PROVE  Emptied(n, l)
BY DEF Emptied

-----------------------------------------------------------------------------
(* Steps that leave what the pages hold as it is. *)
Still(l) ==
    ~ Promoting(l) /\ ~ Merging(l) /\ ~ Collapsing(l) /\ ~ NewTop(l) /\ l.pc # "separator"

LEMMA PlainIsStill ==
    ASSUME NEW l, Plain(l), l.pc # "separator"
    PROVE  Still(l)
<1>1. ~ NewTop(l)
  BY DEF Plain, NewTop, Collapsing
<1> QED BY <1>1, PlainView DEF Still

LEMMA StillView ==
    ASSUME NEW n, NEW rt, NEW l, Still(l)
    PROVE  Live(n, l) = {p \in Page : n[p].type # "freed"} /\ Top(rt, l) = rt
BY DEF Still, Live, Top

LEMMA LocalsNow ==
    ASSUME OneWriter, Inv, NEW l2, Continue(TheWriter, l2)
    PROVE  run'[TheWriter] = l2
BY DEF OneWriter, Inv, Continue

LEMMA PlainGoes ==
    ASSUME NEW l, l = run[TheWriter], NEW lo, NEW hi, NEW from, NEW upto,
           Order(node, root, l, lo, hi, from, upto), Still(l),
           NEW l2, run'[TheWriter] = l2, Still(l2), node' = node, root' = root,
           Seek(node, l2, lo, hi)
    PROVE  Goes(run'[TheWriter]) /\ Kept(lo, hi, from, upto)
<1>1. Live(node', l2) = Live(node, l) /\ Top(root', l2) = Top(root, l)
  BY StillView
<1>2. Sight(node', l2, lo, hi, from, upto)
  <2>1. Sight(node, l, lo, hi, from, upto)
    BY DEF Order
  <2> QED BY <2>1, PlainSight DEF Still
<1>3. Emptied(node', l2) /\ Seek(node', l2, lo, hi)
  BY PlainEmptied DEF Still
<1>4. \A p \in Live(node, l) : Like(node[p], node'[p])
  BY LikeItself
<1>5. Order(node', root', l2, lo, hi, from, upto)
  BY <1>1, <1>2, <1>3, <1>4, StillOrder
<1> QED BY <1>1, <1>2, <1>3, <1>4, <1>5, QuietGoes DEF Kept

LEMMA CallGoes ==
    ASSUME OneWriter, Inv, NEW l, l = run[TheWriter], NEW lo, NEW hi, NEW from, NEW upto,
           Order(node, root, l, lo, hi, from, upto),
           NEW op, NEW k \in Key, NEW v, Call(TheWriter, op, k, v)
    PROVE  Goes(run'[TheWriter]) /\ Kept(lo, hi, from, upto)
<1>1. Plain(l) /\ l.pc # "separator" /\ node' = node /\ root' = root
  BY DEF Call, At, Plain
<1>2. PICK l2 : l2 = [Idle EXCEPT !.pc = "find", !.op = op, !.key = k, !.value = v, !.page = root]
  OBVIOUS
<1>3. run'[TheWriter] = l2
  BY <1>2, LocalsNow DEF Call
<1>4. l2.pc = "find" /\ l2.page = root /\ l2.key = k
  BY <1>2 DEF Idle
<1>5. Still(l) /\ Still(l2)
  <2>1. Plain(l2)
    BY <1>4 DEF Plain
  <2> QED BY <1>1, <1>4, <2>1, PlainIsStill
<1>6. Seek(node, l2, lo, hi)
  <2>1. Live(node, l2) = Live(node, l) /\ Top(root, l) = root
    BY <1>5, StillView
  <2>2. from = lo /\ upto = hi
    <3>1. Sight(node, l, lo, hi, from, upto)
      BY DEF Order
    <3> QED BY <1>5, <3>1, PlainSight DEF Still
  <2>3. root \in Live(node, l) /\ lo[root] = 0 /\ hi[root] = MaxKey + 1
    BY <2>1, <2>2, OrderParts DEF Pages
  <2>4. 0 <= k /\ k < MaxKey + 1
    BY BTreeConstants DEF Key
  <2> QED BY <1>4, <2>1, <2>3, <2>4 DEF Seek
<1> QED BY <1>1, <1>3, <1>5, <1>6, PlainGoes

LEMMA FindGoes ==
    ASSUME OneWriter, Inv, NEW l, l = run[TheWriter], NEW lo, NEW hi, NEW from, NEW upto,
           Order(node, root, l, lo, hi, from, upto), Find(TheWriter)
    PROVE  Goes(run'[TheWriter]) /\ Kept(lo, hi, from, upto)
<1>1. Plain(l) /\ l.pc = "find" /\ node' = node /\ root' = root
  BY DEF Find, At, Plain
<1>2. PICK h : TreeOf(node, root, l, h) /\ Local(node, l, h)
  BY <1>1 DEF Inv, Good
<1>3. l \in Locals /\ l.key \in Key /\ l.op \in {"insert", "delete"} /\ node \in [Page -> Node]
  BY <1>1, <1>2, NodesNow DEF Local, Asked
<1>4. Still(l)
  BY <1>1, PlainIsStill
<1>5. from = lo /\ upto = hi
  <2>1. Sight(node, l, lo, hi, from, upto)
    BY DEF Order
  <2> QED BY <1>4, <2>1, PlainSight DEF Still
<1>6. l.page \in Live(node, l) /\ lo[l.page] <= l.key /\ l.key < hi[l.page]
  <2>1. Seek(node, l, lo, hi)
    BY DEF Order
  <2> QED BY <1>1, <2>1 DEF Seek
<1>7. PICK l2 : run'[TheWriter] = l2 /\ Plain(l2) /\ l2.pc # "separator" /\ Seek(node, l2, lo, hi)
  <2>1. CASE IsLeaf(l.page) /\ Continue(TheWriter, [l EXCEPT !.pc = l.op])
    <3>1. PICK l2 : l2 = [l EXCEPT !.pc = l.op]
      OBVIOUS
    <3>2. l2.pc = l.op /\ l2.page = l.page /\ l2.key = l.key
      BY <1>3, <3>1 DEF Locals
    <3>3. run'[TheWriter] = l2
      BY <2>1, <3>1, LocalsNow
    <3>4. Plain(l2) /\ l2.pc # "separator"
      BY <1>3, <3>2 DEF Plain
    <3>5. Live(node, l2) = Live(node, l)
      BY <1>4, <3>4, PlainIsStill, StillView
    <3> QED BY <1>6, <3>2, <3>3, <3>4, <3>5 DEF Seek
  <2>2. CASE IsInternal(l.page)
             /\ Continue(TheWriter, [l EXCEPT !.page = FindChild(l.page, l.key)])
    <3>1. PICK q : q = FindChild(l.page, l.key)
      OBVIOUS
    <3>2. PICK l2 : l2 = [l EXCEPT !.page = q]
      OBVIOUS
    <3>3. l2.pc = l.pc /\ l2.page = q /\ l2.key = l.key
      BY <1>3, <3>2 DEF Locals
    <3>4. run'[TheWriter] = l2
      BY <2>2, <3>1, <3>2, LocalsNow
    <3>5. Plain(l2) /\ l2.pc # "separator"
      BY <1>1, <3>3 DEF Plain
    <3>6. Live(node, l2) = Live(node, l)
      BY <1>4, <3>5, PlainIsStill, StillView
    <3>7. l.page \in Page /\ node[l.page].type = "internal"
      BY <2>2 DEF IsInternal
    <3>8. PICK k, c, a, b : /\ k = node[l.page].keys /\ c = node[l.page].children
                            /\ a = lo[l.page] /\ b = hi[l.page]
      OBVIOUS
    <3>9. Slots(k, c) /\ Fence(k, c, a, b, from, upto)
      <4>1. Slots(k, c)
        BY <1>3, <3>7, <3>8, NodeSlots DEF Shaped
      <4> QED BY <1>6, <3>7, <3>8, <4>1, OrderParts DEF Pages, Fenced
    <3>10. q = c[Cardinality({i \in DOMAIN k : k[i] <= l.key}) + 1]
      BY <3>1, <3>8 DEF FindChild
    <3>11. q \in Range(c) /\ from[q] <= l.key /\ l.key < upto[q]
      <4>1. a \in Bound /\ b \in Bound /\ a <= l.key /\ l.key < b
        BY <1>6, <3>7, <3>8, OrderParts
      <4> QED BY <1>3, <3>9, <3>10, <4>1, FindsChild
    <3>12. q \in Live(node, l)
      <4>1. Tree(Live(node, l), Kids(node, l), Top(root, l), Loose(l), Due(l), Parents(node), h)
        BY <1>2 DEF TreeOf
      <4>2. q \in Kids(node, l)[l.page]
        <5>1. Kids(node, l)[l.page] = Range(node[l.page].children)
          <6>1. \A p \in Page : Kids(node, l)[p] = IF node[p].type = "internal"
                                                  THEN Range(node[p].children) ELSE {}
            BY <1>1, PlainView
          <6> QED BY <3>7, <6>1
        <5> QED BY <3>8, <3>11, <5>1
      <4>3. Linked(Live(node, l), Kids(node, l), Top(root, l), Loose(l))
        BY <4>1 DEF Tree
      <4>4. \A p \in Live(node, l) : Kids(node, l)[p] \subseteq Live(node, l)
        BY <4>3 DEF Linked
      <4> QED BY <1>6, <4>2, <4>4
    <3> QED BY <1>1, <1>5, <3>3, <3>4, <3>5, <3>6, <3>11, <3>12 DEF Seek
  <2> QED BY <2>1, <2>2 DEF Find
<1>8. Still(l2)
  BY <1>7, PlainIsStill
<1> QED BY <1>1, <1>4, <1>7, <1>8, PlainGoes

(* Where nothing is looked for, a step to where nothing is under way. *)
LEMMA AsideGoes ==
    ASSUME OneWriter, Inv, NEW l, l = run[TheWriter], NEW lo, NEW hi, NEW from, NEW upto,
           Order(node, root, l, lo, hi, from, upto), Still(l),
           NEW l2, Continue(TheWriter, l2), node' = node, root' = root,
           l2.pc \in {"idle", "return", "rebalance", "siblings", "share"}
    PROVE  Goes(run'[TheWriter]) /\ Kept(lo, hi, from, upto)
<1>1. run'[TheWriter] = l2
  BY LocalsNow
<1>2. Still(l2)
  BY PlainIsStill DEF Plain
<1>3. Seek(node, l2, lo, hi)
  BY DEF Seek
<1> QED BY <1>1, <1>2, <1>3, PlainGoes

LEMMA DoneGoes ==
    ASSUME OneWriter, Inv, NEW l, l = run[TheWriter], NEW lo, NEW hi, NEW from, NEW upto,
           Order(node, root, l, lo, hi, from, upto), Done(TheWriter)
    PROVE  Goes(run'[TheWriter]) /\ Kept(lo, hi, from, upto)
<1>1. Still(l)
  BY PlainIsStill DEF Done, At, Plain
<1> QED BY <1>1, AsideGoes, IdleParts DEF Done, Return

LEMMA RebalanceGoes ==
    ASSUME OneWriter, Inv, NEW l, l = run[TheWriter], NEW lo, NEW hi, NEW from, NEW upto,
           Order(node, root, l, lo, hi, from, upto), Rebalance(TheWriter)
    PROVE  Goes(run'[TheWriter])
<1>1. Still(l)
  BY PlainIsStill DEF Rebalance, At, Plain
<1>2. PICK l2 : Continue(TheWriter, l2) /\ l2.pc \in {"idle", "siblings"}
  <2>1. [l EXCEPT !.pc = "siblings", !.parent = node[l.page].parent].pc = "siblings"
    BY NodesNow DEF Locals
  <2> QED BY <2>1, IdleParts DEF Rebalance, Return
<1> QED BY <1>1, <1>2, AsideGoes DEF Rebalance

LEMMA SiblingsGoes ==
    ASSUME OneWriter, Inv, NEW l, l = run[TheWriter], NEW lo, NEW hi, NEW from, NEW upto,
           Order(node, root, l, lo, hi, from, upto), Siblings(TheWriter)
    PROVE  Goes(run'[TheWriter])
<1>1. Still(l)
  BY PlainIsStill DEF Siblings, At, Plain
<1>2. PICK l2 : Continue(TheWriter, l2) /\ l2.pc \in {"idle", "share"}
  <2>1. PICK i \in DOMAIN node[l.parent].children :
           IF i > 1
           THEN Continue(TheWriter, [l EXCEPT !.pc = "share", !.then = "left",
                    !.page = node[l.parent].children[i - 1],
                    !.right = node[l.parent].children[i], !.slot = i - 1])
           ELSE IF Len(node[l.parent].children) > 1
           THEN Continue(TheWriter, [l EXCEPT !.pc = "share", !.then = "right",
                    !.right = node[l.parent].children[2], !.slot = 1])
           ELSE Return(TheWriter)
    BY DEF Siblings
  <2>2. CASE i > 1
    <3>1. PICK m : m = [l EXCEPT !.pc = "share", !.then = "left",
                            !.page = node[l.parent].children[i - 1],
                            !.right = node[l.parent].children[i], !.slot = i - 1]
      OBVIOUS
    <3>2. m.pc = "share"
      BY <3>1, NodesNow DEF Locals
    <3>3. Continue(TheWriter, m)
      BY <2>1, <2>2, <3>1
    <3> QED BY <3>2, <3>3
  <2>3. CASE ~ (i > 1) /\ Len(node[l.parent].children) > 1
    <3>1. PICK m : m = [l EXCEPT !.pc = "share", !.then = "right",
                            !.right = node[l.parent].children[2], !.slot = 1]
      OBVIOUS
    <3>2. m.pc = "share"
      BY <3>1, NodesNow DEF Locals
    <3>3. Continue(TheWriter, m)
      BY <2>1, <2>3, <3>1
    <3> QED BY <3>2, <3>3
  <2>4. CASE ~ (i > 1) /\ ~ (Len(node[l.parent].children) > 1)
    BY <2>1, <2>4, IdleParts DEF Return
  <2> QED BY <2>2, <2>3, <2>4
<1> QED BY <1>1, <1>2, AsideGoes DEF Siblings

-----------------------------------------------------------------------------
(* Steps that leave the call at the same stage. *)
LEMMA PairParts ==
    ASSUME NEW n \in [Page -> Node], NEW l, Neighbours(n, l)
    PROVE  /\ l.parent \in Page /\ l.page \in Page /\ l.right \in Page /\ l.page # l.right
           /\ n[l.parent].type = "internal" /\ l.slot \in Nat
           /\ l.slot \in 1 .. Len(n[l.parent].keys)
           /\ n[l.parent].children[l.slot] = l.page /\ n[l.parent].children[l.slot + 1] = l.right
           /\ l.page \in Range(n[l.parent].children) /\ l.right \in Range(n[l.parent].children)
           /\ Slots(n[l.parent].keys, n[l.parent].children)
<1>1. /\ l.parent \in Page /\ n[l.parent].type = "internal"
      /\ l.slot \in 1 .. Len(n[l.parent].keys)
      /\ n[l.parent].children[l.slot] = l.page /\ n[l.parent].children[l.slot + 1] = l.right
  BY DEF Neighbours, Live
<1>2. PICK m, x, c : m = l.slot /\ x = n[l.parent] /\ c = n[l.parent].children
  OBVIOUS
<1>3. x \in Node /\ x.type = "internal"
  BY <1>1, <1>2
<1>4. PICK j \in Nat : j = Len(x.keys)
  BY <1>3, InternalParts
<1>5. c \in Seq(Page) /\ IsInjective(c) /\ DOMAIN c = 1 .. j + 1
  BY <1>2, <1>3, <1>4, InternalParts
<1>6. m \in 1 .. j
  BY <1>1, <1>2, <1>4
<1>7. m \in DOMAIN c /\ m + 1 \in DOMAIN c /\ m # m + 1 /\ m \in Nat
  BY <1>5, <1>6
<1>8. c[m] \in Page /\ c[m + 1] \in Page
  BY <1>5, <1>7
<1>9. c[m] # c[m + 1]
  BY <1>5, <1>7 DEF IsInjective
<1>10. c[m] \in Range(c) /\ c[m + 1] \in Range(c)
  BY <1>7 DEF Range
<1>11. Slots(x.keys, c)
  BY <1>1, <1>2, NodeSlots DEF Shaped
<1> QED BY <1>1, <1>2, <1>7, <1>8, <1>9, <1>10, <1>11

(* What the writer is at, from the shape of the tree. *)
LEMMA AtWork ==
    ASSUME Inv, NEW l, l = run[TheWriter], l.pc # "failed"
    PROVE  /\ node \in [Page -> Node] /\ root \in Page /\ l \in Locals
           /\ Shaped(node)
           /\ \E h : TreeOf(node, root, l, h) /\ Local(node, l, h)
           /\ Asked(l) /\ (l.pc = "share" \/ Merging(l) => Neighbours(node, l))
<1>1. node \in [Page -> Node] /\ root \in Page /\ l \in Locals
  BY NodesNow
<1>2. \E h : TreeOf(node, root, l, h) /\ Local(node, l, h)
  BY DEF Inv, Good
<1> QED BY <1>1, <1>2 DEF Local, Shaped

LEMMA StageGoes ==
    ASSUME Inv, NEW l, l = run[TheWriter], NEW lo, NEW hi, NEW from, NEW upto,
           Order(node, root, l, lo, hi, from, upto),
           NEW l2, run'[TheWriter] = l2, root' = root,
           Splitting(l2) <=> Splitting(l), Merging(l2) <=> Merging(l),
           Collapsing(l2) <=> Collapsing(l), NewTop(l2) <=> NewTop(l),
           l.pc \notin {"separator", "parent"},
           l2.pc \notin {"separator", "parent", "find", "insert", "delete"},
           l2.page = l.page, l2.right = l.right, l2.parent = l.parent, l2.sep = l.sep,
           \A p \in Page : Like(node[p], node'[p])
    PROVE  Goes(run'[TheWriter])
<1>1. \A p \in Page : node'[p].type = node[p].type
  BY DEF Like
<1>2. Live(node', l2) = Live(node, l)
  BY <1>1 DEF Live
<1>3. Top(root', l2) = Top(root, l)
  BY DEF Top
<1>4. Promoting(l2) <=> Promoting(l)
  BY DEF Promoting
<1>5. Sight(node, l, lo, hi, from, upto) /\ Emptied(node, l) /\ Live(node, l) \subseteq Page
  BY OrderParts
<1>6. Sight(node', l2, lo, hi, from, upto)
  <2>1. \A left : Splits(node, l, lo, hi, upto, left) => Splits(node', l2, lo, hi, upto, left)
    BY DEF Splits, Splitting
  <2>2. Promoting(l) => \E left \in Live(node, l) : Splits(node, l, lo, hi, upto, left)
    BY <1>5 DEF Sight
  <2>3. Promoting(l2) => \E left \in Live(node', l2) : Splits(node', l2, lo, hi, upto, left)
    BY <1>2, <1>4, <2>1, <2>2
  <2> QED BY <1>4, <1>5, <2>3 DEF Sight
<1>7. Seek(node', l2, lo, hi)
  BY DEF Seek
<1>8. \A p \in Live(node, l) : Like(node[p], node'[p])
  BY <1>5
<1>9. Emptied(node', l2)
  <2>1. Merging(l) => l.page \in Page /\ l.right \in Page
    <3>1. Merging(l) => l.pc # "failed"
      BY DEF Merging
    <3> QED BY <3>1, AtWork, PairParts
  <2>2. ASSUME Merging(l), node[l.right].type = "leaf"
        PROVE  node'[l.right].next = node[l.right].next /\ node'[l.page].next = node[l.page].next
               /\ node[l.page].type = "leaf" /\ node[l.right].next = node[l.page].next
    BY <1>5, <2>1, <2>2 DEF Like, SameLeaf, Emptied
  <2>3. Merging(l2) /\ node'[l2.right].type = "leaf" =>
           node'[l2.page].type = "leaf" /\ node'[l2.right].next = node'[l2.page].next
    BY <1>1, <2>1, <2>2
  <2> QED BY <1>1, <1>5, <2>3 DEF Emptied
<1> QED BY <1>2, <1>3, <1>6, <1>7, <1>8, <1>9, QuietGoes

LEMMA AdoptGoes ==
    ASSUME OneWriter, Inv, NEW l, l = run[TheWriter], NEW lo, NEW hi, NEW from, NEW upto,
           Order(node, root, l, lo, hi, from, upto), Adopt(TheWriter)
    PROVE  Goes(run'[TheWriter])
<1>1. l.pc = "adopt" /\ root' = root
  BY DEF Adopt, At
<1>2. node \in [Page -> Node] /\ l \in Locals
  BY NodesNow
<1>3. PICK l2 : l2 = [l EXCEPT !.adopt = Tail(@)]
  OBVIOUS
<1>4. run'[TheWriter] = l2
  BY <1>3, LocalsNow DEF Adopt
<1>5. /\ l2.pc = l.pc /\ l2.then = l.then /\ l2.page = l.page /\ l2.right = l.right
      /\ l2.parent = l.parent /\ l2.sep = l.sep
  BY <1>2, <1>3 DEF Locals
<1>6. \A p \in Page : Like(node[p], node'[p])
  <2>1. PICK g, q : /\ node' = [node EXCEPT ![g].parent = q]
                    /\ node[g].type \in {"leaf", "internal"} /\ g \in Page
    BY DEF Adopt, IsLeaf, IsInternal
  <2>2. Like(node[g], node'[g])
    <3>1. node'[g] = [node[g] EXCEPT !.parent = q] /\ node[g] \in Node
      BY <1>2, <2>1
    <3>2. CASE node[g].type = "leaf"
      BY <3>1, <3>2, LeafParts DEF LeafNodes, Like, SameLeaf
    <3>3. CASE node[g].type = "internal"
      BY <3>1, <3>3, InternalParts DEF InternalNodes, Like, SameLeaf
    <3> QED BY <2>1, <3>2, <3>3
  <2> QED BY <1>2, <2>1, <2>2, LikeItself
<1>7. Splitting(l2) <=> Splitting(l)
  BY <1>5 DEF Splitting
<1>8. (Merging(l2) <=> Merging(l)) /\ (Collapsing(l2) <=> Collapsing(l))
      /\ (NewTop(l2) <=> NewTop(l))
  BY <1>5 DEF Merging, Collapsing, NewTop
<1> QED BY <1>1, <1>4, <1>5, <1>6, <1>7, <1>8, StageGoes

LEMMA AdoptedGoes ==
    ASSUME OneWriter, Inv, NEW l, l = run[TheWriter], NEW lo, NEW hi, NEW from, NEW upto,
           Order(node, root, l, lo, hi, from, upto), Adopted(TheWriter)
    PROVE  Goes(run'[TheWriter])
<1>1. l.pc = "adopt" /\ root' = root /\ node' = node
  BY DEF Adopted, At
<1>2. l \in Locals /\ l.then \in {"root", "return", "promote", "free", "collapse"}
  BY <1>1, AtWork DEF Asked
<1>3. CASE l.then = "return"
  <2>1. Still(l)
    BY <1>1, <1>3 DEF Still, Promoting, Splitting, Merging, Collapsing, NewTop
  <2>2. Continue(TheWriter, Idle)
    BY <1>3 DEF Adopted, Return
  <2> QED BY <1>1, <2>1, <2>2, AsideGoes, IdleParts
<1>4. CASE l.then # "return"
  <2>1. PICK l2 : l2 = [l EXCEPT !.pc = l.then]
    OBVIOUS
  <2>2. run'[TheWriter] = l2
    BY <1>4, <2>1, LocalsNow DEF Adopted
  <2>3. /\ l2.pc = l.then /\ l2.then = l.then /\ l2.page = l.page /\ l2.right = l.right
        /\ l2.parent = l.parent /\ l2.sep = l.sep
    BY <1>2, <2>1 DEF Locals
  <2>4. Splitting(l2) <=> Splitting(l)
    BY <1>1, <1>2, <1>4, <2>3 DEF Splitting
  <2>5. (Merging(l2) <=> Merging(l)) /\ (Collapsing(l2) <=> Collapsing(l))
    BY <1>1, <1>2, <1>4, <2>3 DEF Merging, Collapsing
  <2>6. NewTop(l2) <=> NewTop(l)
    BY <1>1, <1>2, <1>4, <2>3, <2>5 DEF NewTop
  <2> QED BY <1>1, <1>2, <1>4, <2>2, <2>3, <2>4, <2>5, <2>6, StageGoes, LikeItself
<1> QED BY <1>3, <1>4

LEMMA FixNextGoes ==
    ASSUME OneWriter, Inv, NEW l, l = run[TheWriter], NEW lo, NEW hi, NEW from, NEW upto,
           Order(node, root, l, lo, hi, from, upto), FixNext(TheWriter)
    PROVE  Goes(run'[TheWriter])
<1>1. l.pc = "next" /\ root' = root
  BY DEF FixNext, At
<1>2. l \in Locals /\ l.then \in {"promote", "free"} /\ node \in [Page -> Node]
  BY <1>1, AtWork DEF Asked
<1>3. PICK l2 : l2 = [l EXCEPT !.next = 0, !.pc = l.then]
  OBVIOUS
<1>4. run'[TheWriter] = l2
  BY <1>3, LocalsNow DEF FixNext
<1>5. /\ l2.pc = l.then /\ l2.then = l.then /\ l2.page = l.page /\ l2.right = l.right
      /\ l2.parent = l.parent /\ l2.sep = l.sep
  BY <1>2, <1>3 DEF Locals
<1>6. \A p \in Page : Like(node[p], node'[p])
  <2>1. CASE node' = node
    BY <2>1, LikeItself
  <2>2. CASE node' # node
    <3>1. PICK g, q : /\ node' = [node EXCEPT ![g].prev = q]
                      /\ node[g].type = "leaf" /\ g \in Page
      BY <2>2 DEF FixNext, IsLeaf
    <3>2. Like(node[g], node'[g])
      <4>1. node'[g] = [node[g] EXCEPT !.prev = q] /\ node[g] \in Node
        BY <1>2, <3>1
      <4> QED BY <3>1, <4>1, LeafParts DEF LeafNodes, Like, SameLeaf
    <3> QED BY <1>2, <3>1, <3>2, LikeItself
  <2> QED BY <2>1, <2>2
<1>7. Splitting(l2) <=> Splitting(l)
  BY <1>1, <1>2, <1>5 DEF Splitting
<1>8. (Merging(l2) <=> Merging(l)) /\ (Collapsing(l2) <=> Collapsing(l))
      /\ (NewTop(l2) <=> NewTop(l))
  BY <1>1, <1>2, <1>5 DEF Merging, Collapsing, NewTop
<1> QED BY <1>1, <1>2, <1>4, <1>5, <1>6, <1>7, <1>8, StageGoes

-----------------------------------------------------------------------------
(* Steps from one stage to the next that leave what the pages hold as it is. *)
LEMMA StoreRootGoes ==
    ASSUME OneWriter, Inv, NEW l, l = run[TheWriter], NEW lo, NEW hi, NEW from, NEW upto,
           Order(node, root, l, lo, hi, from, upto), StoreRoot(TheWriter)
    PROVE  Goes(run'[TheWriter])
<1>1. l.pc = "root" /\ node' = node /\ root' = l.right
  BY DEF StoreRoot, At
<1>2. run'[TheWriter] = Idle
  BY LocalsNow DEF StoreRoot, Return
<1>3. ~ Promoting(l) /\ ~ Merging(l) /\ ~ Collapsing(l) /\ NewTop(l)
  BY <1>1 DEF Promoting, Splitting, Merging, Collapsing, NewTop
<1>4. Still(Idle)
  BY IdleParts, PlainIsStill
<1>5. Live(node', Idle) = Live(node, l) /\ Top(root', Idle) = Top(root, l)
  <2>1. Live(node, Idle) = {p \in Page : node[p].type # "freed"} /\ Top(l.right, Idle) = l.right
    BY <1>4, StillView
  <2>2. Live(node, l) = {p \in Page : node[p].type # "freed"}
    BY <1>3 DEF Live
  <2> QED BY <1>1, <1>3, <2>1, <2>2 DEF Top
<1>6. Sight(node', Idle, lo, hi, from, upto)
  <2>1. Sight(node, l, lo, hi, from, upto)
    BY DEF Order
  <2> QED BY <1>1, <1>3, <1>4, <2>1, PlainSight DEF Still
<1>7. Seek(node', Idle, lo, hi) /\ Emptied(node', Idle)
  BY <1>4, PlainEmptied, IdleParts DEF Seek, Still
<1>8. \A p \in Live(node, l) : Like(node[p], node'[p])
  BY <1>1, LikeItself
<1> QED BY <1>2, <1>5, <1>6, <1>7, <1>8, QuietGoes

LEMMA ToParentGoes ==
    ASSUME OneWriter, Inv, NEW l, l = run[TheWriter], NEW lo, NEW hi, NEW from, NEW upto,
           Order(node, root, l, lo, hi, from, upto), ToParent(TheWriter)
    PROVE  Goes(run'[TheWriter])
<1>1. /\ l.pc = "promote" /\ node' = node /\ root' = root
      /\ l.page # root /\ node[l.page].parent # 0
  BY DEF ToParent, At, IsRoot
<1>2. l \in Locals /\ node \in [Page -> Node]
  BY NodesNow
<1>3. PICK q : q = node[l.page].parent
  OBVIOUS
<1>4. PICK l2 : l2 = [l EXCEPT !.pc = "parent", !.page = q]
  OBVIOUS
<1>5. run'[TheWriter] = l2
  BY <1>3, <1>4, LocalsNow DEF ToParent
<1>6. l2.pc = "parent" /\ l2.page = q /\ l2.right = l.right /\ l2.sep = l.sep
  BY <1>2, <1>4 DEF Locals
<1>7. /\ Splitting(l) /\ Promoting(l) /\ ~ Merging(l) /\ ~ Collapsing(l) /\ ~ NewTop(l)
      /\ ~ Splitting(l2) /\ Promoting(l2) /\ ~ Merging(l2) /\ ~ Collapsing(l2) /\ ~ NewTop(l2)
  BY <1>1, <1>6 DEF Promoting, Splitting, Merging, Collapsing, NewTop
<1>8. Live(node', l2) = Live(node, l) /\ Top(root', l2) = Top(root, l)
  BY <1>1, <1>7 DEF Live, Top
<1>9. Sight(node, l, lo, hi, from, upto)
  BY DEF Order
<1>10. Splits(node, l, lo, hi, upto, l.page) /\ l.page \in Live(node, l)
  BY <1>7, <1>9 DEF Sight, Splits
<1>11. l.page \in Range(node[q].children)
  <2>1. PICK h : TreeOf(node, root, l, h) /\ Local(node, l, h)
    BY <1>1, AtWork
  <2>2. Tree(Live(node, l), Kids(node, l), root, {l.right}, {}, Parents(node), h)
    <3>1. Loose(l) = {l.right} /\ Due(l) = {} /\ Top(root, l) = root
      BY <1>1, <1>7 DEF Loose, Due, Top
    <3> QED BY <2>1, <3>1 DEF TreeOf
  <2>3. l.page \notin {l.right}
    BY <1>10 DEF Splits
  <2>4. q \in Live(node, l) /\ l.page \in Kids(node, l)[q]
    <3>1. Parents(node)[l.page] = q
      BY <1>3, <1>10 DEF Parents, Live
    <3> QED BY <1>1, <1>3, <1>10, <2>2, <2>3, <3>1, ParentIsLive
  <2> QED BY <1>7, <2>4 DEF Kids, Live
<1>12. Sight(node', l2, lo, hi, from, upto)
  <2>1. Splits(node', l2, lo, hi, upto, l.page)
    BY <1>1, <1>6, <1>7, <1>10, <1>11 DEF Splits
  <2> QED BY <1>1, <1>6, <1>7, <1>8, <1>9, <1>10, <2>1 DEF Sight
<1>13. Seek(node', l2, lo, hi) /\ Emptied(node', l2)
  BY <1>6, <1>7, PlainEmptied DEF Seek
<1>14. \A p \in Live(node, l) : Like(node[p], node'[p])
  BY <1>1, LikeItself
<1> QED BY <1>5, <1>8, <1>12, <1>13, <1>14, QuietGoes

(* delete_page: what is freed has left the tree. *)
LEMMA FreeGoes ==
    ASSUME OneWriter, Inv, NEW l, l = run[TheWriter], NEW lo, NEW hi, NEW from, NEW upto,
           Order(node, root, l, lo, hi, from, upto),
           FreeRight(TheWriter) \/ FreeRoot(TheWriter), run'[TheWriter].pc # "failed"
    PROVE  Goes(run'[TheWriter])
<1>1. l.pc \in {"free", "collapse"} /\ root' = root
  BY DEF FreeRight, FreeRoot, At
<1>2. l \in Locals /\ node \in [Page -> Node]
  BY NodesNow
<1>3. PICK g : g = IF l.pc = "free" THEN l.right ELSE l.parent
  OBVIOUS
<1>4. FreePage(TheWriter, g)
  BY <1>1, <1>3 DEF FreeRight, FreeRoot, At
<1>5. PICK l2 : l2 = [l EXCEPT !.pc = IF @ = "free" THEN "remove" ELSE "root"]
  OBVIOUS
<1>6. node' = [node EXCEPT ![g] = Freed] /\ Continue(TheWriter, l2)
  <2>1. CASE g \in held
    <3>1. run'[TheWriter] = [Idle EXCEPT !.pc = "failed"]
      BY <1>4, <2>1, LocalsNow DEF FreePage
    <3> QED BY <3>1 DEF Idle
  <2> QED BY <1>4, <1>5, <2>1 DEF FreePage
<1>7. run'[TheWriter] = l2
  BY <1>6, LocalsNow
<1>8. /\ l2.pc = IF l.pc = "free" THEN "remove" ELSE "root"
      /\ l2.page = l.page /\ l2.right = l.right /\ l2.parent = l.parent
  BY <1>2, <1>5 DEF Locals
<1>9. /\ ~ Promoting(l) /\ ~ Promoting(l2) /\ l.pc # "separator" /\ l2.pc # "separator"
      /\ (Merging(l) <=> l.pc = "free") /\ (Merging(l2) <=> l.pc = "free")
      /\ (Collapsing(l) <=> l.pc = "collapse") /\ ~ Collapsing(l2)
      /\ (NewTop(l) <=> l.pc = "collapse") /\ (NewTop(l2) <=> l.pc = "collapse")
  BY <1>1, <1>8 DEF Promoting, Splitting, Merging, Collapsing, NewTop
<1>10. Freed.type = "freed"
  BY DEF Freed
<1>11. \A p \in Page : node'[p] = IF p = g THEN Freed ELSE node[p]
  BY <1>2, <1>6
<1>12. Live(node', l2) = Live(node, l) /\ g \notin Live(node, l)
  BY <1>1, <1>3, <1>8, <1>9, <1>10, <1>11 DEF Live
<1>13. Top(root', l2) = Top(root, l)
  BY <1>1, <1>8, <1>9 DEF Top
<1>14. Sight(node', l2, lo, hi, from, upto)
  <2>1. Sight(node, l, lo, hi, from, upto)
    BY DEF Order
  <2> QED BY <1>8, <1>9, <2>1 DEF Sight
<1>15. Seek(node', l2, lo, hi)
  BY <1>1, <1>8 DEF Seek
<1>16. Emptied(node', l2)
  <2>1. CASE l.pc = "free"
    <3>1. l.right \in Page
      BY <1>9, <2>1, AtWork, PairParts
    <3>2. node'[l2.right].type = "freed"
      BY <1>3, <1>8, <1>10, <1>11, <2>1, <3>1
    <3> QED BY <1>9, <3>2 DEF Emptied
  <2>2. CASE l.pc = "collapse"
    BY <1>9, <2>2 DEF Emptied
  <2> QED BY <1>1, <2>1, <2>2
<1>17. \A p \in Live(node, l) : Like(node[p], node'[p])
  BY <1>11, <1>12, LikeItself, OrderParts
<1> QED BY <1>7, <1>12, <1>13, <1>14, <1>15, <1>16, <1>17, QuietGoes

===============================================================================
