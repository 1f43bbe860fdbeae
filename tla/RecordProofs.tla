----------------------------- MODULE RecordProofs -----------------------------
(***************************************************************************)
(* Slotted pages and the records kept in them.  Whatever calls build a     *)
(* page, its payloads lie packed behind the directory and none meets       *)
(* another, so that the page parses and answers like a directory of        *)
(* records.  Whatever puts and deletes fail or die half-way, a record that *)
(* was put keeps its pages and reads back.                                 *)
(***************************************************************************)
EXTENDS MCRecords, Sums, WellFoundedInduction, SequenceTheorems, TLAPS

(* Every non-empty set of naturals has a least element. *)
LEMMA LeastNatural ==
    ASSUME NEW S, S \subseteq Nat, S # {}
    PROVE  \E m \in S : \A x \in S : m <= x
<1>1. PICK m \in S : \A x \in Nat : << x, m >> \in OpToRel(<, Nat) => x \notin S
  BY NatLessThanWellFounded, WFMin
<1>2. \A x \in S : ~ (x < m)
  BY <1>1 DEF OpToRel
<1> QED BY <1>2

-----------------------------------------------------------------------------
(* Sums.  A recursive function exists because each of its beginnings does. *)

(* f holds the totals of the first n sizes. *)
TotalsUpTo(f, sizes, n) ==
    /\ f \in [0 .. n -> Nat] /\ f[0] = 0
    /\ \A i \in 1 .. n : f[i] = f[i - 1] + sizes[i]

LEMMA TotalsExist ==
    ASSUME NEW sizes \in Seq(Nat)
    PROVE  \E f : TotalsUpTo(f, sizes, Len(sizes))
<1>1. Len(sizes) \in Nat /\ sizes \in [1 .. Len(sizes) -> Nat]
  BY LenProperties
<1>2. SUFFICES ASSUME \E n \in 0 .. Len(sizes) : ~ \E f : TotalsUpTo(f, sizes, n) PROVE FALSE
  BY <1>1
<1>3. PICK n \in {x \in 0 .. Len(sizes) : ~ \E f : TotalsUpTo(f, sizes, x)} :
          \A m \in {x \in 0 .. Len(sizes) : ~ \E f : TotalsUpTo(f, sizes, x)} : n <= m
  <2>1. {x \in 0 .. Len(sizes) : ~ \E f : TotalsUpTo(f, sizes, x)} \in SUBSET Nat
    OBVIOUS
  <2> QED BY <1>2, <2>1, LeastNatural
<1>4. n # 0
  <2>1. TotalsUpTo([i \in 0 .. 0 |-> 0], sizes, 0)
    BY DEF TotalsUpTo
  <2> QED BY <1>3, <2>1
<1>5. n - 1 \in 0 .. Len(sizes) /\ n \in 1 .. Len(sizes) /\ n - 1 < n
  BY <1>1, <1>3, <1>4
<1>6. PICK f : TotalsUpTo(f, sizes, n - 1)
  BY <1>3, <1>5
<1>7. PICK g : g = [i \in 0 .. n |-> IF i = n THEN f[n - 1] + sizes[n] ELSE f[i]]
  OBVIOUS
<1>8. f \in [0 .. n - 1 -> Nat] /\ sizes[n] \in Nat /\ f[n - 1] \in Nat /\ f[0] = 0
  BY <1>1, <1>5, <1>6 DEF TotalsUpTo
<1>9. g \in [0 .. n -> Nat]
  <2>1. \A i \in 0 .. n : i # n => i \in 0 .. n - 1
    BY <1>5
  <2> QED BY <1>7, <1>8, <2>1
<1>10. g[0] = 0
  BY <1>5, <1>7, <1>8
<1>11. ASSUME NEW i \in 1 .. n PROVE g[i] = g[i - 1] + sizes[i]
  <2>1. CASE i = n
    BY <1>5, <1>7, <2>1
  <2>2. CASE i # n
    <3>1. i \in 1 .. n - 1 /\ i - 1 # n /\ i \in 0 .. n /\ i - 1 \in 0 .. n
      BY <1>5, <2>2
    <3>2. g[i] = f[i] /\ g[i - 1] = f[i - 1]
      BY <1>7, <2>2, <3>1
    <3> QED BY <1>6, <3>1, <3>2 DEF TotalsUpTo
  <2> QED BY <2>1, <2>2
<1>12. TotalsUpTo(g, sizes, n)
  BY <1>9, <1>10, <1>11 DEF TotalsUpTo
<1> QED BY <1>3, <1>12

LEMMA RunningTotalProperty ==
    ASSUME NEW sizes \in Seq(Nat)
    PROVE  TotalsUpTo(RunningTotal(sizes), sizes, Len(sizes))
<1> DEFINE N == Len(sizes)
           Sums(t) == t = [i \in 0 .. N |-> IF i = 0 THEN 0 ELSE t[i - 1] + sizes[i]]
<1>1. N \in Nat /\ sizes \in [1 .. N -> Nat]
  BY LenProperties
<1>2. RunningTotal(sizes) = CHOOSE t : Sums(t)
  BY DEF RunningTotal
<1>3. \E t : Sums(t)
  <2>1. PICK f : TotalsUpTo(f, sizes, N)
    BY TotalsExist
  <2>2. \A i \in 0 .. N : i = 0 \/ i \in 1 .. N
    BY <1>1
  <2>3. Sums(f)
    BY <1>1, <2>1, <2>2 DEF TotalsUpTo
  <2> QED BY <2>3
<1>4. PICK t : t = RunningTotal(sizes)
  OBVIOUS
<1>5. Sums(t)
  BY <1>2, <1>3, <1>4
<1> HIDE DEF N
<1>6. DOMAIN t = 0 .. N /\ t[0] = 0
  BY <1>1, <1>5
<1>7. ASSUME NEW i \in 1 .. N PROVE t[i] = t[i - 1] + sizes[i]
  BY <1>1, <1>5
<1>8. \A i \in 0 .. N : t[i] \in Nat
  <2>1. SUFFICES ASSUME \E i \in 0 .. N : t[i] \notin Nat PROVE FALSE
    OBVIOUS
  <2>2. PICK n \in {i \in 0 .. N : t[i] \notin Nat} :
            \A m \in {i \in 0 .. N : t[i] \notin Nat} : n <= m
    <3>1. {i \in 0 .. N : t[i] \notin Nat} \in SUBSET Nat
      OBVIOUS
    <3> QED BY <2>1, <3>1, LeastNatural
  <2>3. n \in 1 .. N /\ n - 1 \in 0 .. N /\ n - 1 < n
    BY <1>1, <1>6, <2>2
  <2>4. t[n - 1] \in Nat /\ sizes[n] \in Nat
    BY <1>1, <2>2, <2>3
  <2> QED BY <1>7, <2>2, <2>3, <2>4
<1>9. t \in [0 .. N -> Nat]
  <2>1. t = [i \in 0 .. N |-> IF i = 0 THEN 0 ELSE t[i - 1] + sizes[i]]
    BY <1>5
  <2> QED BY <1>8, <2>1
<1> QED BY <1>4, <1>6, <1>7, <1>9 DEF TotalsUpTo, N

(* One step of the loop. *)
LEMMA TotalAt ==
    ASSUME NEW s \in Seq(Nat)
    PROVE  /\ \A i \in 0 .. Len(s) : RunningTotal(s)[i] \in Nat
           /\ RunningTotal(s)[0] = 0
BY RunningTotalProperty DEF TotalsUpTo

LEMMA TotalAfter ==
    ASSUME NEW s \in Seq(Nat), NEW i \in 1 .. Len(s)
    PROVE  /\ RunningTotal(s)[i] = RunningTotal(s)[i - 1] + s[i]
           /\ RunningTotal(s)[i] \in Nat /\ RunningTotal(s)[i - 1] \in Nat /\ s[i] \in Nat
<1>1. i \in 0 .. Len(s) /\ i - 1 \in 0 .. Len(s)
  OBVIOUS
<1>2. \A j \in 1 .. Len(s) : RunningTotal(s)[j] = RunningTotal(s)[j - 1] + s[j]
  BY RunningTotalProperty DEF TotalsUpTo
<1>3. RunningTotal(s)[i] = RunningTotal(s)[i - 1] + s[i]
  BY <1>2, Zenon
<1> QED BY <1>1, <1>3, TotalAt

(* Two sequences that agree after m grow by the same there. *)
LEMMA TotalsGrowAlike ==
    ASSUME NEW s \in Seq(Nat), NEW t \in Seq(Nat), NEW m \in Nat, NEW n \in Nat,
           m <= n, n <= Len(s), n <= Len(t),
           \A i \in m + 1 .. n : s[i] = t[i]
    PROVE  RunningTotal(s)[n] - RunningTotal(s)[m] = RunningTotal(t)[n] - RunningTotal(t)[m]
<1>1. PICK f, g : f = RunningTotal(s) /\ g = RunningTotal(t)
  OBVIOUS
<1>2. PICK D : D = {i \in m .. n : f[i] - f[m] # g[i] - g[m]}
  OBVIOUS
<1>3. SUFFICES ASSUME D # {} PROVE FALSE
  <2>1. n \in m .. n
    OBVIOUS
  <2>2. n \notin D => f[n] - f[m] = g[n] - g[m]
    BY <1>2, <2>1
  <2> QED BY <1>1, <2>2
<1>4. PICK i \in D : \A x \in D : i <= x
  <2>1. D \subseteq Nat
    BY <1>2
  <2> QED BY <1>3, <2>1, LeastNatural
<1>5. i \in m .. n /\ f[i] - f[m] # g[i] - g[m]
  BY <1>2, <1>4
<1>6. f[m] \in Nat /\ g[m] \in Nat
  <2>1. m \in 0 .. Len(s) /\ m \in 0 .. Len(t)
    OBVIOUS
  <2> QED BY <1>1, <2>1, TotalAt
<1>7. i # m
  BY <1>5, <1>6
<1>8. /\ i - 1 \in m .. n /\ ~ (i <= i - 1) /\ i \in m + 1 .. n
      /\ i \in 1 .. Len(s) /\ i \in 1 .. Len(t)
  BY <1>5, <1>7
<1>9. f[i - 1] - f[m] = g[i - 1] - g[m]
  BY <1>2, <1>4, <1>8
<1>10. f[i] = f[i - 1] + s[i] /\ f[i - 1] \in Nat /\ s[i] \in Nat
  BY <1>1, <1>8, TotalAfter
<1>11. g[i] = g[i - 1] + t[i] /\ g[i - 1] \in Nat /\ t[i] \in Nat
  BY <1>1, <1>8, TotalAfter
<1>12. s[i] = t[i]
  BY <1>8
<1>13. f[i] - f[m] = (f[i - 1] - f[m]) + s[i]
  BY <1>6, <1>10
<1>14. g[i] - g[m] = (g[i - 1] - g[m]) + s[i]
  BY <1>6, <1>11, <1>12
<1> QED BY <1>5, <1>9, <1>13, <1>14

LEMMA TotalsRise ==
    ASSUME NEW s \in Seq(Nat), NEW m \in 0 .. Len(s), NEW n \in m .. Len(s)
    PROVE  RunningTotal(s)[m] <= RunningTotal(s)[n]
<1>1. PICK f : f = RunningTotal(s)
  OBVIOUS
<1>2. PICK D : D = {i \in m .. Len(s) : ~ (f[m] <= f[i])}
  OBVIOUS
<1>3. SUFFICES ASSUME D # {} PROVE FALSE
  BY <1>1, <1>2
<1>4. PICK i \in D : \A x \in D : i <= x
  <2>1. D \subseteq Nat
    BY <1>2
  <2> QED BY <1>3, <2>1, LeastNatural
<1>5. i \in m .. Len(s) /\ ~ (f[m] <= f[i])
  BY <1>2, <1>4
<1>6. f[m] \in Nat
  BY <1>1, TotalAt
<1>7. i # m
  BY <1>5, <1>6
<1>8. i - 1 \in m .. Len(s) /\ i \in 1 .. Len(s) /\ ~ (i <= i - 1)
  BY <1>5, <1>7
<1>9. f[m] <= f[i - 1]
  BY <1>2, <1>4, <1>8
<1>10. f[i] = f[i - 1] + s[i] /\ f[i - 1] \in Nat /\ s[i] \in Nat
  BY <1>1, <1>8, TotalAfter
<1> QED BY <1>5, <1>6, <1>9, <1>10

LEMMA SumOfAppended ==
    ASSUME NEW s \in Seq(Nat), NEW x \in Nat
    PROVE  SumOf(Append(s, x)) = SumOf(s) + x
<1>1. PICK t, n : t = Append(s, x) /\ n = Len(s)
  OBVIOUS
<1>2. t \in Seq(Nat) /\ n \in Nat /\ Len(t) = n + 1 /\ t[n + 1] = x
      /\ \A i \in 1 .. n : t[i] = s[i]
  BY <1>1
<1>3. RunningTotal(t)[n] - RunningTotal(t)[0] = RunningTotal(s)[n] - RunningTotal(s)[0]
  <2>1. 0 <= n /\ n <= Len(s) /\ n <= Len(t) /\ \A i \in 0 + 1 .. n : t[i] = s[i]
    BY <1>1, <1>2
  <2> QED BY <1>2, <2>1, TotalsGrowAlike
<1>4. RunningTotal(s)[n] \in Nat /\ RunningTotal(s)[0] = 0 /\ RunningTotal(t)[0] = 0
  <2>1. n \in 0 .. Len(s)
    BY <1>1, <1>2
  <2> QED BY <1>2, <2>1, TotalAt
<1>5. RunningTotal(t)[n + 1] = RunningTotal(t)[n] + x /\ RunningTotal(t)[n] \in Nat
  <2>1. n + 1 \in 1 .. Len(t) /\ (n + 1) - 1 = n
    BY <1>2
  <2> QED BY <1>2, <2>1, TotalAfter
<1>6. SumOf(t) = RunningTotal(t)[n + 1] /\ SumOf(s) = RunningTotal(s)[n]
  BY <1>1, <1>2 DEF SumOf
<1> QED BY <1>1, <1>3, <1>4, <1>5, <1>6

LEMMA SumOfReplaced ==
    ASSUME NEW s \in Seq(Nat), NEW k \in 1 .. Len(s), NEW x \in Nat
    PROVE  SumOf([s EXCEPT ![k] = x]) = SumOf(s) - s[k] + x
<1>1. PICK t, n : t = [s EXCEPT ![k] = x] /\ n = Len(s)
  OBVIOUS
<1>2. t \in Seq(Nat) /\ n \in Nat /\ Len(t) = n /\ t[k] = x /\ k \in 1 .. n
      /\ \A i \in 1 .. n : i # k => t[i] = s[i]
  BY <1>1
<1>3. PICK f, g : f = RunningTotal(s) /\ g = RunningTotal(t)
  OBVIOUS
<1>4. g[k - 1] - g[0] = f[k - 1] - f[0]
  <2>1. PICK m : m = k - 1
    OBVIOUS
  <2>2. m \in Nat /\ 0 <= m /\ m <= Len(s) /\ m <= Len(t) /\ \A i \in 0 + 1 .. m : t[i] = s[i]
    <3>1. m \in Nat /\ m < k /\ m <= n /\ \A i \in 1 .. m : i \in 1 .. n /\ i # k
      BY <1>2, <2>1
    <3>2. \A i \in 1 .. m : t[i] = s[i]
      BY <1>2, <3>1, Zenon
    <3> QED BY <1>1, <1>2, <3>1, <3>2
  <2>3. RunningTotal(t)[m] - RunningTotal(t)[0] = RunningTotal(s)[m] - RunningTotal(s)[0]
    <3>1. 0 \in Nat
      OBVIOUS
    <3>2. t \in Seq(Nat)
      BY <1>2
    <3> QED BY <2>2, <3>1, <3>2, TotalsGrowAlike
  <2> QED BY <1>3, <2>1, <2>3
<1>5. g[n] - g[k] = f[n] - f[k]
  <2>1. \A i \in k + 1 .. n : i \in 1 .. n /\ i # k
    BY <1>2
  <2>2. \A i \in k + 1 .. n : t[i] = s[i]
    BY <1>2, <2>1, Zenon
  <2>3. k \in Nat /\ k <= n /\ n <= Len(s) /\ n <= Len(t)
    BY <1>1, <1>2
  <2>4. RunningTotal(t)[n] - RunningTotal(t)[k] = RunningTotal(s)[n] - RunningTotal(s)[k]
    BY <1>2, <2>2, <2>3, TotalsGrowAlike
  <2> QED BY <1>3, <2>4
<1>6. /\ f[k] = f[k - 1] + s[k] /\ f[k] \in Nat /\ f[k - 1] \in Nat /\ s[k] \in Nat
      /\ g[k] = g[k - 1] + x /\ g[k] \in Nat /\ g[k - 1] \in Nat
  <2>1. k \in 1 .. Len(t)
    BY <1>2
  <2> QED BY <1>2, <1>3, <2>1, TotalAfter
<1>7. f[0] = 0 /\ g[0] = 0 /\ f[n] \in Nat /\ g[n] \in Nat
  <2>1. n \in 0 .. Len(s) /\ n \in 0 .. Len(t)
    BY <1>1, <1>2
  <2> QED BY <1>2, <1>3, <2>1, TotalAt
<1>8. g[n] = f[n] - s[k] + x
  <2>1. PICK a \in Nat, b \in Nat, c \in Nat, d \in Nat, y \in Nat, u \in Nat, v \in Nat :
            /\ a = f[n] /\ b = g[n] /\ c = f[k] /\ d = g[k] /\ y = s[k]
            /\ u = f[k - 1] /\ v = g[k - 1]
    BY <1>6, <1>7
  <2>2. v - 0 = u - 0 /\ b - d = a - c /\ c = u + y /\ d = v + x
    BY <1>4, <1>5, <1>6, <1>7, <2>1
  <2>3. b = a - y + x
    BY <2>2
  <2> QED BY <2>1, <2>3
<1>9. SumOf(s) = f[n] /\ SumOf(t) = g[n]
  BY <1>1, <1>2, <1>3 DEF SumOf
<1> QED BY <1>1, <1>8, <1>9

-----------------------------------------------------------------------------
(* A slotted page: where its payloads lie, and what they say. *)
Entry == [offset : Nat, length : Nat, flags : {"live", "tombstone"}]
EmptyEntry == [offset |-> 0, length |-> 0, flags |-> "tombstone"]
Live(slots, s) == slots[s].flags # "tombstone"
SizesIn(slots) == [s \in 1 .. Len(slots) |-> IF Live(slots, s) THEN slots[s].length ELSE 0]
EntriesEnd(slots) == HEADER_LEN + Len(slots) * SLOT_LEN

Within(slots, end, s) ==
    /\ slots[s].length # 0 /\ slots[s].offset >= end
    /\ slots[s].offset + slots[s].length <= PageSize

Beside(slots, s, t) ==
    \/ slots[s].offset + slots[s].length <= slots[t].offset
    \/ slots[t].offset + slots[t].length <= slots[s].offset

(* The directory, then room, then from end on the payloads and holes; the
   payloads alone would leave no less room. *)
Layout(slots, end) ==
    /\ slots \in Seq(Entry) /\ end \in Nat
    /\ EntriesEnd(slots) <= end
    /\ end + SumOf(SizesIn(slots)) <= PageSize
    /\ \A s \in 1 .. Len(slots) :
          IF Live(slots, s) THEN Within(slots, end, s) ELSE slots[s] = EmptyEntry
    /\ \A s, t \in 1 .. Len(slots) :
          s # t /\ Live(slots, s) /\ Live(slots, t) => Beside(slots, s, t)

Kept(slots, cells, s, bytes) ==
    /\ bytes.length = slots[s].length
    /\ \A i \in 0 .. slots[s].length - 1 : cells[slots[s].offset + i] = << bytes, i >>

Shows(slots, cells, c) ==
    /\ c = [s \in 1 .. Len(slots) |-> c[s]]
    /\ \A s \in 1 .. Len(slots) :
          IF Live(slots, s) THEN c[s] \in SlotPayload /\ Kept(slots, cells, s, c[s])
          ELSE c[s] = Deleted

ContentsOf(slots, cells) ==
    [s \in 1 .. Len(slots) |->
        IF ~ Live(slots, s) THEN Deleted
        ELSE IF \E bytes \in SlotPayload : Kept(slots, cells, s, bytes)
        THEN CHOOSE bytes \in SlotPayload : Kept(slots, cells, s, bytes)
        ELSE [value |-> "garbled", length |-> slots[s].length]]

LEMMA EntryParts ==
    ASSUME NEW slots \in Seq(Entry), NEW s \in 1 .. Len(slots)
    PROVE  slots[s] \in Entry /\ slots[s].offset \in Nat /\ slots[s].length \in Nat
<1>1. slots[s] \in Entry
  OBVIOUS
<1> QED BY <1>1 DEF Entry

LEMMA SizesAreNaturals ==
    ASSUME NEW slots \in Seq(Entry)
    PROVE  /\ SizesIn(slots) \in Seq(Nat) /\ Len(SizesIn(slots)) = Len(slots)
           /\ SumOf(SizesIn(slots)) \in Nat
<1>1. PICK n \in Nat : n = Len(slots)
  OBVIOUS
<1>2. SizesIn(slots) \in [1 .. n -> Nat]
  BY <1>1, EntryParts DEF SizesIn
<1>3. SizesIn(slots) \in Seq(Nat) /\ Len(SizesIn(slots)) = n
  BY <1>1, <1>2
<1>4. n \in 0 .. Len(SizesIn(slots))
  BY <1>1, <1>3
<1> QED BY <1>1, <1>3, <1>4, TotalAt DEF SumOf

(* The first byte names the payload. *)
LEMMA OnePayload ==
    ASSUME NEW slots, NEW cells, NEW s, slots[s].length \in Nat \ {0},
           NEW a, Kept(slots, cells, s, a), NEW b, Kept(slots, cells, s, b)
    PROVE  a = b
<1>1. PICK n \in Nat \ {0} : n = slots[s].length
  OBVIOUS
<1>2. 0 \in 0 .. n - 1
  BY <1>1
<1>3. cells[slots[s].offset + 0] = << a, 0 >> /\ cells[slots[s].offset + 0] = << b, 0 >>
  BY <1>1, <1>2 DEF Kept
<1> QED BY <1>3

LEMMA ShownOnce ==
    ASSUME NEW slots, NEW end, NEW cells, NEW c, Layout(slots, end), Shows(slots, cells, c)
    PROVE  ContentsOf(slots, cells) = c
<1>1. ASSUME NEW s \in 1 .. Len(slots)
      PROVE  ContentsOf(slots, cells)[s] = c[s]
  <2>1. CASE ~ Live(slots, s)
    BY <2>1 DEF ContentsOf, Shows
  <2>2. CASE Live(slots, s)
    <3>1. c[s] \in SlotPayload /\ Kept(slots, cells, s, c[s])
      BY <2>2 DEF Shows
    <3>2. slots[s].length \in Nat \ {0}
      BY <2>2, EntryParts DEF Layout, Within
    <3>3. PICK b : b = CHOOSE bytes \in SlotPayload : Kept(slots, cells, s, bytes)
      OBVIOUS
    <3>4. b \in SlotPayload /\ Kept(slots, cells, s, b)
      BY <3>1, <3>3
    <3>5. b = c[s]
      BY <3>1, <3>2, <3>4, OnePayload
    <3>6. ContentsOf(slots, cells)[s] = CHOOSE bytes \in SlotPayload : Kept(slots, cells, s, bytes)
      BY <2>2, <3>1 DEF ContentsOf
    <3> QED BY <3>3, <3>5, <3>6
  <2> QED BY <2>1, <2>2
<1>2. c = [s \in 1 .. Len(slots) |-> c[s]]
  BY DEF Shows
<1>3. ContentsOf(slots, cells) = [s \in 1 .. Len(slots) |-> ContentsOf(slots, cells)[s]]
  BY DEF ContentsOf
<1> QED BY <1>1, <1>2, <1>3, Zenon

(* compact: the payloads in their order, end to end, against the page's end. *)
PackedOffset(slots, s) == PageSize - RunningTotal(SizesIn(slots))[s]

LEMMA PackedRanges ==
    ASSUME NEW slots, NEW end, Layout(slots, end),
           NEW s \in 1 .. Len(slots), Live(slots, s)
    PROVE  /\ PackedOffset(slots, s) \in Nat /\ slots[s].length \in Nat \ {0}
           /\ PackedOffset(slots, s) >= PageSize - SumOf(SizesIn(slots))
           /\ PackedOffset(slots, s) + slots[s].length <= PageSize
           /\ \A t \in 1 .. s - 1 :
                 PackedOffset(slots, s) + slots[s].length <= PackedOffset(slots, t)
<1>1. PICK z : z = SizesIn(slots)
  OBVIOUS
<1>2. slots \in Seq(Entry) /\ end \in Nat /\ end + SumOf(z) <= PageSize
  BY <1>1 DEF Layout
<1>3. z \in Seq(Nat) /\ Len(z) = Len(slots) /\ SumOf(z) \in Nat
  BY <1>1, <1>2, SizesAreNaturals
<1>4. z[s] = slots[s].length
  BY <1>1 DEF SizesIn
<1>5. slots[s].length \in Nat \ {0}
  BY <1>2, EntryParts DEF Layout, Within
<1>6. PICK r : r = RunningTotal(z)
  OBVIOUS
<1>7. r[s] = r[s - 1] + z[s] /\ r[s] \in Nat /\ r[s - 1] \in Nat
  BY <1>3, <1>6, TotalAfter
<1>8. r[s] <= SumOf(z)
  <2>1. s \in 0 .. Len(z) /\ Len(z) \in s .. Len(z)
    BY <1>3
  <2> QED BY <1>3, <1>6, <2>1, TotalsRise DEF SumOf
<1>9. ASSUME NEW t \in 1 .. s - 1 PROVE r[t] <= r[s - 1] /\ r[t] \in Nat
  <2>1. PICK m : m = s - 1
    OBVIOUS
  <2>2. t \in 0 .. Len(z) /\ m \in t .. Len(z)
    BY <1>3, <2>1
  <2>3. RunningTotal(z)[t] <= RunningTotal(z)[m] /\ RunningTotal(z)[t] \in Nat
    BY <1>3, <2>2, TotalsRise, TotalAt
  <2> QED BY <1>6, <2>1, <2>3
<1>10. PageSize \in Nat
  BY PageConstants
<1>11. \A t : PackedOffset(slots, t) = PageSize - r[t]
  BY <1>1, <1>6 DEF PackedOffset
<1>12. PICK u \in Nat, v \in Nat, w \in Nat : u = r[s] /\ v = r[s - 1] /\ w = SumOf(z)
  BY <1>3, <1>7
<1>13. u = v + slots[s].length /\ u <= w /\ w <= PageSize
  BY <1>2, <1>4, <1>7, <1>8, <1>10, <1>12
<1>14. \A t \in 1 .. s - 1 : r[t] <= v /\ r[t] \in Nat
  BY <1>9, <1>12
<1>15. PackedOffset(slots, s) = PageSize - u
  BY <1>11, <1>12
<1>16. PageSize - u + slots[s].length = PageSize - v
  <2>1. PICK l \in Nat : l = slots[s].length
    BY <1>5
  <2>2. u = v + l
    BY <1>13, <2>1
  <2>3. PageSize - u + l = PageSize - v
    BY <1>10, <2>2
  <2> QED BY <2>1, <2>3
<1>17. ASSUME NEW t \in 1 .. s - 1
       PROVE  PackedOffset(slots, s) + slots[s].length <= PackedOffset(slots, t)
  <2>1. PICK y \in Nat : y = r[t] /\ y <= v
    BY <1>14
  <2>2. PageSize - v <= PageSize - y
    BY <1>10, <1>12, <2>1
  <2> QED BY <1>11, <1>15, <1>16, <2>1, <2>2
<1>18. PageSize - u \in Nat /\ PageSize - u >= PageSize - w /\ PageSize - v <= PageSize
  <2>1. u <= w /\ w <= PageSize
    BY <1>13
  <2> QED BY <1>10, <2>1
<1> QED BY <1>1, <1>5, <1>12, <1>15, <1>16, <1>17, <1>18

Repacked(slots, cells, slots2, cells2) ==
    /\ slots2 = [s \in 1 .. Len(slots) |->
                   IF Live(slots, s)
                   THEN [slots[s] EXCEPT !.offset = PackedOffset(slots, s)] ELSE slots[s]]
    /\ \A s \in 1 .. Len(slots) : Live(slots, s) =>
           \A i \in 0 .. slots[s].length - 1 :
               cells2[PackedOffset(slots, s) + i] = cells[slots[s].offset + i]

LEMMA CompactedPage ==
    ASSUME NEW slots, NEW end, NEW cells, NEW c, Layout(slots, end), Shows(slots, cells, c),
           NEW slots2, NEW cells2, Repacked(slots, cells, slots2, cells2)
    PROVE  /\ Layout(slots2, PageSize - SumOf(SizesIn(slots)))
           /\ Shows(slots2, cells2, c)
           /\ Len(slots2) = Len(slots) /\ SizesIn(slots2) = SizesIn(slots)
           /\ \A s \in 1 .. Len(slots) : Live(slots2, s) <=> Live(slots, s)
<1>1. PICK n \in Nat : n = Len(slots)
  BY DEF Layout
<1>2. slots \in Seq(Entry) /\ end \in Nat /\ PageSize \in Nat
  BY PageConstants DEF Layout
<1>3. ASSUME NEW s \in 1 .. n
      PROVE  /\ slots2[s] \in Entry /\ slots2[s].length = slots[s].length
             /\ Live(slots2, s) <=> Live(slots, s)
             /\ Live(slots, s) => slots2[s].offset = PackedOffset(slots, s)
             /\ ~ Live(slots, s) => slots2[s] = slots[s]
  <2>1. slots[s] \in Entry
    BY <1>1, <1>2
  <2>2. CASE Live(slots, s)
    <3>1. PackedOffset(slots, s) \in Nat
      BY <1>1, <2>2, PackedRanges
    <3>2. slots2[s] = [slots[s] EXCEPT !.offset = PackedOffset(slots, s)]
      BY <1>1, <2>2 DEF Repacked
    <3>3. PICK e \in Entry, o \in Nat : e = slots[s] /\ o = PackedOffset(slots, s)
      BY <2>1, <3>1
    <3>4. PICK f : f = [e EXCEPT !.offset = o]
      OBVIOUS
    <3>5. f \in Entry /\ f.length = e.length /\ f.flags = e.flags /\ f.offset = o
      BY <3>3, <3>4 DEF Entry
    <3>6. slots2[s] = f
      BY <3>2, <3>3, <3>4
    <3> QED BY <2>2, <3>3, <3>5, <3>6 DEF Live
  <2>3. CASE ~ Live(slots, s)
    BY <1>1, <2>1, <2>3 DEF Live, Repacked
  <2> QED BY <2>2, <2>3
<1>4. slots2 \in Seq(Entry) /\ Len(slots2) = n
  <2>1. slots2 = [s \in 1 .. n |-> slots2[s]]
    BY <1>1 DEF Repacked
  <2>2. slots2 \in [1 .. n -> Entry]
    BY <1>3, <2>1
  <2> QED BY <1>1, <2>2
<1>5. SizesIn(slots2) = SizesIn(slots)
  <2>1. \A s \in 1 .. n : (IF Live(slots2, s) THEN slots2[s].length ELSE 0)
                         = (IF Live(slots, s) THEN slots[s].length ELSE 0)
    BY <1>3
  <2>2. SizesIn(slots2) = [s \in 1 .. n |-> IF Live(slots2, s) THEN slots2[s].length ELSE 0]
    BY <1>4 DEF SizesIn
  <2>3. SizesIn(slots) = [s \in 1 .. n |-> IF Live(slots, s) THEN slots[s].length ELSE 0]
    BY <1>1 DEF SizesIn
  <2> QED BY <2>1, <2>2, <2>3
<1>6. PICK w \in Nat : w = SumOf(SizesIn(slots))
  BY <1>2, SizesAreNaturals
<1>7. end + w <= PageSize /\ EntriesEnd(slots) <= end
  BY <1>6 DEF Layout
<1>8. PageSize - w \in Nat /\ PageSize - w >= end
  BY <1>2, <1>6, <1>7
<1>9. EntriesEnd(slots2) <= PageSize - w
  <2>1. EntriesEnd(slots2) = EntriesEnd(slots)
    BY <1>1, <1>4 DEF EntriesEnd
  <2>2. EntriesEnd(slots) \in Int
    <3>1. HEADER_LEN \in Int /\ SLOT_LEN \in Int
      BY PageConstants
    <3> QED BY <1>1, <3>1 DEF EntriesEnd
  <2> QED BY <1>2, <1>7, <1>8, <2>1, <2>2
<1>10. ASSUME NEW s \in 1 .. n, Live(slots2, s) PROVE Within(slots2, PageSize - w, s)
  <2>1. /\ PackedOffset(slots, s) >= PageSize - w
        /\ PackedOffset(slots, s) + slots[s].length <= PageSize
        /\ slots[s].length # 0
    BY <1>1, <1>3, <1>6, <1>10, PackedRanges
  <2> QED BY <1>3, <1>10, <2>1 DEF Within
<1>11. ASSUME NEW s \in 1 .. n, ~ Live(slots2, s) PROVE slots2[s] = EmptyEntry
  BY <1>1, <1>3, <1>11 DEF Layout
<1>12. ASSUME NEW s \in 1 .. n, NEW t \in 1 .. n, s # t, Live(slots2, s), Live(slots2, t)
       PROVE  Beside(slots2, s, t)
  <2>1. t \in 1 .. s - 1 \/ s \in 1 .. t - 1
    BY <1>12
  <2>2. /\ t \in 1 .. s - 1 => PackedOffset(slots, s) + slots[s].length <= PackedOffset(slots, t)
        /\ s \in 1 .. t - 1 => PackedOffset(slots, t) + slots[t].length <= PackedOffset(slots, s)
    BY <1>1, <1>3, <1>12, PackedRanges
  <2>3. /\ slots2[s].offset = PackedOffset(slots, s) /\ slots2[s].length = slots[s].length
        /\ slots2[t].offset = PackedOffset(slots, t) /\ slots2[t].length = slots[t].length
    BY <1>3, <1>12
  <2> QED BY <2>1, <2>2, <2>3 DEF Beside
<1>13. Layout(slots2, PageSize - w)
  <2>1. (PageSize - w) + SumOf(SizesIn(slots2)) <= PageSize
    BY <1>2, <1>5, <1>6
  <2> QED BY <1>4, <1>8, <1>9, <1>10, <1>11, <1>12, <2>1 DEF Layout
<1>14. ASSUME NEW s \in 1 .. n, Live(slots, s) PROVE Kept(slots2, cells2, s, c[s])
  <2>1. Kept(slots, cells, s, c[s])
    BY <1>1, <1>14 DEF Shows
  <2>2. \A i \in 0 .. slots[s].length - 1 :
            cells2[PackedOffset(slots, s) + i] = cells[slots[s].offset + i]
    BY <1>1, <1>14 DEF Repacked
  <2>3. slots2[s].offset = PackedOffset(slots, s) /\ slots2[s].length = slots[s].length
    BY <1>3, <1>14
  <2> QED BY <2>1, <2>2, <2>3 DEF Kept
<1>15. Shows(slots2, cells2, c)
  <2>1. /\ c = [s \in 1 .. n |-> c[s]]
        /\ \A s \in 1 .. n : IF Live(slots, s) THEN c[s] \in SlotPayload ELSE c[s] = Deleted
    BY <1>1 DEF Shows
  <2> QED BY <1>3, <1>4, <1>14, <2>1 DEF Shows
<1> QED BY <1>1, <1>3, <1>4, <1>5, <1>6, <1>13, <1>15

(* Bytes that end where the payloads began. *)
LEMMA BelowEnd ==
    ASSUME NEW end \in Nat, NEW l \in Nat \ {0}, NEW start, start = end - l,
           NEW h \in Nat, NEW d \in Nat, h + d <= start,
           NEW size \in Nat, NEW w \in Nat, end + w <= size
    PROVE  /\ start \in Nat /\ start >= start /\ start + l <= size
           /\ start + (w + l) <= size
           /\ h <= start /\ start + l = end /\ end <= size
OBVIOUS

LEMMA InsideSpan ==
    ASSUME NEW h \in Nat, NEW start \in Nat, NEW l \in Nat, NEW end \in Nat, NEW size \in Nat,
           h <= start, start + l = end, end <= size, NEW i \in 0 .. l - 1
    PROVE  /\ start + i \in start .. end - 1
           /\ start + i \in h .. size - 1 /\ (start + i) - start = i
OBVIOUS

LEMMA BehindSpan ==
    ASSUME NEW h \in Nat, NEW start \in Nat, NEW l \in Nat, NEW end \in Nat, NEW size \in Nat,
           h <= start, start + l = end, end <= size,
           NEW o \in Nat, NEW x \in Nat, o >= end, o + x <= size
    PROVE  o >= start /\ start + l <= o
OBVIOUS

LEMMA BytesBehindSpan ==
    ASSUME NEW h \in Nat, NEW start \in Nat, NEW end \in Nat, NEW size \in Nat,
           h <= start, start <= end,
           NEW o \in Nat, NEW x \in Nat, o >= end, o + x <= size, NEW i \in 0 .. x - 1
    PROVE  o + i \notin start .. end - 1 /\ o + i \in h .. size - 1
OBVIOUS

(* insert: slot k, a new one or a tombstone, gets the bytes below end. *)
Placed(slots, end, cells, c, slots2, cells2, c2, k, bytes, start) ==
    /\ start = end - bytes.length /\ EntriesEnd(slots2) <= start
    /\ SumOf(SizesIn(slots2)) = SumOf(SizesIn(slots)) + bytes.length
    /\ slots2 \in Seq(Entry) /\ k \in 1 .. Len(slots2)
    /\ slots2[k] = [offset |-> start, length |-> bytes.length, flags |-> "live"]
    /\ \A s \in 1 .. Len(slots2) :
           s # k => s \in 1 .. Len(slots) /\ slots2[s] = slots[s] /\ c2[s] = c[s]
    /\ c2 = [s \in 1 .. Len(slots2) |-> c2[s]] /\ c2[k] = bytes
    /\ DOMAIN cells = HEADER_LEN .. PageSize - 1
    /\ cells2 = [a \in DOMAIN cells |->
                   IF a \in start .. end - 1 THEN << bytes, a - start >> ELSE cells[a]]

LEMMA PlacedPayload ==
    ASSUME NEW slots, NEW end, NEW cells, NEW c, Layout(slots, end), Shows(slots, cells, c),
           NEW bytes \in SlotPayload, NEW slots2, NEW cells2, NEW c2, NEW k, NEW start,
           Placed(slots, end, cells, c, slots2, cells2, c2, k, bytes, start)
    PROVE  Layout(slots2, start) /\ Shows(slots2, cells2, c2)
<1>20. /\ start = end - bytes.length /\ EntriesEnd(slots2) <= start
       /\ SumOf(SizesIn(slots2)) = SumOf(SizesIn(slots)) + bytes.length
  BY DEF Placed
<1>21. /\ slots2 \in Seq(Entry) /\ k \in 1 .. Len(slots2)
       /\ slots2[k] = [offset |-> start, length |-> bytes.length, flags |-> "live"]
  BY DEF Placed
<1>22. \A s \in 1 .. Len(slots2) :
           s # k => s \in 1 .. Len(slots) /\ slots2[s] = slots[s] /\ c2[s] = c[s]
  BY DEF Placed
<1>23. c2 = [s \in 1 .. Len(slots2) |-> c2[s]] /\ c2[k] = bytes
  BY DEF Placed
<1>24. \A a \in HEADER_LEN .. PageSize - 1 :
           cells2[a] = IF a \in start .. end - 1 THEN << bytes, a - start >> ELSE cells[a]
  <2>1. PICK D : D = HEADER_LEN .. PageSize - 1
    OBVIOUS
  <2>2. /\ DOMAIN cells = D
        /\ cells2 = [a \in DOMAIN cells |->
                       IF a \in start .. end - 1 THEN << bytes, a - start >> ELSE cells[a]]
    BY <2>1 DEF Placed
  <2> QED BY <2>1, <2>2, Zenon
<1>1. PICK n \in Nat, m \in Nat : n = Len(slots) /\ m = Len(slots2)
  BY <1>21 DEF Layout
<1>2. /\ slots \in Seq(Entry) /\ end \in Nat /\ PageSize \in Nat
      /\ HEADER_LEN \in Nat /\ SLOT_LEN \in Nat
  BY PageConstants DEF Layout
<1>3. PICK l \in Nat \ {0} : l = bytes.length
  BY PageConstants
<1>4. PICK w \in Nat : w = SumOf(SizesIn(slots))
  BY <1>2, SizesAreNaturals
<1>5. end + w <= PageSize
  BY <1>4 DEF Layout
<1>6. PICK d \in Nat : d = m * SLOT_LEN
  BY <1>1, <1>2
<1>7. HEADER_LEN + d <= start /\ start = end - l
  BY <1>1, <1>3, <1>6, <1>20 DEF EntriesEnd
<1>8. /\ start \in Nat /\ start >= start /\ start + l <= PageSize
      /\ start + (w + l) <= PageSize
      /\ HEADER_LEN <= start /\ start + l = end /\ end <= PageSize
  <2>1. end \in Nat /\ PageSize \in Nat /\ HEADER_LEN \in Nat
    BY <1>2
  <2> QED BY <1>5, <1>7, <2>1, BelowEnd
<1>9. l \in Nat
  BY <1>3
<1>10. /\ slots2[k].offset = start /\ slots2[k].length = l /\ slots2[k].flags = "live"
  <2>1. PICK e : e = slots2[k]
    OBVIOUS
  <2>2. e = [offset |-> start, length |-> l, flags |-> "live"]
    BY <1>3, <1>21, <2>1
  <2> QED BY <2>1, <2>2
<1>11. ASSUME NEW s \in 1 .. m, s # k
       PROVE  /\ s \in 1 .. n /\ slots2[s] = slots[s] /\ c2[s] = c[s]
              /\ Live(slots2, s) <=> Live(slots, s)
              /\ Live(slots, s) => Within(slots, end, s)
              /\ ~ Live(slots, s) => slots[s] = EmptyEntry
              /\ slots[s].offset \in Nat /\ slots[s].length \in Nat
  <2>1. s \in 1 .. n /\ slots2[s] = slots[s] /\ c2[s] = c[s]
    BY <1>1, <1>11, <1>22
  <2> QED BY <1>1, <1>2, <2>1, EntryParts DEF Layout, Live
<1>12. Live(slots2, k) /\ Within(slots2, start, k)
  <2>1. start >= start /\ l # 0 /\ start + l <= PageSize
    BY <1>3, <1>8, Zenon
  <2> QED BY <1>10, <2>1 DEF Live, Within
<1>13. ASSUME NEW s \in 1 .. m, s # k, Live(slots2, s)
       PROVE  Within(slots2, start, s) /\ Beside(slots2, s, k)
  <2>1. Within(slots, end, s) /\ slots2[s] = slots[s] /\ slots[s].offset \in Nat
        /\ slots[s].length \in Nat
    BY <1>11, <1>13
  <2>2. PICK o \in Nat, x \in Nat : o = slots2[s].offset /\ x = slots2[s].length
    BY <2>1
  <2>3. x # 0 /\ o >= end /\ o + x <= PageSize
    BY <2>1, <2>2 DEF Within
  <2>4. o >= start /\ start + l <= o
    BY <1>2, <1>8, <1>9, <2>2, <2>3, BehindSpan
  <2> QED BY <1>10, <2>2, <2>3, <2>4 DEF Within, Beside
<1>14. ASSUME NEW s \in 1 .. m, NEW t \in 1 .. m, s # t, Live(slots2, s), Live(slots2, t)
       PROVE  Beside(slots2, s, t)
  <2>1. CASE s = k
    BY <1>13, <1>14, <2>1 DEF Beside
  <2>2. CASE t = k
    BY <1>13, <1>14, <2>2
  <2>3. CASE s # k /\ t # k
    <3>1. Beside(slots, s, t)
      BY <1>1, <1>11, <1>14, <2>3 DEF Layout
    <3> QED BY <1>11, <1>14, <2>3, <3>1 DEF Beside
  <2> QED BY <2>1, <2>2, <2>3
<1>15. Layout(slots2, start)
  <2>1. start + SumOf(SizesIn(slots2)) <= PageSize
    BY <1>3, <1>4, <1>8, <1>20
  <2>2. ASSUME NEW s \in 1 .. Len(slots2)
        PROVE  IF Live(slots2, s) THEN Within(slots2, start, s) ELSE slots2[s] = EmptyEntry
    BY <1>1, <1>11, <1>12, <1>13
  <2> QED BY <1>1, <1>8, <1>14, <1>20, <1>21, <2>1, <2>2 DEF Layout
<1>16. Kept(slots2, cells2, k, bytes)
  <2>1. ASSUME NEW i \in 0 .. l - 1 PROVE cells2[start + i] = << bytes, i >>
    <3>1. PICK a : a = start + i
      OBVIOUS
    <3>2. a \in start .. end - 1 /\ a \in HEADER_LEN .. PageSize - 1 /\ a - start = i
      <4>1. /\ start + i \in start .. end - 1
            /\ start + i \in HEADER_LEN .. PageSize - 1 /\ (start + i) - start = i
        BY <1>2, <1>8, <1>9, InsideSpan
      <4> QED BY <3>1, <4>1, Zenon
    <3> QED BY <1>24, <3>1, <3>2
  <2> QED BY <1>3, <1>10, <2>1 DEF Kept
<1>17. ASSUME NEW s \in 1 .. m, s # k, Live(slots2, s) PROVE Kept(slots2, cells2, s, c2[s])
  <2>1. PICK o \in Nat, x \in Nat : o = slots[s].offset /\ x = slots[s].length
    BY <1>11, <1>17
  <2>2. Within(slots, end, s) /\ Kept(slots, cells, s, c[s]) /\ slots2[s] = slots[s] /\ c2[s] = c[s]
    BY <1>1, <1>11, <1>17 DEF Shows
  <2>3. ASSUME NEW i \in 0 .. x - 1 PROVE cells2[o + i] = << c[s], i >>
    <3>1. PICK a : a = o + i
      OBVIOUS
    <3>2. o >= end /\ o + x <= PageSize
      BY <2>1, <2>2 DEF Within
    <3>3. a \notin start .. end - 1 /\ a \in HEADER_LEN .. PageSize - 1
      <4>1. o + i \notin start .. end - 1 /\ o + i \in HEADER_LEN .. PageSize - 1
        <5>1. start <= end
          BY <1>2, <1>8, <1>9
        <5>2. end \in Nat /\ PageSize \in Nat /\ HEADER_LEN \in Nat
          BY <1>2
        <5> QED BY <1>8, <3>2, <5>1, <5>2, BytesBehindSpan
      <4> QED BY <3>1, <4>1, Zenon
    <3>4. cells[a] = << c[s], i >>
      BY <2>1, <2>2, <3>1 DEF Kept
    <3> QED BY <1>24, <3>1, <3>3, <3>4
  <2>4. c[s].length = x
    BY <2>1, <2>2 DEF Kept
  <2> QED BY <2>1, <2>2, <2>3, <2>4 DEF Kept
<1>18. Shows(slots2, cells2, c2)
  <2>1. ASSUME NEW s \in 1 .. Len(slots2)
        PROVE  IF Live(slots2, s) THEN c2[s] \in SlotPayload /\ Kept(slots2, cells2, s, c2[s])
               ELSE c2[s] = Deleted
    <3>1. CASE s = k
      BY <1>12, <1>16, <1>23, <3>1
    <3>2. CASE s # k
      BY <1>1, <1>11, <1>17, <3>2 DEF Shows
    <3> QED BY <3>1, <3>2
  <2> QED BY <1>23, <2>1 DEF Shows
<1> QED BY <1>15, <1>18

-----------------------------------------------------------------------------
(* The page of the model. *)
PageInv ==
    /\ Layout(slot, freeEnd)
    /\ DOMAIN data = HEADER_LEN .. PageSize - 1
    /\ Shows(slot, data, Slotted!Contents)

LEMMA SameSums ==
    /\ \A z : Slotted!RunningTotal(z) = RunningTotal(z) /\ Slotted!SumOf(z) = SumOf(z)
    /\ \A z : Slotted!Directory!SumOf(z) = SumOf(z)
BY DEF Slotted!SumOf, Slotted!RunningTotal, Slotted!Directory!SumOf,
       Slotted!Directory!RunningTotal, SumOf, RunningTotal

LEMMA PageParts ==
    ASSUME slot \in Seq(Entry)
    PROVE  /\ Slotted!Slots = 1 .. Len(slot)
           /\ \A s : Slotted!IsLive(s) <=> Live(slot, s)
           /\ Slotted!Sizes = SizesIn(slot)
           /\ Slotted!PackedEnd = PageSize - SumOf(SizesIn(slot))
           /\ \A s : Slotted!PackedAt(s) = PackedOffset(slot, s)
<1>1. Slotted!Slots = 1 .. Len(slot)
  BY DEF Slotted!Slots
<1>2. \A s : Slotted!IsLive(s) <=> Live(slot, s)
  BY DEF Slotted!IsLive, Live
<1>3. Slotted!Sizes = SizesIn(slot)
  BY <1>2 DEF Slotted!Sizes, SizesIn
<1>4. Slotted!PackedEnd = PageSize - SumOf(SizesIn(slot))
  BY <1>3, SameSums DEF Slotted!PackedEnd
<1>5. \A s : Slotted!PackedAt(s) = PackedOffset(slot, s)
  BY <1>3, SameSums DEF Slotted!PackedAt, PackedOffset
<1> QED BY <1>1, <1>2, <1>3, <1>4, <1>5

LEMMA ContentsNow ==
    ASSUME slot \in Seq(Entry)
    PROVE  Slotted!Contents = ContentsOf(slot, data)
BY DEF Slotted!Contents, Slotted!Slots, Slotted!IsLive, Slotted!Readable, Slotted!Get,
       Slotted!Holds, Slotted!Byte, ContentsOf, Live, Kept

LEMMA ContentsNext ==
    ASSUME NEW end, NEW c, Layout(slot', end), Shows(slot', data', c)
    PROVE  (Slotted!Contents)' = c
<1>1. slot' \in Seq(Entry)
  BY DEF Layout
<1>2. (Slotted!Contents)' = ContentsOf(slot', data')
  BY <1>1 DEF Slotted!Contents, Slotted!Slots, Slotted!IsLive, Slotted!Readable, Slotted!Get,
              Slotted!Holds, Slotted!Byte, ContentsOf, Live, Kept
<1> QED BY <1>2, ShownOnce

LEMMA PageKept ==
    ASSUME NEW c, Layout(slot', freeEnd'), Shows(slot', data', c), DOMAIN data' = DOMAIN data,
           PageInv
    PROVE  PageInv' /\ (Slotted!Contents)' = c
<1>1. (Slotted!Contents)' = c
  BY ContentsNext
<1> QED BY <1>1 DEF PageInv, Layout, Shows

LEMMA CompactedKeeps ==
    ASSUME PageInv, NEW page, page = Slotted!Compacted
    PROVE  /\ Layout(page.slot, page.freeEnd)
           /\ Shows(page.slot, page.data, Slotted!Contents)
           /\ DOMAIN page.data = DOMAIN data
           /\ Len(page.slot) = Len(slot) /\ SizesIn(page.slot) = SizesIn(slot)
           /\ \A s \in 1 .. Len(slot) : Live(page.slot, s) <=> Live(slot, s)
           /\ page.freeEnd = PageSize - SumOf(SizesIn(slot))
<1>1. /\ Layout(slot, freeEnd) /\ slot \in Seq(Entry) /\ freeEnd \in Nat
      /\ DOMAIN data = HEADER_LEN .. PageSize - 1 /\ Shows(slot, data, Slotted!Contents)
  BY DEF PageInv, Layout
<1>2. PICK n \in Nat : n = Len(slot)
  BY <1>1
<1> DEFINE at(a) == {s \in 1 .. n : Live(slot, s)
                                      /\ a - PackedOffset(slot, s) \in 0 .. slot[s].length - 1}
           cells == [a \in DOMAIN data |->
                       IF at(a) = {} THEN << >>
                       ELSE LET s == CHOOSE s \in at(a) : TRUE
                            IN  data[slot[s].offset + a - PackedOffset(slot, s)]]
<1>3. /\ page.slot = [s \in 1 .. n |->
                        IF Live(slot, s)
                        THEN [slot[s] EXCEPT !.offset = PackedOffset(slot, s)] ELSE slot[s]]
      /\ page.freeEnd = PageSize - SumOf(SizesIn(slot))
      /\ page.data = cells
  <2>1. /\ Slotted!Slots = 1 .. n
        /\ \A s : Slotted!IsLive(s) <=> Live(slot, s)
        /\ \A s : Slotted!PackedAt(s) = PackedOffset(slot, s)
        /\ Slotted!PackedEnd = PageSize - SumOf(SizesIn(slot))
    BY <1>1, <1>2, PageParts
  <2>2. page.slot = Slotted!PackedSlots /\ page.freeEnd = Slotted!PackedEnd
    BY DEF Slotted!Compacted
  <2>3. Slotted!PackedSlots =
            [s \in 1 .. n |-> IF Live(slot, s)
                              THEN [slot[s] EXCEPT !.offset = PackedOffset(slot, s)] ELSE slot[s]]
    BY <2>1, Zenon DEF Slotted!PackedSlots
  <2>4. page.data = cells
    BY <2>1 DEF Slotted!Compacted, Slotted!Zero
  <2> QED BY <2>1, <2>2, <2>3, <2>4
<1>4. ASSUME NEW s \in 1 .. n, Live(slot, s), NEW i \in 0 .. slot[s].length - 1
      PROVE  page.data[PackedOffset(slot, s) + i] = data[slot[s].offset + i]
  <2>1. PICK p \in Nat, l \in Nat, o \in Nat :
            p = PackedOffset(slot, s) /\ l = slot[s].length /\ o = slot[s].offset
    BY <1>1, <1>2, <1>4, PackedRanges, EntryParts
  <2>2. PICK a : a = p + i
    OBVIOUS
  <2>3. a - p = i /\ i \in 0 .. l - 1 /\ a \in p .. p + l - 1 /\ o + a - p = o + i
    BY <2>1, <2>2
  <2>4. s \in at(a)
    BY <1>4, <2>1, <2>3
  <2>5. ASSUME NEW t \in at(a) PROVE t = s
    <3>1. PICK q \in Nat, m \in Nat : q = PackedOffset(slot, t) /\ m = slot[t].length
      BY <1>1, <1>2, PackedRanges, EntryParts
    <3>2. t \in 1 .. n /\ a - q \in 0 .. m - 1
      BY <3>1
    <3>3. a \in q .. q + m - 1
      BY <2>3, <3>1, <3>2
    <3>4. t \in 1 .. s - 1 => p + l <= q
      BY <1>1, <1>2, <1>4, <2>1, <3>1, PackedRanges
    <3>5. s \in 1 .. t - 1 => q + m <= p
      BY <1>1, <1>2, <1>4, <2>1, <3>1, PackedRanges
    <3>6. ~ (p + l <= q) /\ ~ (q + m <= p)
      BY <2>3, <3>3
    <3>7. t \notin 1 .. s - 1 /\ s \notin 1 .. t - 1
      BY <3>4, <3>5, <3>6
    <3> QED BY <3>2, <3>7
  <2>6. (CHOOSE t \in at(a) : TRUE) = s /\ at(a) # {}
    <3>1. PICK S : S = at(a)
      OBVIOUS
    <3>2. S = {s}
      BY <2>4, <2>5, <3>1
    <3> QED BY <3>1, <3>2
  <2>7. a \in DOMAIN data
    <3>1. PICK w \in Nat, d \in Nat : w = SumOf(SizesIn(slot)) /\ d = Len(slot) * SLOT_LEN
      <4>1. SLOT_LEN \in Nat
        BY PageConstants
      <4> QED BY <1>1, <1>2, <4>1, SizesAreNaturals
    <3>2. p >= PageSize - w /\ p + l <= PageSize
      BY <1>1, <1>2, <1>4, <2>1, <3>1, PackedRanges
    <3>3. freeEnd + w <= PageSize /\ HEADER_LEN + d <= freeEnd
      BY <1>1, <3>1 DEF Layout, EntriesEnd
    <3>4. HEADER_LEN \in Nat /\ PageSize \in Nat /\ freeEnd \in Nat
      BY <1>1, PageConstants
    <3>5. HEADER_LEN <= p
      BY <3>2, <3>3, <3>4
    <3>6. a \in HEADER_LEN .. PageSize - 1
      BY <2>3, <3>2, <3>4, <3>5
    <3> QED BY <1>1, <3>6
  <2>8. cells[a] = data[slot[s].offset + a - PackedOffset(slot, s)]
    BY <2>6, <2>7
  <2> QED BY <1>3, <2>1, <2>2, <2>3, <2>8
<1> HIDE DEF cells, at
<1>5. \A s \in 1 .. Len(slot) : Live(slot, s) =>
          \A i \in 0 .. slot[s].length - 1 :
              page.data[PackedOffset(slot, s) + i] = data[slot[s].offset + i]
  BY <1>2, <1>4
<1>6. page.slot = [s \in 1 .. Len(slot) |->
                     IF Live(slot, s)
                     THEN [slot[s] EXCEPT !.offset = PackedOffset(slot, s)] ELSE slot[s]]
  BY <1>2, <1>3
<1>7. /\ Layout(page.slot, PageSize - SumOf(SizesIn(slot)))
      /\ Shows(page.slot, page.data, Slotted!Contents)
      /\ Len(page.slot) = Len(slot) /\ SizesIn(page.slot) = SizesIn(slot)
      /\ \A s \in 1 .. Len(slot) : Live(page.slot, s) <=> Live(slot, s)
  <2>1. PICK slots, end, old, c, slots2, cells2 :
            /\ slots = slot /\ end = freeEnd /\ old = data /\ c = Slotted!Contents
            /\ slots2 = page.slot /\ cells2 = page.data
    OBVIOUS
  <2>2. Layout(slots, end) /\ Shows(slots, old, c)
    BY <1>1, <2>1
  <2>3. Repacked(slots, old, slots2, cells2)
    <3>1. Repacked(slot, data, page.slot, page.data)
      BY <1>5, <1>6 DEF Repacked
    <3> QED BY <2>1, <3>1
  <2>4. /\ Layout(slots2, PageSize - SumOf(SizesIn(slots)))
        /\ Shows(slots2, cells2, c)
        /\ Len(slots2) = Len(slots) /\ SizesIn(slots2) = SizesIn(slots)
        /\ \A s \in 1 .. Len(slots) : Live(slots2, s) <=> Live(slots, s)
    BY <2>2, <2>3, CompactedPage
  <2> QED BY <2>1, <2>4, Zenon
<1>8. DOMAIN page.data = DOMAIN data
  BY <1>3 DEF cells
<1> QED BY <1>3, <1>7, <1>8

LEMMA RoomArithmetic ==
    ASSUME NEW d \in Nat, NEW e \in Nat, NEW w \in Nat, NEW size \in Nat, NEW need \in Nat \ {0},
           d <= e, e + w <= size
    PROVE  /\ Slotted!Positive(e - d) >= need <=> d + need <= e
           /\ Slotted!Positive(size - d - w) >= need <=> d + w + need <= size
           /\ Slotted!Positive((size - w) - d) >= need <=> d + w + need <= size
           /\ d + need <= size - w <=> d + w + need <= size
           /\ d + need <= e => d + w + need <= size
           /\ Slotted!Positive(e - d) < need <=> ~ (d + need <= e)
BY DEF Slotted!Positive

LEMMA NeededIs ==
    ASSUME NEW bytes \in SlotPayload
    PROVE  /\ Slotted!Needed(bytes) \in Nat \ {0}
           /\ Slotted!Needed(bytes) =
                 bytes.length + (IF Slotted!Tombstones = {} THEN SLOT_LEN ELSE 0)
<1>1. bytes.length \in Nat \ {0} /\ SLOT_LEN \in Nat
  BY PageConstants
<1> QED BY <1>1 DEF Slotted!Needed, Slotted!ExtraDirectory

(* The page that insert writes to has the same payloads, and room for the new
   one exactly when the payloads and the directory leave it. *)
LEMMA PreparedKeeps ==
    ASSUME PageInv, NEW bytes \in SlotPayload, NEW page, page = Slotted!Prepared(bytes)
    PROVE  /\ Layout(page.slot, page.freeEnd)
           /\ Shows(page.slot, page.data, Slotted!Contents)
           /\ DOMAIN page.data = DOMAIN data
           /\ Len(page.slot) = Len(slot) /\ SizesIn(page.slot) = SizesIn(slot)
           /\ \A s \in 1 .. Len(slot) : Live(page.slot, s) <=> Live(slot, s)
           /\ Slotted!Fits(page, bytes)
                 <=> EntriesEnd(slot) + SumOf(SizesIn(slot)) + Slotted!Needed(bytes) <= PageSize
           /\ Slotted!Fits(page, bytes)
                 <=> EntriesEnd(slot) + Slotted!Needed(bytes) <= page.freeEnd
<1>1. slot \in Seq(Entry) /\ freeEnd \in Nat /\ PageSize \in Nat
  BY PageConstants DEF PageInv, Layout
<1>2. PICK w \in Nat, d \in Nat : w = SumOf(SizesIn(slot)) /\ d = EntriesEnd(slot)
  <2>1. EntriesEnd(slot) \in Nat
    <3>1. Len(slot) \in Nat /\ HEADER_LEN \in Nat /\ SLOT_LEN \in Nat
      BY <1>1, PageConstants
    <3> QED BY <3>1 DEF EntriesEnd
  <2> QED BY <1>1, <2>1, SizesAreNaturals
<1>3. PICK need \in Nat \ {0} : need = Slotted!Needed(bytes)
  BY NeededIs
<1>4. PICK e \in Nat : e = freeEnd /\ d <= e /\ e + w <= PageSize
  BY <1>1, <1>2 DEF PageInv, Layout
<1>5. /\ Slotted!Positive(e - d) >= need <=> d + need <= e
      /\ Slotted!Positive(PageSize - d - w) >= need <=> d + w + need <= PageSize
      /\ Slotted!Positive((PageSize - w) - d) >= need <=> d + w + need <= PageSize
      /\ d + need <= PageSize - w <=> d + w + need <= PageSize
      /\ d + need <= e => d + w + need <= PageSize
      /\ Slotted!Positive(e - d) < need <=> ~ (d + need <= e)
  BY <1>1, <1>4, RoomArithmetic
<1>6. Slotted!DirectoryEnd(Len(slot)) = d
  BY <1>2 DEF Slotted!DirectoryEnd, EntriesEnd
<1>7. Slotted!ContiguousFree = Slotted!Positive(e - d)
  BY <1>4, <1>6 DEF Slotted!ContiguousFree
<1>8. Slotted!ReclaimableFree = Slotted!Positive(PageSize - d - w)
  BY <1>1, <1>2, <1>6, PageParts, SameSums DEF Slotted!ReclaimableFree
<1>9. Slotted!Fits(page, bytes) <=>
          Slotted!Positive(page.freeEnd - Slotted!DirectoryEnd(Len(page.slot))) >= need
  BY <1>3 DEF Slotted!Fits
<1>10. CASE ~ (d + need <= e) /\ d + w + need <= PageSize
  <2>1. page = Slotted!Compacted
    BY <1>3, <1>5, <1>7, <1>8, <1>10 DEF Slotted!Prepared
  <2>2. /\ Layout(page.slot, page.freeEnd)
        /\ Shows(page.slot, page.data, Slotted!Contents)
        /\ DOMAIN page.data = DOMAIN data
        /\ Len(page.slot) = Len(slot) /\ SizesIn(page.slot) = SizesIn(slot)
        /\ \A s \in 1 .. Len(slot) : Live(page.slot, s) <=> Live(slot, s)
        /\ page.freeEnd = PageSize - w
    BY <1>2, <2>1, CompactedKeeps
  <2>3. Slotted!Fits(page, bytes) /\ d + need <= page.freeEnd
    BY <1>5, <1>6, <1>9, <1>10, <2>2
  <2> QED BY <1>2, <1>3, <1>10, <2>2, <2>3
<1>11. CASE ~ (~ (d + need <= e) /\ d + w + need <= PageSize)
  <2>1. page = Slotted!Unmoved
    BY <1>3, <1>5, <1>7, <1>8, <1>11 DEF Slotted!Prepared
  <2>2. page.slot = slot /\ page.freeEnd = freeEnd /\ page.data = data
    BY <2>1 DEF Slotted!Unmoved
  <2>3. Slotted!Fits(page, bytes) <=> d + need <= e
    BY <1>4, <1>5, <1>6, <1>9, <2>2
  <2>4. Slotted!Fits(page, bytes) <=> d + w + need <= PageSize
    BY <1>5, <1>11, <2>3
  <2> QED BY <1>2, <1>3, <1>4, <2>2, <2>3, <2>4 DEF PageInv
<1> QED BY <1>10, <1>11

(* What the directory of the page means. *)
LEMMA DirectoryIs ==
    ASSUME PageInv
    PROVE  /\ Slotted!Directory!Live = {s \in 1 .. Len(slot) : Live(slot, s)}
           /\ Slotted!Directory!Slots \ Slotted!Directory!Live = Slotted!Tombstones
           /\ Slotted!Directory!Live = Slotted!Directory!Slots <=> Slotted!Tombstones = {}
           /\ Slotted!Directory!Free = Slotted!Target
           /\ Slotted!Tombstones = {} => Slotted!Target = Len(slot) + 1
           /\ Slotted!Tombstones # {} => Slotted!Target \in Slotted!Tombstones
           /\ Slotted!Tombstones = {s \in 1 .. Len(slot) : ~ Live(slot, s)}
           /\ \A bytes \in SlotPayload :
                 Slotted!Directory!HasRoom(bytes) <=>
                    EntriesEnd(slot) + SumOf(SizesIn(slot)) + Slotted!Needed(bytes) <= PageSize
<1>1. slot \in Seq(Entry) /\ Shows(slot, data, Slotted!Contents)
  BY DEF PageInv, Layout
<1>2. PICK n \in Nat : n = Len(slot)
  BY <1>1
<1>3. PICK c : c = Slotted!Contents
  OBVIOUS
<1>4. /\ c = [s \in 1 .. n |-> c[s]]
      /\ \A s \in 1 .. n : IF Live(slot, s)
                           THEN c[s] \in SlotPayload /\ c[s].length = slot[s].length
                           ELSE c[s] = Deleted
  BY <1>1, <1>2, <1>3 DEF Shows, Kept
<1>5. Slotted!Directory!Slots = 1 .. n /\ Len(c) = n
  BY <1>3, <1>4 DEF Slotted!Directory!Slots
<1>6. Slotted!Directory!Live = {s \in 1 .. n : Live(slot, s)}
  BY <1>3, <1>4, <1>5, PageConstants DEF Slotted!Directory!Live
<1>7. Slotted!Tombstones = {s \in 1 .. n : ~ Live(slot, s)}
  BY <1>1, <1>2, PageParts DEF Slotted!Tombstones
<1>8. Slotted!Directory!Slots \ Slotted!Directory!Live = Slotted!Tombstones
  BY <1>5, <1>6, <1>7
<1>9. Slotted!Directory!Live = Slotted!Directory!Slots <=> Slotted!Tombstones = {}
  BY <1>5, <1>6, <1>7
<1>10. Slotted!Directory!Free = Slotted!Target
  <2>1. Slotted!Directory!Min(Slotted!Tombstones) = Slotted!Min(Slotted!Tombstones)
    BY DEF Slotted!Directory!Min, Slotted!Min
  <2>2. Len(Slotted!Contents) = Len(slot)
    BY <1>2, <1>3, <1>5
  <2> QED BY <1>8, <1>9, <2>1, <2>2 DEF Slotted!Directory!Free, Slotted!Target
<1>11. Slotted!Tombstones = {} => Slotted!Target = Len(slot) + 1
  BY DEF Slotted!Target
<1>12. ASSUME Slotted!Tombstones # {} PROVE Slotted!Target \in Slotted!Tombstones
  <2>1. PICK T : T = Slotted!Tombstones
    OBVIOUS
  <2>2. T \subseteq Nat /\ T # {}
    BY <1>7, <1>12, <2>1
  <2>3. PICK m \in T : \A x \in T : m <= x
    BY <2>2, LeastNatural
  <2>4. Slotted!Min(T) \in T
    BY <2>3 DEF Slotted!Min
  <2> QED BY <1>12, <2>1, <2>4 DEF Slotted!Target
<1>13. Slotted!Directory!Sizes = SizesIn(slot)
  <2>1. \A s \in 1 .. n : (IF s \in Slotted!Directory!Live THEN c[s].length ELSE 0)
                         = (IF Live(slot, s) THEN slot[s].length ELSE 0)
    BY <1>4, <1>6
  <2>2. Slotted!Directory!Sizes =
            [s \in 1 .. n |-> IF s \in Slotted!Directory!Live THEN c[s].length ELSE 0]
    BY <1>3, <1>5 DEF Slotted!Directory!Sizes
  <2>3. SizesIn(slot) = [s \in 1 .. n |-> IF Live(slot, s) THEN slot[s].length ELSE 0]
    BY <1>2 DEF SizesIn
  <2> QED BY <2>1, <2>2, <2>3
<1>14. Slotted!Directory!BytesUsed = EntriesEnd(slot) + SumOf(SizesIn(slot))
  BY <1>2, <1>3, <1>5, <1>13, SameSums DEF Slotted!Directory!BytesUsed, EntriesEnd
<1>15. ASSUME NEW bytes \in SlotPayload
       PROVE  Slotted!Directory!HasRoom(bytes) <=>
                 EntriesEnd(slot) + SumOf(SizesIn(slot)) + Slotted!Needed(bytes) <= PageSize
  <2>1. PICK w \in Nat, d \in Nat : w = SumOf(SizesIn(slot)) /\ d = EntriesEnd(slot)
    <3>1. EntriesEnd(slot) \in Nat
      <4>1. Len(slot) \in Nat /\ HEADER_LEN \in Nat /\ SLOT_LEN \in Nat
        BY <1>1, PageConstants
      <4> QED BY <4>1 DEF EntriesEnd
    <3> QED BY <1>1, <3>1, SizesAreNaturals
  <2>2. PICK l \in Nat, x \in Nat : /\ l = bytes.length
                                    /\ x = IF Slotted!Tombstones = {} THEN SLOT_LEN ELSE 0
    BY PageConstants
  <2>3. Slotted!Needed(bytes) = l + x
    BY <2>2, NeededIs
  <2>4. Slotted!Directory!HasRoom(bytes) <=> (d + w) + l + x <= PageSize
    BY <1>9, <1>14, <2>1, <2>2 DEF Slotted!Directory!HasRoom
  <2>5. (d + w) + l + x = d + w + (l + x)
    OBVIOUS
  <2> QED BY <2>1, <2>3, <2>4, <2>5
<1> QED BY <1>2, <1>6, <1>7, <1>8, <1>9, <1>10, <1>11, <1>12, <1>15

(* The slots with one more entry, or another one in a tombstone's place. *)
LEMMA AddedSizes ==
    ASSUME NEW slots \in Seq(Entry), NEW e \in Entry, e.flags = "live", NEW slots2, NEW k,
           \/ k = Len(slots) + 1 /\ slots2 = Append(slots, e)
           \/ k \in 1 .. Len(slots) /\ ~ Live(slots, k) /\ slots2 = [slots EXCEPT ![k] = e]
    PROVE  /\ slots2 \in Seq(Entry) /\ k \in 1 .. Len(slots2) /\ slots2[k] = e
           /\ \A s \in 1 .. Len(slots2) : s # k => s \in 1 .. Len(slots) /\ slots2[s] = slots[s]
           /\ SumOf(SizesIn(slots2)) = SumOf(SizesIn(slots)) + e.length
<1>1. PICK n \in Nat : n = Len(slots)
  OBVIOUS
<1>2. PICK z : z = SizesIn(slots)
  OBVIOUS
<1>3. /\ z \in Seq(Nat) /\ Len(z) = n /\ SumOf(z) \in Nat
      /\ z = [s \in 1 .. n |-> IF Live(slots, s) THEN slots[s].length ELSE 0]
  BY <1>1, <1>2, SizesAreNaturals DEF SizesIn
<1>4. PICK l \in Nat : l = e.length
  BY DEF Entry
<1>5. CASE k = n + 1 /\ slots2 = Append(slots, e)
  <2>1. /\ slots2 \in Seq(Entry) /\ Len(slots2) = n + 1 /\ slots2[n + 1] = e
        /\ \A s \in 1 .. n : slots2[s] = slots[s]
    BY <1>1, <1>5
  <2>2. k \in 1 .. Len(slots2) /\ \A s \in 1 .. Len(slots2) : s # k => s \in 1 .. n
    BY <1>5, <2>1
  <2>3. SizesIn(slots2) = Append(z, l)
    <3>1. SizesIn(slots2) =
              [s \in 1 .. n + 1 |-> IF Live(slots2, s) THEN slots2[s].length ELSE 0]
      BY <2>1 DEF SizesIn
    <3>2. Append(z, l) = [s \in 1 .. n + 1 |-> IF s = n + 1 THEN l ELSE z[s]]
      BY <1>3
    <3>3. ASSUME NEW s \in 1 .. n + 1
          PROVE  (IF Live(slots2, s) THEN slots2[s].length ELSE 0)
                    = IF s = n + 1 THEN l ELSE z[s]
      <4>1. CASE s = n + 1
        BY <1>4, <2>1, <4>1 DEF Live
      <4>2. CASE s # n + 1
        <5>1. s \in 1 .. n
          BY <4>2
        <5> QED BY <1>3, <2>1, <4>2, <5>1 DEF Live
      <4> QED BY <4>1, <4>2
    <3> QED BY <3>1, <3>2, <3>3
  <2>4. SumOf(SizesIn(slots2)) = SumOf(z) + l
    BY <1>3, <2>3, SumOfAppended
  <2> QED BY <1>1, <1>2, <1>4, <1>5, <2>1, <2>2, <2>4
<1>6. CASE k \in 1 .. n /\ ~ Live(slots, k) /\ slots2 = [slots EXCEPT ![k] = e]
  <2>1. /\ slots2 \in Seq(Entry) /\ Len(slots2) = n /\ slots2[k] = e
        /\ \A s \in 1 .. n : s # k => slots2[s] = slots[s]
    BY <1>1, <1>6
  <2>2. SizesIn(slots2) = [z EXCEPT ![k] = l]
    <3>1. SizesIn(slots2) = [s \in 1 .. n |-> IF Live(slots2, s) THEN slots2[s].length ELSE 0]
      BY <2>1 DEF SizesIn
    <3>2. [z EXCEPT ![k] = l] = [s \in 1 .. n |-> IF s = k THEN l ELSE z[s]]
      BY <1>3
    <3>3. ASSUME NEW s \in 1 .. n
          PROVE  (IF Live(slots2, s) THEN slots2[s].length ELSE 0) = IF s = k THEN l ELSE z[s]
      <4>1. CASE s = k
        BY <1>4, <2>1, <4>1 DEF Live
      <4>2. CASE s # k
        BY <1>3, <2>1, <4>2 DEF Live
      <4> QED BY <4>1, <4>2
    <3> QED BY <3>1, <3>2, <3>3
  <2>3. z[k] = 0 /\ k \in 1 .. Len(z)
    BY <1>3, <1>6
  <2>4. SumOf([z EXCEPT ![k] = l]) = SumOf(z) - z[k] + l
    BY <1>3, <2>3, SumOfReplaced
  <2>5. SumOf(SizesIn(slots2)) = SumOf(z) + l
    BY <1>3, <2>2, <2>3, <2>4
  <2> QED BY <1>1, <1>2, <1>4, <1>6, <2>1, <2>5
<1> QED BY <1>1, <1>5, <1>6

(* insert writes the new payload, and only it. *)
LEMMA InsertStep ==
    ASSUME PageInv, NEW bytes \in SlotPayload, Slotted!Insert(bytes)
    PROVE  PageInv' /\ Slotted!Directory!Insert(bytes)
<1>1. PICK page : page = Slotted!Prepared(bytes)
  OBVIOUS
<1>2. PICK slots, end, cells, c :
          slots = page.slot /\ end = page.freeEnd /\ cells = page.data /\ c = Slotted!Contents
  OBVIOUS
<1>3. /\ Layout(slots, end) /\ Shows(slots, cells, c) /\ DOMAIN cells = DOMAIN data
      /\ Len(slots) = Len(slot) /\ SizesIn(slots) = SizesIn(slot)
      /\ \A s \in 1 .. Len(slot) : Live(slots, s) <=> Live(slot, s)
      /\ Slotted!Fits(page, bytes)
            <=> EntriesEnd(slot) + SumOf(SizesIn(slot)) + Slotted!Needed(bytes) <= PageSize
      /\ Slotted!Fits(page, bytes)
            <=> EntriesEnd(slot) + Slotted!Needed(bytes) <= end
  BY <1>1, <1>2, PreparedKeeps
<1>4. PICK k, start, e :
          /\ k = Slotted!Target /\ start = end - bytes.length
          /\ e = [offset |-> start, length |-> bytes.length, flags |-> "live"]
  OBVIOUS
<1>5. /\ Slotted!Fits(page, bytes)
      /\ slot' = IF Slotted!Tombstones = {} THEN Append(slots, e) ELSE [slots EXCEPT ![k] = e]
      /\ freeEnd' = start
      /\ data' = [a \in DOMAIN data |->
                    IF a \in start .. end - 1 THEN << bytes, a - start >> ELSE cells[a]]
      /\ answer' = k
  BY <1>1, <1>2, <1>4 DEF Slotted!Insert, Slotted!Byte
<1>6. PICK n \in Nat : n = Len(slot) /\ n = Len(slots)
  BY <1>3 DEF Layout
<1>7. /\ Slotted!Tombstones = {} => k = n + 1
      /\ Slotted!Tombstones # {} => k \in 1 .. n /\ ~ Live(slots, k)
  <2>1. /\ Slotted!Tombstones = {} => k = n + 1
        /\ Slotted!Tombstones # {} => k \in Slotted!Tombstones
        /\ Slotted!Tombstones = {s \in 1 .. n : ~ Live(slot, s)}
    BY <1>4, <1>6, DirectoryIs
  <2> QED BY <1>3, <1>6, <2>1
<1>8. PICK l \in Nat \ {0} : l = bytes.length
  BY PageConstants
<1>9. PICK x \in Nat : /\ x = (IF Slotted!Tombstones = {} THEN SLOT_LEN ELSE 0)
                       /\ Slotted!Needed(bytes) = l + x
  <2>1. SLOT_LEN \in Nat
    BY PageConstants
  <2> QED BY <1>8, <2>1, NeededIs
<1>10. HEADER_LEN \in Nat /\ SLOT_LEN \in Nat /\ end \in Nat
  BY <1>3, PageConstants DEF Layout
<1>11. PICK d \in Nat : d = EntriesEnd(slot)
  <2>1. n * SLOT_LEN \in Nat
    BY <1>10
  <2> QED BY <1>6, <1>10, <2>1 DEF EntriesEnd
<1>12. start = end - l /\ d + l + x <= end /\ start \in Nat /\ d + x <= start
  <2>1. start = end - l /\ d + (l + x) <= end
    BY <1>3, <1>4, <1>5, <1>8, <1>9, <1>11
  <2> QED BY <1>10, <2>1
<1>13. e \in Entry /\ e.flags = "live" /\ e.length = l
  BY <1>4, <1>8, <1>12 DEF Entry
<1>14. PICK slots2 : slots2 = slot'
  OBVIOUS
<1>15. PICK c2 : c2 = IF Slotted!Tombstones = {} THEN Append(c, bytes) ELSE [c EXCEPT ![k] = bytes]
  OBVIOUS
<1>16. \/ k = Len(slots) + 1 /\ slots2 = Append(slots, e)
       \/ k \in 1 .. Len(slots) /\ ~ Live(slots, k) /\ slots2 = [slots EXCEPT ![k] = e]
  BY <1>5, <1>6, <1>7, <1>14
<1>17. /\ slots2 \in Seq(Entry) /\ k \in 1 .. Len(slots2) /\ slots2[k] = e
       /\ \A s \in 1 .. Len(slots2) : s # k => s \in 1 .. Len(slots) /\ slots2[s] = slots[s]
       /\ SumOf(SizesIn(slots2)) = SumOf(SizesIn(slots)) + l
  <2>1. slots \in Seq(Entry)
    BY <1>3 DEF Layout
  <2> QED BY <1>13, <1>16, <2>1, AddedSizes
<1>18. Len(slots2) = n + (IF Slotted!Tombstones = {} THEN 1 ELSE 0)
  <2>1. slots \in Seq(Entry)
    BY <1>3 DEF Layout
  <2> QED BY <1>5, <1>6, <1>14, <2>1
<1>19. EntriesEnd(slots2) <= start
  <2>1. CASE Slotted!Tombstones = {}
    <3>1. (n + 1) * SLOT_LEN = n * SLOT_LEN + SLOT_LEN
      BY <1>10
    <3>2. PICK p \in Nat : p = n * SLOT_LEN
      BY <1>10
    <3>3. EntriesEnd(slots2) = HEADER_LEN + (p + SLOT_LEN) /\ d = HEADER_LEN + p /\ x = SLOT_LEN
      BY <1>6, <1>9, <1>11, <1>18, <2>1, <3>1, <3>2 DEF EntriesEnd
    <3> QED BY <1>10, <1>12, <3>3
  <2>2. CASE Slotted!Tombstones # {}
    <3>1. Len(slots2) = n
      BY <1>18, <2>2
    <3>2. EntriesEnd(slots2) = d /\ x = 0
      BY <1>6, <1>9, <1>11, <2>2, <3>1, Zenon DEF EntriesEnd
    <3> QED BY <1>12, <3>2
  <2> QED BY <2>1, <2>2
<1>20. /\ c2 = [s \in 1 .. Len(slots2) |-> c2[s]] /\ c2[k] = bytes
       /\ \A s \in 1 .. Len(slots2) : s # k => c2[s] = c[s]
  <2>1. c = [s \in 1 .. n |-> c[s]]
    BY <1>3, <1>6 DEF Shows
  <2>2. CASE Slotted!Tombstones = {}
    <3>1. PICK S : S = {c[s] : s \in 1 .. n} \cup {bytes}
      OBVIOUS
    <3>2. c \in [1 .. n -> S] /\ bytes \in S
      BY <2>1, <3>1
    <3>3. c \in Seq(S) /\ Len(c) = n
      BY <3>2
    <3>4. c2 = Append(c, bytes)
      BY <1>15, <2>2
    <3>5. Len(slots2) = n + 1 /\ k = n + 1
      BY <1>7, <1>18, <2>2
    <3>6. /\ c2 \in Seq(S) /\ Len(c2) = n + 1 /\ c2[n + 1] = bytes
          /\ \A s \in 1 .. n : c2[s] = c[s]
      BY <3>2, <3>3, <3>4, AppendProperties
    <3>7. c2 \in [1 .. n + 1 -> S] /\ \A s \in 1 .. n + 1 : s # n + 1 => s \in 1 .. n
      BY <3>6
    <3> QED BY <3>5, <3>6, <3>7
  <2>3. CASE Slotted!Tombstones # {}
    <3>1. c2 = [s \in 1 .. n |-> IF s = k THEN bytes ELSE c[s]]
      BY <1>15, <2>1, <2>3
    <3>2. Len(slots2) = n /\ k \in 1 .. n
      BY <1>7, <1>18, <2>3
    <3> QED BY <3>1, <3>2
  <2> QED BY <2>2, <2>3
<1>21. PICK cells2 : cells2 = data'
  OBVIOUS
<1>22. Placed(slots, end, cells, c, slots2, cells2, c2, k, bytes, start)
  <2>1. DOMAIN cells = HEADER_LEN .. PageSize - 1
    BY <1>3 DEF PageInv
  <2>2. cells2 = [a \in DOMAIN cells |->
                    IF a \in start .. end - 1 THEN << bytes, a - start >> ELSE cells[a]]
    BY <1>3, <1>5, <1>21, Zenon
  <2>3. slots2[k] = [offset |-> start, length |-> bytes.length, flags |-> "live"]
    BY <1>4, <1>17
  <2>4. start = end - bytes.length /\ SumOf(SizesIn(slots2)) = SumOf(SizesIn(slots)) + bytes.length
    BY <1>4, <1>8, <1>17
  <2>5. \A s \in 1 .. Len(slots2) :
            s # k => s \in 1 .. Len(slots) /\ slots2[s] = slots[s] /\ c2[s] = c[s]
    BY <1>17, <1>20
  <2> QED BY <1>17, <1>19, <1>20, <2>1, <2>2, <2>3, <2>4, <2>5 DEF Placed
<1>23. Layout(slots2, start) /\ Shows(slots2, cells2, c2)
  BY <1>3, <1>22, PlacedPayload
<1>24. PageInv' /\ (Slotted!Contents)' = c2
  <2>1. DOMAIN data' = DOMAIN data
    BY <1>5
  <2>2. Layout(slot', freeEnd') /\ Shows(slot', data', c2)
    BY <1>5, <1>14, <1>21, <1>23
  <2> QED BY <2>1, <2>2, PageKept
<1>25. Slotted!Directory!Insert(bytes)
  <2>1. Slotted!Directory!HasRoom(bytes)
    BY <1>3, <1>5, DirectoryIs
  <2>2. /\ Slotted!Directory!Free = k
        /\ Slotted!Directory!Live = Slotted!Directory!Slots <=> Slotted!Tombstones = {}
    BY <1>4, DirectoryIs
  <2> QED BY <1>2, <1>5, <1>15, <1>24, <2>1, <2>2 DEF Slotted!Directory!Insert
<1> QED BY <1>24, <1>25

LEMMA RefuseStep ==
    ASSUME PageInv, NEW bytes \in SlotPayload, Slotted!Refuse(bytes)
    PROVE  PageInv' /\ Slotted!Directory!Refuse(bytes)
<1>1. PICK page, c : page = Slotted!Prepared(bytes) /\ c = Slotted!Contents
  OBVIOUS
<1>2. /\ Layout(page.slot, page.freeEnd) /\ Shows(page.slot, page.data, c)
      /\ DOMAIN page.data = DOMAIN data
      /\ Slotted!Fits(page, bytes)
            <=> EntriesEnd(slot) + SumOf(SizesIn(slot)) + Slotted!Needed(bytes) <= PageSize
  BY <1>1, PreparedKeeps
<1>3. /\ ~ Slotted!Fits(page, bytes) /\ answer' = NoSpace
      /\ slot' = page.slot /\ freeEnd' = page.freeEnd /\ data' = page.data
  BY <1>1 DEF Slotted!Refuse
<1>4. PageInv' /\ (Slotted!Contents)' = c
  BY <1>2, <1>3, PageKept
<1>5. ~ Slotted!Directory!HasRoom(bytes)
  BY <1>2, <1>3, DirectoryIs
<1> QED BY <1>1, <1>3, <1>4, <1>5 DEF Slotted!Directory!Refuse

LEMMA CompactStep ==
    ASSUME PageInv, Slotted!Compact
    PROVE  PageInv' /\ UNCHANGED Slotted!Directory!vars
<1>1. PICK page, c : page = Slotted!Compacted /\ c = Slotted!Contents
  OBVIOUS
<1>2. /\ Layout(page.slot, page.freeEnd) /\ Shows(page.slot, page.data, c)
      /\ DOMAIN page.data = DOMAIN data
  BY <1>1, CompactedKeeps
<1>3. slot' = page.slot /\ freeEnd' = page.freeEnd /\ data' = page.data /\ answer' = answer
  BY <1>1 DEF Slotted!Compact
<1>4. PageInv' /\ (Slotted!Contents)' = c
  BY <1>2, <1>3, PageKept
<1> QED BY <1>1, <1>3, <1>4 DEF Slotted!Directory!vars

LEMMA DeleteStep ==
    ASSUME PageInv, NEW s \in 1 .. Len(slot), Slotted!Delete(s)
    PROVE  PageInv' /\ Slotted!Directory!Delete(s)
<1>1. /\ Layout(slot, freeEnd) /\ slot \in Seq(Entry) /\ freeEnd \in Nat
      /\ DOMAIN data = HEADER_LEN .. PageSize - 1 /\ Shows(slot, data, Slotted!Contents)
  BY DEF PageInv, Layout
<1>2. PICK slots, end, cells, c :
          slots = slot /\ end = freeEnd /\ cells = data /\ c = Slotted!Contents
  OBVIOUS
<1>3. /\ Layout(slots, end) /\ Shows(slots, cells, c) /\ slots \in Seq(Entry) /\ end \in Nat
      /\ s \in 1 .. Len(slots)
  BY <1>1, <1>2
<1>4. /\ Live(slots, s) /\ slot' = [slots EXCEPT ![s] = EmptyEntry] /\ answer' = s
      /\ freeEnd' = end /\ data' = cells
  BY <1>2 DEF Slotted!Delete, Slotted!IsLive, Slotted!Tombstone, Live, EmptyEntry
<1>5. PICK n \in Nat : n = Len(slots)
  BY <1>3
<1>6. PICK slots2, c2 : slots2 = slot' /\ c2 = [c EXCEPT ![s] = Deleted]
  OBVIOUS
<1>7. /\ slots2 \in Seq(Entry) /\ Len(slots2) = n /\ slots2[s] = EmptyEntry
      /\ \A t \in 1 .. n : t # s => slots2[t] = slots[t]
  <2>1. EmptyEntry \in Entry
    BY DEF Entry, EmptyEntry
  <2> QED BY <1>3, <1>4, <1>5, <1>6, <2>1
<1>8. ~ Live(slots2, s)
  BY <1>7 DEF Live, EmptyEntry
<1>9. SumOf(SizesIn(slots2)) <= SumOf(SizesIn(slots))
  <2>1. PICK z : z = SizesIn(slots)
    OBVIOUS
  <2>2. z \in Seq(Nat) /\ Len(z) = n /\ SumOf(z) \in Nat
        /\ z = [t \in 1 .. n |-> IF Live(slots, t) THEN slots[t].length ELSE 0]
    BY <1>3, <1>5, <2>1, SizesAreNaturals DEF SizesIn
  <2>3. SizesIn(slots2) = [z EXCEPT ![s] = 0]
    <3>1. SizesIn(slots2) = [t \in 1 .. n |-> IF Live(slots2, t) THEN slots2[t].length ELSE 0]
      BY <1>7 DEF SizesIn
    <3>2. [z EXCEPT ![s] = 0] = [t \in 1 .. n |-> IF t = s THEN 0 ELSE z[t]]
      BY <2>2
    <3>3. ASSUME NEW t \in 1 .. n
          PROVE  (IF Live(slots2, t) THEN slots2[t].length ELSE 0) = IF t = s THEN 0 ELSE z[t]
      <4>1. CASE t = s
        BY <1>8, <4>1
      <4>2. CASE t # s
        BY <1>7, <2>2, <4>2 DEF Live
      <4> QED BY <4>1, <4>2
    <3> QED BY <3>1, <3>2, <3>3
  <2>4. s \in 1 .. Len(z) /\ z[s] \in Nat /\ 0 \in Nat
    BY <1>3, <1>5, <2>2
  <2>5. SumOf([z EXCEPT ![s] = 0]) = SumOf(z) - z[s] + 0
    BY <2>2, <2>4, SumOfReplaced
  <2>6. PICK u \in Nat, v \in Nat : u = SumOf(z) /\ v = z[s]
    BY <2>2, <2>4
  <2>7. u - v + 0 <= u
    OBVIOUS
  <2> QED BY <2>1, <2>3, <2>5, <2>6, <2>7
<1>10. Layout(slots2, end)
  <2>1. PageSize \in Nat /\ end + SumOf(SizesIn(slots)) <= PageSize /\ EntriesEnd(slots) <= end
    BY <1>3, PageConstants DEF Layout
  <2>2. SumOf(SizesIn(slots)) \in Nat /\ SumOf(SizesIn(slots2)) \in Nat
    BY <1>3, <1>7, SizesAreNaturals
  <2>3. end + SumOf(SizesIn(slots2)) <= PageSize
    BY <1>3, <1>9, <2>1, <2>2
  <2>4. EntriesEnd(slots2) <= end
    BY <1>5, <1>7, <2>1 DEF EntriesEnd
  <2>5. ASSUME NEW t \in 1 .. n
        PROVE  IF Live(slots2, t) THEN Within(slots2, end, t) ELSE slots2[t] = EmptyEntry
    <3>1. CASE t = s
      BY <1>7, <1>8, <3>1
    <3>2. CASE t # s
      BY <1>3, <1>5, <1>7, <3>2 DEF Layout, Live, Within
    <3> QED BY <3>1, <3>2
  <2>6. ASSUME NEW t \in 1 .. n, NEW u \in 1 .. n, t # u, Live(slots2, t), Live(slots2, u)
        PROVE  Beside(slots2, t, u)
    <3>1. t # s /\ u # s
      BY <1>8, <2>6
    <3>2. slots2[t] = slots[t] /\ slots2[u] = slots[u]
      BY <1>7, <3>1
    <3>3. Beside(slots, t, u)
      BY <1>3, <1>5, <2>6, <3>2 DEF Layout, Live
    <3> QED BY <3>2, <3>3 DEF Beside
  <2> QED BY <1>3, <1>7, <2>3, <2>4, <2>5, <2>6 DEF Layout
<1>11. Shows(slots2, cells, c2)
  <2>1. c = [t \in 1 .. n |-> c[t]]
    BY <1>3, <1>5 DEF Shows
  <2>2. c2 = [t \in 1 .. n |-> IF t = s THEN Deleted ELSE c[t]]
    BY <1>6, <2>1
  <2>3. ASSUME NEW t \in 1 .. n
        PROVE  IF Live(slots2, t) THEN c2[t] \in SlotPayload /\ Kept(slots2, cells, t, c2[t])
               ELSE c2[t] = Deleted
    <3>1. CASE t = s
      BY <1>8, <2>2, <3>1
    <3>2. CASE t # s
      BY <1>3, <1>5, <1>7, <2>2, <3>2 DEF Shows, Live, Kept
    <3> QED BY <3>1, <3>2
  <2> QED BY <1>7, <2>2, <2>3 DEF Shows
<1>12. PageInv' /\ (Slotted!Contents)' = c2
  <2>1. Layout(slot', freeEnd') /\ Shows(slot', data', c2) /\ DOMAIN data' = DOMAIN data
    BY <1>2, <1>4, <1>6, <1>10, <1>11
  <2> QED BY <2>1, PageKept
<1>13. Slotted!Directory!Delete(s)
  <2>1. s \in Slotted!Directory!Live
    BY <1>2, <1>3, <1>4, DirectoryIs
  <2> QED BY <1>2, <1>4, <1>6, <1>12, <2>1 DEF Slotted!Directory!Delete
<1> QED BY <1>12, <1>13

LEMMA PageStarts == ASSUME Slotted!Init PROVE PageInv /\ Slotted!Directory!Init
<1>1. /\ slot = << >> /\ freeEnd = PageSize /\ answer = 0
      /\ data = [a \in HEADER_LEN .. PageSize - 1 |-> << >>]
  BY DEF Slotted!Init, Slotted!Zero
<1>2. slot \in Seq(Entry) /\ Len(slot) = 0 /\ 1 .. Len(slot) = {}
  BY <1>1
<1>3. SumOf(SizesIn(slot)) = 0
  <2>1. SizesIn(slot) \in Seq(Nat) /\ Len(SizesIn(slot)) = 0
    BY <1>2, SizesAreNaturals
  <2> QED BY <2>1, TotalAt DEF SumOf
<1>4. HEADER_LEN \in Nat /\ SLOT_LEN \in Nat /\ PageSize \in Nat /\ HEADER_LEN <= PageSize
  BY PageConstants
<1>5. EntriesEnd(slot) = HEADER_LEN
  <2>1. 0 * SLOT_LEN = 0
    BY <1>4
  <2> QED BY <1>2, <1>4, <2>1 DEF EntriesEnd
<1>6. Layout(slot, freeEnd)
  <2>1. freeEnd \in Nat /\ EntriesEnd(slot) <= freeEnd /\ freeEnd + 0 <= PageSize
    BY <1>1, <1>4, <1>5
  <2> QED BY <1>2, <1>3, <2>1 DEF Layout
<1>7. Slotted!Contents = << >>
  <2>1. Slotted!Contents = ContentsOf(slot, data)
    BY <1>2, ContentsNow
  <2> QED BY <1>2, <2>1 DEF ContentsOf
<1>8. Shows(slot, data, Slotted!Contents)
  BY <1>2, <1>7 DEF Shows
<1> QED BY <1>1, <1>6, <1>7, <1>8 DEF PageInv, Slotted!Directory!Init

LEMMA PageStep ==
    ASSUME PageInv, [MCNext]_allVars
    PROVE  PageInv' /\ [Slotted!Directory!Next]_Slotted!Directory!vars
<1>1. ASSUME UNCHANGED slotVars
      PROVE  PageInv' /\ UNCHANGED Slotted!Directory!vars
  <2>1. slot' = slot /\ freeEnd' = freeEnd /\ data' = data /\ answer' = answer
    BY <1>1 DEF slotVars
  <2>2. PageInv' /\ (Slotted!Contents)' = Slotted!Contents
    <3>1. PICK c : c = Slotted!Contents
      OBVIOUS
    <3>2. Layout(slot', freeEnd') /\ Shows(slot', data', c) /\ DOMAIN data' = DOMAIN data
      BY <2>1, <3>1 DEF PageInv
    <3> QED BY <3>1, <3>2, PageKept
  <2> QED BY <2>1, <2>2 DEF Slotted!Directory!vars
<1>2. ASSUME Slotted!Next
      PROVE  PageInv' /\ [Slotted!Directory!Next]_Slotted!Directory!vars
  <2>1. ASSUME NEW bytes \in SlotPayload, Slotted!Insert(bytes)
        PROVE  PageInv' /\ [Slotted!Directory!Next]_Slotted!Directory!vars
    BY <2>1, InsertStep DEF Slotted!Directory!Next
  <2>2. ASSUME NEW bytes \in SlotPayload, Slotted!Refuse(bytes)
        PROVE  PageInv' /\ [Slotted!Directory!Next]_Slotted!Directory!vars
    BY <2>2, RefuseStep DEF Slotted!Directory!Next
  <2>3. ASSUME NEW s \in Slotted!Slots, Slotted!Delete(s)
        PROVE  PageInv' /\ [Slotted!Directory!Next]_Slotted!Directory!vars
    <3>1. slot \in Seq(Entry)
      BY DEF PageInv, Layout
    <3>2. s \in 1 .. Len(slot)
      BY <3>1, PageParts
    <3>3. PageInv' /\ Slotted!Directory!Delete(s)
      BY <2>3, <3>2, DeleteStep
    <3>4. s \in Slotted!Directory!Slots
      BY <3>3 DEF Slotted!Directory!Delete, Slotted!Directory!Live
    <3> QED BY <3>3, <3>4 DEF Slotted!Directory!Next
  <2>4. ASSUME Slotted!Compact
        PROVE  PageInv' /\ [Slotted!Directory!Next]_Slotted!Directory!vars
    BY <2>4, CompactStep
  <2> QED BY <1>2, <2>1, <2>2, <2>3, <2>4 DEF Slotted!Next
<1>3. Slotted!Next \/ UNCHANGED slotVars
  BY DEF MCNext, allVars
<1> QED BY <1>1, <1>2, <1>3

LEMMA PageValidates == ASSUME PageInv PROVE ParsesAgain
<1>1. /\ Layout(slot, freeEnd) /\ slot \in Seq(Entry) /\ freeEnd \in Nat
      /\ EntriesEnd(slot) <= freeEnd /\ freeEnd + SumOf(SizesIn(slot)) <= PageSize
  BY DEF PageInv, Layout
<1>2. freeEnd <= PageSize
  <2>1. PageSize \in Nat /\ SumOf(SizesIn(slot)) \in Nat
    BY <1>1, PageConstants, SizesAreNaturals
  <2> QED BY <1>1, <2>1
<1>3. Slotted!Slots = 1 .. Len(slot) /\ \A s : Slotted!IsLive(s) <=> Live(slot, s)
  BY <1>1, PageParts
<1>4. ASSUME NEW s \in 1 .. Len(slot)
      PROVE  IF Live(slot, s)
             THEN /\ slot[s].offset >= freeEnd
                  /\ slot[s].offset + slot[s].length <= PageSize
                  /\ slot[s].length > 0
             ELSE slot[s] = Slotted!Tombstone
  <2>1. slot[s].length \in Nat
    BY <1>1, EntryParts
  <2> QED BY <1>1, <2>1 DEF Layout, Within, Slotted!Tombstone, EmptyEntry
<1>5. ASSUME NEW s \in 1 .. Len(slot), NEW t \in 1 .. Len(slot), Live(slot, s), Live(slot, t),
             s # t, slot[s].offset <= slot[t].offset
      PROVE  slot[s].offset + slot[s].length <= slot[t].offset
  <2>1. Beside(slot, s, t) /\ slot[t].length # 0
    BY <1>1, <1>5 DEF Layout, Within
  <2>2. PICK a \in Nat, b \in Nat, l \in Nat, m \in Nat :
            /\ a = slot[s].offset /\ l = slot[s].length
            /\ b = slot[t].offset /\ m = slot[t].length
    BY <1>1, EntryParts
  <2>3. (a + l <= b \/ b + m <= a) /\ m # 0 /\ a <= b
    BY <1>5, <2>1, <2>2 DEF Beside
  <2>4. a + l <= b
    BY <2>3
  <2> QED BY <2>2, <2>4
<1>6. Slotted!DirectoryEnd(Len(slot)) <= freeEnd
  BY <1>1 DEF Slotted!DirectoryEnd, EntriesEnd
<1>7. \A s \in Slotted!Slots :
          IF Slotted!IsLive(s)
          THEN /\ slot[s].offset >= freeEnd
               /\ slot[s].offset + slot[s].length <= PageSize
               /\ slot[s].length > 0
          ELSE slot[s] = Slotted!Tombstone
  BY <1>3, <1>4
<1>8. \A s, t \in {u \in Slotted!Slots : Slotted!IsLive(u)} :
          s # t /\ slot[s].offset <= slot[t].offset
              => slot[s].offset + slot[s].length <= slot[t].offset
  BY <1>3, <1>5
<1> QED BY <1>2, <1>6, <1>7, <1>8 DEF ParsesAgain, Slotted!Validates

(* Every page that inserts, deletes and compactions build passes the checks of
   SlottedPage::parse, whatever its size and however long its payloads. *)
THEOREM PagesParse == MCSpec => []ParsesAgain
<1>1. MCInit => PageInv
  BY PageStarts DEF MCInit
<1>2. PageInv /\ [MCNext]_allVars => PageInv'
  BY PageStep
<1>3. PageInv => ParsesAgain
  BY PageValidates
<1> QED BY <1>1, <1>2, <1>3, PTL DEF MCSpec

(* A slotted page is a directory of payloads: a slot id keeps its payload while
   others come, go and are moved by compact, and insert answers NoSpace only
   when the payloads and the directory leave no room. *)
THEOREM PageIsDirectory == MCSpec => ImplementsDirectory
<1>1. MCInit => PageInv /\ Slotted!Directory!Init
  BY PageStarts DEF MCInit
<1>2. PageInv /\ [MCNext]_allVars
          => PageInv' /\ [Slotted!Directory!Next]_Slotted!Directory!vars
  BY PageStep
<1> QED BY <1>1, <1>2, PTL
        DEF MCSpec, ImplementsDirectory, Slotted!ImplementsDirectory, Slotted!Directory!Spec

-----------------------------------------------------------------------------
(* The pieces of a record, joined, are the record. *)

(* f grows as out in decode_overflow does, over n pieces. *)
Grows(f, pieces, n) ==
    f = [i \in 0 .. n |-> IF i = 0 THEN << >> ELSE f[i - 1] \o pieces[i]]

LEMMA OutAfterIs ==
    ASSUME NEW pieces, NEW n \in Nat, Len(pieces) = n, NEW f, Grows(f, pieces, n)
    PROVE  OutAfter(pieces) = f
<1> DEFINE Fits(t) ==
               t = [i \in 0 .. n |-> IF i = 0 THEN << >> ELSE t[i - 1] \o pieces[i]]
<1>1. OutAfter(pieces) = CHOOSE t : Fits(t)
  BY DEF OutAfter
<1>2. Fits(f)
  BY DEF Grows
<1>3. PICK t : t = OutAfter(pieces)
  OBVIOUS
<1>4. Fits(t)
  BY <1>1, <1>2, <1>3
<1>5. DOMAIN t = 0 .. n /\ DOMAIN f = 0 .. n /\ t[0] = << >> /\ f[0] = << >>
  BY <1>2, <1>4
<1>6. \A i \in 1 .. n : t[i] = t[i - 1] \o pieces[i] /\ f[i] = f[i - 1] \o pieces[i]
  BY <1>2, <1>4
<1>7. t = [i \in 0 .. n |-> t[i]] /\ f = [i \in 0 .. n |-> f[i]]
  BY <1>2, <1>4
<1> HIDE DEF Fits
<1>8. PICK D : D = {x \in 0 .. n : t[x] # f[x]}
  OBVIOUS
<1>9. D = {}
  <2>1. SUFFICES ASSUME D # {} PROVE FALSE
    OBVIOUS
  <2>2. D \subseteq Nat
    BY <1>8
  <2>3. PICK m \in D : \A x \in D : m <= x
    BY <2>1, <2>2, LeastNatural
  <2>4. m \in 0 .. n /\ t[m] # f[m]
    BY <1>8, <2>3
  <2>5. m # 0
    BY <1>5, <2>4, Zenon
  <2>6. m \in 1 .. n /\ m - 1 \in 0 .. n /\ ~ (m <= m - 1)
    BY <2>4, <2>5
  <2>7. t[m - 1] = f[m - 1]
    BY <1>8, <2>3, <2>6, Zenon
  <2> QED BY <1>6, <2>4, <2>6, <2>7, Zenon
<1>10. \A i \in 0 .. n : t[i] = f[i]
  BY <1>8, <1>9, Zenon
<1>11. t = f
  BY <1>7, <1>10, Zenon
<1> QED BY <1>3, <1>11

LEMMA Division ==
    ASSUME NEW a \in Nat, NEW c \in Nat \ {0}
    PROVE  a \div c \in Nat /\ c * (a \div c) <= a /\ a < c * (a \div c) + c
<1>1. PICK q \in Int : q = a \div c
  OBVIOUS
<1>2. a = c * q + (a % c) /\ a % c \in 0 .. c - 1
  BY <1>1, Z3
<1>3. PICK b \in Nat : b = a % c /\ b < c
  BY <1>2
<1>4. a = c * q + b
  BY <1>2, <1>3
<1>5. q >= 0
  <2>1. SUFFICES ASSUME q <= -1 PROVE FALSE
    BY <1>1
  <2>2. c * q <= - c
    BY <2>1, Z3
  <2> QED BY <1>3, <1>4, <2>2, Z3
<1>6. c * q <= a /\ a < c * q + c
  BY <1>3, <1>4, Z3
<1> QED BY <1>1, <1>5, <1>6

LEMMA ChunkCounts ==
    ASSUME NEW record \in Payload
    PROVE  /\ record.size \in Nat \ {0} /\ ChunkCap \in Nat \ {0}
           /\ ChunkCount(record) \in Nat \ {0}
           /\ (ChunkCount(record) - 1) * ChunkCap < record.size
           /\ record.size <= ChunkCount(record) * ChunkCap
<1>1. PICK s \in Nat \ {0}, c \in Nat \ {0} : s = record.size /\ c = ChunkCap
  BY RecordConstants
<1>2. PICK a \in Nat : a = s + c - 1
  OBVIOUS
<1>3. PICK n \in Nat : n = a \div c /\ c * n <= a /\ a < c * n + c
  BY Division
<1>4. ChunkCount(record) = n
  BY <1>1, <1>2, <1>3 DEF ChunkCount
<1>5. PICK z \in Nat : z = c * n
  BY <1>3
<1>6. z <= s + c - 1 /\ s + c - 1 < z + c
  BY <1>2, <1>3, <1>5
<1>7. n # 0
  <2>1. SUFFICES ASSUME n = 0 PROVE FALSE
    OBVIOUS
  <2>2. z = 0
    BY <1>5, <2>1, Z3
  <2> QED BY <1>6, <2>2
<1>8. (n - 1) * c = z - c /\ n * c = z
  BY <1>5, Z3
<1>9. z - c < s /\ s <= z
  BY <1>6
<1> QED BY <1>1, <1>4, <1>7, <1>8, <1>9

LEMMA LesserOfTwo ==
    ASSUME NEW a \in Nat, NEW b \in Nat
    PROVE  Min({a, b}) = IF a <= b THEN a ELSE b
<1>1. \A x \in {a, b} : (\A y \in {a, b} : x <= y) <=> x = (IF a <= b THEN a ELSE b)
  OBVIOUS
<1>2. (IF a <= b THEN a ELSE b) \in {a, b}
  OBVIOUS
<1> QED BY <1>1, <1>2 DEF Min

(* Where the i-th piece of a record begins and ends. *)
LEMMA PieceEnds ==
    ASSUME NEW record \in Payload, NEW i \in 1 .. ChunkCount(record)
    PROVE  /\ (i - 1) * ChunkCap \in 0 .. record.size - 1
           /\ Min({i * ChunkCap, record.size}) \in (i - 1) * ChunkCap + 1 .. record.size
           /\ i < ChunkCount(record) => Min({i * ChunkCap, record.size}) = i * ChunkCap
           /\ i = ChunkCount(record) => Min({i * ChunkCap, record.size}) = record.size
<1>1. PICK s \in Nat \ {0}, c \in Nat \ {0}, n \in Nat \ {0} :
          s = record.size /\ c = ChunkCap /\ n = ChunkCount(record)
  BY ChunkCounts
<1>2. (n - 1) * c < s /\ s <= n * c /\ i \in 1 .. n
  BY <1>1, ChunkCounts
<1>3. (i - 1) * c >= 0 /\ (i - 1) * c <= (n - 1) * c
  BY <1>1, <1>2, Z3
<1>4. i < n => i * c <= (n - 1) * c
  BY <1>1, <1>2, Z3
<1>5. PICK l \in Nat : l = (i - 1) * c
  BY <1>3
<1>6. PICK h \in Nat : h = i * c /\ h = l + c
  BY <1>5, Z3
<1>7. PICK m \in Nat, k \in Nat : m = (n - 1) * c /\ k = n * c
  BY <1>1
<1>8. l <= m /\ m < s /\ s <= k /\ (i < n => h <= m)
  BY <1>2, <1>3, <1>4, <1>5, <1>6, <1>7
<1>9. i = n => h = k
  BY <1>6, <1>7
<1>10. PICK e : e = Min({h, s})
  OBVIOUS
<1>11. e = IF h <= s THEN h ELSE s
  BY <1>10, LesserOfTwo
<1>12. l \in 0 .. s - 1 /\ e \in l + 1 .. s /\ (i < n => e = h) /\ (i = n => e = s)
  BY <1>1, <1>6, <1>8, <1>9, <1>11
<1> QED BY <1>1, <1>5, <1>6, <1>10, <1>12

LEMMA FunctionIsSeq ==
    ASSUME NEW n \in Nat, NEW X, NEW p \in [1 .. n -> X]
    PROVE  p \in Seq(X) /\ Len(p) = n
<1>1. p \in Seq(X)
  BY SeqDef, Zenon
<1>2. DOMAIN p = 1 .. n /\ DOMAIN p = 1 .. Len(p) /\ Len(p) \in Nat
  BY <1>1, LenProperties
<1> QED BY <1>1, <1>2

LEMMA BytesProperties ==
    ASSUME NEW record \in Payload
    PROVE  /\ Bytes(record) \in Seq(Range(Bytes(record)))
           /\ Len(Bytes(record)) = record.size
<1>1. PICK s \in Nat : s = record.size
  BY RecordConstants
<1>2. PICK b : b = Bytes(record)
  OBVIOUS
<1>3. b = [i \in 1 .. s |-> << record.value, i >>]
  BY <1>1, <1>2 DEF Bytes
<1>4. b \in [1 .. s -> Range(b)]
  BY <1>3 DEF Range
<1>5. b \in Seq(Range(b))
  BY <1>4
<1>6. Len(b) = s
  BY <1>3, <1>5
<1> QED BY <1>1, <1>2, <1>5, <1>6

(* A record cut into pieces and joined again. *)
LEMMA PiecesJoin ==
    ASSUME NEW record \in Payload, NEW pieces,
           pieces = [i \in 1 .. ChunkCount(record) |-> Piece(record, i)]
    PROVE  /\ Len(pieces) = ChunkCount(record)
           /\ \A i \in 1 .. Len(pieces) : pieces[i] # << >>
           /\ OutAfter(pieces)[Len(pieces)] = Bytes(record)
<1> DEFINE End == [i \in 0 .. ChunkCount(record) |->
                    IF i = 0 THEN 0 ELSE Min({i * ChunkCap, record.size})]
<1>0. PICK b : b = Bytes(record)
  OBVIOUS
<1>1. PICK n \in Nat \ {0} : b = Bytes(record) /\ n = ChunkCount(record)
  BY <1>0, ChunkCounts
<1>2. PICK S : b \in Seq(S) /\ Len(b) = record.size /\ record.size \in Nat \ {0}
  BY <1>1, BytesProperties, ChunkCounts
<1>3. Len(pieces) = n
  <2>1. PICK X : X = {Piece(record, i) : i \in 1 .. n}
    OBVIOUS
  <2>2. pieces \in [1 .. n -> X]
    BY <1>1, <2>1
  <2>3. n \in Nat
    OBVIOUS
  <2> QED BY <2>2, <2>3, FunctionIsSeq, Zenon
<1>4. ASSUME NEW i \in 1 .. n
      PROVE  /\ End[i - 1] = (i - 1) * ChunkCap
             /\ End[i - 1] \in 0 .. Len(b) - 1 /\ End[i] \in End[i - 1] + 1 .. Len(b)
             /\ i = n => End[i] = Len(b)
             /\ pieces[i] = SubSeq(b, End[i - 1] + 1, End[i])
  <2>1. End[i] = Min({i * ChunkCap, record.size})
    BY <1>1
  <2>2. End[i - 1] = (i - 1) * ChunkCap
    <3>1. CASE i = 1
      <4>1. 0 * ChunkCap = 0
        BY RecordConstants
      <4>2. End[0] = 0
        BY <1>1
      <4> QED BY <3>1, <4>1, <4>2
    <3>2. CASE i # 1
      <4>1. PICK j : j = i - 1
        OBVIOUS
      <4>2. j \in 1 .. n /\ j < n /\ j # 0
        BY <3>2, <4>1
      <4>3. Min({j * ChunkCap, record.size}) = j * ChunkCap
        BY <1>1, <4>2, PieceEnds
      <4>4. End[j] = Min({j * ChunkCap, record.size})
        BY <1>1, <4>2
      <4> QED BY <4>1, <4>3, <4>4
    <3> QED BY <3>1, <3>2
  <2>3. /\ (i - 1) * ChunkCap \in 0 .. record.size - 1
        /\ Min({i * ChunkCap, record.size}) \in (i - 1) * ChunkCap + 1 .. record.size
        /\ i = n => Min({i * ChunkCap, record.size}) = record.size
    BY <1>1, PieceEnds
  <2>4. pieces[i] = SubSeq(b, (i - 1) * ChunkCap + 1, Min({i * ChunkCap, record.size}))
    BY <1>1 DEF Piece
  <2> HIDE DEF End
  <2> QED BY <1>2, <2>1, <2>2, <2>3, <2>4
<1>5. End[0] = 0
  BY <1>1
<1> HIDE DEF End
<1>13. ASSUME NEW i \in 1 .. n
       PROVE  \E l \in Nat, h \in Nat :
                  /\ l = End[i - 1] /\ h = End[i] /\ l < h /\ h <= Len(b)
  <2>1. PICK a : a = Len(b)
    OBVIOUS
  <2>2. a \in Nat
    BY <1>2, <2>1
  <2>3. PICK l : l = End[i - 1]
    OBVIOUS
  <2>4. PICK h : h = End[i]
    OBVIOUS
  <2>5. l \in 0 .. a - 1 /\ h \in l + 1 .. a
    BY <1>4, <2>1, <2>3, <2>4, Zenon
  <2>6. l \in Nat /\ h \in Nat /\ l < h /\ h <= a
    BY <2>2, <2>5
  <2> QED BY <2>1, <2>3, <2>4, <2>6
<1>6. \A i \in 1 .. n : pieces[i] # << >>
  <2>1. SUFFICES ASSUME NEW i \in 1 .. n PROVE pieces[i] # << >>
    OBVIOUS
  <2>2. PICK l \in Nat, h \in Nat :
            l = End[i - 1] /\ h = End[i] /\ l < h /\ h <= Len(b)
    BY <1>13
  <2>3. pieces[i] = SubSeq(b, l + 1, h)
    BY <1>4, <2>2
  <2>4. \A j \in l + 1 .. h : b[j] \in S
    <3>1. \A j \in l + 1 .. h : j \in 1 .. Len(b)
      BY <1>2, <2>2
    <3> QED BY <1>2, <3>1
  <2>5. Len(SubSeq(b, l + 1, h)) = h - l
    <3>1. l + 1 \in Int /\ h \in Int /\ l + 1 <= h /\ h - (l + 1) + 1 = h - l
      BY <2>2
    <3> QED BY <2>4, <3>1, SubSeqProperties
  <2>6. h - l # 0
    BY <2>2
  <2> QED BY <2>3, <2>5, <2>6
<1>7. PICK f : f = [i \in 0 .. n |-> SubSeq(b, 1, End[i])]
  OBVIOUS
<1>8. f[0] = << >>
  <2>1. SubSeq(b, 1, 0) = << >>
    BY SubSeqEmpty
  <2> QED BY <1>5, <1>7, <2>1
<1>9. ASSUME NEW i \in 1 .. n PROVE f[i] = f[i - 1] \o pieces[i]
  <2>1. PICK l \in Nat, h \in Nat :
            l = End[i - 1] /\ h = End[i] /\ l < h /\ h <= Len(b)
    BY <1>13
  <2>2. pieces[i] = SubSeq(b, l + 1, h)
    BY <1>4, <2>1
  <2>3. f[i - 1] = SubSeq(b, 1, l) /\ f[i] = SubSeq(b, 1, h)
    <3>1. i - 1 \in 0 .. n /\ i \in 0 .. n
      OBVIOUS
    <3> QED BY <1>7, <2>1, <3>1
  <2>4. SubSeq(b, 1, l) \o SubSeq(b, l + 1, h) = SubSeq(b, 1, h)
    <3>1. 1 \in 1 .. Len(b) + 1 /\ l \in 1 - 1 .. Len(b) /\ h \in l .. Len(b)
      BY <1>2, <2>1
    <3> QED BY <1>2, <3>1, ConcatAdjacentSubSeq
  <2> QED BY <2>2, <2>3, <2>4
<1>10. f = [i \in 0 .. n |-> IF i = 0 THEN << >> ELSE f[i - 1] \o pieces[i]]
  <2>1. \A i \in 0 .. n : f[i] = IF i = 0 THEN << >> ELSE f[i - 1] \o pieces[i]
    <3>1. \A i \in 0 .. n : i = 0 \/ i \in 1 .. n
      OBVIOUS
    <3> QED BY <1>8, <1>9, <3>1, Zenon
  <2>2. f = [i \in 0 .. n |-> f[i]]
    BY <1>7
  <2> QED BY <2>1, <2>2, Zenon
<1>11. OutAfter(pieces) = f
  <2>1. n \in Nat
    OBVIOUS
  <2>2. Len(pieces) = n
    BY <1>3
  <2>3. Grows(f, pieces, n)
    BY <1>10, Zenon DEF Grows
  <2> QED BY <2>1, <2>2, <2>3, OutAfterIs, Zenon
<1>12. f[n] = b
  <2>1. n \in 1 .. n /\ n \in 0 .. n
    OBVIOUS
  <2>2. End[n] = Len(b)
    BY <1>4, <2>1
  <2>3. SubSeq(b, 1, Len(b)) = b
    BY <1>2, SubSeqFull
  <2> QED BY <1>7, <2>1, <2>2, <2>3
<1> QED BY <1>1, <1>3, <1>6, <1>11, <1>12

-----------------------------------------------------------------------------
(* The records of the model: every page is free, in the hand of the call that
   runs, or of one record. *)
Injective(s) == \A i, j \in DOMAIN s : s[i] = s[j] => i = j

InHand == Range(chunks) \cup (IF pc = "write" THEN {current} ELSE {})
OverflowPages(p) == IF IsInline(stored[p]) THEN << >> ELSE content[p].pages
Extent(p) == {p} \cup (IF BeingDeleted(p) THEN {} ELSE Range(OverflowPages(p)))

StoreTypes ==
    /\ DOMAIN content = Page /\ free \subseteq Page
    /\ pc \in {"idle", "alloc", "write", "undo", "free"}
    /\ chunks \in Seq(Page) /\ (pc = "idle" => chunks = << >>)
    /\ pc \in {"alloc", "write", "undo"} => payload \in Payload
    /\ pc = "write" => current \in Page
    /\ pc = "free" => current \in DOMAIN stored
    /\ DOMAIN stored \subseteq Page /\ \A p \in DOMAIN stored : stored[p] \in Payload

HandsApart ==
    /\ Injective(chunks) /\ (pc = "write" => current \notin Range(chunks))
    /\ InHand \cap free = {}

RecordsApart ==
    /\ \A p \in DOMAIN stored : Extent(p) \cap (free \cup InHand) = {}
    /\ \A p, q \in DOMAIN stored : p # q => Extent(p) \cap Extent(q) = {}

PutWritten ==
    pc \in {"alloc", "write"} =>
        /\ IsInline(payload) => chunks = << >>
        /\ \A i \in DOMAIN chunks : content[chunks[i]] = Chunk(Piece(payload, i))

(* A record that is being deleted has only its descriptor left. *)
Intact(p) ==
    IF IsInline(stored[p]) THEN content[p] = Inline(Bytes(stored[p]))
    ELSE /\ content[p] = Descriptor(stored[p].size, OverflowPages(p))
         /\ OverflowPages(p) \in Seq(Page) /\ Injective(OverflowPages(p))
         /\ Len(OverflowPages(p)) = ChunkCount(stored[p])
         /\ ~ BeingDeleted(p) => \A i \in DOMAIN OverflowPages(p) :
                content[OverflowPages(p)[i]] = Chunk(Piece(stored[p], i))

StoreInv ==
    /\ StoreTypes /\ HandsApart /\ RecordsApart /\ PutWritten
    /\ \A p \in DOMAIN stored : Intact(p)
    /\ ~ freedTwice

(* A step leaves the record in p alone. *)
Untouched(p) ==
    /\ p \in DOMAIN stored /\ stored'[p] = stored[p]
    /\ BeingDeleted(p)' = BeingDeleted(p)
    /\ \A q \in Extent(p) : content'[q] = content[q] /\ q \notin free' \cup InHand'

LEMMA RecordStays ==
    ASSUME NEW p, Intact(p), Untouched(p)
    PROVE  Extent(p)' = Extent(p) /\ Intact(p)'
<1>1. p \in Extent(p)
  BY DEF Extent
<1>2. stored'[p] = stored[p] /\ content'[p] = content[p]
  BY <1>1 DEF Untouched
<1>3. OverflowPages(p)' = OverflowPages(p)
  BY <1>2 DEF OverflowPages, IsInline
<1>4. BeingDeleted(p)' = BeingDeleted(p)
  BY DEF Untouched
<1>5. Extent(p)' = Extent(p)
  BY <1>3, <1>4, Zenon DEF Extent
<1>6. CASE IsInline(stored[p])
  <2>1. content[p] = Inline(Bytes(stored[p]))
    BY <1>6 DEF Intact
  <2>2. content'[p] = Inline(Bytes(stored'[p])) /\ IsInline(stored'[p])
    BY <1>2, <1>6, <2>1
  <2>3. Intact(p)'
    BY <2>2, Zenon DEF Intact, IsInline, Inline, Bytes
  <2> QED BY <1>5, <2>3
<1>7. CASE ~ IsInline(stored[p])
  <2>1. PICK pages : pages = OverflowPages(p)
    OBVIOUS
  <2>2. /\ content[p] = Descriptor(stored[p].size, pages)
        /\ pages \in Seq(Page) /\ Injective(pages)
        /\ Len(pages) = ChunkCount(stored[p])
    BY <1>7, <2>1 DEF Intact
  <2>3. ASSUME ~ BeingDeleted(p)'
        PROVE  \A i \in DOMAIN pages : content'[pages[i]] = Chunk(Piece(stored[p], i))
    <3>1. ~ BeingDeleted(p)
      BY <1>4, <2>3, Zenon
    <3>2. \A i \in DOMAIN pages : content[pages[i]] = Chunk(Piece(stored[p], i))
      BY <1>7, <2>1, <3>1 DEF Intact
    <3>3. \A i \in DOMAIN pages : pages[i] \in Extent(p)
      BY <2>1, <3>1 DEF Extent, Range
    <3>4. \A i \in DOMAIN pages : content'[pages[i]] = content[pages[i]]
      BY <3>3 DEF Untouched
    <3> QED BY <3>2, <3>4
  <2>4. ~ IsInline(stored'[p])
    BY <1>2, <1>7
  <2>5. /\ content'[p] = Descriptor(stored'[p].size, pages)
        /\ Len(pages) = ChunkCount(stored'[p])
    BY <1>2, <2>2
  <2>6. ~ BeingDeleted(p)' => \A i \in DOMAIN pages :
                                 content'[pages[i]] = Chunk(Piece(stored'[p], i))
    BY <1>2, <2>3
  <2>7. OverflowPages(p)' = pages
    BY <1>3, <2>1
  <2>8. Intact(p)'
    BY <2>2, <2>4, <2>5, <2>6, <2>7, Zenon
    DEF Intact, IsInline, Descriptor, Chunk, Piece, Bytes, ChunkCount, Injective
  <2> QED BY <1>5, <2>8
<1> QED BY <1>6, <1>7

(* All steps but one leave the records alone but one, x. *)
NewRecord(x) ==
    /\ Intact(x)'
    /\ Extent(x)' \cap (free' \cup InHand') = {}
    /\ \A q \in DOMAIN stored : q # x => Extent(q) \cap Extent(x)' = {}

LEMMA StoreStep ==
    ASSUME StoreInv, StoreTypes', HandsApart', PutWritten', ~ freedTwice',
           NEW x, \A p \in DOMAIN stored' : p # x => Untouched(p),
           x \in DOMAIN stored' => NewRecord(x)
    PROVE  StoreInv'
<1>1. ASSUME NEW p \in DOMAIN stored', p # x
      PROVE  /\ p \in DOMAIN stored /\ Untouched(p)
             /\ Extent(p)' = Extent(p) /\ Intact(p)'
  <2>1. Untouched(p) /\ p \in DOMAIN stored
    BY <1>1 DEF Untouched
  <2>2. Intact(p)
    BY <2>1 DEF StoreInv
  <2> QED BY <2>1, <2>2, RecordStays
<1>2. \A p \in DOMAIN stored' : Intact(p)'
  BY <1>1 DEF NewRecord
<1>3. ASSUME NEW p \in DOMAIN stored'
      PROVE  Extent(p)' \cap (free' \cup InHand') = {}
  <2>1. CASE p = x
    BY <2>1, <1>3 DEF NewRecord
  <2>2. CASE p # x
    <3>1. Extent(p)' = Extent(p) /\ Untouched(p)
      BY <1>1, <2>2
    <3> QED BY <3>1 DEF Untouched
  <2> QED BY <2>1, <2>2
<1>4. ASSUME NEW p \in DOMAIN stored', NEW q \in DOMAIN stored', p # q
      PROVE  Extent(p)' \cap Extent(q)' = {}
  <2>1. CASE p = x
    <3>1. q \in DOMAIN stored /\ Extent(q)' = Extent(q)
      BY <1>1, <1>4, <2>1
    <3> QED BY <1>4, <2>1, <3>1 DEF NewRecord
  <2>2. CASE q = x
    <3>1. p \in DOMAIN stored /\ Extent(p)' = Extent(p)
      BY <1>1, <1>4, <2>2
    <3> QED BY <1>4, <2>2, <3>1 DEF NewRecord
  <2>3. CASE p # x /\ q # x
    <3>1. /\ p \in DOMAIN stored /\ Extent(p)' = Extent(p)
          /\ q \in DOMAIN stored /\ Extent(q)' = Extent(q)
      BY <1>1, <2>3
    <3> QED BY <1>4, <3>1 DEF StoreInv, RecordsApart
  <2> QED BY <2>1, <2>2, <2>3
<1>5. RecordsApart'
  BY <1>3, <1>4 DEF RecordsApart
<1> QED BY <1>2, <1>5 DEF StoreInv

LEMMA RangeOfAppend ==
    ASSUME NEW s \in Seq(Page), NEW x \in Page
    PROVE  /\ Append(s, x) \in Seq(Page) /\ Range(Append(s, x)) = Range(s) \cup {x}
           /\ Injective(s) /\ x \notin Range(s) => Injective(Append(s, x))
<1>1. PICK n \in Nat : n = Len(s) /\ DOMAIN s = 1 .. n
  BY LenProperties
<1>2. PICK t : t = Append(s, x)
  OBVIOUS
<1>3. t \in Seq(Page) /\ DOMAIN t = 1 .. n + 1 /\ t[n + 1] = x /\ \A i \in 1 .. n : t[i] = s[i]
  BY <1>1, <1>2
<1>4. \A i \in 1 .. n + 1 : i \in 1 .. n \/ i = n + 1
  BY <1>1
<1>5. Range(t) = Range(s) \cup {x}
  BY <1>1, <1>3, <1>4 DEF Range
<1>6. ASSUME Injective(s), x \notin Range(s) PROVE Injective(t)
  <2>1. \A i \in 1 .. n : s[i] # x
    BY <1>1, <1>6 DEF Range
  <2> QED BY <1>1, <1>3, <1>4, <1>6, <2>1 DEF Injective
<1> QED BY <1>2, <1>3, <1>5, <1>6

LEMMA RangeOfTail ==
    ASSUME NEW s \in Seq(Page), s # << >>
    PROVE  /\ Tail(s) \in Seq(Page) /\ Head(s) \in Page
           /\ Head(s) \in Range(s) /\ Range(Tail(s)) \subseteq Range(s)
           /\ Injective(s) => Head(s) \notin Range(Tail(s)) /\ Injective(Tail(s))
<1>1. PICK n \in Nat \ {0} : n = Len(s) /\ DOMAIN s = 1 .. n
  BY LenProperties, EmptySeq
<1>2. PICK t : t = Tail(s)
  OBVIOUS
<1>3. t \in Seq(Page) /\ DOMAIN t = 1 .. n - 1 /\ \A i \in 1 .. n - 1 : t[i] = s[i + 1]
  BY <1>1, <1>2, HeadTailProperties
<1>4. Head(s) = s[1] /\ s[1] \in Page
  BY <1>1
<1>5. \A i \in 1 .. n - 1 : i + 1 \in 1 .. n /\ i + 1 # 1
  BY <1>1
<1>6. 1 \in 1 .. n
  BY <1>1
<1>7. Head(s) \in Range(s) /\ Range(t) \subseteq Range(s)
  <2>1. s[1] \in Range(s)
    BY <1>1, <1>6 DEF Range
  <2>2. ASSUME NEW y \in Range(t) PROVE y \in Range(s)
    <3>1. PICK i \in 1 .. n - 1 : y = s[i + 1]
      BY <1>3, <2>2 DEF Range
    <3> QED BY <1>1, <1>5, <3>1 DEF Range
  <2> QED BY <1>4, <2>1, <2>2
<1>8. ASSUME Injective(s) PROVE Head(s) \notin Range(t) /\ Injective(t)
  <2>1. Head(s) \notin Range(t)
    BY <1>1, <1>3, <1>4, <1>5, <1>6, <1>8 DEF Range, Injective
  <2>2. ASSUME NEW i \in 1 .. n - 1, NEW j \in 1 .. n - 1, t[i] = t[j] PROVE i = j
    <3>1. s[i + 1] = s[j + 1]
      BY <1>3, <2>2
    <3>2. i + 1 = j + 1
      BY <1>1, <1>5, <1>8, <3>1 DEF Injective
    <3> QED BY <3>2
  <2> QED BY <1>3, <2>1, <2>2 DEF Injective
<1> QED BY <1>2, <1>3, <1>4, <1>7, <1>8

LEMMA NoneInRange == Range(<< >>) = {} /\ Injective(<< >>) /\ << >> \in Seq(Page)
BY DEF Range, Injective

LEMMA LeavesAlone ==
    ASSUME StoreInv, NEW p \in DOMAIN stored, stored'[p] = stored[p],
           BeingDeleted(p)' = BeingDeleted(p),
           free' \cup InHand' \subseteq free \cup InHand,
           \A q \in Page : q \notin free \cup InHand => content'[q] = content[q]
    PROVE  Untouched(p)
<1>1. Extent(p) \cap (free \cup InHand) = {}
  BY DEF StoreInv, RecordsApart
<1>2. Extent(p) \subseteq Page
  <2>1. p \in Page
    BY DEF StoreInv, StoreTypes
  <2>2. ~ BeingDeleted(p) => Range(OverflowPages(p)) \subseteq Page
    <3>1. CASE IsInline(stored[p])
      BY <3>1, NoneInRange DEF OverflowPages
    <3>2. CASE ~ IsInline(stored[p])
      <4>1. OverflowPages(p) \in Seq(Page)
        BY <3>2 DEF StoreInv, Intact
      <4> QED BY <4>1 DEF Range
    <3> QED BY <3>1, <3>2
  <2> QED BY <2>1, <2>2 DEF Extent
<1>3. \A q \in Extent(p) : content'[q] = content[q] /\ q \notin free' \cup InHand'
  BY <1>1, <1>2
<1> QED BY <1>3 DEF Untouched

(* A step that stores and deletes no record. *)
LEMMA QuietStep ==
    ASSUME StoreInv, StoreTypes', HandsApart', PutWritten', ~ freedTwice', stored' = stored,
           (pc # "free" /\ pc' # "free") \/ (pc' = pc /\ current' = current),
           free' \cup InHand' \subseteq free \cup InHand,
           \A q \in Page : q \notin free \cup InHand => content'[q] = content[q]
    PROVE  StoreInv'
<1>1. \A p : BeingDeleted(p)' = BeingDeleted(p)
  BY DEF BeingDeleted
<1>2. \A p \in DOMAIN stored' : Untouched(p)
  BY <1>1, LeavesAlone
<1>3. NoPage \notin DOMAIN stored'
  BY RecordConstants DEF StoreInv, StoreTypes
<1> QED BY <1>2, <1>3, StoreStep

LEMMA PutStep ==
    ASSUME StoreInv, NEW record \in Payload, Put(record)
    PROVE  StoreInv'
<1>1. /\ pc = "idle" /\ pc' = "alloc" /\ payload' = record /\ chunks = << >>
      /\ UNCHANGED << content, free, chunks, current, stored, freedTwice >>
  BY DEF Put, StoreInv, StoreTypes
<1>2. StoreTypes'
  BY <1>1 DEF StoreInv, StoreTypes
<1>3. InHand' = {} /\ InHand = {}
  BY <1>1, NoneInRange DEF InHand
<1>4. HandsApart'
  BY <1>1, <1>3, NoneInRange DEF HandsApart
<1>5. PutWritten'
  BY <1>1 DEF PutWritten
<1>6. ~ freedTwice'
  BY <1>1 DEF StoreInv
<1> QED BY <1>1, <1>2, <1>3, <1>4, <1>5, <1>6, QuietStep

LEMMA AllocStep ==
    ASSUME StoreInv, Alloc
    PROVE  StoreInv'
<1>1. PICK p \in free : /\ current' = p /\ free' = free \ {p}
                        /\ content' = [content EXCEPT ![p] = Unparsable]
  BY DEF Alloc
<1>2. /\ pc = "alloc" /\ pc' = "write"
      /\ UNCHANGED << payload, chunks, stored, freedTwice >>
  BY DEF Alloc
<1>3. p \in Page /\ DOMAIN content = Page
  BY DEF StoreInv, StoreTypes
<1>4. StoreTypes'
  BY <1>1, <1>2, <1>3 DEF StoreInv, StoreTypes
<1>5. InHand = Range(chunks) /\ InHand' = Range(chunks) \cup {p}
  BY <1>1, <1>2 DEF InHand
<1>6. p \notin Range(chunks) /\ InHand \cap free = {} /\ Injective(chunks)
  BY <1>5 DEF StoreInv, HandsApart
<1>7. HandsApart'
  <2>1. InHand' \cap free' = {}
    BY <1>1, <1>5, <1>6
  <2>2. Injective(chunks') /\ current' \notin Range(chunks')
    BY <1>1, <1>2, <1>6
  <2> QED BY <2>1, <2>2 DEF HandsApart, Injective
<1>8. PutWritten'
  <2>1. (IsInline(payload) => chunks = << >>)
        /\ \A i \in DOMAIN chunks : content[chunks[i]] = Chunk(Piece(payload, i))
    BY <1>2 DEF StoreInv, PutWritten
  <2>2. \A i \in DOMAIN chunks : chunks[i] # p /\ chunks[i] \in Page
    BY <1>6 DEF Range, StoreInv, StoreTypes
  <2>3. \A i \in DOMAIN chunks : content'[chunks[i]] = Chunk(Piece(payload, i))
    BY <1>1, <1>3, <2>1, <2>2
  <2> QED BY <1>2, <2>1, <2>3 DEF PutWritten, IsInline, Chunk, Piece, Bytes
<1>9. ~ freedTwice' /\ stored' = stored
  BY <1>2 DEF StoreInv
<1>10. free' \cup InHand' \subseteq free \cup InHand
  BY <1>1, <1>5
<1>11. \A q \in Page : q \notin free \cup InHand => content'[q] = content[q]
  BY <1>1, <1>3
<1> QED BY <1>2, <1>4, <1>7, <1>8, <1>9, <1>10, <1>11, QuietStep

LEMMA WriteChunkStep ==
    ASSUME StoreInv, WriteChunk
    PROVE  StoreInv'
<1>1. /\ pc = "write" /\ pc' = "alloc" /\ ~ IsInline(payload)
      /\ content' = [content EXCEPT ![current] = Chunk(Piece(payload, Len(chunks) + 1))]
      /\ chunks' = Append(chunks, current) /\ current' = NoPage
      /\ UNCHANGED << free, payload, stored, freedTwice >>
  BY DEF WriteChunk, WritingHome
<1>2. current \in Page /\ DOMAIN content = Page /\ chunks \in Seq(Page)
  BY <1>1 DEF StoreInv, StoreTypes
<1>3. InHand = Range(chunks) \cup {current}
  BY <1>1 DEF InHand
<1>4. current \notin Range(chunks) /\ InHand \cap free = {} /\ Injective(chunks)
  BY <1>1 DEF StoreInv, HandsApart
<1>5. /\ chunks' \in Seq(Page) /\ Range(chunks') = Range(chunks) \cup {current}
      /\ Injective(chunks')
  BY <1>1, <1>2, <1>4, RangeOfAppend
<1>6. InHand' = InHand
  BY <1>1, <1>3, <1>5 DEF InHand
<1>7. StoreTypes'
  BY <1>1, <1>2, <1>5 DEF StoreInv, StoreTypes
<1>8. HandsApart'
  BY <1>1, <1>4, <1>5, <1>6 DEF HandsApart, Injective
<1>9. PutWritten'
  <2>1. \A i \in DOMAIN chunks : content[chunks[i]] = Chunk(Piece(payload, i))
    BY <1>1 DEF StoreInv, PutWritten
  <2>2. PICK n \in Nat : n = Len(chunks) /\ DOMAIN chunks = 1 .. n
    BY <1>2, LenProperties
  <2>3. \A i \in 1 .. n : chunks[i] # current /\ chunks[i] \in Page
    BY <1>2, <1>4, <2>2 DEF Range
  <2>4. \A i \in 1 .. n : content'[chunks[i]] = Chunk(Piece(payload, i))
    BY <1>1, <1>2, <2>1, <2>2, <2>3
  <2>5. DOMAIN chunks' = 1 .. n + 1 /\ chunks'[n + 1] = current
        /\ \A i \in 1 .. n : chunks'[i] = chunks[i]
    BY <1>1, <1>2, <2>2
  <2>6. content'[current] = Chunk(Piece(payload, n + 1))
    BY <1>1, <1>2, <2>2
  <2>7. \A i \in 1 .. n + 1 : i \in 1 .. n \/ i = n + 1
    BY <2>2
  <2>8. \A i \in DOMAIN chunks' : content'[chunks'[i]] = Chunk(Piece(payload, i))
    BY <2>4, <2>5, <2>6, <2>7
  <2> QED BY <1>1, <2>8 DEF PutWritten, IsInline, Chunk, Piece, Bytes
<1>10. ~ freedTwice' /\ stored' = stored
  BY <1>1 DEF StoreInv
<1>11. \A q \in Page : q \notin free \cup InHand => content'[q] = content[q]
  BY <1>1, <1>2, <1>3
<1>12. free' \cup InHand' \subseteq free \cup InHand
  BY <1>1, <1>6
<1> QED BY <1>1, <1>7, <1>8, <1>9, <1>10, <1>11, <1>12, QuietStep

(* A call returns, having changed no more than pages in its hand. *)
LEMMA LetGoStep ==
    ASSUME StoreInv, pc # "free", Return, UNCHANGED << free, stored, freedTwice >>,
           DOMAIN content' = Page,
           \A q \in Page : q \notin free \cup InHand => content'[q] = content[q]
    PROVE  StoreInv'
<1>1. pc' = "idle" /\ chunks' = << >>
  BY DEF Return
<1>2. InHand' = {}
  BY <1>1, NoneInRange DEF InHand
<1>3. StoreTypes'
  BY <1>1, NoneInRange DEF StoreInv, StoreTypes
<1>4. HandsApart'
  BY <1>1, <1>2, NoneInRange DEF HandsApart
<1>5. PutWritten'
  BY <1>1 DEF PutWritten
<1>6. ~ freedTwice'
  BY DEF StoreInv
<1> QED BY <1>1, <1>2, <1>3, <1>4, <1>5, <1>6, QuietStep

LEMMA FailPutStep ==
    ASSUME StoreInv, FailPut
    PROVE  StoreInv'
<1>1. /\ pc \in {"alloc", "write"} /\ UNCHANGED << free, stored, freedTwice >>
      /\ UNCHANGED content \/ (pc = "write" /\ content' = [content EXCEPT ![current] = Unparsable])
  BY DEF FailPut
<1>2. DOMAIN content = Page /\ chunks \in Seq(Page) /\ (pc = "write" => current \in Page)
  BY DEF StoreInv, StoreTypes
<1>3. DOMAIN content' = Page
  BY <1>1, <1>2
<1>4. \A q \in Page : q \notin free \cup InHand => content'[q] = content[q]
  <2>1. pc = "write" => current \in InHand
    BY DEF InHand
  <2> QED BY <1>1, <1>2, <2>1
<1>5. CASE IsInline(payload)
  <2>1. Return
    BY <1>5 DEF FailPut
  <2> QED BY <1>1, <1>3, <1>4, <2>1, LetGoStep
<1>6. CASE ~ IsInline(payload)
  <2>1. chunks' = Allocated /\ pc' = "undo" /\ UNCHANGED << payload, current >>
    BY <1>6 DEF FailPut
  <2>2. Injective(chunks) /\ (pc = "write" => current \notin Range(chunks))
        /\ InHand \cap free = {}
    BY DEF StoreInv, HandsApart
  <2>3. chunks' \in Seq(Page) /\ Range(chunks') = InHand /\ Injective(chunks')
    <3>1. CASE pc = "write"
      BY <1>2, <2>1, <2>2, <3>1, RangeOfAppend DEF Allocated, InHand
    <3>2. CASE pc # "write"
      BY <1>2, <2>1, <2>2, <3>2 DEF Allocated, InHand
    <3> QED BY <3>1, <3>2
  <2>4. InHand' = InHand
    BY <2>1, <2>3 DEF InHand
  <2>5. StoreTypes'
    BY <1>1, <1>3, <2>1, <2>3 DEF StoreInv, StoreTypes
  <2>6. HandsApart'
    BY <1>1, <2>1, <2>2, <2>3, <2>4 DEF HandsApart, Injective
  <2>7. PutWritten' /\ ~ freedTwice'
    BY <1>1, <2>1 DEF PutWritten, StoreInv
  <2> QED BY <1>1, <1>4, <2>1, <2>4, <2>5, <2>6, <2>7, QuietStep
<1> QED BY <1>5, <1>6

(* The first page in hand is given to the free list, or the attempt fails. *)
LEMMA GiveBackStep ==
    ASSUME StoreInv, pc \in {"undo", "free"}, chunks # << >>,
           FreePage(Head(chunks)) \/ FailFree(Head(chunks)),
           chunks' = Tail(chunks), UNCHANGED << pc, payload, current, stored >>
    PROVE  StoreInv'
<1>1. PICK h : h = Head(chunks)
  OBVIOUS
<1>2. chunks \in Seq(Page) /\ DOMAIN content = Page
  BY DEF StoreInv, StoreTypes
<1>3. Injective(chunks) /\ InHand = Range(chunks) /\ InHand \cap free = {}
  BY DEF StoreInv, HandsApart, InHand
<1>4. /\ h \in Page /\ h \in Range(chunks) /\ chunks' \in Seq(Page)
      /\ Range(chunks') \subseteq Range(chunks) /\ h \notin Range(chunks')
      /\ Injective(chunks')
  BY <1>1, <1>2, <1>3, RangeOfTail
<1>5. /\ content' = [content EXCEPT ![h] = Unparsable] \/ content' = content
      /\ free' = free \cup {h} \/ free' = free
  BY <1>1 DEF FreePage, FailFree
<1>6. ~ freedTwice'
  <2>1. h \notin free
    BY <1>3, <1>4
  <2> QED BY <1>1, <2>1 DEF FreePage, FailFree, StoreInv
<1>7. InHand' = Range(chunks')
  BY DEF InHand
<1>8. StoreTypes'
  BY <1>2, <1>4, <1>5 DEF StoreInv, StoreTypes
<1>9. HandsApart'
  BY <1>3, <1>4, <1>5, <1>7 DEF HandsApart, Injective
<1>10. PutWritten'
  BY DEF PutWritten
<1>11. free' \cup InHand' \subseteq free \cup InHand
  BY <1>3, <1>4, <1>5, <1>7
<1>12. \A q \in Page : q \notin free \cup InHand => content'[q] = content[q]
  BY <1>2, <1>3, <1>4, <1>5
<1> QED BY <1>6, <1>8, <1>9, <1>10, <1>11, <1>12, QuietStep

LEMMA EndUndoStep ==
    ASSUME StoreInv, EndUndo
    PROVE  StoreInv'
<1>1. /\ pc # "free" /\ Return /\ DOMAIN content' = Page
      /\ UNCHANGED << content, free, stored, freedTwice >>
  BY DEF EndUndo, StoreInv, StoreTypes
<1> QED BY <1>1, LetGoStep

(* The descriptor names the pages that the put has in its hand. *)
LEMMA WriteHomeStep ==
    ASSUME StoreInv, WriteHome
    PROVE  StoreInv'
<1>1. /\ pc = "write" /\ WritingHome /\ pc' = "idle" /\ chunks' = << >>
      /\ content' = [content EXCEPT ![current] = HomeContent]
      /\ stored' = [p \in DOMAIN stored \cup {current} |->
                       IF p = current THEN payload ELSE stored[p]]
      /\ UNCHANGED << free, freedTwice >>
  BY DEF WriteHome, Return
<1>2. /\ current \in Page /\ DOMAIN content = Page /\ chunks \in Seq(Page)
      /\ payload \in Payload
  BY <1>1 DEF StoreInv, StoreTypes
<1>3. PICK x : x = current
  OBVIOUS
<1>4. InHand = Range(chunks) \cup {x} /\ InHand' = {}
  BY <1>1, <1>3, NoneInRange DEF InHand
<1>5. Injective(chunks) /\ x \notin Range(chunks) /\ InHand \cap free = {}
  BY <1>1, <1>3 DEF StoreInv, HandsApart
<1>6. stored'[x] = payload /\ content'[x] = HomeContent
      /\ DOMAIN stored' = DOMAIN stored \cup {x}
  BY <1>1, <1>2, <1>3
<1>7. x \notin DOMAIN stored
  <2>1. \A p \in DOMAIN stored : p \in Extent(p)
    BY DEF Extent
  <2> QED BY <1>4, <2>1 DEF StoreInv, RecordsApart
<1>8. StoreTypes'
  <2>1. DOMAIN content' = Page
    BY <1>1, <1>2
  <2>2. DOMAIN stored' \subseteq Page /\ \A p \in DOMAIN stored' : stored'[p] \in Payload
    BY <1>1, <1>2, <1>3, <1>6 DEF StoreInv, StoreTypes
  <2> QED BY <1>1, <2>1, <2>2, NoneInRange DEF StoreInv, StoreTypes
<1>9. HandsApart'
  BY <1>1, <1>4, NoneInRange DEF HandsApart
<1>10. PutWritten' /\ ~ freedTwice'
  BY <1>1 DEF PutWritten, StoreInv
<1>11. \A p : ~ BeingDeleted(p) /\ ~ BeingDeleted(p)'
  BY <1>1 DEF BeingDeleted
<1>12. ASSUME NEW p \in DOMAIN stored', p # x PROVE Untouched(p)
  <2>1. p \in DOMAIN stored /\ stored'[p] = stored[p]
    BY <1>1, <1>3, <1>6, <1>12
  <2>2. BeingDeleted(p)' = BeingDeleted(p)
    BY <1>1 DEF BeingDeleted
  <2>3. free' \cup InHand' \subseteq free \cup InHand
    BY <1>1, <1>4
  <2>4. \A q \in Page : q \notin free \cup InHand => content'[q] = content[q]
    BY <1>1, <1>2, <1>3, <1>4
  <2> QED BY <2>1, <2>2, <2>3, <2>4, LeavesAlone
<1>13. NewRecord(x)
  <2>1. CASE IsInline(payload)
    <3>1. content'[x] = Inline(Bytes(stored'[x])) /\ IsInline(stored'[x])
      BY <1>6, <2>1 DEF HomeContent
    <3>2. Intact(x)'
      BY <3>1, Zenon DEF Intact, IsInline, Inline, Bytes
    <3>3. OverflowPages(x)' = << >>
      BY <3>1 DEF OverflowPages, IsInline
    <3>4. Extent(x)' = {x}
      BY <1>11, <3>3, NoneInRange DEF Extent
    <3>5. Extent(x)' \subseteq InHand
      BY <1>4, <3>4
    <3> QED BY <1>1, <1>4, <1>5, <3>2, <3>5 DEF NewRecord, StoreInv, RecordsApart
  <2>2. CASE ~ IsInline(payload)
    <3>1. content'[x] = Descriptor(payload.size, chunks) /\ Len(chunks) = ChunkCount(payload)
      BY <1>1, <1>6, <2>2 DEF HomeContent, WritingHome
    <3>2. content'[x].pages = chunks
      BY <3>1 DEF Descriptor
    <3>3. OverflowPages(x)' = chunks
      BY <1>6, <2>2, <3>2 DEF OverflowPages, IsInline
    <3>4. Extent(x)' = InHand
      <4>1. Extent(x)' = {x} \cup Range(OverflowPages(x)')
        BY <1>11 DEF Extent, Range
      <4> QED BY <1>4, <3>3, <4>1
    <3>5. \A i \in DOMAIN chunks : content'[chunks[i]] = Chunk(Piece(payload, i))
      <4>1. \A i \in DOMAIN chunks : content[chunks[i]] = Chunk(Piece(payload, i))
        BY <1>1 DEF StoreInv, PutWritten
      <4>2. \A i \in DOMAIN chunks : chunks[i] # x /\ chunks[i] \in Page
        BY <1>2, <1>5 DEF Range
      <4> QED BY <1>1, <1>2, <1>3, <4>1, <4>2
    <3>6. PICK c : c = chunks
      OBVIOUS
    <3>7. /\ ~ IsInline(stored'[x]) /\ content'[x] = Descriptor(stored'[x].size, c)
          /\ c \in Seq(Page) /\ Injective(c) /\ Len(c) = ChunkCount(stored'[x])
          /\ \A i \in DOMAIN c : content'[c[i]] = Chunk(Piece(stored'[x], i))
      BY <1>2, <1>5, <1>6, <2>2, <3>1, <3>5, <3>6
    <3>8. OverflowPages(x)' = c
      BY <3>3, <3>6
    <3>9. Intact(x)'
      BY <3>7, <3>8, Zenon
      DEF Intact, IsInline, Descriptor, Chunk, Piece, Bytes, ChunkCount, Injective
    <3> QED BY <1>1, <1>4, <1>5, <3>4, <3>9 DEF NewRecord, StoreInv, RecordsApart
  <2> QED BY <2>1, <2>2
<1> QED BY <1>8, <1>9, <1>10, <1>12, <1>13, StoreStep

LEMMA DeleteRecordStep ==
    ASSUME StoreInv, NEW x \in Page, Delete(x)
    PROVE  StoreInv'
<1>1. /\ pc = "idle" /\ pc' = "free" /\ current' = x /\ x \in DOMAIN stored
      /\ chunks' = IF content[x].kind = "overflow" THEN content[x].pages ELSE << >>
      /\ UNCHANGED << content, free, payload, stored, freedTwice >>
  BY DEF Delete
<1>2. \A p : ~ BeingDeleted(p) /\ (BeingDeleted(p)' <=> p = x)
  BY <1>1 DEF BeingDeleted
<1>3. Intact(x)
  BY <1>1 DEF StoreInv
<1>4. chunks' = OverflowPages(x)
  <2>1. CASE IsInline(stored[x])
    <3>1. content[x].kind # "overflow"
      BY <1>3, <2>1 DEF Intact, Inline
    <3> QED BY <1>1, <2>1, <3>1 DEF OverflowPages
  <2>2. CASE ~ IsInline(stored[x])
    <3>1. content[x] = Descriptor(stored[x].size, OverflowPages(x))
      BY <1>3, <2>2 DEF Intact
    <3>2. content[x].kind = "overflow"
      BY <3>1 DEF Descriptor
    <3> QED BY <1>1, <2>2, <3>2 DEF OverflowPages
  <2> QED BY <2>1, <2>2
<1>5. PICK c : c = chunks'
  OBVIOUS
<1>6. c \in Seq(Page) /\ Injective(c) /\ x \notin Range(c)
  <2>1. CASE IsInline(stored[x])
    BY <1>4, <1>5, <2>1, NoneInRange DEF OverflowPages
  <2>2. CASE ~ IsInline(stored[x])
    <3>1. /\ c \in Seq(Page) /\ Injective(c) /\ content[x].kind = "overflow"
          /\ \A i \in DOMAIN c : content[c[i]].kind = "chunk"
      <4>1. PICK o : o = OverflowPages(x)
        OBVIOUS
      <4>2. /\ o \in Seq(Page) /\ Injective(o) /\ content[x] = Descriptor(stored[x].size, o)
            /\ \A i \in DOMAIN o : content[o[i]] = Chunk(Piece(stored[x], i))
        BY <1>2, <1>3, <2>2, <4>1 DEF Intact
      <4>3. content[x].kind = "overflow" /\ \A i \in DOMAIN o : content[o[i]].kind = "chunk"
        <5>1. \A b : Chunk(b).kind = "chunk"
          BY DEF Chunk
        <5>2. \A n : Descriptor(n, o).kind = "overflow"
          BY DEF Descriptor
        <5> QED BY <4>2, <5>1, <5>2
      <4>4. c = o
        BY <1>4, <1>5, <4>1
      <4> QED BY <4>2, <4>3, <4>4
    <3>2. \A i \in DOMAIN c : c[i] # x
      BY <3>1
    <3> QED BY <3>1, <3>2 DEF Range
  <2> QED BY <2>1, <2>2
<1>7. InHand' = Range(c) /\ Extent(x) = {x} \cup Range(c)
  BY <1>1, <1>2, <1>4, <1>5 DEF InHand, Extent
<1>8. Extent(x)' = {x}
  BY <1>2 DEF Extent
<1>9. /\ Extent(x) \cap free = {}
      /\ \A p \in DOMAIN stored : p # x => Extent(p) \cap Extent(x) = {}
  BY <1>1 DEF StoreInv, RecordsApart
<1>10. StoreTypes'
  BY <1>1, <1>5, <1>6 DEF StoreInv, StoreTypes
<1>11. HandsApart'
  BY <1>1, <1>5, <1>6, <1>7, <1>9 DEF HandsApart, Injective
<1>12. PutWritten' /\ ~ freedTwice'
  BY <1>1 DEF PutWritten, StoreInv
<1>13. ASSUME NEW p \in DOMAIN stored', p # x PROVE Untouched(p)
  <2>1. p \in DOMAIN stored /\ stored'[p] = stored[p] /\ Extent(p) \cap free = {}
    BY <1>1 DEF StoreInv, RecordsApart
  <2>2. BeingDeleted(p)' = BeingDeleted(p)
    BY <1>1, <1>13 DEF BeingDeleted
  <2>3. \A q \in Extent(p) : content'[q] = content[q] /\ q \notin free' \cup InHand'
    BY <1>1, <1>7, <1>9, <1>13, <2>1
  <2> QED BY <2>1, <2>2, <2>3 DEF Untouched
<1>14. Intact(x)'
  <2>1. CASE IsInline(stored[x])
    <3>1. content'[x] = Inline(Bytes(stored'[x])) /\ IsInline(stored'[x])
      BY <1>1, <1>3, <2>1 DEF Intact
    <3> QED BY <3>1, Zenon DEF Intact, IsInline, Inline, Bytes
  <2>2. CASE ~ IsInline(stored[x])
    <3>1. /\ ~ IsInline(stored'[x]) /\ content'[x] = Descriptor(stored'[x].size, c)
          /\ c \in Seq(Page) /\ Injective(c) /\ Len(c) = ChunkCount(stored'[x])
      BY <1>1, <1>3, <1>4, <1>5, <2>2 DEF Intact
    <3>2. OverflowPages(x)' = c
      BY <1>1, <1>4, <1>5 DEF OverflowPages, IsInline
    <3>3. BeingDeleted(x)'
      BY <1>1 DEF BeingDeleted
    <3> QED BY <3>1, <3>2, <3>3, Zenon
        DEF Intact, IsInline, Descriptor, Chunk, Piece, Bytes, ChunkCount, Injective
  <2> QED BY <2>1, <2>2
<1>15. NewRecord(x)
  <2>1. Extent(x)' \cap (free' \cup InHand') = {}
    BY <1>1, <1>6, <1>7, <1>8, <1>9
  <2>2. \A q \in DOMAIN stored : q # x => Extent(q) \cap Extent(x)' = {}
    BY <1>7, <1>8, <1>9
  <2> QED BY <1>14, <2>1, <2>2 DEF NewRecord
<1> QED BY <1>10, <1>11, <1>12, <1>13, <1>15, StoreStep

LEMMA TombstoneStep ==
    ASSUME StoreInv, WriteTombstone
    PROVE  StoreInv'
<1>1. /\ pc = "free" /\ pc' = "idle" /\ chunks = << >> /\ chunks' = << >>
      /\ content' = [content EXCEPT ![current] = Tombstone]
      /\ stored' = Restrict(stored, DOMAIN stored \ {current})
      /\ UNCHANGED << free, freedTwice >>
  BY DEF WriteTombstone, Return
<1>2. PICK x : x = current
  OBVIOUS
<1>3. x \in DOMAIN stored /\ x \in Page /\ DOMAIN content = Page
  BY <1>1, <1>2 DEF StoreInv, StoreTypes
<1>4. DOMAIN stored' = DOMAIN stored \ {x}
      /\ \A p \in DOMAIN stored' : stored'[p] = stored[p]
  BY <1>1, <1>2 DEF Restrict
<1>5. InHand = {} /\ InHand' = {}
  BY <1>1, NoneInRange DEF InHand
<1>6. StoreTypes'
  BY <1>1, <1>2, <1>3, <1>4, NoneInRange DEF StoreInv, StoreTypes
<1>7. HandsApart'
  BY <1>1, <1>5, NoneInRange DEF HandsApart
<1>8. PutWritten' /\ ~ freedTwice'
  BY <1>1 DEF PutWritten, StoreInv
<1>9. ASSUME NEW p \in DOMAIN stored' PROVE Untouched(p)
  <2>1. p \in DOMAIN stored /\ stored'[p] = stored[p] /\ p # x
    BY <1>4, <1>9
  <2>2. BeingDeleted(p)' = BeingDeleted(p)
    BY <1>1, <1>2, <2>1 DEF BeingDeleted
  <2>3. Extent(p) \cap free = {} /\ x \notin Extent(p)
    <3>1. x \in Extent(x)
      BY DEF Extent
    <3> QED BY <1>3, <2>1, <3>1 DEF StoreInv, RecordsApart
  <2>4. \A q \in Extent(p) : content'[q] = content[q] /\ q \notin free' \cup InHand'
    BY <1>1, <1>2, <1>5, <2>3
  <2> QED BY <2>1, <2>2, <2>4 DEF Untouched
<1>10. x \notin DOMAIN stored'
  BY <1>4
<1> QED BY <1>6, <1>7, <1>8, <1>9, <1>10, StoreStep

(* An interrupted delete leaves a descriptor whose pages are free, and the code
   answers with an error to a caller who still has the id; the theorem is about
   stores where deletes are finished. *)
DeletesFinish == "delete" \notin Interruptible

LEMMA RecordsStep ==
    ASSUME StoreInv, [Next]_vars, DeletesFinish
    PROVE  StoreInv'
<1>1. CASE UNCHANGED vars
  <2>1. UNCHANGED << content, free, pc, payload, chunks, current, stored, freedTwice >>
    BY <1>1 DEF vars, jobVars
  <2>2. InHand' = InHand
    BY <2>1 DEF InHand
  <2>3. StoreTypes'
    BY <2>1 DEF StoreInv, StoreTypes
  <2>4. HandsApart'
    BY <2>1, <2>2 DEF StoreInv, HandsApart, Injective
  <2>5. PutWritten'
    BY <2>1 DEF StoreInv, PutWritten, IsInline, Chunk, Piece, Bytes
  <2>6. ~ freedTwice'
    BY <2>1 DEF StoreInv
  <2> QED BY <2>1, <2>2, <2>3, <2>4, <2>5, <2>6, QuietStep
<1>2. ASSUME NEW record \in Payload, Put(record) PROVE StoreInv'
  BY <1>2, PutStep
<1>3. ASSUME NEW p \in Page, Delete(p) PROVE StoreInv'
  BY <1>3, DeleteRecordStep
<1>4. CASE Undo
  <2>1. /\ pc \in {"undo", "free"} /\ chunks # << >> /\ chunks' = Tail(chunks)
        /\ FreePage(Head(chunks)) \/ FailFree(Head(chunks))
        /\ UNCHANGED << pc, payload, current, stored >>
    BY <1>4 DEF Undo
  <2> QED BY <2>1, GiveBackStep
<1>5. CASE FreeChunk
  <2>1. /\ pc \in {"undo", "free"} /\ chunks # << >> /\ chunks' = Tail(chunks)
        /\ FreePage(Head(chunks)) \/ FailFree(Head(chunks))
        /\ UNCHANGED << pc, payload, current, stored >>
    BY <1>5 DEF FreeChunk
  <2> QED BY <2>1, GiveBackStep
<1>6. CASE Kill
  <2>1. /\ pc # "free" /\ Return /\ UNCHANGED << content, free, stored, freedTwice >>
    BY <1>6 DEF Kill, DeletesFinish
  <2>2. DOMAIN content' = Page
    BY <2>1 DEF StoreInv, StoreTypes
  <2> QED BY <2>1, <2>2, LetGoStep
<1>7. ~ FailDelete
  BY DEF FailDelete, DeletesFinish
<1> QED BY <1>1, <1>2, <1>3, <1>4, <1>5, <1>6, <1>7, AllocStep, WriteChunkStep,
           WriteHomeStep, FailPutStep, EndUndoStep, TombstoneStep DEF Next

(* What a record says once its pages are as they were written. *)
LEMMA RecordsReadBack ==
    ASSUME StoreInv
    PROVE  StoredRecordsRead
<1>1. SUFFICES ASSUME NEW p \in DOMAIN stored, ~ BeingDeleted(p)
               PROVE  Get(p) = Bytes(stored[p])
  BY DEF StoredRecordsRead, StoreInv
<1>2. Intact(p) /\ stored[p] \in Payload
  BY DEF StoreInv, StoreTypes
<1>3. CASE IsInline(stored[p])
  BY <1>2, <1>3 DEF Intact, Inline, Get
<1>4. CASE ~ IsInline(stored[p])
  <2>1. PICK pages, r : pages = OverflowPages(p) /\ r = stored[p]
    OBVIOUS
  <2>2. /\ r \in Payload /\ content[p] = Descriptor(r.size, pages)
        /\ pages \in Seq(Page) /\ Len(pages) = ChunkCount(r)
        /\ \A i \in DOMAIN pages : content[pages[i]] = Chunk(Piece(r, i))
    BY <1>1, <1>2, <1>4, <2>1 DEF Intact
  <2>3. PICK n \in Nat : n = ChunkCount(r) /\ DOMAIN pages = 1 .. n
    BY <2>2, LenProperties
  <2>4. \A i \in 1 .. n : SlotBytes(pages[i]) = Piece(r, i)
    <3>1. ASSUME NEW i \in 1 .. n PROVE SlotBytes(pages[i]) = Piece(r, i)
      <4>1. PICK b : b = Piece(r, i)
        OBVIOUS
      <4>2. content[pages[i]] = [kind |-> "chunk", bytes |-> b]
        BY <2>2, <2>3, <4>1 DEF Chunk
      <4>3. content[pages[i]].kind = "chunk" /\ content[pages[i]].bytes = b
        BY <4>2
      <4> QED BY <4>1, <4>3 DEF SlotBytes
    <3> QED BY <3>1
  <2>5. PICK pieces : pieces = [i \in 1 .. Len(pages) |-> SlotBytes(pages[i])]
    OBVIOUS
  <2>6. pieces = [i \in 1 .. ChunkCount(r) |-> Piece(r, i)]
    BY <2>2, <2>3, <2>4, <2>5
  <2>7. /\ \A i \in 1 .. Len(pieces) : pieces[i] # << >>
        /\ OutAfter(pieces)[Len(pieces)] = Bytes(r)
    BY <2>2, <2>6, PiecesJoin
  <2>8. Len(Bytes(r)) = r.size
    BY <2>2, BytesProperties
  <2>9. content[p].pages = pages /\ content[p].size = r.size /\ content[p].kind = "overflow"
    BY <2>2 DEF Descriptor
  <2>10. Get(p) = DecodeOverflow(content[p])
    BY <2>9 DEF Get
  <2>11. DecodeOverflow(content[p]) = Bytes(r)
    BY <2>5, <2>7, <2>8, <2>9, Zenon DEF DecodeOverflow
  <2> QED BY <2>1, <2>10, <2>11
<1> QED BY <1>3, <1>4

(* Whatever puts and deletes run, and wherever a put fails or dies: a record
   that was stored and not deleted reads back byte for byte, and no page is
   freed twice.  For any number of pages, any sizes and any records. *)
THEOREM RecordsRead ==
    ASSUME DeletesFinish
    PROVE  MCSpec => []StoredRecordsRead
<1>1. MCInit => StoreInv
  <2>1. SUFFICES ASSUME Init PROVE StoreInv
    BY DEF MCInit
  <2>2. /\ content = [p \in Page |-> Unparsable] /\ free = Page
        /\ pc = "idle" /\ chunks = << >> /\ DOMAIN stored = {} /\ freedTwice = FALSE
    BY <2>1 DEF Init
  <2>3. InHand = {}
    BY <2>2, NoneInRange DEF InHand
  <2> QED BY <2>2, <2>3, NoneInRange
          DEF StoreInv, StoreTypes, HandsApart, RecordsApart, PutWritten
<1>2. StoreInv /\ [MCNext]_allVars => StoreInv'
  <2>1. [MCNext]_allVars => [Next]_vars
    BY DEF MCNext, allVars
  <2> QED BY <2>1, RecordsStep
<1>3. StoreInv => StoredRecordsRead
  BY RecordsReadBack
<1> QED BY <1>1, <1>2, <1>3, PTL DEF MCSpec

===============================================================================
