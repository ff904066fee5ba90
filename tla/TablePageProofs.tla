--------------------------- MODULE TablePageProofs ---------------------------
(* What the methods of a table page do to its layout and to its tuples, for   *)
(* every page size and every tuple.                                           *)
EXTENDS TablePage, WellFoundedInduction, TLAPS

\* A set of natural numbers that is not empty has a least element.
LEMMA Least ==
  ASSUME NEW T \in SUBSET Nat, T # {}
  PROVE  \E m \in T : \A k \in T : m <= k
<1> DEFINE R == OpToRel(<, Nat)
<1>1. IsWellFoundedOn(R, Nat)
  BY NatLessThanWellFounded, Zenon
<1>2. \A a, b \in Nat : <<a, b>> \in R <=> a < b
  BY DEF OpToRel
<1> HIDE DEF R
<1>3. PICK m \in T : \A k \in T : ~(<<k, m>> \in R)
  BY <1>1, WFMin, Zenon
<1>4. \A k \in T : ~(k < m)
  BY <1>2, <1>3, Zenon
<1> QED BY <1>4

\* Different numbers below n, one for each of 1 .. k: there are no more than n.
Spread(f, k, n) ==
  /\ \A i \in 1 .. k : f[i] \in Int /\ 0 <= f[i] /\ f[i] < n
  /\ \A i, j \in 1 .. k : i # j => f[i] # f[j]

LEMMA SpreadFits ==
  ASSUME NEW k \in Nat, NEW n \in Nat, NEW f, Spread(f, k, n)
  PROVE  k <= n
<1> DEFINE T == {m \in Nat : \E h : \E l \in Nat : Spread(h, l, m) /\ l > m}
<1> SUFFICES ASSUME n \in T PROVE FALSE
  OBVIOUS
<1>1. PICK m \in T : \A j \in T : m <= j
  BY Least, Zenon
<1>2. PICK h : \E l \in Nat : Spread(h, l, m) /\ l > m
  OBVIOUS
<1>3. PICK l \in Nat : Spread(h, l, m) /\ l > m
  BY <1>2
<1> DEFINE g == [i \in 1 .. l - 1 |-> IF h[i] = m - 1 THEN h[l] ELSE h[i]]
<1>4. m > 0
  BY <1>3 DEF Spread
<1>5. ASSUME NEW i \in 1 .. l - 1 PROVE g[i] \in Int /\ 0 <= g[i] /\ g[i] < m - 1
  BY <1>3, <1>4 DEF Spread
<1>6. ASSUME NEW i \in 1 .. l - 1, NEW j \in 1 .. l - 1, i # j PROVE g[i] # g[j]
  BY <1>3, <1>4, <1>6 DEF Spread
<1>7. Spread(g, l - 1, m - 1)
  <2> HIDE DEF g
  <2> QED BY <1>5, <1>6 DEF Spread
<1>8. m - 1 \in T
  <2> HIDE DEF g
  <2>1. m - 1 \in Nat /\ l - 1 \in Nat /\ l - 1 > m - 1
    BY <1>3, <1>4
  <2> QED BY <1>7, <2>1
<1> QED BY <1>1, <1>4, <1>8

\* The bytes of the tuple in slot i, marked or not.
Content(p, i) == Loaded(p.data, Start(p, i), Abs(p.slots[i].size))

\* Slot i of page p is slot i of page q, with the same tuple in it.
SameTuple(p, q, i) ==
  i \in DOMAIN q.slots /\ q.slots[i].size = p.slots[i].size /\ Content(q, i) = Content(p, i)

\* The facts about a page that the provers need as numbers.
LEMMA PageFacts ==
  ASSUME NEW p \in Page
  PROVE  /\ p.free \in Int /\ 0 <= p.free /\ p.free <= PageSize /\ PageSize \in Nat
         /\ Len(p.slots) \in Nat /\ DOMAIN p.slots = 1 .. Len(p.slots)
         /\ p.slots \in Seq(Slot)
         /\ p.data \in [0 .. PageSize - 1 -> Unit]
         /\ p = [free |-> p.free, slots |-> p.slots, data |-> p.data]
         /\ \A i \in DOMAIN p.slots :
              /\ p.slots[i] \in Slot
              /\ p.slots[i].offset \in Int /\ 0 <= p.slots[i].offset
              /\ p.slots[i].size \in Int
              /\ Abs(p.slots[i].size) \in Nat /\ Abs(p.slots[i].size) <= PageSize
              /\ p.slots[i].size # 0 => Abs(p.slots[i].size) > 0
<1>1. p.free \in 0 .. PageSize /\ p.slots \in Seq(Slot)
      /\ p.data \in [0 .. PageSize - 1 -> Unit]
      /\ p = [free |-> p.free, slots |-> p.slots, data |-> p.data]
  BY DEF Page
<1>2. PageSize \in Nat
  BY PageAssumption
<1>3. \A i \in DOMAIN p.slots : p.slots[i] \in Slot
  BY <1>1
<1>4. \A i \in DOMAIN p.slots :
        p.slots[i].offset \in 0 .. PageSize /\ p.slots[i].size \in -PageSize .. PageSize
  BY <1>3 DEF Slot
<1>5. \A i \in DOMAIN p.slots : p.slots[i].offset \in Int /\ 0 <= p.slots[i].offset
                             /\ p.slots[i].size \in Int
  BY <1>2, <1>4
<1>6. \A i \in DOMAIN p.slots :
        /\ Abs(p.slots[i].size) \in Nat /\ Abs(p.slots[i].size) <= PageSize
        /\ p.slots[i].size # 0 => Abs(p.slots[i].size) > 0
  BY <1>2, <1>4 DEF Abs
<1>7. Len(p.slots) \in Nat /\ DOMAIN p.slots = 1 .. Len(p.slots)
  BY <1>1
<1> QED BY <1>1, <1>2, <1>3, <1>5, <1>6, <1>7

\* A page that Init() has set up.
THEOREM NewPageLaidOut == NewTablePage \in Page /\ LayoutOK(NewTablePage)
<1>1. PageSize \in Nat /\ PageSize > 3 /\ Zero \in Unit
  BY PageAssumption DEF HeaderSize
<1>2. NewTablePage \in Page
  BY <1>1 DEF NewTablePage, Page
<1>3. Used(NewTablePage) = {} /\ NewTablePage.free = PageSize /\ Len(NewTablePage.slots) = 0
  BY DEF Used, NewTablePage
<1>4. FreeSpaceSize(NewTablePage) >= 0
  BY <1>1, <1>3 DEF FreeSpaceSize, HeaderSize, SlotSize
<1> QED BY <1>1, <1>2, <1>3, <1>4 DEF LayoutOK

\* The first empty slot exists.
LEMMA FirstEmpty ==
  ASSUME NEW p \in Page, EmptySlots(p) # {}
  PROVE  InsertSlot(p) \in EmptySlots(p)
<1>1. EmptySlots(p) \subseteq Nat
  BY PageFacts DEF EmptySlots
<1>2. PICK x \in EmptySlots(p) : \A y \in EmptySlots(p) : x <= y
  BY <1>1, Least
<1> QED BY <1>2 DEF InsertSlot
------------------------------------------------------------------------------
\* The slots of a page after an insertion.
LEMMA InsertSlots ==
  ASSUME NEW p \in Page, NEW t \in Seq(Unit), Len(t) > 0, Fits(p, t), FreeSpaceSize(p) >= 0,
         NEW q, q = InsertTuple(p, t), NEW s, s = InsertSlot(p)
  PROVE  /\ q.free = p.free - Len(t) /\ Len(t) \in Nat
         /\ 0 <= q.free /\ FreeSpaceSize(q) >= 0
         /\ q \in Page
         /\ DOMAIN q.slots = DOMAIN p.slots \cup {s}
         /\ s \notin Used(p) /\ s \in Nat
         /\ q.slots[s] = [offset |-> q.free, size |-> Len(t)]
         /\ \A j \in Used(p) : j # s /\ q.slots[j] = p.slots[j]
         /\ Used(q) = Used(p) \cup {s}
         /\ q.data = Stored(p.data, q.free, t)
<1> DEFINE new == [offset |-> p.free - Len(t), size |-> Len(t)]
<1>0. Len(t) \in Nat
  OBVIOUS
<1>1. q.free = p.free - Len(t) /\ q.slots = WithSlot(p.slots, s, new)
      /\ q.data = Stored(p.data, p.free - Len(t), t)
      /\ q = [free |-> q.free, slots |-> q.slots, data |-> q.data]
  BY DEF InsertTuple
<1>2. p.free - 3 - Len(p.slots) >= Len(t) + IF EmptySlots(p) = {} THEN 1 ELSE 0
  BY PageFacts DEF Fits, FreeSpaceSize, HeaderSize, SlotSize
<1>3. 0 <= q.free /\ q.free <= PageSize /\ q.free \in Int
  BY <1>0, <1>1, <1>2, PageFacts
<1>4. new \in Slot
  BY <1>0, <1>1, <1>2, PageFacts DEF Slot
<1>5. q.data \in [0 .. PageSize - 1 -> Unit]
  <2>1. DOMAIN p.data = 0 .. PageSize - 1
    BY PageFacts
  <2>2. ASSUME NEW k \in 0 .. PageSize - 1
        PROVE  (IF k >= p.free - Len(t) /\ k < p.free - Len(t) + Len(t)
                THEN t[k - (p.free - Len(t)) + 1] ELSE p.data[k]) \in Unit
    BY <1>0, PageFacts
  <2> QED BY <1>1, <2>1, <2>2 DEF Stored
<1>6. CASE EmptySlots(p) = {}
  <2>1. s = Len(p.slots) + 1
    BY <1>6 DEF InsertSlot
  <2>2. q.slots = Append(p.slots, new)
    BY <1>1, <2>1 DEF WithSlot
  <2>3. q.slots \in Seq(Slot) /\ Len(q.slots) = Len(p.slots) + 1
    BY <1>4, <2>2, PageFacts
  <2>4. /\ DOMAIN q.slots = DOMAIN p.slots \cup {s}
        /\ s \notin DOMAIN p.slots /\ s \in Nat
    BY <2>1, <2>3, PageFacts
  <2>5. q.slots[s] = new /\ \A j \in DOMAIN p.slots : q.slots[j] = p.slots[j]
    BY <1>4, <2>1, <2>2, PageFacts
  <2>6. FreeSpaceSize(q) >= 0
    BY <1>0, <1>1, <1>2, <1>6, <2>3, PageFacts DEF FreeSpaceSize, HeaderSize, SlotSize
  <2>7. s \notin Used(p) /\ \A j \in Used(p) : j # s /\ q.slots[j] = p.slots[j]
    BY <2>4, <2>5 DEF Used
  <2>8. Used(q) = Used(p) \cup {s}
    BY <1>0, <2>4, <2>5 DEF Used
  <2>9. q \in Page
    BY <1>1, <1>3, <1>5, <2>3, PageFacts DEF Page
  <2> QED BY <1>0, <1>1, <1>3, <2>4, <2>5, <2>6, <2>7, <2>8, <2>9
<1>7. CASE EmptySlots(p) # {}
  <2>1. s \in DOMAIN p.slots /\ p.slots[s].size = 0
    BY <1>7, FirstEmpty DEF EmptySlots
  <2>2. q.slots = [p.slots EXCEPT ![s] = new]
    BY <1>1, <2>1, PageFacts DEF WithSlot
  <2>3. q.slots \in Seq(Slot) /\ Len(q.slots) = Len(p.slots) /\ DOMAIN q.slots = DOMAIN p.slots
    BY <1>4, <2>1, <2>2, PageFacts
  <2>4. s \in Nat
    BY <2>1, PageFacts
  <2>5. q.slots[s] = new /\ \A j \in DOMAIN p.slots : j # s => q.slots[j] = p.slots[j]
    BY <2>1, <2>2
  <2>6. FreeSpaceSize(q) >= 0
    BY <1>0, <1>1, <1>2, <1>7, <2>3, PageFacts DEF FreeSpaceSize, HeaderSize, SlotSize
  <2>7. s \notin Used(p) /\ \A j \in Used(p) : j # s /\ q.slots[j] = p.slots[j]
    BY <2>1, <2>5 DEF Used
  <2>8. Used(q) = Used(p) \cup {s}
    BY <1>0, <2>1, <2>3, <2>5 DEF Used
  <2>9. q \in Page
    BY <1>1, <1>3, <1>5, <2>3, PageFacts DEF Page
  <2> QED BY <1>0, <1>1, <1>3, <2>1, <2>3, <2>4, <2>5, <2>6, <2>7, <2>8, <2>9, Zenon
<1> QED BY <1>6, <1>7, Zenon

\* InsertTuple() keeps the layout of the page: the new tuple is put right in
\* front of the others, and a new slot only where there is room for it as well.
THEOREM InsertKeepsLayout ==
  ASSUME NEW p \in Page, LayoutOK(p), NEW t \in Seq(Unit), Len(t) > 0, Fits(p, t)
  PROVE  InsertTuple(p, t) \in Page /\ LayoutOK(InsertTuple(p, t))
<1> DEFINE q == InsertTuple(p, t)
           s == InsertSlot(p)
<1>0. FreeSpaceSize(p) >= 0
  BY DEF LayoutOK
<1>1. /\ q.free = p.free - Len(t) /\ Len(t) \in Nat
      /\ 0 <= q.free /\ FreeSpaceSize(q) >= 0
      /\ q \in Page
      /\ s \notin Used(p)
      /\ q.slots[s] = [offset |-> q.free, size |-> Len(t)]
      /\ \A j \in Used(p) : j # s /\ q.slots[j] = p.slots[j]
      /\ Used(q) = Used(p) \cup {s}
  BY <1>0, InsertSlots
<1>2. Start(q, s) = q.free /\ Stop(q, s) = p.free
  BY <1>1, PageFacts DEF Start, Stop, Abs
<1>3. \A j \in Used(p) : Start(q, j) = Start(p, j) /\ Stop(q, j) = Stop(p, j)
  BY <1>1 DEF Start, Stop
<1>4. \A j \in Used(p) : /\ Start(p, j) \in Int /\ Stop(p, j) \in Int
                         /\ p.free <= Start(p, j) /\ Stop(p, j) <= PageSize
  BY PageFacts DEF LayoutOK, Used, Start, Stop
<1> HIDE DEF q, s
<1>5. \A j \in Used(q) : q.free <= Start(q, j) /\ Stop(q, j) <= PageSize
  BY <1>1, <1>2, <1>3, <1>4, PageFacts
<1>6. \A i, j \in Used(q) : i # j =>
        Stop(q, i) <= Start(q, j) \/ Stop(q, j) <= Start(q, i)
  <2>1. \A i, j \in Used(p) : i # j =>
          Stop(p, i) <= Start(p, j) \/ Stop(p, j) <= Start(p, i)
    BY DEF LayoutOK
  <2> QED BY <1>1, <1>2, <1>3, <1>4, <2>1
<1>7. \A k \in q.free .. PageSize - 1 :
        \E i \in Used(q) : Start(q, i) <= k /\ k < Stop(q, i)
  <2>1. \A k \in p.free .. PageSize - 1 :
          \E i \in Used(p) : Start(p, i) <= k /\ k < Stop(p, i)
    BY DEF LayoutOK
  <2>2. TAKE k \in q.free .. PageSize - 1
  <2>3. CASE k >= p.free
    <3>1. k \in p.free .. PageSize - 1
      BY <2>3, <1>1, PageFacts
    <3>2. PICK i \in Used(p) : Start(p, i) <= k /\ k < Stop(p, i)
      BY <2>1, <3>1
    <3> QED BY <1>1, <1>3, <3>2
  <2>4. CASE ~ (k >= p.free)
    <3>1. Start(q, s) <= k /\ k < Stop(q, s)
      BY <2>4, <1>1, <1>2, PageFacts
    <3> QED BY <1>1, <3>1
  <2> QED BY <2>3, <2>4
<1>8. LayoutOK(q)
  BY <1>1, <1>5, <1>6, <1>7 DEF LayoutOK
<1> QED BY <1>1, <1>8 DEF q

\* Two runs of units are the same tuple if they agree unit by unit.
LEMMA SameUnits ==
  ASSUME NEW d, NEW e, NEW a \in Int, NEW b \in Int, NEW n \in Nat,
         \A k \in Int : a <= k /\ k < a + n => d[k] = e[k - a + b]
  PROVE  Loaded(d, a, n) = Loaded(e, b, n)
<1>1. ASSUME NEW k \in 1 .. n PROVE d[a + k - 1] = e[b + k - 1]
  <2>1. a + k - 1 \in Int /\ a <= a + k - 1 /\ a + k - 1 < a + n
        /\ (a + k - 1) - a + b = b + k - 1
    OBVIOUS
  <2> QED BY <2>1
<1> QED BY <1>1 DEF Loaded

\* What was inserted is what GetTuple() gives, and no other tuple, marked or
\* not, changes.
THEOREM InsertKeepsTuples ==
  ASSUME NEW p \in Page, LayoutOK(p), NEW t \in Seq(Unit), Len(t) > 0, Fits(p, t)
  PROVE  /\ Visible(InsertTuple(p, t), InsertSlot(p))
         /\ GetTuple(InsertTuple(p, t), InsertSlot(p)) = t
         /\ \A j \in Used(p) : SameTuple(p, InsertTuple(p, t), j)
<1> DEFINE q == InsertTuple(p, t)
           s == InsertSlot(p)
<1>0. FreeSpaceSize(p) >= 0
  BY DEF LayoutOK
<1>1. /\ q.free = p.free - Len(t) /\ Len(t) \in Nat /\ 0 <= q.free
      /\ DOMAIN q.slots = DOMAIN p.slots \cup {s}
      /\ q.slots[s] = [offset |-> q.free, size |-> Len(t)]
      /\ \A j \in Used(p) : j # s /\ q.slots[j] = p.slots[j]
      /\ q.data = Stored(p.data, q.free, t)
  BY <1>0, InsertSlots
<1>2. DOMAIN p.data = 0 .. PageSize - 1 /\ p.free \in Int /\ p.free <= PageSize
      /\ PageSize \in Nat
  BY PageFacts
<1> HIDE DEF q, s
<1>3. Visible(q, s)
  BY <1>1 DEF Visible
<1>4. GetTuple(q, s) = t
  <2>1. GetTuple(q, s) = [k \in 1 .. Len(t) |-> q.data[q.free + k - 1]]
    BY <1>1 DEF GetTuple, Loaded
  <2>2. ASSUME NEW k \in 1 .. Len(t) PROVE q.data[q.free + k - 1] = t[k]
    <3>1. /\ q.free + k - 1 \in 0 .. PageSize - 1
          /\ q.free + k - 1 >= q.free /\ q.free + k - 1 < q.free + Len(t)
          /\ (q.free + k - 1) - q.free + 1 = k
      BY <1>1, <1>2
    <3> QED BY <1>1, <1>2, <3>1 DEF Stored
  <2>3. t = [k \in 1 .. Len(t) |-> t[k]]
    OBVIOUS
  <2> QED BY <2>1, <2>2, <2>3
<1>5. ASSUME NEW j \in Used(p) PROVE SameTuple(p, q, j)
  <2>1. j \in DOMAIN q.slots /\ q.slots[j] = p.slots[j]
    BY <1>1 DEF Used
  <2>2. /\ Start(p, j) \in Int /\ Abs(p.slots[j].size) \in Nat
        /\ p.free <= Start(p, j) /\ Start(p, j) + Abs(p.slots[j].size) <= PageSize
    BY PageFacts DEF LayoutOK, Used, Start, Stop
  <2>3. ASSUME NEW k \in Int, Start(p, j) <= k, k < Start(p, j) + Abs(p.slots[j].size)
        PROVE  q.data[k] = p.data[k - Start(p, j) + Start(p, j)]
    <3>1. k \in 0 .. PageSize - 1 /\ ~ (k < q.free + Len(t))
          /\ k - Start(p, j) + Start(p, j) = k
      BY <1>1, <1>2, <2>2, <2>3, PageFacts
    <3> QED BY <1>1, <1>2, <3>1 DEF Stored
  <2>4. Loaded(q.data, Start(p, j), Abs(p.slots[j].size))
        = Loaded(p.data, Start(p, j), Abs(p.slots[j].size))
    BY <2>2, <2>3, SameUnits
  <2> QED BY <2>1, <2>4 DEF SameTuple, Content, Start
<1> QED BY <1>3, <1>4, <1>5 DEF q, s
------------------------------------------------------------------------------
\* Where the other tuples lie, seen from tuple i: in front of it or behind it.
LEMMA Sides ==
  ASSUME NEW p \in Page, LayoutOK(p), NEW i \in Used(p), NEW j \in Used(p), j # i
  PROVE  /\ Start(p, j) \in Int /\ Stop(p, j) \in Int
         /\ Stop(p, j) = Start(p, j) + Abs(p.slots[j].size)
         /\ p.free <= Start(p, j) /\ Start(p, j) < Stop(p, j) /\ Stop(p, j) <= PageSize
         /\ \/ Start(p, j) < Start(p, i) /\ Stop(p, j) <= Start(p, i)
            \/ Start(p, j) >= Stop(p, i)
<1>1. Abs(p.slots[i].size) \in Nat /\ Abs(p.slots[i].size) > 0
      /\ Abs(p.slots[j].size) \in Nat /\ Abs(p.slots[j].size) > 0
      /\ p.slots[i].offset \in Int /\ p.slots[j].offset \in Int
  BY PageFacts DEF Used
<1>2. Stop(p, i) <= Start(p, j) \/ Stop(p, j) <= Start(p, i)
  BY DEF LayoutOK
<1>3. p.free <= Start(p, j) /\ Stop(p, j) <= PageSize
  BY DEF LayoutOK
<1> QED BY <1>1, <1>2, <1>3 DEF Start, Stop

\* The slots of a page after a deletion.
LEMMA ApplySlots ==
  ASSUME NEW p \in Page, LayoutOK(p), NEW i \in Used(p), NEW q, q = ApplyDelete(p, i)
  PROVE  /\ q.free = p.free + Abs(p.slots[i].size)
         /\ q \in Page
         /\ DOMAIN q.slots = DOMAIN p.slots /\ Len(q.slots) = Len(p.slots)
         /\ Used(q) = Used(p) \ {i}
         /\ q.slots[i].size = 0
         /\ \A j \in Used(p) \ {i} :
              /\ q.slots[j].size = p.slots[j].size
              /\ Start(p, j) < Start(p, i) => Start(q, j) = Start(p, j) + Abs(p.slots[i].size)
              /\ Start(p, j) >= Start(p, i) => Start(q, j) = Start(p, j)
         /\ q.data = Moved(p.data, p.free + Abs(p.slots[i].size), p.free, Start(p, i) - p.free)
<1> DEFINE n == Abs(p.slots[i].size)
           o == p.slots[i].offset
           freed == [p.slots EXCEPT ![i] = [offset |-> 0, size |-> 0]]
           slots == [j \in DOMAIN freed |->
                       IF freed[j].size # 0 /\ freed[j].offset < o
                       THEN [freed[j] EXCEPT !.offset = @ + n] ELSE freed[j]]
<1>1. /\ n \in Nat /\ n > 0 /\ o \in Int /\ 0 <= o /\ i \in DOMAIN p.slots
      /\ p.free <= o /\ o + n <= PageSize
  BY PageFacts, Zenon DEF Used, LayoutOK, Start, Stop
<1>2. q = [free |-> p.free + n, slots |-> slots,
           data |-> Moved(p.data, p.free + n, p.free, o - p.free)]
  BY DEF ApplyDelete
<1>3. DOMAIN slots = DOMAIN p.slots /\ freed[i] = [offset |-> 0, size |-> 0]
      /\ \A j \in DOMAIN p.slots : j # i => freed[j] = p.slots[j]
  BY <1>1
<1>4. slots[i] = [offset |-> 0, size |-> 0]
  BY <1>1, <1>3
<1>5. ASSUME NEW j \in DOMAIN p.slots, j # i
      PROVE  slots[j] = IF p.slots[j].size # 0 /\ p.slots[j].offset < o
                        THEN [p.slots[j] EXCEPT !.offset = @ + n] ELSE p.slots[j]
  BY <1>3, <1>5
<1>6. ASSUME NEW j \in Used(p), j # i, p.slots[j].offset < o
      PROVE  p.slots[j].offset + n <= PageSize
  <2>1. Start(p, j) < Start(p, i) /\ Start(p, j) \in Int
    BY <1>6, PageFacts DEF Start, Used
  <2> QED BY <1>1, <1>6, <2>1, PageFacts DEF Start
<1>7. \A j \in DOMAIN p.slots : slots[j] \in Slot
  <2>1. slots[i] \in Slot
    BY <1>4, PageFacts DEF Slot
  <2>2. ASSUME NEW j \in DOMAIN p.slots, j # i PROVE slots[j] \in Slot
    <3>1. p.slots[j] \in Slot /\ p.slots[j].offset \in Int /\ 0 <= p.slots[j].offset
      BY PageFacts
    <3>2. CASE p.slots[j].size # 0 /\ p.slots[j].offset < o
      <4>1. slots[j] = [p.slots[j] EXCEPT !.offset = @ + n]
        BY <1>5, <2>2, <3>2, Zenon
      <4>2. j \in Used(p)
        BY <3>2 DEF Used
      <4>3. p.slots[j].offset + n \in 0 .. PageSize
        BY <1>1, <1>6, <2>2, <3>1, <3>2, <4>2, PageFacts
      <4> QED BY <3>1, <4>1, <4>3, Zenon DEF Slot
    <3>3. CASE ~ (p.slots[j].size # 0 /\ p.slots[j].offset < o)
      BY <1>5, <2>2, <3>1, <3>3, Zenon
    <3> QED BY <3>2, <3>3, Zenon
  <2> QED BY <2>1, <2>2, Zenon
<1> HIDE DEF n, o, slots, freed
<1>8. slots \in Seq(Slot) /\ Len(slots) = Len(p.slots)
  <2>1. slots \in [1 .. Len(p.slots) -> Slot]
    <3>1. slots = [j \in DOMAIN slots |-> slots[j]]
      BY DEF slots
    <3> QED BY <1>3, <1>7, <3>1, PageFacts
  <2>2. Len(p.slots) \in Nat
    BY PageFacts
  <2>3. slots \in Seq(Slot)
    BY <2>1, <2>2
  <2>4. DOMAIN slots = 1 .. Len(p.slots)
    BY <2>1
  <2> QED BY <2>2, <2>3, <2>4
<1>9. q.data \in [0 .. PageSize - 1 -> Unit]
  <2>1. DOMAIN p.data = 0 .. PageSize - 1
    BY PageFacts
  <2>2. ASSUME NEW k \in 0 .. PageSize - 1
        PROVE  (IF k >= p.free + n /\ k < p.free + n + (o - p.free)
                THEN p.data[k - (p.free + n) + p.free] ELSE p.data[k]) \in Unit
    <3>1. CASE k >= p.free + n /\ k < p.free + n + (o - p.free)
      <4>1. p.free \in Int /\ 0 <= p.free /\ PageSize \in Nat
        BY PageFacts
      <4>2. k - (p.free + n) + p.free \in 0 .. PageSize - 1
        BY <1>1, <3>1, <4>1
      <4> QED BY <3>1, <4>2, PageFacts
    <3>2. CASE ~ (k >= p.free + n /\ k < p.free + n + (o - p.free))
      BY <3>2, PageFacts
    <3> QED BY <3>1, <3>2
  <2> QED BY <1>2, <2>1, <2>2 DEF Moved
<1>10. q \in Page
  BY <1>1, <1>2, <1>8, <1>9, PageFacts DEF Page
<1>11. \A j \in DOMAIN p.slots : j # i => slots[j].size = p.slots[j].size
  BY <1>5, PageFacts, Zenon DEF Slot
<1>12. Used(q) = Used(p) \ {i}
  BY <1>1, <1>2, <1>3, <1>4, <1>11 DEF Used
<1>13. ASSUME NEW j \in Used(p) \ {i}
       PROVE  /\ Start(p, j) < Start(p, i) => Start(q, j) = Start(p, j) + n
              /\ Start(p, j) >= Start(p, i) => Start(q, j) = Start(p, j)
  <2>1. j \in DOMAIN p.slots /\ j # i /\ p.slots[j].size # 0 /\ p.slots[j].offset \in Int
        /\ p.slots[j] \in Slot
    BY PageFacts DEF Used
  <2>2. CASE p.slots[j].offset < o
    <3>1. slots[j] = [p.slots[j] EXCEPT !.offset = @ + n]
      BY <1>5, <2>1, <2>2
    <3>2. slots[j].offset = p.slots[j].offset + n
      BY <2>1, <3>1 DEF Slot
    <3> QED BY <1>1, <1>2, <2>1, <2>2, <3>2 DEF Start, o
  <2>3. CASE ~ (p.slots[j].offset < o)
    <3>1. slots[j] = p.slots[j]
      BY <1>5, <2>1, <2>3, Zenon
    <3> QED BY <1>1, <1>2, <2>1, <2>3, <3>1 DEF Start, o
  <2> QED BY <2>2, <2>3
<1>14. \A j \in Used(p) \ {i} : q.slots[j].size = p.slots[j].size
  BY <1>2, <1>11 DEF Used
<1>15. q.free = p.free + n /\ q.slots = slots /\ q.data = Moved(p.data, p.free + n, p.free, o - p.free)
  BY <1>2
<1> QED BY <1>3, <1>4, <1>8, <1>10, <1>12, <1>13, <1>14, <1>15 DEF n, o, Start

\* ApplyDelete() of a tuple, marked or not, closes the gap it leaves and keeps
\* the layout of the page.
THEOREM ApplyDeleteKeepsLayout ==
  ASSUME NEW p \in Page, LayoutOK(p), NEW i \in Used(p)
  PROVE  ApplyDelete(p, i) \in Page /\ LayoutOK(ApplyDelete(p, i))
<1> DEFINE q == ApplyDelete(p, i)
           n == Abs(p.slots[i].size)
<1>1. /\ q.free = p.free + n
      /\ q \in Page
      /\ Len(q.slots) = Len(p.slots)
      /\ Used(q) = Used(p) \ {i}
      /\ \A j \in Used(p) \ {i} :
           /\ q.slots[j].size = p.slots[j].size
           /\ Start(p, j) < Start(p, i) => Start(q, j) = Start(p, j) + n
           /\ Start(p, j) >= Start(p, i) => Start(q, j) = Start(p, j)
  BY ApplySlots
<1>2. /\ n \in Nat /\ n > 0 /\ Start(p, i) \in Int /\ p.free <= Start(p, i)
      /\ Stop(p, i) = Start(p, i) + n /\ Stop(p, i) <= PageSize
  BY PageFacts, Zenon DEF Used, LayoutOK, Start, Stop
<1>3. ASSUME NEW j \in Used(p) \ {i}
      PROVE  /\ Start(p, j) \in Int /\ Stop(p, j) \in Int
             /\ p.free <= Start(p, j) /\ Start(p, j) < Stop(p, j) /\ Stop(p, j) <= PageSize
             /\ \/ /\ Stop(p, j) <= Start(p, i)
                   /\ Start(q, j) = Start(p, j) + n /\ Stop(q, j) = Stop(p, j) + n
                \/ /\ Start(p, j) >= Stop(p, i)
                   /\ Start(q, j) = Start(p, j) /\ Stop(q, j) = Stop(p, j)
  <2>1. /\ Start(p, j) \in Int /\ Stop(p, j) \in Int
        /\ Stop(p, j) = Start(p, j) + Abs(p.slots[j].size)
        /\ p.free <= Start(p, j) /\ Start(p, j) < Stop(p, j) /\ Stop(p, j) <= PageSize
        /\ \/ Start(p, j) < Start(p, i) /\ Stop(p, j) <= Start(p, i)
           \/ Start(p, j) >= Stop(p, i)
    BY Sides
  <2>2. Stop(q, j) = Start(q, j) + Abs(p.slots[j].size) /\ Abs(p.slots[j].size) \in Nat
    BY <1>1, PageFacts, Zenon DEF Stop, Start, Used
  <2> HIDE DEF q, n
  <2> QED BY <1>1, <1>2, <2>1, <2>2
<1> HIDE DEF q, n
<1>4. FreeSpaceSize(q) >= 0
  <2>1. FreeSpaceSize(p) >= 0
    BY DEF LayoutOK
  <2> QED BY <1>1, <1>2, <2>1, PageFacts DEF FreeSpaceSize, HeaderSize, SlotSize
<1>5. \A j \in Used(q) : q.free <= Start(q, j) /\ Stop(q, j) <= PageSize
  BY <1>1, <1>2, <1>3, PageFacts
<1>6. \A j, k \in Used(q) : j # k =>
        Stop(q, j) <= Start(q, k) \/ Stop(q, k) <= Start(q, j)
  <2>1. \A j, k \in Used(p) : j # k =>
          Stop(p, j) <= Start(p, k) \/ Stop(p, k) <= Start(p, j)
    BY DEF LayoutOK
  <2> QED BY <1>1, <1>2, <1>3, <2>1
<1>7. \A k \in q.free .. PageSize - 1 :
        \E j \in Used(q) : Start(q, j) <= k /\ k < Stop(q, j)
  <2>1. \A k \in p.free .. PageSize - 1 :
          \E j \in Used(p) : Start(p, j) <= k /\ k < Stop(p, j)
    BY DEF LayoutOK
  <2>2. TAKE k \in q.free .. PageSize - 1
  <2>3. CASE k < Stop(p, i)
    <3>1. k - n \in p.free .. PageSize - 1 /\ k - n < Start(p, i)
      BY <1>1, <1>2, <2>3, PageFacts
    <3>2. PICK j \in Used(p) : Start(p, j) <= k - n /\ k - n < Stop(p, j)
      BY <2>1, <3>1
    <3>3. j # i
      BY <1>2, <3>1, <3>2
    <3> QED BY <1>1, <1>2, <1>3, <3>1, <3>2, <3>3
  <2>4. CASE ~ (k < Stop(p, i))
    <3>1. k \in p.free .. PageSize - 1
      BY <1>1, <1>2, PageFacts
    <3>2. PICK j \in Used(p) : Start(p, j) <= k /\ k < Stop(p, j)
      BY <2>1, <3>1
    <3>3. j # i
      BY <2>4, <3>2
    <3> QED BY <1>1, <1>2, <1>3, <2>4, <3>1, <3>2, <3>3
  <2> QED BY <2>3, <2>4
<1>8. LayoutOK(q)
  BY <1>4, <1>5, <1>6, <1>7 DEF LayoutOK
<1> QED BY <1>1, <1>8 DEF q

\* ApplyDelete() removes its tuple and changes no other, marked or not.
THEOREM ApplyDeleteKeepsTuples ==
  ASSUME NEW p \in Page, LayoutOK(p), NEW i \in Used(p)
  PROVE  /\ ~ Visible(ApplyDelete(p, i), i)
         /\ \A j \in Used(p) \ {i} : SameTuple(p, ApplyDelete(p, i), j)
<1> DEFINE q == ApplyDelete(p, i)
           n == Abs(p.slots[i].size)
<1>1. /\ DOMAIN q.slots = DOMAIN p.slots /\ q.slots[i].size = 0
      /\ \A j \in Used(p) \ {i} :
           /\ q.slots[j].size = p.slots[j].size
           /\ Start(p, j) < Start(p, i) => Start(q, j) = Start(p, j) + n
           /\ Start(p, j) >= Start(p, i) => Start(q, j) = Start(p, j)
      /\ q.data = Moved(p.data, p.free + n, p.free, Start(p, i) - p.free)
  BY ApplySlots
<1>2. /\ n \in Nat /\ n > 0 /\ Start(p, i) \in Int /\ p.free <= Start(p, i)
      /\ Stop(p, i) = Start(p, i) + n /\ Stop(p, i) <= PageSize
      /\ DOMAIN p.data = 0 .. PageSize - 1 /\ PageSize \in Nat
      /\ p.free \in Int /\ 0 <= p.free
  BY PageFacts, Zenon DEF Used, LayoutOK, Start, Stop
<1>3. ASSUME NEW j \in Used(p) \ {i} PROVE SameTuple(p, q, j)
  <2>1. /\ Start(p, j) \in Int /\ Stop(p, j) \in Int
        /\ Stop(p, j) = Start(p, j) + Abs(p.slots[j].size)
        /\ p.free <= Start(p, j) /\ Start(p, j) < Stop(p, j) /\ Stop(p, j) <= PageSize
        /\ \/ Start(p, j) < Start(p, i) /\ Stop(p, j) <= Start(p, i)
           \/ Start(p, j) >= Stop(p, i)
    BY Sides
  <2>2. Abs(p.slots[j].size) \in Nat /\ j \in DOMAIN p.slots
    BY PageFacts DEF Used
  <2> HIDE DEF q, n
  <2>3. ASSUME NEW k \in Int, Start(q, j) <= k, k < Start(q, j) + Abs(p.slots[j].size)
        PROVE  q.data[k] = p.data[k - Start(q, j) + Start(p, j)]
    <3>0. \A m \in 0 .. PageSize - 1 :
            q.data[m] = IF m >= p.free + n /\ m < p.free + n + (Start(p, i) - p.free)
                        THEN p.data[m - (p.free + n) + p.free] ELSE p.data[m]
      BY <1>1, <1>2 DEF Moved
    <3>1. CASE Start(p, j) < Start(p, i) /\ Stop(p, j) <= Start(p, i)
      <4>1. Start(q, j) = Start(p, j) + n
        BY <1>1, <3>1
      <4>2. k >= Start(p, j) + n /\ k < Stop(p, j) + n
        BY <1>2, <2>1, <2>2, <2>3, <4>1
      <4>3. k >= p.free + n /\ k < Start(p, i) + n
        BY <1>2, <2>1, <3>1, <4>2
      <4>4. k \in 0 .. PageSize - 1 /\ k < p.free + n + (Start(p, i) - p.free)
        BY <1>2, <4>3
      <4>5. k - (p.free + n) + p.free = k - Start(q, j) + Start(p, j)
        BY <1>2, <2>1, <4>1
      <4>6. q.data[k] = p.data[k - (p.free + n) + p.free]
        BY <3>0, <4>3, <4>4
      <4> QED BY <4>5, <4>6, Zenon
    <3>2. CASE Start(p, j) >= Stop(p, i)
      <4>1. Start(q, j) = Start(p, j)
        BY <1>1, <1>2, <2>1, <3>2
      <4>2. k >= Start(p, j) /\ k < Stop(p, j)
        BY <2>1, <2>2, <2>3, <4>1
      <4>3. k \in 0 .. PageSize - 1 /\ ~ (k < p.free + n + (Start(p, i) - p.free))
        BY <1>2, <2>1, <3>2, <4>2
      <4>4. k = k - Start(q, j) + Start(p, j)
        BY <2>1, <4>1
      <4>5. q.data[k] = p.data[k]
        BY <3>0, <4>3
      <4> QED BY <4>4, <4>5, Zenon
    <3> QED BY <2>1, <3>1, <3>2
  <2>4. Start(q, j) \in Int
    BY <1>1, <1>2, <2>1
  <2>5. Loaded(q.data, Start(q, j), Abs(p.slots[j].size))
          = Loaded(p.data, Start(p, j), Abs(p.slots[j].size))
    BY <2>1, <2>2, <2>3, <2>4, SameUnits
  <2> QED BY <1>1, <2>2, <2>5 DEF SameTuple, Content
<1>4. ~ Visible(q, i)
  BY <1>1 DEF Visible
<1> QED BY <1>3, <1>4

\* Pages with the same free space pointer, data, and slots up to the sign of
\* their sizes are laid out alike.
LEMMA SameLayout ==
  ASSUME NEW p \in Page, LayoutOK(p), NEW q, q.free = p.free, Len(q.slots) = Len(p.slots),
         DOMAIN q.slots = DOMAIN p.slots,
         \A j \in DOMAIN p.slots : /\ q.slots[j].offset = p.slots[j].offset
                                   /\ q.slots[j].size = 0 <=> p.slots[j].size = 0
                                   /\ Abs(q.slots[j].size) = Abs(p.slots[j].size)
  PROVE  LayoutOK(q)
<1>1. Used(q) = Used(p)
  BY DEF Used
<1>2. \A j \in Used(p) : Start(q, j) = Start(p, j) /\ Stop(q, j) = Stop(p, j)
  BY DEF Used, Start, Stop
<1>3. FreeSpaceSize(q) = FreeSpaceSize(p)
  BY DEF FreeSpaceSize
<1> QED BY <1>1, <1>2, <1>3 DEF LayoutOK

\* Marking a tuple and rolling that back keep the layout and all data, so that
\* after any of them a tuple that was marked can be brought back.
THEOREM MarksKeepLayout ==
  ASSUME NEW p \in Page, LayoutOK(p), NEW i \in DOMAIN p.slots,
         NEW q \in {MarkDelete(p, i), RollbackDelete(p, i)}
  PROVE  /\ q \in Page /\ LayoutOK(q)
         /\ \A j \in Used(p) : Content(q, j) = Content(p, j)
         /\ q = MarkDelete(p, i) => ~ Visible(q, i)
         /\ q = RollbackDelete(p, i) /\ i \in Used(p) => Visible(q, i)
<1> DEFINE flipped == Flipped(p, i)
           slot == [offset |-> p.slots[i].offset, size |-> -p.slots[i].size]
<1>1. p.slots[i] \in Slot /\ p.slots[i].size \in -PageSize .. PageSize /\ PageSize \in Nat
      /\ p.slots \in Seq(Slot) /\ p.slots[i].offset \in 0 .. PageSize
  BY PageFacts, Zenon DEF Slot
<1>2. flipped = [free |-> p.free, slots |-> [p.slots EXCEPT ![i] = slot], data |-> p.data]
  <2> DEFINE slots == [p.slots EXCEPT ![i] = slot]
  <2>1. flipped = [p EXCEPT !.slots = slots]
    BY DEF Flipped
  <2> HIDE DEF slots
  <2>2. [p EXCEPT !.slots = slots] = [free |-> p.free, slots |-> slots, data |-> p.data]
    BY DEF Page
  <2> QED BY <2>1, <2>2 DEF slots
<1>3. slot \in Slot
  BY <1>1 DEF Slot
<1>4. flipped.slots \in Seq(Slot) /\ Len(flipped.slots) = Len(p.slots)
      /\ DOMAIN flipped.slots = DOMAIN p.slots
      /\ flipped.slots[i] = slot
      /\ \A j \in DOMAIN p.slots : j # i => flipped.slots[j] = p.slots[j]
  BY <1>1, <1>2, <1>3
<1>5. p.slots[i].size \in Int
  BY <1>1
<1>6. Abs(-p.slots[i].size) = Abs(p.slots[i].size) /\ (-p.slots[i].size = 0 <=> p.slots[i].size = 0)
  BY <1>5 DEF Abs
<1> HIDE DEF flipped
<1>7. flipped \in Page
  BY <1>2, <1>4, PageFacts DEF Page
<1>8. \A j \in DOMAIN p.slots : /\ flipped.slots[j].offset = p.slots[j].offset
                                /\ flipped.slots[j].size = 0 <=> p.slots[j].size = 0
                                /\ Abs(flipped.slots[j].size) = Abs(p.slots[j].size)
  BY <1>3, <1>4, <1>6
<1>9. LayoutOK(flipped)
  BY <1>2, <1>4, <1>8, SameLayout, Zenon
<1>10. \A j \in Used(p) : Content(flipped, j) = Content(p, j)
  BY <1>2, <1>8 DEF Content, Start, Used
<1>11. flipped.slots[i].size = -p.slots[i].size /\ DOMAIN flipped.slots = DOMAIN p.slots
  BY <1>3, <1>4
<1>12. q = p \/ q = flipped
  BY DEF MarkDelete, RollbackDelete, flipped
<1>13. q = MarkDelete(p, i) => ~ Visible(q, i)
  BY <1>5, <1>11 DEF MarkDelete, Visible, flipped
<1>14. q = RollbackDelete(p, i) /\ i \in Used(p) => Visible(q, i)
  BY <1>5, <1>11 DEF RollbackDelete, Visible, flipped, Used
<1> QED BY <1>7, <1>9, <1>10, <1>12, <1>13, <1>14

------------------------------------------------------------------------------
\* How far UpdateTuple() moves the tuples in front of tuple i.
Shift(p, i, t) == p.slots[i].size - Len(t)

\* q is page p after tuple i got the contents t: the tuples in front of it have moved
\* by d, those behind it are where they were.
IsUpdated(q, p, i, t, d) ==
  /\ d \in Int /\ i \in Used(p)
  /\ q.free = p.free + d /\ HeaderSize + Len(p.slots) <= q.free
  /\ q \in Page
  /\ DOMAIN q.slots = DOMAIN p.slots /\ Len(q.slots) = Len(p.slots)
  /\ Used(q) = Used(p)
  /\ q.slots[i].size = Len(t) /\ Start(q, i) = Start(p, i) + d
  /\ \A j \in Used(p) \ {i} :
       /\ q.slots[j].size = p.slots[j].size
       /\ Start(p, j) < Stop(p, i) => Start(q, j) = Start(p, j) + d
       /\ Start(p, j) >= Stop(p, i) => Start(q, j) = Start(p, j)
  /\ q.data = Stored(Moved(p.data, p.free + d, p.free, Start(p, i) - p.free),
                     Start(p, i) + d, t)

\* What UpdateTuple() does to a page without marked tuples.
LEMMA UpdateSlots ==
  ASSUME NEW p \in Page, LayoutOK(p), NEW i \in DOMAIN p.slots,
         NEW t \in Seq(Unit), Len(t) > 0, CanUpdate(p, i, t),
         \A j \in DOMAIN p.slots : p.slots[j].size >= 0,
         NEW q, q = UpdateTuple(p, i, t), NEW d, d = Shift(p, i, t)
  PROVE  IsUpdated(q, p, i, t, d)
<1> DEFINE o == p.slots[i].offset
           front == o + p.slots[i].size
           sized == [p.slots EXCEPT ![i].size = Len(t)]
           slots == [j \in DOMAIN sized |->
                       IF sized[j].size > 0 /\ sized[j].offset < front
                       THEN [sized[j] EXCEPT !.offset = @ + d] ELSE sized[j]]
           data == Stored(Moved(p.data, p.free + d, p.free, o - p.free), o + d, t)
<1>1. /\ p.slots[i].size \in Int /\ p.slots[i].size > 0 /\ Len(t) \in Nat /\ d \in Int
      /\ o \in Int /\ i \in Used(p) /\ Abs(p.slots[i].size) = p.slots[i].size
  BY PageFacts DEF CanUpdate, Visible, Used, Abs, Shift
<1>2. /\ p.free <= o /\ front <= PageSize /\ Stop(p, i) = front /\ Start(p, i) = o
      /\ front \in Int /\ PageSize \in Nat /\ p.free \in Int
  BY <1>1, PageFacts DEF LayoutOK, Start, Stop
<1>3. HeaderSize + Len(p.slots) <= p.free + d
  BY <1>1, PageFacts DEF CanUpdate, FreeSpaceSize, HeaderSize, SlotSize, Shift
<1>4. q = [free |-> p.free + d, slots |-> slots, data |-> data]
  BY DEF UpdateTuple, Shift
<1>5. p.slots[i] \in Slot
  BY PageFacts
<1>6. /\ DOMAIN slots = DOMAIN p.slots
      /\ sized[i] = [offset |-> o, size |-> Len(t)]
      /\ \A j \in DOMAIN p.slots : j # i => sized[j] = p.slots[j]
  BY <1>5 DEF Slot
<1>7. slots[i] = [offset |-> o + d, size |-> Len(t)]
  BY <1>1, <1>2, <1>6
<1>8. ASSUME NEW j \in DOMAIN p.slots, j # i
      PROVE  slots[j] = IF p.slots[j].size > 0 /\ p.slots[j].offset < front
                        THEN [offset |-> p.slots[j].offset + d, size |-> p.slots[j].size]
                        ELSE p.slots[j]
  <2>1. p.slots[j] \in Slot
    BY PageFacts
  <2> QED BY <1>6, <1>8, <2>1 DEF Slot
<1> HIDE DEF slots, sized, data, o, front
<1>0. /\ o \in Int /\ d \in Int /\ front \in Int /\ p.free \in Int /\ PageSize \in Nat
      /\ Len(t) \in Nat /\ 0 <= p.free /\ 0 <= p.free + d /\ p.free <= o
      /\ o + d + Len(t) = front /\ front <= PageSize /\ o <= front
  <2>1. 0 <= p.free + d
    BY <1>1, <1>2, <1>3, PageFacts DEF HeaderSize
  <2>2. o + d + Len(t) = front /\ o <= front
    BY <1>1, <1>2 DEF front, Shift
  <2> QED BY <1>1, <1>2, <2>1, <2>2, PageFacts, Zenon
<1>9. ASSUME NEW j \in Used(p), j # i, p.slots[j].offset < front
      PROVE  p.slots[j].offset + d \in 0 .. PageSize
  <2>1. Start(p, j) < Start(p, i) /\ p.free <= Start(p, j) /\ Start(p, j) \in Int
    <3>1. Start(p, j) < Stop(p, i)
      BY <1>2, <1>9 DEF Start
    <3> QED BY <1>1, <1>2, <1>9, <3>1, Sides
  <2>2. 0 <= Start(p, j) + d
    BY <1>0, <2>1
  <2>3. Start(p, j) + d <= PageSize
    BY <1>0, <1>2, <2>1
  <2> QED BY <1>0, <2>1, <2>2, <2>3 DEF Start
<1>10. o + d \in 0 .. PageSize /\ p.free + d \in 0 .. PageSize /\ Len(t) \in -PageSize .. PageSize
  BY <1>0
<1>11. \A j \in DOMAIN p.slots : slots[j] \in Slot
  <2>1. slots[i] \in Slot
    BY <1>7, <1>10 DEF Slot
  <2>2. ASSUME NEW j \in DOMAIN p.slots, j # i PROVE slots[j] \in Slot
    <3>1. p.slots[j] \in Slot
      BY PageFacts
    <3>2. CASE p.slots[j].size > 0 /\ p.slots[j].offset < front
      <4>1. j \in Used(p)
        BY <3>2 DEF Used
      <4>2. p.slots[j].offset + d \in 0 .. PageSize
        BY <1>9, <2>2, <3>2, <4>1
      <4>3. slots[j] = [offset |-> p.slots[j].offset + d, size |-> p.slots[j].size]
        BY <1>8, <2>2, <3>2, Zenon
      <4> QED BY <3>1, <4>2, <4>3 DEF Slot
    <3>3. CASE ~ (p.slots[j].size > 0 /\ p.slots[j].offset < front)
      BY <1>8, <2>2, <3>1, <3>3, Zenon
    <3> QED BY <3>2, <3>3
  <2> QED BY <2>1, <2>2
<1>12. slots \in Seq(Slot) /\ Len(slots) = Len(p.slots)
  <2>1. slots \in [1 .. Len(p.slots) -> Slot]
    <3>1. slots = [j \in DOMAIN slots |-> slots[j]]
      BY DEF slots
    <3> QED BY <1>6, <1>11, <3>1, PageFacts
  <2>2. Len(p.slots) \in Nat
    BY PageFacts
  <2>3. slots \in Seq(Slot)
    BY <2>1, <2>2
  <2>4. DOMAIN slots = 1 .. Len(p.slots)
    BY <2>1
  <2> QED BY <2>2, <2>3, <2>4
<1>13. data \in [0 .. PageSize - 1 -> Unit]
  <2> DEFINE moved == Moved(p.data, p.free + d, p.free, o - p.free)
  <2>1. moved \in [0 .. PageSize - 1 -> Unit]
    <3>1. DOMAIN p.data = 0 .. PageSize - 1
      BY PageFacts
    <3>2. ASSUME NEW k \in 0 .. PageSize - 1
          PROVE  (IF k >= p.free + d /\ k < p.free + d + (o - p.free)
                  THEN p.data[k - (p.free + d) + p.free] ELSE p.data[k]) \in Unit
      <4>1. CASE k >= p.free + d /\ k < p.free + d + (o - p.free)
        <5>1. p.free <= k - d /\ k - d < o
          BY <1>0, <4>1
        <5>2. k - (p.free + d) + p.free = k - d
          BY <1>0
        <5>3. k - d \in 0 .. PageSize - 1
          BY <1>0, <5>1
        <5>4. k - (p.free + d) + p.free \in 0 .. PageSize - 1
          BY <5>2, <5>3, Zenon
        <5> QED BY <4>1, <5>4, PageFacts, Zenon
      <4>2. CASE ~ (k >= p.free + d /\ k < p.free + d + (o - p.free))
        BY <4>2, PageFacts, Zenon
      <4> QED BY <4>1, <4>2, Zenon
    <3> QED BY <3>1, <3>2 DEF Moved
  <2> HIDE DEF moved
  <2>2. ASSUME NEW k \in 0 .. PageSize - 1
        PROVE  (IF k >= o + d /\ k < o + d + Len(t) THEN t[k - (o + d) + 1] ELSE moved[k]) \in Unit
    <3>1. CASE k >= o + d /\ k < o + d + Len(t)
      <4>1. 1 <= k - (o + d) + 1 /\ k - (o + d) + 1 <= Len(t)
        BY <1>0, <3>1
      <4>2. k - (o + d) + 1 \in 1 .. Len(t)
        BY <1>0, <4>1
      <4> QED BY <3>1, <4>2
    <3>2. CASE ~ (k >= o + d /\ k < o + d + Len(t))
      BY <2>1, <3>2
    <3> QED BY <3>1, <3>2
  <2>3. DOMAIN moved = 0 .. PageSize - 1
    BY <2>1
  <2> QED BY <2>2, <2>3 DEF Stored, moved, data
<1>14. q \in Page
  BY <1>4, <1>10, <1>12, <1>13 DEF Page
<1>15. ASSUME NEW j \in DOMAIN p.slots, j # i
       PROVE  /\ slots[j].size = p.slots[j].size
              /\ p.slots[j].size > 0 /\ p.slots[j].offset < front
                 => slots[j].offset = p.slots[j].offset + d
              /\ ~ (p.slots[j].offset < front) => slots[j].offset = p.slots[j].offset
  <2>1. CASE p.slots[j].size > 0 /\ p.slots[j].offset < front
    <3>1. slots[j] = [offset |-> p.slots[j].offset + d, size |-> p.slots[j].size]
      BY <1>8, <1>15, <2>1, Zenon
    <3> QED BY <2>1, <3>1
  <2>2. CASE ~ (p.slots[j].size > 0 /\ p.slots[j].offset < front)
    <3>1. slots[j] = p.slots[j]
      BY <1>8, <1>15, <2>2, Zenon
    <3> QED BY <2>2, <3>1
  <2> QED BY <2>1, <2>2, Zenon
<1>16. Used(q) = Used(p)
  BY <1>1, <1>4, <1>6, <1>7, <1>15 DEF Used
<1>17. ASSUME NEW j \in Used(p) \ {i}
       PROVE  /\ q.slots[j].size = p.slots[j].size
              /\ Start(p, j) < Stop(p, i) => Start(q, j) = Start(p, j) + d
              /\ Start(p, j) >= Stop(p, i) => Start(q, j) = Start(p, j)
  <2>1. j \in DOMAIN p.slots /\ j # i /\ p.slots[j].size > 0 /\ p.slots[j].offset \in Int
    BY PageFacts DEF Used
  <2>2. q.slots = slots
    BY <1>4
  <2> QED BY <1>2, <1>15, <1>0, <2>1, <2>2 DEF Start
<1>18. q.free = p.free + d /\ q.slots = slots /\ q.data = data
  BY <1>4
<1>19. Start(q, i) = Start(p, i) + d /\ q.slots[i].size = Len(t)
  BY <1>2, <1>7, <1>18 DEF Start
<1>20. q.data = Stored(Moved(p.data, p.free + d, p.free, Start(p, i) - p.free), Start(p, i) + d, t)
  BY <1>2, <1>18, Zenon DEF data
<1> QED BY <1>1, <1>3, <1>6, <1>12, <1>14, <1>16, <1>17, <1>18, <1>19, <1>20, Zenon DEF IsUpdated

\* UpdateTuple() keeps the layout of a page that has no marked tuples.  With a
\* marked tuple in front of the updated one it does not: see CommitKeepsRows.
THEOREM UpdateKeepsLayout ==
  ASSUME NEW p \in Page, LayoutOK(p), NEW i \in DOMAIN p.slots,
         NEW t \in Seq(Unit), Len(t) > 0, CanUpdate(p, i, t),
         \A j \in DOMAIN p.slots : p.slots[j].size >= 0
  PROVE  UpdateTuple(p, i, t) \in Page /\ LayoutOK(UpdateTuple(p, i, t))
<1> DEFINE q == UpdateTuple(p, i, t)
           d == Shift(p, i, t)
<1>updated. IsUpdated(q, p, i, t, d)
  BY UpdateSlots
<1>1. /\ d \in Int /\ i \in Used(p)
      /\ q.free = p.free + d /\ HeaderSize + Len(p.slots) <= q.free
      /\ q \in Page
      /\ Len(q.slots) = Len(p.slots)
      /\ Used(q) = Used(p)
      /\ q.slots[i].size = Len(t) /\ Start(q, i) = Start(p, i) + d
      /\ \A j \in Used(p) \ {i} :
           /\ q.slots[j].size = p.slots[j].size
           /\ Start(p, j) < Stop(p, i) => Start(q, j) = Start(p, j) + d
           /\ Start(p, j) >= Stop(p, i) => Start(q, j) = Start(p, j)
  BY <1>updated DEF IsUpdated
<1>2. /\ Start(p, i) \in Int /\ Stop(p, i) \in Int /\ Len(t) \in Nat /\ PageSize \in Nat
      /\ p.free \in Int /\ p.free <= Start(p, i) /\ Stop(p, i) <= PageSize
      /\ Start(p, i) + d + Len(t) = Stop(p, i) /\ Start(p, i) < Stop(p, i)
  <2>1. p.slots[i].size \in Int /\ p.slots[i].size > 0 /\ p.slots[i].offset \in Int
        /\ Len(t) \in Nat /\ PageSize \in Nat /\ p.free \in Int
    BY PageFacts DEF CanUpdate, Visible
  <2>2. p.free <= Start(p, i) /\ Stop(p, i) <= PageSize
    BY <1>1, Zenon DEF LayoutOK
  <2>3. Start(p, i) = p.slots[i].offset /\ Stop(p, i) = p.slots[i].offset + p.slots[i].size
    BY <2>1 DEF Start, Stop, Abs
  <2>4. d = p.slots[i].size - Len(t)
    BY DEF Shift
  <2> HIDE DEF d, q
  <2> QED BY <2>1, <2>2, <2>3, <2>4
<1>3. Stop(q, i) = Stop(p, i)
  <2>1. Stop(q, i) = Start(q, i) + Abs(q.slots[i].size)
    BY DEF Stop, Start
  <2>2. q.slots[i].size = Len(t) /\ Start(q, i) = Start(p, i) + d
    BY <1>1
  <2>3. Abs(Len(t)) = Len(t)
    BY <1>2 DEF Abs
  <2> HIDE DEF q, d
  <2> QED BY <1>2, <2>1, <2>2, <2>3
<1>4. ASSUME NEW j \in Used(p) \ {i}
      PROVE  /\ Start(p, j) \in Int /\ Stop(p, j) \in Int
             /\ p.free <= Start(p, j) /\ Start(p, j) < Stop(p, j) /\ Stop(p, j) <= PageSize
             /\ \/ /\ Stop(p, j) <= Start(p, i)
                   /\ Start(q, j) = Start(p, j) + d /\ Stop(q, j) = Stop(p, j) + d
                \/ /\ Start(p, j) >= Stop(p, i)
                   /\ Start(q, j) = Start(p, j) /\ Stop(q, j) = Stop(p, j)
  <2>1. /\ Start(p, j) \in Int /\ Stop(p, j) \in Int
        /\ Stop(p, j) = Start(p, j) + Abs(p.slots[j].size)
        /\ p.free <= Start(p, j) /\ Start(p, j) < Stop(p, j) /\ Stop(p, j) <= PageSize
        /\ \/ Start(p, j) < Start(p, i) /\ Stop(p, j) <= Start(p, i)
           \/ Start(p, j) >= Stop(p, i)
    BY <1>1, Sides, Zenon
  <2>2. Stop(q, j) = Start(q, j) + Abs(p.slots[j].size) /\ Abs(p.slots[j].size) \in Nat
    BY <1>1, PageFacts, Zenon DEF Stop, Start, Used
  <2> HIDE DEF q, d
  <2>3. CASE Start(p, j) < Start(p, i) /\ Stop(p, j) <= Start(p, i)
    <3>1. Start(q, j) = Start(p, j) + d
      BY <1>1, <1>2, <2>1, <2>3
    <3>2. Stop(q, j) = Stop(p, j) + d
      BY <1>1, <2>1, <2>2, <3>1
    <3> QED BY <2>1, <2>3, <3>1, <3>2, Zenon
  <2>4. CASE Start(p, j) >= Stop(p, i)
    <3>1. Start(q, j) = Start(p, j)
      BY <1>1, <2>4
    <3> QED BY <2>1, <2>2, <2>4, <3>1, Zenon
  <2> QED BY <2>1, <2>3, <2>4, Zenon
<1> HIDE DEF q, d
<1>0. d \in Int /\ q.free = p.free + d /\ Start(q, i) = Start(p, i) + d
  BY <1>1
<1>5. FreeSpaceSize(q) >= 0
  <2>1. Len(q.slots) = Len(p.slots) /\ 3 + Len(p.slots) <= q.free
    BY <1>1, Zenon DEF HeaderSize
  <2>2. Len(p.slots) \in Nat /\ q.free \in Int
    BY <1>0, <1>2, PageFacts
  <2> QED BY <2>1, <2>2 DEF FreeSpaceSize, HeaderSize, SlotSize
<1>6. \A j \in Used(q) : q.free <= Start(q, j) /\ Stop(q, j) <= PageSize
  <2>1. ASSUME NEW j \in Used(p) \ {i} PROVE q.free <= Start(q, j) /\ Stop(q, j) <= PageSize
    <3>1. p.free + d <= Start(p, i) + d /\ Start(p, i) + d <= Stop(p, i)
          /\ q.free = p.free + d
      BY <1>0, <1>2
    <3>2. CASE /\ Stop(p, j) <= Start(p, i)
               /\ Start(q, j) = Start(p, j) + d /\ Stop(q, j) = Stop(p, j) + d
      BY <1>0, <1>2, <1>4, <3>1, <3>2
    <3>3. CASE /\ Start(p, j) >= Stop(p, i)
               /\ Start(q, j) = Start(p, j) /\ Stop(q, j) = Stop(p, j)
      BY <1>0, <1>2, <1>4, <3>1, <3>3
    <3> QED BY <1>4, <3>2, <3>3
  <2>2. q.free <= Start(q, i) /\ Stop(q, i) <= PageSize
    BY <1>0, <1>2, <1>3
  <2> QED BY <1>1, <2>1, <2>2
<1>7. \A j, k \in Used(q) : j # k =>
        Stop(q, j) <= Start(q, k) \/ Stop(q, k) <= Start(q, j)
  <2>1. \A j, k \in Used(p) : j # k =>
          Stop(p, j) <= Start(p, k) \/ Stop(p, k) <= Start(p, j)
    BY DEF LayoutOK
  <2>2. \A j \in Used(p) \ {i} : Stop(q, j) <= Start(q, i) \/ Stop(q, i) <= Start(q, j)
    BY <1>0, <1>2, <1>3, <1>4
  <2>3. ASSUME NEW j \in Used(p) \ {i}, NEW k \in Used(p) \ {i}, j # k
        PROVE  Stop(q, j) <= Start(q, k) \/ Stop(q, k) <= Start(q, j)
    <3>1. Stop(p, j) <= Start(p, k) \/ Stop(p, k) <= Start(p, j)
      BY <2>1, <2>3
    <3>2. Start(p, i) + d <= Stop(p, i) /\ d \in Int
      BY <1>0, <1>2
    <3>3. /\ Start(p, j) \in Int /\ Stop(p, j) \in Int /\ Start(p, j) < Stop(p, j)
          /\ \/ /\ Stop(p, j) <= Start(p, i)
                /\ Start(q, j) = Start(p, j) + d /\ Stop(q, j) = Stop(p, j) + d
             \/ /\ Start(p, j) >= Stop(p, i)
                /\ Start(q, j) = Start(p, j) /\ Stop(q, j) = Stop(p, j)
      BY <1>4, Zenon
    <3>4. /\ Start(p, k) \in Int /\ Stop(p, k) \in Int /\ Start(p, k) < Stop(p, k)
          /\ \/ /\ Stop(p, k) <= Start(p, i)
                /\ Start(q, k) = Start(p, k) + d /\ Stop(q, k) = Stop(p, k) + d
             \/ /\ Start(p, k) >= Stop(p, i)
                /\ Start(q, k) = Start(p, k) /\ Stop(q, k) = Stop(p, k)
      BY <1>4, Zenon
    <3>5. Start(p, i) \in Int /\ Stop(p, i) \in Int
      BY <1>2
    <3> QED BY <3>1, <3>2, <3>3, <3>4, <3>5
  <2> QED BY <1>1, <2>2, <2>3, Zenon
<1>8. \A k \in q.free .. PageSize - 1 :
        \E j \in Used(q) : Start(q, j) <= k /\ k < Stop(q, j)
  <2>1. \A k \in p.free .. PageSize - 1 :
          \E j \in Used(p) : Start(p, j) <= k /\ k < Stop(p, j)
    BY DEF LayoutOK
  <2>2. TAKE k \in q.free .. PageSize - 1
  <2>0. k \in Int /\ q.free <= k /\ k <= PageSize - 1
    BY <1>0, <1>2
  <2>3. CASE k < Start(p, i) + d
    <3>1. k - d \in p.free .. PageSize - 1 /\ k - d < Start(p, i)
      BY <1>0, <1>2, <2>0, <2>3
    <3>2. PICK j \in Used(p) : Start(p, j) <= k - d /\ k - d < Stop(p, j)
      BY <2>1, <3>1
    <3>3. j # i
      BY <1>2, <3>1, <3>2
    <3>4. Start(q, j) = Start(p, j) + d /\ Stop(q, j) = Stop(p, j) + d
      BY <1>0, <1>2, <1>4, <2>0, <3>1, <3>2, <3>3
    <3>5. Start(q, j) <= k /\ k < Stop(q, j)
      BY <1>0, <1>2, <1>4, <2>0, <3>2, <3>3, <3>4
    <3> QED BY <1>1, <3>5, Zenon
  <2>4. CASE Start(p, i) + d <= k /\ k < Stop(p, i)
    BY <1>1, <1>0, <1>3, <2>4, Zenon
  <2>5. CASE Stop(p, i) <= k
    <3>1. k \in p.free .. PageSize - 1
      BY <1>0, <1>2, <2>0, <2>5
    <3>2. PICK j \in Used(p) : Start(p, j) <= k /\ k < Stop(p, j)
      BY <2>1, <3>1
    <3>3. j # i
      BY <1>2, <2>0, <2>5, <3>2
    <3>4. Start(q, j) = Start(p, j) /\ Stop(q, j) = Stop(p, j)
      BY <1>0, <1>2, <1>4, <2>0, <2>5, <3>2, <3>3
    <3> QED BY <1>1, <3>2, <3>4, Zenon
  <2> QED BY <1>0, <1>2, <2>0, <2>3, <2>4, <2>5
<1>9. LayoutOK(q)
  BY <1>5, <1>6, <1>7, <1>8, Zenon DEF LayoutOK
<1> QED BY <1>1, <1>9, Zenon DEF q

\* On such a page GetTuple() gives the updated tuple its new contents and every
\* other tuple its old ones.
THEOREM UpdateKeepsTuples ==
  ASSUME NEW p \in Page, LayoutOK(p), NEW i \in DOMAIN p.slots,
         NEW t \in Seq(Unit), Len(t) > 0, CanUpdate(p, i, t),
         \A j \in DOMAIN p.slots : p.slots[j].size >= 0
  PROVE  /\ GetTuple(UpdateTuple(p, i, t), i) = t
         /\ \A j \in Used(p) \ {i} : SameTuple(p, UpdateTuple(p, i, t), j)
<1> DEFINE q == UpdateTuple(p, i, t)
           d == Shift(p, i, t)
           o == Start(p, i)
<1>0. IsUpdated(q, p, i, t, d)
  BY UpdateSlots
<1>1. /\ d \in Int /\ i \in Used(p)
      /\ q.free = p.free + d /\ HeaderSize + Len(p.slots) <= q.free
      /\ DOMAIN q.slots = DOMAIN p.slots
      /\ q.slots[i].size = Len(t) /\ Start(q, i) = o + d
      /\ \A j \in Used(p) \ {i} :
           /\ q.slots[j].size = p.slots[j].size
           /\ Start(p, j) < Stop(p, i) => Start(q, j) = Start(p, j) + d
           /\ Start(p, j) >= Stop(p, i) => Start(q, j) = Start(p, j)
      /\ q.data = Stored(Moved(p.data, p.free + d, p.free, o - p.free), o + d, t)
  BY <1>0, Zenon DEF IsUpdated
<1>2. /\ o \in Int /\ Stop(p, i) \in Int /\ Len(t) \in Nat /\ PageSize \in Nat
      /\ p.free \in Int /\ p.free <= o /\ Stop(p, i) <= PageSize
      /\ o + d + Len(t) = Stop(p, i) /\ o < Stop(p, i)
  <2>1. p.slots[i].size \in Int /\ p.slots[i].size > 0 /\ p.slots[i].offset \in Int
        /\ Len(t) \in Nat /\ PageSize \in Nat /\ p.free \in Int
    BY PageFacts DEF CanUpdate, Visible
  <2>2. p.free <= o /\ Stop(p, i) <= PageSize
    BY <1>1 DEF LayoutOK
  <2>3. o = p.slots[i].offset /\ Stop(p, i) = p.slots[i].offset + p.slots[i].size
    BY <2>1 DEF Start, Stop, Abs
  <2>4. d = p.slots[i].size - Len(t)
    BY DEF Shift
  <2> HIDE DEF d, q, o
  <2> QED BY <2>1, <2>2, <2>3, <2>4
<1>3. DOMAIN p.data = 0 .. PageSize - 1 /\ 0 <= p.free + d /\ d \in Int
  <2>1. DOMAIN p.data = 0 .. PageSize - 1 /\ Len(p.slots) \in Nat
    BY PageFacts
  <2>2. d \in Int /\ q.free = p.free + d /\ 3 + Len(p.slots) <= q.free
    BY <1>1, Zenon DEF HeaderSize
  <2> HIDE DEF d, q, o
  <2> QED BY <1>2, <2>1, <2>2
<1> HIDE DEF q, d, o
\* The new data, unit by unit: the tuple, what was in front of it, and the rest.
<1>4. \A m \in 0 .. PageSize - 1 :
        q.data[m] = IF m >= o + d /\ m < o + d + Len(t) THEN t[m - (o + d) + 1]
                    ELSE IF m >= p.free + d /\ m < p.free + d + (o - p.free)
                         THEN p.data[m - (p.free + d) + p.free] ELSE p.data[m]
  <2> DEFINE moved == Moved(p.data, p.free + d, p.free, o - p.free)
  <2>1. DOMAIN moved = 0 .. PageSize - 1
        /\ \A m \in 0 .. PageSize - 1 :
             moved[m] = IF m >= p.free + d /\ m < p.free + d + (o - p.free)
                        THEN p.data[m - (p.free + d) + p.free] ELSE p.data[m]
    BY <1>3 DEF Moved
  <2>2. q.data = Stored(moved, o + d, t)
    BY <1>1
  <2> HIDE DEF moved
  <2>3. \A m \in 0 .. PageSize - 1 :
          q.data[m] = IF m >= o + d /\ m < o + d + Len(t) THEN t[m - (o + d) + 1] ELSE moved[m]
    BY <2>1, <2>2 DEF Stored
  <2> QED BY <2>1, <2>3
<1>5. GetTuple(q, i) = t
  <2>1. GetTuple(q, i) = [k \in 1 .. Len(t) |-> q.data[o + d + k - 1]]
    BY <1>1 DEF GetTuple, Loaded, Start
  <2>2. ASSUME NEW k \in 1 .. Len(t) PROVE q.data[o + d + k - 1] = t[k]
    <3>1. /\ o + d + k - 1 \in 0 .. PageSize - 1
          /\ o + d + k - 1 >= o + d /\ o + d + k - 1 < o + d + Len(t)
      <4>1. k \in Int /\ 1 <= k /\ k <= Len(t)
        BY <1>2
      <4>2. o + d + k - 1 >= o + d /\ o + d + k - 1 < o + d + Len(t)
        BY <1>2, <1>3, <4>1
      <4>3. 0 <= o + d /\ o + d + Len(t) <= PageSize
        BY <1>2, <1>3
      <4>4. o + d + k - 1 \in 0 .. PageSize - 1
        BY <1>2, <1>3, <4>1, <4>2, <4>3
      <4> QED BY <4>2, <4>4
    <3>2. (o + d + k - 1) - (o + d) + 1 = k
      BY <1>2, <1>3
    <3>3. q.data[o + d + k - 1] = t[(o + d + k - 1) - (o + d) + 1]
      BY <1>4, <3>1
    <3> QED BY <3>2, <3>3, Zenon
  <2>3. t = [k \in 1 .. Len(t) |-> t[k]]
    OBVIOUS
  <2> QED BY <2>1, <2>2, <2>3
<1>6. ASSUME NEW j \in Used(p) \ {i} PROVE SameTuple(p, q, j)
  <2>1. /\ Start(p, j) \in Int /\ Stop(p, j) \in Int
        /\ Stop(p, j) = Start(p, j) + Abs(p.slots[j].size)
        /\ p.free <= Start(p, j) /\ Start(p, j) < Stop(p, j) /\ Stop(p, j) <= PageSize
        /\ \/ Start(p, j) < o /\ Stop(p, j) <= o
           \/ Start(p, j) >= Stop(p, i)
    BY <1>1, Sides, Zenon DEF o
  <2>2. Abs(p.slots[j].size) \in Nat /\ j \in DOMAIN p.slots
    BY PageFacts, Zenon DEF Used
  <2>3. ASSUME NEW k \in Int, Start(q, j) <= k, k < Start(q, j) + Abs(p.slots[j].size)
        PROVE  q.data[k] = p.data[k - Start(q, j) + Start(p, j)]
    <3>1. CASE Start(p, j) < o /\ Stop(p, j) <= o
      <4>1. Start(q, j) = Start(p, j) + d
        BY <1>1, <1>2, <2>1, <3>1
      <4>2. k >= Start(p, j) + d /\ k < Stop(p, j) + d
        BY <1>3, <2>1, <2>2, <2>3, <4>1
      <4>3. k >= p.free + d /\ k < o + d
        BY <1>2, <1>3, <2>1, <3>1, <4>2
      <4>4. /\ k \in 0 .. PageSize - 1 /\ k < p.free + d + (o - p.free)
            /\ ~ (k >= o + d)
        BY <1>2, <1>3, <4>3
      <4>5. k - (p.free + d) + p.free = k - Start(q, j) + Start(p, j)
        <5>1. \A a, b, c \in Int : k - (a + c) + a = k - (b + c) + b
          OBVIOUS
        <5>2. p.free \in Int /\ d \in Int /\ Start(p, j) \in Int
          BY <1>2, <1>3, <2>1, Zenon
        <5>3. k - (p.free + d) + p.free = k - (Start(p, j) + d) + Start(p, j)
          BY <5>1, <5>2, Zenon
        <5> QED BY <4>1, <5>3, Zenon
      <4>6. q.data[k] = p.data[k - (p.free + d) + p.free]
        BY <1>4, <4>3, <4>4
      <4> QED BY <4>5, <4>6, Zenon
    <3>2. CASE Start(p, j) >= Stop(p, i)
      <4>1. Start(q, j) = Start(p, j)
        BY <1>1, <3>2
      <4>2. k >= Stop(p, i) /\ k < Stop(p, j)
        BY <1>2, <2>1, <2>2, <2>3, <3>2, <4>1
      <4>3. /\ k \in 0 .. PageSize - 1 /\ ~ (k < o + d + Len(t))
            /\ ~ (k < p.free + d + (o - p.free))
        <5>1. 0 <= k /\ k < PageSize
          BY <1>2, <1>3, <2>1, <4>2
        <5>2. o + d + Len(t) = Stop(p, i) /\ p.free + d + (o - p.free) = o + d /\ o + d <= Stop(p, i)
          BY <1>2, <1>3
        <5>3. ~ (k < o + d + Len(t)) /\ ~ (k < p.free + d + (o - p.free))
          BY <1>2, <1>3, <4>2, <5>2
        <5> QED BY <1>2, <5>1, <5>3
      <4>4. k = k - Start(q, j) + Start(p, j)
        BY <2>1, <4>1
      <4>5. q.data[k] = p.data[k]
        BY <1>4, <4>3
      <4> QED BY <4>4, <4>5, Zenon
    <3> QED BY <2>1, <3>1, <3>2
  <2>4. Start(q, j) \in Int /\ Start(p, j) \in Int
    <3>1. Start(q, j) = Start(p, j) + d \/ Start(q, j) = Start(p, j)
      BY <1>1, <1>2, <2>1
    <3> QED BY <1>3, <2>1, <3>1
  <2>5. Loaded(q.data, Start(q, j), Abs(p.slots[j].size))
          = Loaded(p.data, Start(p, j), Abs(p.slots[j].size))
    <3> DEFINE a == Start(q, j)
               b == Start(p, j)
               n == Abs(p.slots[j].size)
    <3>1. \A k \in Int : a <= k /\ k < a + n => q.data[k] = p.data[k - a + b]
      BY <2>3
    <3>2. a \in Int /\ b \in Int /\ n \in Nat
      BY <2>2, <2>4
    <3> HIDE DEF a, b, n
    <3>3. Loaded(q.data, a, n) = Loaded(p.data, b, n)
      BY <3>1, <3>2, SameUnits
    <3> QED BY <3>3, Zenon DEF a, b, n
  <2> QED BY <1>1, <2>2, <2>5, Zenon DEF SameTuple, Content
<1> QED BY <1>5, <1>6 DEF q
==============================================================================
