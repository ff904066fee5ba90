--------------------------- MODULE TableHeapProofs ---------------------------
(* The table heap and its transactions, for every page size, set of tuples    *)
(* and length of the chain: what the heap, the write set and the scan keep.   *)
(* The heap is seen as a view, a cell for every RID: every call and every     *)
(* step of a commit or an abort puts one value in one cell.                   *)
EXTENDS TableHeap, TablePageProofs

\* What a slot holds, whatever its offset: nothing, a tuple, or a marked tuple.
Free == <<"free", NoTuple>>
Cell(p, i) ==
  IF i \notin Used(p) THEN Free
  ELSE <<IF p.slots[i].size > 0 THEN "there" ELSE "marked", Content(p, i)>>

Good(p) == p \in Page /\ LayoutOK(p) /\ Len(p.slots) <= MaxSlots

\* Page q is page p with x in slot i.
Changed(p, q, i, x) ==
  /\ Good(q)
  /\ i \in 1 .. MaxSlots
  /\ Cell(q, i) = x
  /\ \A j \in Nat \ {i} : Cell(q, j) = Cell(p, j)

\* A slot that holds the same tuple as before.
LEMMA SameCell ==
  ASSUME NEW p, NEW q, NEW j, j \in Used(p), SameTuple(p, q, j)
  PROVE  Cell(q, j) = Cell(p, j)
<1>1. j \in Used(q)
  BY DEF Used, SameTuple
<1> QED BY <1>1 DEF Cell, SameTuple

\* Methods that keep all tuples but the one in slot i.
LEMMA OthersSame ==
  ASSUME NEW p \in Page, NEW q \in Page, NEW i,
         Used(q) \ {i} = Used(p) \ {i},
         \A j \in Used(p) \ {i} : SameTuple(p, q, j)
  PROVE  \A j \in Nat \ {i} : Cell(q, j) = Cell(p, j)
<1> TAKE j \in Nat \ {i}
<1>1. CASE j \in Used(p)
  BY <1>1, SameCell
<1>2. CASE j \notin Used(p)
  BY <1>2 DEF Cell
<1> QED BY <1>1, <1>2

\* The tuples that are there are read as they are.
LEMMA CellRead ==
  ASSUME NEW p \in Page, NEW i
  PROVE  /\ Visible(p, i) => i \in Used(p) /\ Cell(p, i) = <<"there", GetTuple(p, i)>>
         /\ Visible(p, i) <=> Cell(p, i)[1] = "there"
         /\ i \in Used(p) <=> Cell(p, i)[1] # "free"
         /\ i \in Used(p) => Cell(p, i)[2] = Content(p, i)
<1>1. i \in DOMAIN p.slots => p.slots[i].size \in Int
  BY PageFacts
<1>2. Visible(p, i) => i \in Used(p)
  BY <1>1 DEF Visible, Used
<1>3. Visible(p, i) => Abs(p.slots[i].size) = p.slots[i].size
  BY <1>1 DEF Visible, Abs
<1>4. Visible(p, i) => GetTuple(p, i) = Content(p, i)
  BY <1>3 DEF GetTuple, Content, Start
<1>5. i \in Used(p) => (Visible(p, i) <=> p.slots[i].size > 0)
  BY DEF Used, Visible
<1> QED BY <1>2, <1>4, <1>5 DEF Cell, Free

\* A tuple is as long as its slot says.
LEMMA ContentLength ==
  ASSUME NEW p \in Page, NEW i \in Used(p)
  PROVE  Len(Content(p, i)) = Abs(p.slots[i].size)
<1>1. Abs(p.slots[i].size) \in Nat
  BY PageFacts DEF Used
<1> DEFINE n == Abs(p.slots[i].size)
<1>2. Content(p, i) = [k \in 1 .. n |-> p.data[Start(p, i) + k - 1]]
  BY DEF Content, Loaded
<1> HIDE DEF n
<1> QED BY <1>1, <1>2 DEF n
------------------------------------------------------------------------------
\* Tuples take a unit or more, and do not overlap.
LEMMA TuplesTakeSpace ==
  ASSUME NEW p \in Page, LayoutOK(p), EmptySlots(p) = {}
  PROVE  Len(p.slots) <= PageSize - p.free
<1> DEFINE n == Len(p.slots)
           f == [i \in 1 .. n |-> Start(p, i) - p.free]
<1>1. p.free \in Int /\ p.free <= PageSize /\ PageSize \in Nat /\ n \in Nat
      /\ DOMAIN p.slots = 1 .. n
  BY PageFacts
<1>2. \A i \in 1 .. n : i \in Used(p)
  BY <1>1 DEF EmptySlots, Used
<1>3. \A i \in 1 .. n : /\ Start(p, i) \in Int /\ Stop(p, i) \in Int
                       /\ p.free <= Start(p, i)
                       /\ Start(p, i) < Stop(p, i) /\ Stop(p, i) <= PageSize
  <2> TAKE i \in 1 .. n
  <2>1. Abs(p.slots[i].size) \in Nat /\ Abs(p.slots[i].size) > 0 /\ p.slots[i].offset \in Int
    BY <1>1, <1>2, PageFacts DEF Used
  <2>2. p.free <= Start(p, i) /\ Stop(p, i) <= PageSize
    BY <1>2 DEF LayoutOK
  <2> QED BY <2>1, <2>2 DEF Start, Stop
<1>4. \A i \in 1 .. n : f[i] \in Int /\ 0 <= f[i] /\ f[i] < PageSize - p.free
  <2> HIDE DEF n
  <2> QED BY <1>1, <1>3
<1>5. \A i, j \in 1 .. n : i # j => f[i] # f[j]
  <2> HIDE DEF n
  <2> TAKE i, j \in 1 .. n
  <2> HAVE i # j
  <2>1. Stop(p, i) <= Start(p, j) \/ Stop(p, j) <= Start(p, i)
    BY <1>2 DEF LayoutOK
  <2> QED BY <1>1, <1>3, <2>1
<1>6. Spread(f, n, PageSize - p.free) /\ PageSize - p.free \in Nat
  <2> HIDE DEF f, n
  <2> QED BY <1>1, <1>4, <1>5 DEF Spread
<1> HIDE DEF f, n
<1>7. n <= PageSize - p.free
  BY <1>1, <1>6, SpreadFits
<1> QED BY <1>7 DEF n

LEMMA NewPageGood == Good(NewTablePage) /\ \A i : Cell(NewTablePage, i) = Free
<1>1. PageSize \in Nat /\ PageSize > 3
  BY PageAssumption DEF HeaderSize
<1>2. 0 <= MaxSlots
  BY <1>1 DEF MaxSlots, HeaderSize, SlotSize
<1>3. Len(NewTablePage.slots) = 0 /\ Used(NewTablePage) = {}
  BY DEF NewTablePage, Used
<1> QED BY <1>2, <1>3, NewPageLaidOut DEF Good, Cell

LEMMA Half ==
  ASSUME NEW a \in Int, NEW b \in Int, 2 * a <= b
  PROVE  a <= b \div 2
OBVIOUS

\* InsertTuple() of TablePage.
LEMMA InsertChanges ==
  ASSUME NEW p, Good(p), NEW t \in Tuple, Fits(p, t)
  PROVE  /\ Changed(p, InsertTuple(p, t), InsertSlot(p), <<"there", t>>)
         /\ Cell(p, InsertSlot(p)) = Free
<1> DEFINE q == InsertTuple(p, t)
           s == InsertSlot(p)
           n == Len(p.slots)
<1>1. p \in Page /\ LayoutOK(p) /\ FreeSpaceSize(p) >= 0 /\ n <= MaxSlots
  BY DEF Good, LayoutOK
<1>2. t \in Seq(Unit) /\ Len(t) \in Nat /\ Len(t) > 0
  <2>1. t \in Seq(Unit) /\ t # <<>>
    BY HeapAssumption
  <2> QED BY <2>1
<1>3. /\ q \in Page
      /\ DOMAIN q.slots = DOMAIN p.slots \cup {s}
      /\ s \notin Used(p) /\ s \in Nat
      /\ q.slots[s] = [offset |-> q.free, size |-> Len(t)]
      /\ \A j \in Used(p) : j # s /\ q.slots[j] = p.slots[j]
      /\ Used(q) = Used(p) \cup {s}
  BY <1>1, <1>2, InsertSlots
<1>4. /\ LayoutOK(q) /\ Visible(q, s) /\ GetTuple(q, s) = t
      /\ \A j \in Used(p) : SameTuple(p, q, j)
  BY <1>1, <1>2, InsertKeepsLayout, InsertKeepsTuples
<1> HIDE DEF q
<1>5. n \in Nat /\ DOMAIN p.slots = 1 .. n /\ p.free \in Int /\ PageSize \in Nat
      /\ Len(q.slots) \in Nat /\ DOMAIN q.slots = 1 .. Len(q.slots)
  BY <1>1, <1>3, PageFacts, Zenon
<1>6. s >= 1 /\ Len(q.slots) <= MaxSlots /\ s <= Len(q.slots)
  <2>1. CASE EmptySlots(p) # {}
    <3>1. s \in DOMAIN p.slots
      BY <1>1, <2>1, FirstEmpty DEF EmptySlots
    <3>2. DOMAIN q.slots = 1 .. n
      BY <1>3, <1>5, <3>1
    <3>3. Len(q.slots) = n
      BY <1>5, <3>2
    <3> QED BY <1>1, <1>5, <3>1, <3>3
  <2>2. CASE EmptySlots(p) = {}
    <3>1. s = n + 1
      BY <2>2 DEF InsertSlot
    <3>2. DOMAIN q.slots = 1 .. n + 1
      BY <1>3, <1>5, <3>1
    <3>3. Len(q.slots) = n + 1
      BY <1>5, <3>2
    <3>4. p.free - 3 - n >= Len(t) + 1
      BY <1>5, <2>2 DEF Fits, FreeSpaceSize, HeaderSize, SlotSize
    <3>5. n <= PageSize - p.free
      BY <1>1, <2>2, TuplesTakeSpace
    <3>6. 2 * (n + 1) <= PageSize - 3
      BY <1>2, <1>5, <3>4, <3>5
    <3>7. n + 1 <= (PageSize - 3) \div 2
      <4>1. n + 1 \in Int /\ PageSize - 3 \in Int
        BY <1>5
      <4> QED BY <3>6, <4>1, Half
    <3>8. MaxSlots = (PageSize - 3) \div 2
      BY <1>5 DEF MaxSlots, HeaderSize, SlotSize
    <3> QED BY <1>5, <3>1, <3>3, <3>7, <3>8
  <2> QED BY <2>1, <2>2
<1>7. s \in 1 .. MaxSlots
  BY <1>3, <1>5, <1>6 DEF MaxSlots, HeaderSize, SlotSize
<1>8. Cell(q, s) = <<"there", t>>
  BY <1>3, <1>4, CellRead
<1>9. \A j \in Nat \ {s} : Cell(q, j) = Cell(p, j)
  <2>1. Used(q) \ {s} = Used(p) \ {s} /\ \A j \in Used(p) \ {s} : SameTuple(p, q, j)
    BY <1>3, <1>4, Zenon
  <2> QED BY <1>1, <1>3, <2>1, OthersSame, Zenon
<1>10. Good(q) /\ Cell(p, s) = Free
  BY <1>3, <1>4, <1>6 DEF Good, Cell
<1> QED BY <1>7, <1>8, <1>9, <1>10 DEF Changed, q

\* A slot in use is within the bounds.
LEMMA UsedSlot ==
  ASSUME NEW p, Good(p), NEW i \in Used(p)
  PROVE  /\ i \in DOMAIN p.slots /\ i \in 1 .. MaxSlots
         /\ p.slots[i].size \in Int /\ p.slots[i].size # 0 /\ p.slots[i].offset \in Int
         /\ OffsetIsValid(p, i)
<1>1. p \in Page /\ LayoutOK(p) /\ Len(p.slots) <= MaxSlots
  BY DEF Good
<1>2. /\ Len(p.slots) \in Nat /\ DOMAIN p.slots = 1 .. Len(p.slots) /\ PageSize \in Nat
      /\ i \in DOMAIN p.slots /\ p.slots[i].size # 0
      /\ p.slots[i].size \in Int /\ p.slots[i].offset \in Int /\ p.free \in Int
  BY <1>1, PageFacts DEF Used
<1>3. MaxSlots \in Int
  BY <1>2 DEF MaxSlots, HeaderSize, SlotSize
<1>4. p.free <= p.slots[i].offset
  BY <1>1 DEF LayoutOK, Start
<1> QED BY <1>1, <1>2, <1>3, <1>4 DEF OffsetIsValid

\* ApplyDelete() of TablePage.
LEMMA ApplyChanges ==
  ASSUME NEW p, Good(p), NEW i \in Used(p)
  PROVE  Changed(p, ApplyDelete(p, i), i, Free)
<1> DEFINE q == ApplyDelete(p, i)
<1>1. p \in Page /\ LayoutOK(p) /\ Len(p.slots) <= MaxSlots
  BY DEF Good
<1>2. q \in Page /\ Len(q.slots) = Len(p.slots) /\ Used(q) = Used(p) \ {i}
  BY <1>1, ApplySlots
<1>3. LayoutOK(q) /\ \A j \in Used(p) \ {i} : SameTuple(p, q, j)
  BY <1>1, ApplyDeleteKeepsLayout, ApplyDeleteKeepsTuples
<1> HIDE DEF q
<1>4. \A j \in Nat \ {i} : Cell(q, j) = Cell(p, j)
  <2>1. Used(q) \ {i} = Used(p) \ {i}
    BY <1>2
  <2> QED BY <1>1, <1>2, <1>3, <2>1, OthersSame, Zenon
<1>5. Good(q) /\ Cell(q, i) = Free
  BY <1>1, <1>2, <1>3 DEF Good, Cell
<1> QED BY <1>4, <1>5, UsedSlot DEF Changed, q

\* SetTupleSize() of MarkDelete() and RollbackDelete().
LEMMA FlipChanges ==
  ASSUME NEW p, Good(p), NEW i \in Used(p)
  PROVE  /\ p.slots[i].size > 0 => Changed(p, MarkDelete(p, i), i, <<"marked", Content(p, i)>>)
         /\ p.slots[i].size < 0 => Changed(p, RollbackDelete(p, i), i, <<"there", Content(p, i)>>)
<1> DEFINE q == Flipped(p, i)
           slot == [offset |-> p.slots[i].offset, size |-> -p.slots[i].size]
<1>1. p \in Page /\ LayoutOK(p) /\ Len(p.slots) <= MaxSlots
  BY DEF Good
<1>2. /\ i \in DOMAIN p.slots /\ i \in 1 .. MaxSlots /\ p.slots[i].size \in Int
      /\ p.slots[i].size # 0
  BY UsedSlot
<1>3. /\ p.slots[i].size > 0 => MarkDelete(p, i) = q
      /\ p.slots[i].size < 0 => RollbackDelete(p, i) = q
  BY <1>2 DEF MarkDelete, RollbackDelete, Visible
<1>4. q \in Page /\ LayoutOK(q) /\ \A j \in Used(p) : Content(q, j) = Content(p, j)
  <2>1. p.slots[i].size > 0 \/ p.slots[i].size < 0
    BY <1>2
  <2> QED BY <1>1, <1>2, <1>3, <2>1, MarksKeepLayout
<1>5. q.slots = [p.slots EXCEPT ![i] = slot]
  BY <1>1 DEF Flipped, Page
<1>6. p.slots \in Seq(Slot) /\ DOMAIN p.slots = 1 .. Len(p.slots) /\ Len(p.slots) \in Nat
  BY <1>1, PageFacts
<1> HIDE DEF q
<1>7. /\ DOMAIN q.slots = DOMAIN p.slots
      /\ q.slots[i].size = -p.slots[i].size
      /\ \A j \in DOMAIN p.slots : j # i => q.slots[j] = p.slots[j]
  BY <1>2, <1>5, <1>6
<1>8. Len(q.slots) = Len(p.slots)
  <2>1. Len(q.slots) \in Nat /\ DOMAIN q.slots = 1 .. Len(q.slots)
    BY <1>4, PageFacts
  <2> QED BY <1>6, <1>7, <2>1
<1>9. -p.slots[i].size # 0
  BY <1>2
<1>10. Used(q) = Used(p)
  BY <1>2, <1>7, <1>9 DEF Used
<1>11. \A j \in Used(p) \ {i} : SameTuple(p, q, j)
  BY <1>4, <1>7 DEF SameTuple, Used
<1>12. \A j \in Nat \ {i} : Cell(q, j) = Cell(p, j)
  BY <1>1, <1>4, <1>10, <1>11, OthersSame, Zenon
<1>13. Good(q)
  BY <1>1, <1>4, <1>8 DEF Good
<1>14. /\ p.slots[i].size > 0 => Cell(q, i) = <<"marked", Content(p, i)>>
       /\ p.slots[i].size < 0 => Cell(q, i) = <<"there", Content(p, i)>>
  BY <1>2, <1>4, <1>7, <1>10 DEF Cell
<1> QED BY <1>2, <1>3, <1>12, <1>13, <1>14 DEF Changed

\* UpdateTuple() of TablePage, on a page without marked tuples.
LEMMA UpdateChanges ==
  ASSUME NEW p, Good(p), NEW i, NEW t \in Tuple, CanUpdate(p, i, t),
         \A j \in Nat : Cell(p, j)[1] # "marked"
  PROVE  Changed(p, UpdateTuple(p, i, t), i, <<"there", t>>)
<1> DEFINE q == UpdateTuple(p, i, t)
<1>1. p \in Page /\ LayoutOK(p) /\ Len(p.slots) <= MaxSlots
  BY DEF Good
<1>2. Visible(p, i) /\ i \in Used(p) /\ i \in DOMAIN p.slots
  BY <1>1, CellRead DEF CanUpdate, Visible
<1>3. t \in Seq(Unit) /\ Len(t) \in Nat /\ Len(t) > 0
  <2>1. t \in Seq(Unit) /\ t # <<>>
    BY HeapAssumption
  <2> QED BY <2>1
<1>4. \A j \in DOMAIN p.slots : p.slots[j].size >= 0
  <2> TAKE j \in DOMAIN p.slots
  <2>1. p.slots[j].size \in Int /\ j \in Nat
    BY <1>1, PageFacts
  <2>2. CASE j \in Used(p)
    <3>1. p.slots[j].size > 0
      BY <2>1, <2>2 DEF Cell
    <3> QED BY <2>1, <3>1
  <2>3. CASE j \notin Used(p)
    BY <2>3 DEF Used
  <2> QED BY <2>2, <2>3
<1>5. IsUpdated(q, p, i, t, Shift(p, i, t))
  BY <1>1, <1>2, <1>3, <1>4, UpdateSlots
<1>6. LayoutOK(q) /\ GetTuple(q, i) = t /\ \A j \in Used(p) \ {i} : SameTuple(p, q, j)
  BY <1>1, <1>2, <1>3, <1>4, UpdateKeepsLayout, UpdateKeepsTuples
<1> HIDE DEF q
<1>7. q \in Page /\ Len(q.slots) = Len(p.slots) /\ Used(q) = Used(p) /\ q.slots[i].size = Len(t)
      /\ DOMAIN q.slots = DOMAIN p.slots
  BY <1>5 DEF IsUpdated
<1>8. \A j \in Nat \ {i} : Cell(q, j) = Cell(p, j)
  BY <1>1, <1>6, <1>7, OthersSame, Zenon
<1>9. Visible(q, i)
  BY <1>2, <1>3, <1>7 DEF Visible
<1>10. Cell(q, i) = <<"there", t>>
  BY <1>6, <1>7, <1>9, CellRead
<1>11. Good(q)
  BY <1>1, <1>6, <1>7 DEF Good
<1> QED BY <1>2, <1>8, <1>10, <1>11, UsedSlot DEF Changed, q
------------------------------------------------------------------------------
\* What the chain holds under each RID.
Sound(ch) == ch \in Seq(Page) /\ Len(ch) \in 1 .. MaxPages /\ \A k \in DOMAIN ch : Good(ch[k])
View(ch) == [r \in Rid |-> IF r[1] \in DOMAIN ch THEN Cell(ch[r[1]], r[2]) ELSE Free]

Cells == {Free} \cup ({"there", "marked"} \X Tuple)
RowOf(c) == IF c[1] = "there" THEN c[2] ELSE NoTuple

\* What GetTuple() gives depends on the view only.
LEMMA RowsOfView ==
  ASSUME NEW ch, Sound(ch)
  PROVE  /\ Rows(ch) = [r \in Rid |-> RowOf(View(ch)[r])]
         /\ \A r \in Rid : IsVisible(ch, r) <=> View(ch)[r][1] = "there"
<1>1. \A r \in Rid : /\ IsVisible(ch, r) <=> View(ch)[r][1] = "there"
                     /\ IsVisible(ch, r) => View(ch)[r] = <<"there", GetTuple(ch[r[1]], r[2])>>
  <2> TAKE r \in Rid
  <2>1. CASE r[1] \in DOMAIN ch
    <3>1. ch[r[1]] \in Page /\ View(ch)[r] = Cell(ch[r[1]], r[2])
      BY <2>1 DEF Sound, Good, View
    <3> QED BY <2>1, <3>1, CellRead DEF IsVisible
  <2>2. CASE r[1] \notin DOMAIN ch
    BY <2>2 DEF View, Free, IsVisible
  <2> QED BY <2>1, <2>2
<1>2. \A r \in Rid : (IF IsVisible(ch, r) THEN GetTuple(ch[r[1]], r[2]) ELSE NoTuple)
                     = RowOf(View(ch)[r])
  BY <1>1 DEF RowOf
<1> QED BY <1>1, <1>2 DEF Rows

\* Where a RID that is in use leads.
LEMMA UsedRid ==
  ASSUME NEW ch, Sound(ch), NEW r \in Rid, View(ch)[r][1] # "free"
  PROVE  /\ r[1] \in DOMAIN ch /\ r[2] \in Nat /\ Good(ch[r[1]]) /\ r[2] \in Used(ch[r[1]])
         /\ View(ch)[r] = Cell(ch[r[1]], r[2])
         /\ r = <<r[1], r[2]>>
         /\ OffsetIsValid(ch[r[1]], r[2])
         /\ Content(ch[r[1]], r[2]) = View(ch)[r][2]
         /\ View(ch)[r][1] = "there" <=> ch[r[1]].slots[r[2]].size > 0
         /\ View(ch)[r][1] = "marked" <=> ch[r[1]].slots[r[2]].size < 0
         /\ ch[r[1]].slots[r[2]].size \in Int
<1>1. r[1] \in DOMAIN ch /\ View(ch)[r] = Cell(ch[r[1]], r[2])
  BY DEF View, Free
<1>2. Good(ch[r[1]]) /\ ch[r[1]] \in Page
  BY <1>1 DEF Sound, Good
<1>3. r[2] \in Used(ch[r[1]]) /\ View(ch)[r][2] = Content(ch[r[1]], r[2])
  BY <1>1, <1>2, CellRead
<1>4. r[2] \in 1 .. MaxSlots /\ r = <<r[1], r[2]>>
  BY DEF Rid
<1>5. /\ OffsetIsValid(ch[r[1]], r[2])
      /\ ch[r[1]].slots[r[2]].size \in Int /\ ch[r[1]].slots[r[2]].size # 0
  BY <1>2, <1>3, UsedSlot, Zenon
<1>6. /\ View(ch)[r][1] = "there" <=> ch[r[1]].slots[r[2]].size > 0
      /\ View(ch)[r][1] = "marked" <=> ch[r[1]].slots[r[2]].size < 0
  BY <1>1, <1>3, <1>5 DEF Cell
<1>7. r[2] \in Nat
  BY <1>4
<1> QED BY <1>1, <1>2, <1>3, <1>4, <1>5, <1>6, <1>7, Zenon

\* An assignment to one place of a list or a view.
Put(f, a, b) == [f EXCEPT ![a] = b]

\* A page of the chain is changed.
LEMMA PageChanges ==
  ASSUME NEW ch, Sound(ch), NEW k \in DOMAIN ch, NEW i, NEW x, NEW q, Changed(ch[k], q, i, x)
  PROVE  /\ Sound(Put(ch, k, q)) /\ <<k, i>> \in Rid
         /\ View(Put(ch, k, q)) = Put(View(ch), <<k, i>>, x)
<1> DEFINE new == Put(ch, k, q)
<1>1. q \in Page /\ Good(q) /\ i \in 1 .. MaxSlots
  BY DEF Changed, Good
<1>2. ch \in Seq(Page) /\ Len(ch) \in 1 .. MaxPages /\ MaxPages \in Nat /\ DOMAIN ch = 1 .. Len(ch)
  BY HeapAssumption DEF Sound
<1>3. /\ new \in Seq(Page) /\ Len(new) = Len(ch) /\ DOMAIN new = DOMAIN ch
      /\ new[k] = q /\ \A l \in DOMAIN ch : l # k => new[l] = ch[l]
  BY <1>1, <1>2 DEF Put
<1> HIDE DEF new
<1>4. Sound(new)
  BY <1>1, <1>2, <1>3 DEF Sound
<1>5. <<k, i>> \in Rid
  BY <1>1, <1>2 DEF Rid
<1>6. ASSUME NEW r \in Rid
      PROVE  View(new)[r] = IF r = <<k, i>> THEN x ELSE View(ch)[r]
  <2>1. r = <<r[1], r[2]>> /\ r[2] \in Nat
    BY DEF Rid
  <2>2. CASE r[1] = k /\ r[2] = i
    BY <1>3, <2>1, <2>2 DEF View, Changed
  <2>3. CASE r[1] = k /\ r[2] # i
    <3>1. r # <<k, i>> /\ View(new)[r] = Cell(q, r[2]) /\ View(ch)[r] = Cell(ch[k], r[2])
      BY <1>3, <2>3 DEF View
    <3>2. Cell(q, r[2]) = Cell(ch[k], r[2])
      BY <2>1, <2>3 DEF Changed
    <3> QED BY <3>1, <3>2
  <2>4. CASE r[1] # k
    BY <1>3, <2>4 DEF View
  <2> QED BY <2>2, <2>3, <2>4
<1>7. View(new) = Put(View(ch), <<k, i>>, x)
  <2>1. View(new) = [r \in Rid |-> View(new)[r]]
    BY DEF View
  <2>2. Put(View(ch), <<k, i>>, x) = [r \in Rid |-> IF r = <<k, i>> THEN x ELSE View(ch)[r]]
    BY Zenon DEF View, Put
  <2> QED BY <1>6, <2>1, <2>2
<1> QED BY <1>3, <1>4, <1>5, <1>7 DEF new

\* A page is appended.
LEMMA PageAppended ==
  ASSUME NEW ch, Sound(ch), Len(ch) < MaxPages, NEW i, NEW x, NEW q,
         Changed(NewTablePage, q, i, x)
  PROVE  /\ Sound(Append(ch, q)) /\ <<Len(ch) + 1, i>> \in Rid
         /\ View(ch)[<<Len(ch) + 1, i>>] = Free
         /\ View(Append(ch, q)) = Put(View(ch), <<Len(ch) + 1, i>>, x)
<1> DEFINE new == Append(ch, q)
           n == Len(ch)
<1>1. q \in Page /\ Good(q) /\ i \in 1 .. MaxSlots
  BY DEF Changed, Good
<1>2. ch \in Seq(Page) /\ n \in Nat /\ n >= 1 /\ MaxPages \in Nat /\ DOMAIN ch = 1 .. n
  BY HeapAssumption DEF Sound
<1>3. /\ new \in Seq(Page) /\ Len(new) = n + 1 /\ DOMAIN new = 1 .. n + 1
      /\ new[n + 1] = q /\ \A l \in DOMAIN ch : new[l] = ch[l]
  BY <1>1, <1>2
<1>4. n + 1 \in 1 .. MaxPages /\ n + 1 \notin DOMAIN ch /\ 1 .. n + 1 = DOMAIN ch \cup {n + 1}
  BY <1>2
<1> HIDE DEF new, n
<1>5. Sound(new)
  BY <1>1, <1>3, <1>4 DEF Sound
<1>6. <<n + 1, i>> \in Rid
  BY <1>1, <1>4 DEF Rid
<1>7. ASSUME NEW r \in Rid
      PROVE  View(new)[r] = IF r = <<n + 1, i>> THEN x ELSE View(ch)[r]
  <2>1. r = <<r[1], r[2]>> /\ r[2] \in Nat
    BY DEF Rid
  <2>2. CASE r[1] = n + 1 /\ r[2] = i
    BY <1>3, <1>4, <2>1, <2>2 DEF View, Changed
  <2>3. CASE r[1] = n + 1 /\ r[2] # i
    <3>1. r # <<n + 1, i>> /\ View(new)[r] = Cell(q, r[2]) /\ View(ch)[r] = Free
      BY <1>3, <1>4, <2>3 DEF View
    <3>2. Cell(q, r[2]) = Cell(NewTablePage, r[2])
      BY <2>1, <2>3 DEF Changed
    <3> QED BY <3>1, <3>2, NewPageGood
  <2>4. CASE r[1] # n + 1
    <3>1. r # <<n + 1, i>>
      BY <2>4
    <3>2. r[1] \in DOMAIN new <=> r[1] \in DOMAIN ch
      BY <1>3, <1>4, <2>4
    <3> QED BY <1>3, <3>1, <3>2 DEF View
  <2> QED BY <2>2, <2>3, <2>4
<1>8. View(new) = Put(View(ch), <<n + 1, i>>, x)
  <2>1. View(new) = [r \in Rid |-> View(new)[r]]
    BY DEF View
  <2>2. Put(View(ch), <<n + 1, i>>, x)
        = [r \in Rid |-> IF r = <<n + 1, i>> THEN x ELSE View(ch)[r]]
    BY Zenon DEF View, Put
  <2> QED BY <1>7, <2>1, <2>2
<1>9. View(ch)[<<n + 1, i>>] = Free
  BY <1>4, <1>6 DEF View
<1> QED BY <1>5, <1>6, <1>8, <1>9 DEF new, n
------------------------------------------------------------------------------
\* Commit() and Abort() work through the write set from its end.
Ended(how, w, h) == IF how = "commit" THEN CommitRecord(w, h) ELSE AbortRecord(w, h)
Runs(how, f, n) == f[0] = Heap /\ \A i \in 1 .. n : f[i] = Ended(how, Record(i), f[i - 1])

\* The loop's states exist for every number of records, ...
LEMMA RunsExist == ASSUME NEW how PROVE \A n \in Nat : \E f : Runs(how, f, n)
<1> DEFINE T == {n \in Nat : ~\E f : Runs(how, f, n)}
<1> SUFFICES ASSUME T # {} PROVE FALSE
  OBVIOUS
<1>1. PICK m \in T : \A k \in T : m <= k
  BY Least, Zenon
<1>2. CASE m = 0
  <2>1. Runs(how, [i \in {0} |-> Heap], 0)
    BY DEF Runs
  <2> QED BY <1>1, <1>2, <2>1
<1>3. CASE m # 0
  <2>1. m - 1 \in Nat /\ m - 1 \notin T
    BY <1>1, <1>3
  <2>2. PICK f : Runs(how, f, m - 1)
    BY <2>1
  <2> DEFINE g == [i \in 0 .. m |-> IF i = m THEN Ended(how, Record(m), f[m - 1]) ELSE f[i]]
  <2>3. f[0] = Heap /\ \A i \in 1 .. m - 1 : f[i] = Ended(how, Record(i), f[i - 1])
    BY <2>2 DEF Runs
  <2>4. g[m] = Ended(how, Record(m), f[m - 1]) /\ \A i \in 0 .. m - 1 : g[i] = f[i]
    BY <1>3, <2>1
  <2> HIDE DEF g
  <2>5. g[0] = Heap
    BY <2>1, <2>3, <2>4
  <2>6. ASSUME NEW i \in 1 .. m PROVE g[i] = Ended(how, Record(i), g[i - 1])
    <3>1. i - 1 \in 0 .. m - 1
      BY <1>3, <2>1
    <3>2. CASE i = m
      BY <2>4, <3>1, <3>2
    <3>3. CASE i # m
      <4>1. i \in 1 .. m - 1 /\ i \in 0 .. m - 1
        BY <2>1, <3>3
      <4> QED BY <2>3, <2>4, <3>1, <4>1
    <3> QED BY <3>2, <3>3
  <2>7. Runs(how, g, m)
    BY <2>5, <2>6 DEF Runs
  <2> QED BY <1>1, <2>7
<1> QED BY <1>2, <1>3

\* ... and are the same for all numbers.
LEMMA RunsAgree ==
  ASSUME NEW how, NEW n \in Nat, NEW m \in Nat, NEW f, NEW h, Runs(how, f, n), Runs(how, h, m)
  PROVE  \A i \in Nat : i <= n /\ i <= m => f[i] = h[i]
<1> DEFINE T == {i \in Nat : i <= n /\ i <= m /\ f[i] # h[i]}
<1> SUFFICES ASSUME T # {} PROVE FALSE
  OBVIOUS
<1>1. PICK j \in T : \A k \in T : j <= k
  BY Least, Zenon
<1>2. f[0] = h[0]
  BY DEF Runs
<1>3. j # 0 /\ j - 1 \in Nat /\ j - 1 \notin T
  BY <1>1, <1>2
<1>4. f[j - 1] = h[j - 1]
  BY <1>1, <1>3
<1>5. j \in 1 .. n /\ j \in 1 .. m
  BY <1>1, <1>3
<1>6. f[j] = Ended(how, Record(j), f[j - 1]) /\ h[j] = Ended(how, Record(j), h[j - 1])
  BY <1>5, Zenon DEF Runs
<1> QED BY <1>1, <1>4, <1>6

LEMMA ReplayExists ==
  ASSUME NEW how
  PROVE  \E g : g = [m \in Nat |-> IF m = 0 THEN Heap ELSE Ended(how, Record(m), g[m - 1])]
<1> DEFINE F(n) == CHOOSE f : Runs(how, f, n)
           g == [n \in Nat |-> F(n)[n]]
<1>1. \A n \in Nat : Runs(how, F(n), n)
  BY RunsExist
<1> HIDE DEF F
<1>2. \A n \in Nat : n # 0 => F(n)[n] = Ended(how, Record(n), F(n - 1)[n - 1])
  <2> TAKE n \in Nat
  <2> HAVE n # 0
  <2>1. n - 1 \in Nat /\ Runs(how, F(n), n) /\ Runs(how, F(n - 1), n - 1)
    BY <1>1
  <2>2. F(n)[n] = Ended(how, Record(n), F(n)[n - 1])
    BY <2>1 DEF Runs
  <2>3. F(n)[n - 1] = F(n - 1)[n - 1]
    BY <2>1, RunsAgree
  <2> QED BY <2>2, <2>3
<1>3. F(0)[0] = Heap
  BY <1>1 DEF Runs
<1>4. \A n \in Nat : g[n] = IF n = 0 THEN Heap ELSE Ended(how, Record(n), g[n - 1])
  BY <1>2, <1>3
<1>5. g = [m \in Nat |-> IF m = 0 THEN Heap ELSE Ended(how, Record(m), g[m - 1])]
  BY <1>4
<1> QED BY <1>5, Zenon

\* The definitions of the two loops are equations that hold.
LEMMA ReplayDef ==
  /\ Committed[0] = Heap
  /\ \A m \in Nat : Committed[m + 1] = CommitRecord(Record(m + 1), Committed[m])
  /\ Undone[0] = Heap
  /\ \A m \in Nat : Undone[m + 1] = AbortRecord(Record(m + 1), Undone[m])
<1>1. Committed = [m \in Nat |-> IF m = 0 THEN Heap ELSE CommitRecord(Record(m), Committed[m - 1])]
  <2>1. \A w, h : Ended("commit", w, h) = CommitRecord(w, h)
    BY DEF Ended
  <2>2. PICK g : g = [m \in Nat |-> IF m = 0 THEN Heap ELSE Ended("commit", Record(m), g[m - 1])]
    BY ReplayExists
  <2>3. g = [m \in Nat |-> IF m = 0 THEN Heap ELSE CommitRecord(Record(m), g[m - 1])]
    BY <2>1, <2>2
  <2> QED BY <2>3 DEF Committed
<1>2. Undone = [m \in Nat |-> IF m = 0 THEN Heap ELSE AbortRecord(Record(m), Undone[m - 1])]
  <2>1. \A w, h : Ended("abort", w, h) = AbortRecord(w, h)
    BY DEF Ended
  <2>2. PICK g : g = [m \in Nat |-> IF m = 0 THEN Heap ELSE Ended("abort", Record(m), g[m - 1])]
    BY ReplayExists
  <2>3. g = [m \in Nat |-> IF m = 0 THEN Heap ELSE AbortRecord(Record(m), g[m - 1])]
    BY <2>1, <2>2
  <2> QED BY <2>3 DEF Undone
<1>3. \A m \in Nat : m + 1 \in Nat /\ m + 1 # 0 /\ (m + 1) - 1 = m
  OBVIOUS
<1>4. Committed[0] = Heap /\ Undone[0] = Heap
  BY <1>1, <1>2
<1>5. ASSUME NEW m \in Nat
      PROVE  /\ Committed[m + 1] = CommitRecord(Record(m + 1), Committed[m])
             /\ Undone[m + 1] = AbortRecord(Record(m + 1), Undone[m])
  BY <1>1, <1>2, <1>3
<1> QED BY <1>4, <1>5
------------------------------------------------------------------------------
WriteRecord ==
  [rid : Rid, wtype : {"INSERT", "DELETE", "UPDATE"}, tuple : Tuple \cup {NoTuple}]
Txns == {NoTxn} \cup
        [state : {"GROWING", "ABORTED"}, heeds : BOOLEAN, write_set : Seq(WriteRecord)]

\* Undoing record w in a heap of view v gives view u.
Undoes(w, v, u) ==
  \/ /\ w.wtype = "INSERT" /\ v[w.rid][1] = "there"
     /\ u = Put(v, w.rid, Free)
  \/ /\ w.wtype = "DELETE" /\ v[w.rid][1] = "marked"
     /\ u = Put(v, w.rid, <<"there", v[w.rid][2]>>)
  \/ /\ w.wtype = "UPDATE" /\ v[w.rid][1] = "there"
     /\ w.tuple \in Tuple /\ Len(w.tuple) <= Len(v[w.rid][2])
     /\ \A r \in Rid : r[1] = w.rid[1] => v[r][1] # "marked"
     /\ u = Put(v, w.rid, <<"there", w.tuple>>)

\* The write set ws leads from view v back to the rows bef.
Leads(U, ws, v, bef) ==
  /\ U \in [0 .. Len(ws) -> [Rid -> Cells]]
  /\ U[Len(ws)] = v
  /\ \A r \in Rid : bef[r] = RowOf(U[0][r])
  /\ \A j \in 1 .. Len(ws) : Undoes(ws[j], U[j], U[j - 1])
History(ws, v, bef) == \E U : Leads(U, ws, v, bef)

\* A deletion in the write set is one of a tuple that is marked, and of no other's.
MarksLogged(ws, v) ==
  \A j \in DOMAIN ws : ws[j].wtype = "DELETE" =>
    /\ v[ws[j].rid][1] = "marked"
    /\ \A l \in DOMAIN ws : ws[l].wtype = "DELETE" /\ ws[l].rid = ws[j].rid => l = j

\* RID r comes after RID c in a scan.
After(c, r) == c[1] < r[1] \/ (c[1] = r[1] /\ c[2] < r[2])

\* The inductive invariant.
HeapInv ==
  /\ Sound(chain) /\ View(chain) \in [Rid -> Cells]
  /\ txn \in Txns /\ crashed = FALSE
  /\ before \in [Rid -> Tuple \cup {NoTuple}]
  /\ txn # NoTxn => \A r \in Rid : before[r] # NoTuple => View(chain)[r][1] # "free"
  /\ MarksLogged(txn.write_set, View(chain))
  /\ txn.heeds => History(txn.write_set, View(chain), before)
  /\ cursor \in Rid \cup {End} /\ unseen \subseteq Rid
  /\ cursor # End => /\ View(chain)[cursor][1] # "free"
                     /\ \A r \in unseen : View(chain)[r][1] = "there" /\ After(cursor, r)

\* RIDs of other slots of a page.
LEMMA SamePage ==
  ASSUME NEW ch, Sound(ch), NEW k \in DOMAIN ch,
         \A r \in Rid : r[1] = k => View(ch)[r][1] # "marked"
  PROVE  \A j \in Nat : Cell(ch[k], j)[1] # "marked"
<1>1. Good(ch[k]) /\ k \in 1 .. MaxPages
  BY HeapAssumption DEF Sound
<1> TAKE j \in Nat
<1>2. CASE j \in Used(ch[k])
  <2>1. j \in 1 .. MaxSlots
    BY <1>1, <1>2, UsedSlot
  <2>2. <<k, j>> \in Rid /\ <<k, j>>[1] = k /\ <<k, j>>[2] = j
    BY <1>1, <2>1 DEF Rid
  <2>3. View(ch)[<<k, j>>] = Cell(ch[k], j)
    BY <2>2 DEF View
  <2> QED BY <2>2, <2>3
<1>3. CASE j \notin Used(ch[k])
  BY <1>3 DEF Cell, Free
<1> QED BY <1>2, <1>3

\* A heap whose replay has met no failed assert, and shows v.
Intact(h, v) ==
  h \in [chain : Seq(Page), ok : BOOLEAN] /\ h.ok = TRUE /\ Sound(h.chain) /\ View(h.chain) = v

WithChain(h, c) == [h EXCEPT !.chain = c]

\* A step of the replay that changes a page.
LEMMA ReplayChanges ==
  ASSUME NEW h, NEW v, Intact(h, v), NEW r \in Rid, NEW x, NEW q, r[1] \in DOMAIN h.chain,
         Changed(h.chain[r[1]], q, r[2], x)
  PROVE  Intact(WithChain(h, Put(h.chain, r[1], q)), Put(v, r, x))
<1> DEFINE c == Put(h.chain, r[1], q)
           g == WithChain(h, c)
<1>1. r = <<r[1], r[2]>>
  BY DEF Rid
<1>2. Sound(c) /\ View(c) = Put(View(h.chain), <<r[1], r[2]>>, x)
  BY PageChanges DEF Intact
<1>3. c \in Seq(Page)
  BY <1>2 DEF Sound
<1> HIDE DEF c
<1>5. g \in [chain : Seq(Page), ok : BOOLEAN] /\ g.ok = TRUE /\ g.chain = c
  BY <1>3 DEF Intact, WithChain
<1>6. View(c) = Put(v, r, x)
  BY <1>1, <1>2 DEF Intact
<1> QED BY <1>2, <1>5, <1>6 DEF Intact, c

\* ApplyDelete() of the heap.
LEMMA HeapApplyChanges ==
  ASSUME NEW h, NEW v, Intact(h, v), NEW r \in Rid, v[r][1] # "free"
  PROVE  Intact(HeapApplyDelete(h, r), Put(v, r, Free))
<1> DEFINE p == h.chain[r[1]]
           q == ApplyDelete(p, r[2])
<1>1. r[1] \in DOMAIN h.chain /\ Good(p) /\ r[2] \in Used(p) /\ OffsetIsValid(p, r[2])
  BY UsedRid, Zenon DEF Intact
<1>2. Changed(p, q, r[2], Free)
  BY <1>1, ApplyChanges
<1>3. HeapApplyDelete(h, r) = WithChain(h, Put(h.chain, r[1], q))
  BY <1>1 DEF HeapApplyDelete, Intact, WithChain, Put
<1> HIDE DEF q
<1> QED BY <1>1, <1>2, <1>3, ReplayChanges

\* A record of the write set is undone.
LEMMA UndoStep ==
  ASSUME NEW h, NEW v, Intact(h, v), NEW w \in WriteRecord, NEW u, Undoes(w, v, u)
  PROVE  Intact(AbortRecord(w, h), u)
<1> DEFINE r == w.rid
           p == h.chain[r[1]]
           i == r[2]
<1>1. r \in Rid
  BY DEF WriteRecord
<1>2. v[r][1] # "free" /\ w.wtype \in {"INSERT", "DELETE", "UPDATE"}
  BY DEF Undoes, WriteRecord
<1>3. /\ r[1] \in DOMAIN h.chain /\ Good(p) /\ i \in Used(p)
      /\ OffsetIsValid(p, i) /\ Content(p, i) = v[r][2]
      /\ v[r][1] = "there" <=> p.slots[i].size > 0
      /\ v[r][1] = "marked" <=> p.slots[i].size < 0
      /\ p.slots[i].size \in Int
  <2>1. Sound(h.chain) /\ View(h.chain) = v
    BY Zenon DEF Intact
  <2> HIDE DEF r, p, i
  <2>2. View(h.chain)[r][1] # "free"
    BY <1>2, <2>1, Zenon
  <2> QED BY <1>1, <2>1, <2>2, UsedRid, Zenon DEF p, i
<1>4. CASE w.wtype = "INSERT"
  <2>1. AbortRecord(w, h) = HeapApplyDelete(h, r)
    BY <1>4 DEF AbortRecord
  <2>2. u = Put(v, r, Free)
    BY <1>4 DEF Undoes
  <2> QED BY <1>1, <1>2, <2>1, <2>2, HeapApplyChanges
<1>5. CASE w.wtype = "DELETE"
  <2> DEFINE q == RollbackDelete(p, i)
             x == <<"there", v[r][2]>>
  <2>1. AbortRecord(w, h) = WithChain(h, Put(h.chain, r[1], q))
    BY <1>5 DEF AbortRecord, HeapRollbackDelete, WithChain, Put
  <2>2. u = Put(v, r, x) /\ v[r][1] = "marked"
    BY <1>5 DEF Undoes
  <2>3. Changed(p, q, i, x)
    BY <1>3, <2>2, FlipChanges, Zenon
  <2> HIDE DEF q, x
  <2> QED BY <1>1, <1>3, <2>1, <2>2, <2>3, ReplayChanges, Zenon
<1>6. CASE w.wtype = "UPDATE"
  <2> DEFINE q == UpdateTuple(p, i, w.tuple)
             x == <<"there", w.tuple>>
  <2>1. /\ v[r][1] = "there" /\ w.tuple \in Tuple
        /\ Len(w.tuple) <= Len(v[r][2])
        /\ \A s \in Rid : s[1] = r[1] => v[s][1] # "marked"
        /\ u = Put(v, r, x)
    BY <1>6 DEF Undoes
  <2>2. CanUpdate(p, i, w.tuple)
    <3>1. p \in Page /\ FreeSpaceSize(p) >= 0
      BY <1>3, Zenon DEF Good, LayoutOK
    <3>2. Len(v[r][2]) = p.slots[i].size
      BY <1>3, <2>1, <3>1, ContentLength, Zenon DEF Abs
    <3>3. Visible(p, i)
      BY <1>3, <2>1, Zenon DEF Visible, Used
    <3>4. FreeSpaceSize(p) \in Int
      BY <3>1, PageFacts DEF FreeSpaceSize, HeaderSize, SlotSize
    <3>5. Len(w.tuple) \in Nat
      BY <2>1, HeapAssumption
    <3> DEFINE size == p.slots[i].size
               len == Len(w.tuple)
               free == FreeSpaceSize(p)
    <3>6. size \in Int /\ len \in Nat /\ free \in Int /\ free >= 0
      BY <1>3, <3>1, <3>4, <3>5, Zenon
    <3>7. len <= size
      BY <2>1, <3>2, Zenon
    <3> HIDE DEF size, len, free
    <3>8. free >= len - size
      BY <3>6, <3>7
    <3> QED BY <3>3, <3>8, Zenon DEF CanUpdate, size, len, free
  <2>3. \A j \in Nat : Cell(p, j)[1] # "marked"
    BY <1>3, <2>1, SamePage, Zenon DEF Intact
  <2>4. Changed(p, q, i, x)
    BY <1>3, <2>1, <2>2, <2>3, UpdateChanges, Zenon
  <2>5. AbortRecord(w, h) = HeapUndoUpdate(h, r, w.tuple)
    BY <1>6 DEF AbortRecord
  <2>6. HeapUndoUpdate(h, r, w.tuple) = WithChain(h, Put(h.chain, r[1], q))
    BY <1>3, <2>2, Zenon DEF HeapUndoUpdate, Intact, WithChain, Put
  <2> HIDE DEF q, x
  <2> QED BY <1>1, <1>3, <2>1, <2>4, <2>5, <2>6, ReplayChanges, Zenon
<1> QED BY <1>2, <1>4, <1>5, <1>6

\* The transaction's record.
LEMMA TxnFacts ==
  ASSUME HeapInv, txn # NoTxn
  PROVE  /\ txn.write_set \in Seq(WriteRecord) /\ Len(txn.write_set) \in Nat
         /\ DOMAIN txn.write_set = 1 .. Len(txn.write_set)
         /\ txn \in [state : {"GROWING", "ABORTED"}, heeds : BOOLEAN, write_set : Seq(WriteRecord)]
<1>1. txn \in [state : {"GROWING", "ABORTED"}, heeds : BOOLEAN, write_set : Seq(WriteRecord)]
  BY DEF HeapInv, Txns
<1>2. txn.write_set \in Seq(WriteRecord)
  BY <1>1
<1> QED BY <1>1, <1>2

LEMMA HeapIntact == ASSUME HeapInv PROVE Intact(Heap, View(chain))
BY DEF HeapInv, Intact, Heap, Sound

\* An abort gives back the rows from before the transaction, without a failed assert.
LEMMA UndoneShows ==
  ASSUME HeapInv, txn # NoTxn, txn.heeds
  PROVE  \E v \in [Rid -> Cells] : /\ Intact(Undone[Len(txn.write_set)], v)
                                   /\ \A r \in Rid : before[r] = RowOf(v[r])
<1> DEFINE ws == txn.write_set
           n == Len(ws)
<1>1. ws \in Seq(WriteRecord) /\ n \in Nat /\ DOMAIN ws = 1 .. n
  BY TxnFacts
<1>2. PICK U : Leads(U, ws, View(chain), before)
  BY DEF HeapInv, History
<1>3. /\ U \in [0 .. n -> [Rid -> Cells]] /\ U[n] = View(chain)
      /\ \A r \in Rid : before[r] = RowOf(U[0][r])
      /\ \A j \in 1 .. n : Undoes(ws[j], U[j], U[j - 1])
  BY <1>2 DEF Leads
<1>4. \A j \in 1 .. n : ws[j] \in WriteRecord
  BY <1>1
<1>5. \A m : Record(m) = ws[n - m + 1]
  BY DEF Record
<1> HIDE DEF ws, n
<1> DEFINE T == {m \in Nat : m <= n /\ ~Intact(Undone[m], U[n - m])}
<1>6. T = {}
  <2> SUFFICES ASSUME T # {} PROVE FALSE
    OBVIOUS
  <2>1. PICK m \in T : \A l \in T : m <= l
    BY Least, Zenon
  <2>2. CASE m = 0
    <3>1. n - m = n
      BY <1>1, <2>2
    <3>2. Intact(Undone[m], U[n - m])
      BY <1>3, <2>2, <3>1, ReplayDef, HeapIntact, Zenon
    <3> QED BY <2>1, <3>2
  <2>3. CASE m # 0
    <3> DEFINE l == m - 1
               j == n - m + 1
    <3>1. l \in Nat /\ l + 1 = m /\ l \notin T /\ l <= n /\ j \in 1 .. n /\ n - l = j /\ j - 1 = n - m
      BY <1>1, <2>1, <2>3
    <3>2. Intact(Undone[l], U[j])
      BY <3>1
    <3>3. Undoes(ws[j], U[j], U[j - 1]) /\ ws[j] \in WriteRecord
      BY <1>3, <1>4, <3>1
    <3>4. Undone[l + 1] = AbortRecord(Record(l + 1), Undone[l])
      BY <3>1, ReplayDef
    <3>5. Undone[m] = AbortRecord(ws[j], Undone[l])
      BY <1>5, <3>1, <3>4
    <3>6. Intact(Undone[m], U[j - 1])
      BY <3>2, <3>3, <3>5, UndoStep
    <3> QED BY <2>1, <3>1, <3>6
  <2> QED BY <2>2, <2>3
<1>7. Intact(Undone[n], U[0])
  <2>1. n \notin T /\ n - n = 0
    BY <1>1, <1>6
  <2> QED BY <1>1, <2>1
<1>8. U[0] \in [Rid -> Cells]
  BY <1>1, <1>3
<1> QED BY <1>3, <1>7, <1>8 DEF ws, n

\* The view of the heap when m records are committed.
Deleted(m, r) ==
  \E j \in DOMAIN txn.write_set :
    /\ j >= Len(txn.write_set) - m + 1
    /\ txn.write_set[j].wtype = "DELETE" /\ txn.write_set[j].rid = r
CommitView(m) == [r \in Rid |-> IF Deleted(m, r) THEN Free ELSE View(chain)[r]]

\* A record is committed.
LEMMA CommitStep ==
  ASSUME HeapInv, txn # NoTxn, NEW l \in Nat, l + 1 <= Len(txn.write_set),
         NEW h, Intact(h, CommitView(l))
  PROVE  Intact(CommitRecord(Record(l + 1), h), CommitView(l + 1))
<1> DEFINE ws == txn.write_set
           n == Len(ws)
           j == n - l
           w == ws[j]
           r == w.rid
<1>1. ws \in Seq(WriteRecord) /\ n \in Nat /\ DOMAIN ws = 1 .. n
  BY TxnFacts
<1>2. j \in 1 .. n /\ n - (l + 1) + 1 = j /\ n - l + 1 = j + 1 /\ j \in Nat
  BY <1>1
<1>3. Record(l + 1) = w /\ w \in WriteRecord
  BY <1>1, <1>2 DEF Record
<1>4. r \in Rid /\ w.wtype \in {"INSERT", "DELETE", "UPDATE"}
  BY <1>3 DEF WriteRecord
<1>5. \A s : Deleted(l + 1, s) <=> Deleted(l, s) \/ (w.wtype = "DELETE" /\ r = s)
  <2>1. \A i \in 1 .. n : i >= j <=> i >= j + 1 \/ i = j
    BY <1>2
  <2>2. \A s : Deleted(l + 1, s) <=> \E i \in 1 .. n : i >= j /\ ws[i].wtype = "DELETE" /\ ws[i].rid = s
    BY <1>1, <1>2, Zenon DEF Deleted
  <2>3. \A s : Deleted(l, s) <=> \E i \in 1 .. n : i >= j + 1 /\ ws[i].wtype = "DELETE" /\ ws[i].rid = s
    BY <1>1, <1>2 DEF Deleted
  <2>4. \A s : (\E i \in 1 .. n : i >= j /\ ws[i].wtype = "DELETE" /\ ws[i].rid = s)
               <=> \/ \E i \in 1 .. n : i >= j + 1 /\ ws[i].wtype = "DELETE" /\ ws[i].rid = s
                   \/ w.wtype = "DELETE" /\ r = s
    <3> HIDE DEF ws, n, j
    <3> QED BY <1>2, <2>1, Zenon
  <2> QED BY <2>2, <2>3, <2>4, Zenon
<1>6. CASE w.wtype # "DELETE"
  <2>1. CommitRecord(w, h) = h
    BY <1>6 DEF CommitRecord
  <2>2. CommitView(l + 1) = CommitView(l)
    BY <1>5, <1>6 DEF CommitView
  <2> QED BY <1>3, <2>1, <2>2
<1>7. CASE w.wtype = "DELETE"
  <2>1. View(chain)[r][1] = "marked" /\ \A i \in 1 .. n : ws[i].wtype = "DELETE" /\ ws[i].rid = r => i = j
    BY <1>1, <1>2, <1>7, Zenon DEF HeapInv, MarksLogged
  <2>2. ~Deleted(l, r)
    BY <1>1, <1>2, <2>1 DEF Deleted
  <2>3. CommitView(l)[r][1] # "free"
    BY <1>4, <2>1, <2>2, Zenon DEF CommitView
  <2>4. Intact(HeapApplyDelete(h, r), Put(CommitView(l), r, Free))
    BY <1>4, <2>3, HeapApplyChanges, Zenon
  <2>5. Put(CommitView(l), r, Free) = CommitView(l + 1)
    <3>1. Put(CommitView(l), r, Free) = [s \in Rid |-> IF s = r THEN Free ELSE CommitView(l)[s]]
      BY Zenon DEF Put, CommitView
    <3>2. \A s \in Rid : (IF s = r THEN Free ELSE CommitView(l)[s])
                         = IF Deleted(l + 1, s) THEN Free ELSE View(chain)[s]
      BY <1>5, <1>7 DEF CommitView
    <3> QED BY <3>1, <3>2, Zenon DEF CommitView
  <2>6. CommitRecord(w, h) = HeapApplyDelete(h, r)
    BY <1>7 DEF CommitRecord
  <2> QED BY <1>3, <2>4, <2>5, <2>6
<1> QED BY <1>6, <1>7

\* A commit keeps all rows, without a failed assert.
LEMMA CommittedShows ==
  ASSUME HeapInv, txn # NoTxn
  PROVE  \E v \in [Rid -> Cells] : /\ Intact(Committed[Len(txn.write_set)], v)
                                   /\ \A r \in Rid : RowOf(View(chain)[r]) = RowOf(v[r])
<1> DEFINE n == Len(txn.write_set)
           T == {m \in Nat : m <= n /\ ~Intact(Committed[m], CommitView(m))}
<1>1. n \in Nat /\ DOMAIN txn.write_set = 1 .. n
  BY TxnFacts
<1>2. T = {}
  <2> SUFFICES ASSUME T # {} PROVE FALSE
    OBVIOUS
  <2>1. PICK m \in T : \A l \in T : m <= l
    BY Least, Zenon
  <2>2. CASE m = 0
    <3>1. \A r : ~Deleted(0, r)
      BY <1>1 DEF Deleted
    <3>2. CommitView(0) = View(chain)
      BY <3>1 DEF CommitView, View
    <3> QED BY <2>1, <2>2, <3>2, ReplayDef, HeapIntact, Zenon
  <2>3. CASE m # 0
    <3> DEFINE l == m - 1
    <3>1. l \in Nat /\ l + 1 = m /\ l \notin T /\ l <= n /\ l + 1 <= n
      BY <1>1, <2>1, <2>3
    <3>2. Intact(Committed[l], CommitView(l))
      BY <3>1
    <3>3. Committed[l + 1] = CommitRecord(Record(l + 1), Committed[l])
      BY <3>1, ReplayDef
    <3>4. Intact(Committed[l + 1], CommitView(l + 1))
      BY <3>1, <3>2, <3>3, CommitStep
    <3> QED BY <2>1, <3>1, <3>4
  <2> QED BY <2>2, <2>3
<1>3. Intact(Committed[n], CommitView(n))
  <2>1. n \notin T
    BY <1>2
  <2> QED BY <1>1, <2>1
<1>4. CommitView(n) \in [Rid -> Cells]
  BY DEF CommitView, HeapInv, Cells
<1>5. ASSUME NEW r \in Rid PROVE RowOf(View(chain)[r]) = RowOf(CommitView(n)[r])
  <2>1. Deleted(n, r) => View(chain)[r][1] = "marked"
    BY Zenon DEF Deleted, HeapInv, MarksLogged
  <2> QED BY <2>1 DEF CommitView, RowOf, Free
<1> QED BY <1>3, <1>4, <1>5
------------------------------------------------------------------------------
WithRecord(w) == [txn EXCEPT !.write_set = Append(txn.write_set, w)]

\* A call that puts x in r, and logs it.  Only an update in a transaction that
\* cannot abort is not logged.
Writes(r, x) ==
  /\ txn # NoTxn /\ r \in Rid /\ x \in Cells /\ x[1] # "free"
  /\ View(chain)[r][1] # "marked" /\ (View(chain)[r][1] = "free" => x[1] = "there")
  /\ Sound(chain') /\ View(chain') = Put(View(chain), r, x)
  /\ unseen' \subseteq unseen /\ (x[1] = "marked" => r \notin unseen')
  /\ UNCHANGED <<crashed, before, cursor>>
  /\ \/ txn' = txn /\ ~txn.heeds /\ x[1] # "marked"
     \/ \E w \in WriteRecord : /\ txn' = WithRecord(w)
                               /\ w.rid = r /\ (w.wtype = "DELETE" <=> x[1] = "marked")
                               /\ txn.heeds => Undoes(w, Put(View(chain), r, x), View(chain))

\* A row is written that is not marked.
LEMMA MarksKept ==
  ASSUME NEW ws \in Seq(WriteRecord), NEW v \in [Rid -> Cells], MarksLogged(ws, v),
         NEW r \in Rid, NEW x \in Cells, v[r][1] # "marked"
  PROVE  MarksLogged(ws, Put(v, r, x))
<1>1. \A s \in Rid : s # r => Put(v, r, x)[s] = v[s]
  BY DEF Put
<1>2. \A j \in DOMAIN ws : ws[j].rid \in Rid
  <2>1. \A j \in DOMAIN ws : ws[j] \in WriteRecord
    OBVIOUS
  <2>2. \A w \in WriteRecord : w.rid \in Rid
    BY DEF WriteRecord
  <2> QED BY <2>1, <2>2
<1>3. \A j \in DOMAIN ws : ws[j].wtype = "DELETE" => v[ws[j].rid][1] = "marked"
  BY DEF MarksLogged
<1>4. \A j \in DOMAIN ws : ws[j].wtype = "DELETE" => Put(v, r, x)[ws[j].rid] = v[ws[j].rid]
  BY <1>1, <1>2, <1>3
<1> QED BY <1>3, <1>4 DEF MarksLogged

LEMMA MarksAppended ==
  ASSUME NEW ws \in Seq(WriteRecord), NEW v \in [Rid -> Cells], MarksLogged(ws, v),
         NEW w \in WriteRecord, NEW x \in Cells, v[w.rid][1] # "marked",
         w.wtype = "DELETE" <=> x[1] = "marked"
  PROVE  MarksLogged(Append(ws, w), Put(v, w.rid, x))
<1> DEFINE new == Append(ws, w)
           n == Len(ws)
           u == Put(v, w.rid, x)
<1>1. n \in Nat /\ DOMAIN ws = 1 .. n /\ DOMAIN new = 1 .. n + 1 /\ new[n + 1] = w
      /\ \A j \in 1 .. n : new[j] = ws[j]
  OBVIOUS
<1>2. w.rid \in Rid
  BY DEF WriteRecord
<1>3. MarksLogged(ws, u) /\ u[w.rid] = x
  BY <1>2, MarksKept, Zenon DEF Put
<1>4. \A j \in 1 .. n : ws[j].wtype = "DELETE" => ws[j].rid # w.rid
  BY <1>1 DEF MarksLogged
<1>5. \A j \in 1 .. n + 1 : j \in 1 .. n \/ j = n + 1
  BY <1>1
<1>6. \A j \in 1 .. n : ws[j].wtype = "DELETE" =>
        /\ u[ws[j].rid][1] = "marked"
        /\ \A l \in 1 .. n : ws[l].wtype = "DELETE" /\ ws[l].rid = ws[j].rid => l = j
  BY <1>1, <1>3, Zenon DEF MarksLogged
<1> HIDE DEF new, n, u
<1>7. ASSUME NEW j \in 1 .. n + 1, new[j].wtype = "DELETE"
      PROVE  /\ u[new[j].rid][1] = "marked"
             /\ \A l \in 1 .. n + 1 : new[l].wtype = "DELETE" /\ new[l].rid = new[j].rid => l = j
  <2>1. CASE j = n + 1
    <3>1. u[new[j].rid][1] = "marked"
      BY <1>1, <1>3, <1>7, <2>1
    <3>2. \A l \in 1 .. n : new[l].wtype = "DELETE" => new[l].rid # new[j].rid
      BY <1>1, <1>4, <2>1
    <3> QED BY <1>5, <2>1, <3>1, <3>2
  <2>2. CASE j \in 1 .. n
    <3>1. ws[j] = new[j] /\ ws[j].wtype = "DELETE" /\ ws[j].rid # w.rid
      BY <1>1, <1>4, <1>7, <2>2
    <3>2. u[new[j].rid][1] = "marked"
      BY <1>6, <2>2, <3>1, Zenon
    <3>3. \A l \in 1 .. n : new[l].wtype = "DELETE" /\ new[l].rid = new[j].rid => l = j
      BY <1>1, <1>6, <2>2, <3>1, Zenon
    <3> QED BY <1>1, <1>5, <3>1, <3>2, <3>3
  <2> QED BY <1>5, <2>1, <2>2, Zenon
<1>8. MarksLogged(new, u)
  BY <1>1, <1>7 DEF MarksLogged
<1> QED BY <1>8 DEF new, u

\* One more record leads back to the rows from before.
LEMMA HistoryAppended ==
  ASSUME NEW ws \in Seq(WriteRecord), NEW v \in [Rid -> Cells], NEW bef, History(ws, v, bef),
         NEW w \in WriteRecord, NEW u \in [Rid -> Cells], Undoes(w, u, v)
  PROVE  History(Append(ws, w), u, bef)
<1> DEFINE new == Append(ws, w)
           n == Len(ws)
<1>1. n \in Nat /\ Len(new) = n + 1 /\ new[n + 1] = w /\ \A j \in 1 .. n : new[j] = ws[j]
  OBVIOUS
<1>2. PICK U : Leads(U, ws, v, bef)
  BY DEF History
<1>3. /\ U \in [0 .. n -> [Rid -> Cells]] /\ U[n] = v
      /\ \A r \in Rid : bef[r] = RowOf(U[0][r])
      /\ \A j \in 1 .. n : Undoes(ws[j], U[j], U[j - 1])
  BY <1>2 DEF Leads
<1> HIDE DEF new, n
<1> DEFINE W == [j \in 0 .. n + 1 |-> IF j = n + 1 THEN u ELSE U[j]]
<1>4. /\ \A j \in 0 .. n + 1 : j \in 0 .. n \/ j = n + 1
      /\ \A j \in 0 .. n : j \in 0 .. n + 1 /\ j # n + 1
      /\ \A j \in 1 .. n + 1 : j \in 1 .. n \/ j = n + 1
      /\ \A j \in 1 .. n : j \in 0 .. n /\ j - 1 \in 0 .. n
      /\ n \in 0 .. n /\ n + 1 \in 0 .. n + 1 /\ (n + 1) - 1 = n /\ 0 \in 0 .. n
  BY <1>1
<1>5. W \in [0 .. n + 1 -> [Rid -> Cells]]
  BY <1>3, <1>4
<1>6. W[n + 1] = u /\ \A j \in 0 .. n : W[j] = U[j]
  BY <1>4
<1> HIDE DEF W
<1>7. ASSUME NEW j \in 1 .. n + 1 PROVE Undoes(new[j], W[j], W[j - 1])
  <2>1. CASE j = n + 1
    BY <1>1, <1>3, <1>4, <1>6, <2>1
  <2>2. CASE j \in 1 .. n
    <3>1. W[j] = U[j] /\ W[j - 1] = U[j - 1] /\ new[j] = ws[j]
      BY <1>1, <1>4, <1>6, <2>2
    <3> QED BY <1>3, <2>2, <3>1
  <2> QED BY <1>4, <2>1, <2>2
<1>8. Leads(W, new, u, bef)
  BY <1>1, <1>3, <1>4, <1>5, <1>6, <1>7 DEF Leads
<1> QED BY <1>8, Zenon DEF History, new

\* Every write keeps the invariant.
LEMMA WritesKeep ==
  ASSUME HeapInv, NEW r, NEW x, Writes(r, x)
  PROVE  HeapInv'
<1> DEFINE v == View(chain)
           u == Put(v, r, x)
<1>1. /\ txn # NoTxn /\ r \in Rid /\ x \in Cells /\ x[1] # "free" /\ v[r][1] # "marked"
      /\ Sound(chain') /\ View(chain') = u
      /\ unseen' \subseteq unseen /\ (x[1] = "marked" => r \notin unseen')
      /\ crashed' = crashed /\ before' = before /\ cursor' = cursor
  BY DEF Writes
<1>2. /\ v \in [Rid -> Cells] /\ MarksLogged(txn.write_set, v)
      /\ txn.heeds => History(txn.write_set, v, before)
      /\ \A s \in Rid : before[s] # NoTuple => v[s][1] # "free"
      /\ cursor \in Rid \cup {End} /\ unseen \subseteq Rid
      /\ cursor # End => v[cursor][1] # "free"
      /\ cursor # End => \A s \in unseen : v[s][1] = "there" /\ After(cursor, s)
      /\ crashed = FALSE /\ before \in [Rid -> Tuple \cup {NoTuple}]
  BY <1>1 DEF HeapInv
<1>3. /\ txn.write_set \in Seq(WriteRecord)
      /\ txn \in [state : {"GROWING", "ABORTED"}, heeds : BOOLEAN, write_set : Seq(WriteRecord)]
  BY <1>1, TxnFacts
<1> HIDE DEF v
<1>4. u \in [Rid -> Cells] /\ u[r] = x /\ \A s \in Rid : s # r => u[s] = v[s]
  BY <1>1, <1>2 DEF Put
<1> HIDE DEF u
<1>5. \A s \in Rid : before[s] # NoTuple => u[s][1] # "free"
  BY <1>1, <1>2, <1>4
<1>6. cursor # End => \A s \in unseen' : u[s][1] = "there" /\ After(cursor, s)
  <2> SUFFICES ASSUME cursor # End, NEW s \in unseen' PROVE u[s][1] = "there" /\ After(cursor, s)
    OBVIOUS
  <2>1. s \in unseen /\ s \in Rid /\ v[s][1] = "there" /\ After(cursor, s)
    BY <1>1, <1>2, Zenon
  <2>2. x[1] \in {"free", "there", "marked"}
    BY <1>1 DEF Cells, Free
  <2> QED BY <1>1, <1>4, <2>1, <2>2
<1>8. cursor # End => u[cursor][1] # "free"
  BY <1>1, <1>2, <1>4
<1>7. txn' \in Txns /\ MarksLogged(txn'.write_set, u) /\ (txn'.heeds => History(txn'.write_set, u, before))
  <2>1. CASE txn' = txn /\ ~txn.heeds /\ x[1] # "marked"
    <3>1. MarksLogged(txn.write_set, u)
      BY <1>1, <1>2, <1>3, MarksKept DEF u
    <3> QED BY <1>3, <2>1, <3>1 DEF Txns
  <2>2. ASSUME NEW w \in WriteRecord, txn' = WithRecord(w), w.rid = r,
               w.wtype = "DELETE" <=> x[1] = "marked", txn.heeds => Undoes(w, u, v)
        PROVE  /\ txn' \in Txns /\ MarksLogged(txn'.write_set, u)
               /\ (txn'.heeds => History(txn'.write_set, u, before))
    <3>1. Append(txn.write_set, w) \in Seq(WriteRecord)
      BY <1>3
    <3>2. /\ txn' \in [state : {"GROWING", "ABORTED"}, heeds : BOOLEAN, write_set : Seq(WriteRecord)]
          /\ txn'.write_set = Append(txn.write_set, w) /\ txn'.heeds = txn.heeds
      BY <1>3, <2>2, <3>1, Zenon DEF WithRecord
    <3>3. MarksLogged(Append(txn.write_set, w), u)
      BY <1>1, <1>2, <1>3, <2>2, MarksAppended DEF u
    <3>4. txn.heeds => History(Append(txn.write_set, w), u, before)
      BY <1>2, <1>3, <1>4, <2>2, HistoryAppended
    <3> QED BY <3>2, <3>3, <3>4 DEF Txns
  <2> QED BY <2>1, <2>2, Zenon DEF Writes, u, v
<1> QED BY <1>1, <1>2, <1>4, <1>5, <1>6, <1>7, <1>8, Zenon DEF HeapInv

\* A call that fails.
FailedCall ==
  /\ txn # NoTxn /\ txn' = [txn EXCEPT !.state = "ABORTED"]
  /\ UNCHANGED <<chain, unseen, crashed, before, cursor>>

\* What was in r before is put back.
LEMMA PutBack ==
  ASSUME NEW v \in [Rid -> Cells], NEW r \in Rid, NEW x
  PROVE  Put(Put(v, r, x), r, v[r]) = v /\ Put(v, r, x)[r] = x
BY Zenon DEF Put

LEMMA MinIsLeast ==
  ASSUME NEW S \in SUBSET Nat, S # {}
  PROVE  Min(S) \in S /\ \A k \in S : Min(S) <= k
BY Least, Zenon DEF Min

\* A row that is written where there was none.
LEMMA InsertionWrites ==
  ASSUME HeapInv, txn # NoTxn, NEW r \in Rid, NEW t \in Tuple, View(chain)[r] = Free,
         Sound(chain'), View(chain') = Put(View(chain), r, <<"there", t>>),
         txn' = Logged(r, "INSERT", NoTuple), UNCHANGED <<unseen, crashed, before, cursor>>
  PROVE  Writes(r, <<"there", t>>)
<1> DEFINE v == View(chain)
           x == <<"there", t>>
           w == [rid |-> r, wtype |-> "INSERT", tuple |-> NoTuple]
<1>1. v \in [Rid -> Cells]
  BY DEF HeapInv
<1>2. x \in Cells /\ x[1] = "there" /\ Free[1] = "free"
  BY DEF Cells, Free
<1>3. w \in WriteRecord /\ w.rid = r /\ w.wtype = "INSERT"
  BY DEF WriteRecord
<1>4. txn' = WithRecord(w)
  BY DEF Logged, WithRecord
<1> HIDE DEF x, w
<1>5. v = Put(Put(v, r, x), r, Free) /\ Put(v, r, x)[r] = x
  BY <1>1, PutBack
<1>6. Undoes(w, Put(v, r, x), v)
  BY <1>2, <1>3, <1>5 DEF Undoes
<1>7. \E y \in WriteRecord : /\ txn' = WithRecord(y)
                             /\ y.rid = r /\ (y.wtype = "DELETE" <=> x[1] = "marked")
                             /\ txn.heeds => Undoes(y, Put(v, r, x), v)
  BY <1>2, <1>3, <1>4, <1>6
<1> QED BY <1>2, <1>7 DEF Writes, x

LEMMA InsertWrites ==
  ASSUME HeapInv, NEW t \in Tuple, HeapInsertTuple(t)
  PROVE  FailedCall \/ \E r, x : Writes(r, x)
<1>1. /\ txn # NoTxn /\ UNCHANGED <<crashed, before, cursor>>
      /\ Sound(chain) /\ chain \in Seq(Page) /\ Len(chain) \in Nat
      /\ DOMAIN chain = 1 .. Len(chain) /\ MaxPages \in Nat
  BY HeapAssumption DEF HeapInsertTuple, MayWrite, Running, HeapInv, Sound
<1>2. CASE Fails
  BY <1>1, <1>2 DEF Fails, FailedCall
<1>3. CASE Roomy(t) # {} /\ InsertOn(Min(Roomy(t)), t) /\ UNCHANGED unseen
  <2> DEFINE k == Min(Roomy(t))
             p == chain[k]
             q == InsertTuple(p, t)
             i == InsertSlot(p)
  <2>1. Roomy(t) \in SUBSET Nat
    BY <1>1 DEF Roomy
  <2>2. k \in DOMAIN chain /\ Fits(p, t)
    BY <1>3, <2>1, MinIsLeast DEF Roomy
  <2>3. Good(p)
    BY <1>1, <2>2 DEF Sound
  <2>4. Changed(p, q, i, <<"there", t>>) /\ Cell(p, i) = Free
    BY <2>2, <2>3, InsertChanges
  <2>5. chain' = Put(chain, k, q) /\ txn' = Logged(<<k, i>>, "INSERT", NoTuple)
    BY <1>3 DEF InsertOn, Put
  <2> HIDE DEF k, p, q, i
  <2>6. /\ Sound(chain') /\ <<k, i>> \in Rid
        /\ View(chain') = Put(View(chain), <<k, i>>, <<"there", t>>)
    <3>1. Sound(chain) /\ k \in DOMAIN chain /\ Changed(chain[k], q, i, <<"there", t>>)
      BY <1>1, <2>2, <2>4, Zenon DEF p
    <3>2. /\ Sound(Put(chain, k, q)) /\ <<k, i>> \in Rid
          /\ View(Put(chain, k, q)) = Put(View(chain), <<k, i>>, <<"there", t>>)
      BY <3>1, PageChanges
    <3> QED BY <2>5, <3>2
  <2>7. View(chain)[<<k, i>>] = Free
    BY <2>2, <2>4, <2>6 DEF View, p
  <2>8. Writes(<<k, i>>, <<"there", t>>)
    BY <1>1, <1>3, <2>5, <2>6, <2>7, InsertionWrites, Zenon
  <2> QED BY <2>8
<1>4. CASE ~TooLarge(t) /\ Len(chain) < MaxPages /\ InsertOnNewPage(t) /\ UNCHANGED unseen
  <2> DEFINE q == InsertTuple(NewTablePage, t)
             r == <<Len(chain) + 1, 1>>
  <2>1. Good(NewTablePage) /\ Fits(NewTablePage, t) /\ InsertSlot(NewTablePage) = 1
    <3>1. NewTablePage.free = PageSize /\ NewTablePage.slots = <<>> /\ Len(<<>>) = 0
      BY DEF NewTablePage
    <3>2. EmptySlots(NewTablePage) = {}
      BY <3>1 DEF EmptySlots
    <3>3. InsertSlot(NewTablePage) = 1
      BY <3>1, <3>2 DEF InsertSlot
    <3>4. PageSize \in Nat /\ Len(t) \in Nat
      BY PageAssumption, HeapAssumption
    <3>5. FreeSpaceSize(NewTablePage) = PageSize - 3
      BY <3>1, <3>4 DEF FreeSpaceSize, HeaderSize, SlotSize
    <3>6. Len(t) + 3 + 1 <= PageSize
      BY <1>4, <3>4 DEF TooLarge, HeaderSize, SlotSize
    <3>7. Fits(NewTablePage, t)
      BY <3>2, <3>4, <3>5, <3>6 DEF Fits, SlotSize
    <3> QED BY <3>3, <3>7, NewPageGood
  <2>2. Changed(NewTablePage, q, 1, <<"there", t>>)
    BY <2>1, InsertChanges
  <2>3. chain' = Append(chain, q) /\ txn' = Logged(r, "INSERT", NoTuple)
    BY <1>4 DEF InsertOnNewPage
  <2> HIDE DEF q
  <2>4. /\ Sound(chain') /\ r \in Rid /\ View(chain)[r] = Free
        /\ View(chain') = Put(View(chain), r, <<"there", t>>)
    BY <1>1, <1>4, <2>2, <2>3, PageAppended
  <2> HIDE DEF r
  <2>5. Writes(r, <<"there", t>>)
    BY <1>1, <1>4, <2>3, <2>4, InsertionWrites, Zenon
  <2> QED BY <2>5
<1> QED BY <1>2, <1>3, <1>4 DEF HeapInsertTuple

LEMMA DeleteWrites ==
  ASSUME HeapInv, NEW r \in Rid, HeapMarkDelete(r)
  PROVE  FailedCall \/ \E x : Writes(r, x)
<1> DEFINE v == View(chain)
           p == chain[r[1]]
           q == MarkDelete(p, r[2])
           x == <<"marked", v[r][2]>>
           w == [rid |-> r, wtype |-> "DELETE", tuple |-> NoTuple]
<1>1. /\ txn # NoTxn /\ UNCHANGED <<crashed, before, cursor>>
      /\ Sound(chain) /\ IsVisible(chain, r) /\ v \in [Rid -> Cells]
  BY DEF HeapMarkDelete, MayWrite, Running, HeapInv
<1>2. CASE Fails
  BY <1>1, <1>2 DEF Fails, FailedCall
<1>3. CASE /\ chain' = [chain EXCEPT ![r[1]] = MarkDelete(@, r[2])]
           /\ txn' = Logged(r, "DELETE", NoTuple) /\ unseen' = unseen \ {r}
  <2>1. v[r][1] = "there"
    BY <1>1, RowsOfView
  <2>2. /\ r[1] \in DOMAIN chain /\ Good(p) /\ r[2] \in Used(p) /\ r = <<r[1], r[2]>>
        /\ p.slots[r[2]].size > 0 /\ Content(p, r[2]) = v[r][2]
    BY <1>1, <2>1, UsedRid, Zenon
  <2>3. Changed(p, q, r[2], x)
    BY <2>2, FlipChanges, Zenon
  <2>4. chain' = Put(chain, r[1], q) /\ txn' = WithRecord(w)
    BY <1>3 DEF Put, Logged, WithRecord
  <2>5. v[r] = <<"there", v[r][2]>> /\ v[r][2] \in Tuple
    BY <1>1, <2>1 DEF Cells, Free
  <2>6. x \in Cells /\ x[1] = "marked" /\ x[2] = v[r][2]
    BY <2>5 DEF Cells
  <2>7. w \in WriteRecord /\ w.rid = r /\ w.wtype = "DELETE"
    BY DEF WriteRecord
  <2> HIDE DEF q, x, w
  <2>8. Sound(chain') /\ View(chain') = Put(v, r, x)
    <3>1. Sound(Put(chain, r[1], q)) /\ View(Put(chain, r[1], q)) = Put(v, <<r[1], r[2]>>, x)
      BY <1>1, <2>2, <2>3, PageChanges
    <3> QED BY <2>2, <2>4, <3>1
  <2> HIDE DEF v, p
  <2>9. Put(Put(v, r, x), r, v[r]) = v /\ Put(v, r, x)[r] = x
    BY <1>1, PutBack
  <2>10. Undoes(w, Put(v, r, x), v)
    BY <2>5, <2>6, <2>7, <2>9 DEF Undoes
  <2>11. \E y \in WriteRecord : /\ txn' = WithRecord(y)
                                /\ y.rid = r /\ (y.wtype = "DELETE" <=> x[1] = "marked")
                                /\ txn.heeds => Undoes(y, Put(v, r, x), v)
    BY <2>4, <2>6, <2>7, <2>10
  <2>12. unseen' \subseteq unseen /\ r \notin unseen'
    BY <1>3
  <2> QED BY <1>1, <2>1, <2>6, <2>8, <2>11, <2>12 DEF Writes, v
<1> QED BY <1>2, <1>3 DEF HeapMarkDelete

\* No tuple of a page is marked.
LEMMA NoneMarked ==
  ASSUME NEW ch, Sound(ch), NEW k, Marked(ch[k]) = {}
  PROVE  \A s \in Rid : s[1] = k => View(ch)[s][1] # "marked"
<1> SUFFICES ASSUME NEW s \in Rid, s[1] = k, View(ch)[s][1] = "marked" PROVE FALSE
  OBVIOUS
<1>1. s[2] \in Used(ch[k]) /\ ch[k].slots[s[2]].size < 0
  BY UsedRid, Zenon
<1> QED BY <1>1, Zenon DEF Used, Marked

LEMMA UpdateWrites ==
  ASSUME HeapInv, NEW r \in Rid, NEW t \in Tuple, HeapUpdateTuple(r, t)
  PROVE  FailedCall \/ UNCHANGED vars \/ Writes(r, <<"there", t>>)
<1> DEFINE v == View(chain)
           p == chain[r[1]]
           q == UpdateTuple(p, r[2], t)
           x == <<"there", t>>
           old == GetTuple(p, r[2])
           w == [rid |-> r, wtype |-> "UPDATE", tuple |-> old]
<1>1. /\ txn # NoTxn /\ UNCHANGED <<next_txn_id, before, cursor>> /\ (txn.heeds => txn.state = "GROWING")
      /\ Sound(chain) /\ IsVisible(chain, r) /\ v \in [Rid -> Cells] /\ MayUpdate(r, t)
  BY DEF HeapUpdateTuple, MayWrite, Running, HeapInv
<1>2. v[r][1] = "there"
  BY <1>1, RowsOfView
<1>3. /\ r[1] \in DOMAIN chain /\ Good(p) /\ p \in Page /\ r[2] \in Used(p) /\ r = <<r[1], r[2]>>
      /\ p.slots[r[2]].size \in Int
      /\ p.slots[r[2]].size > 0 /\ Content(p, r[2]) = v[r][2] /\ OffsetIsValid(p, r[2])
  BY <1>1, <1>2, UsedRid, Zenon DEF Good
<1>4. CASE Fails /\ UNCHANGED crashed
  BY <1>1, <1>4 DEF Fails, FailedCall
<1>5. CASE UNCHANGED <<chain, txn, crashed, unseen>>
  BY <1>1, <1>5 DEF vars
<1>6. CASE /\ CanUpdate(p, r[2], t) /\ chain' = [chain EXCEPT ![r[1]] = q]
           /\ txn' = IF txn.state = "ABORTED" THEN txn ELSE Logged(r, "UPDATE", old)
           /\ UNCHANGED <<crashed, unseen>>
  <2>1. \A s \in Rid : s[1] = r[1] => v[s][1] # "marked"
    BY <1>1, NoneMarked, Zenon DEF MayUpdate
  <2>2. \A j \in Nat : Cell(p, j)[1] # "marked"
    BY <1>1, <1>3, <2>1, SamePage
  <2>3. Changed(p, q, r[2], x)
    BY <1>3, <1>6, <2>2, UpdateChanges, Zenon
  <2>4. chain' = Put(chain, r[1], q)
    BY <1>6 DEF Put
  <2>5. v[r] = <<"there", v[r][2]>> /\ v[r][2] \in Tuple /\ old = v[r][2]
    <3>1. v[r] = <<"there", v[r][2]>> /\ v[r][2] \in Tuple
      BY <1>1, <1>2 DEF Cells, Free
    <3>2. Visible(p, r[2])
      BY <1>1 DEF IsVisible
    <3>3. Cell(p, r[2]) = <<"there", old>> /\ Cell(p, r[2])[2] = Content(p, r[2])
      BY <1>3, <3>2, CellRead, Zenon
    <3> QED BY <1>3, <3>1, <3>3
  <2>6. txn.heeds => Len(old) <= Len(t)
    <3>1. Len(old) = Abs(p.slots[r[2]].size)
      BY <1>3, <2>5, ContentLength
    <3>2. Abs(p.slots[r[2]].size) = p.slots[r[2]].size
      BY <1>3 DEF Abs
    <3>3. txn.heeds => Len(t) >= p.slots[r[2]].size
      BY <1>1, Zenon DEF MayUpdate
    <3>4. Len(t) \in Nat
      BY HeapAssumption
    <3> QED BY <1>3, <3>1, <3>2, <3>3, <3>4, Zenon
  <2>7. x \in Cells /\ x[1] = "there" /\ x[2] = t
    BY DEF Cells
  <2> HIDE DEF q, x, old
  <2>8. w \in WriteRecord /\ w.rid = r /\ w.wtype = "UPDATE" /\ w.tuple = old
    BY <2>5 DEF WriteRecord
  <2>9. Sound(chain') /\ View(chain') = Put(v, r, x)
    <3>1. Sound(Put(chain, r[1], q)) /\ View(Put(chain, r[1], q)) = Put(v, <<r[1], r[2]>>, x)
      BY <1>1, <1>3, <2>3, PageChanges
    <3> QED BY <1>3, <2>4, <3>1
  <2>10. (txn' = txn /\ ~txn.heeds) \/ txn' = WithRecord(w)
    BY <1>1, <1>6 DEF Logged, WithRecord
  <2> HIDE DEF v, p, w
  <2>11. Put(Put(v, r, x), r, v[r]) = v /\ Put(v, r, x)[r] = x /\ \A s \in Rid : s # r => Put(v, r, x)[s] = v[s]
    <3>1. \A s \in Rid : s # r => Put(v, r, x)[s] = v[s]
      BY <1>1 DEF Put
    <3> QED BY <1>1, <3>1, PutBack
  <2>12. txn.heeds => Undoes(w, Put(v, r, x), v)
    <3>1. \A s \in Rid : s[1] = r[1] => Put(v, r, x)[s][1] # "marked"
      BY <2>1, <2>7, <2>11
    <3>2. v = Put(Put(v, r, x), r, <<"there", old>>)
      BY <2>5, <2>11
    <3> QED BY <2>5, <2>6, <2>7, <2>8, <2>11, <3>1, <3>2, Zenon DEF Undoes
  <2>13. \/ txn' = txn /\ ~txn.heeds /\ x[1] # "marked"
         \/ \E y \in WriteRecord : /\ txn' = WithRecord(y)
                                   /\ y.rid = r /\ (y.wtype = "DELETE" <=> x[1] = "marked")
                                   /\ txn.heeds => Undoes(y, Put(v, r, x), v)
    BY <2>7, <2>8, <2>10, <2>12
  <2>14. Writes(r, x)
    BY <1>1, <1>2, <1>6, <2>7, <2>9, <2>13, Zenon DEF Writes, v
  <2> QED BY <2>14 DEF x
<1> QED BY <1>3, <1>4, <1>5, <1>6, Zenon DEF HeapUpdateTuple

LEMMA FailureKeeps == ASSUME HeapInv, FailedCall PROVE HeapInv'
<1>1. txn \in [state : {"GROWING", "ABORTED"}, heeds : BOOLEAN, write_set : Seq(WriteRecord)]
  BY TxnFacts DEF FailedCall
<1>2. txn' \in Txns /\ txn'.heeds = txn.heeds /\ txn'.write_set = txn.write_set /\ txn # NoTxn
  BY <1>1 DEF FailedCall, Txns
<1>3. UNCHANGED <<chain, unseen, crashed, before, cursor>>
  BY DEF FailedCall
<1> QED BY <1>2, <1>3 DEF HeapInv

LEMMA BeginKeeps ==
  ASSUME HeapInv, NEW heeds \in BOOLEAN, Begin(heeds)
  PROVE  HeapInv'
<1> DEFINE v == View(chain)
<1>1. /\ v \in [Rid -> Cells] /\ Sound(chain) /\ chain' = chain
      /\ txn' = [state |-> "GROWING", heeds |-> heeds, write_set |-> <<>>]
      /\ before' = Rows(chain) /\ UNCHANGED <<crashed, cursor, unseen>>
  BY DEF HeapInv, Begin
<1>2. txn' \in Txns /\ txn'.write_set = <<>> /\ Len(<<>>) = 0 /\ DOMAIN <<>> = {}
  <2>1. <<>> \in Seq(WriteRecord) /\ Len(<<>>) = 0 /\ DOMAIN <<>> = {}
    OBVIOUS
  <2>2. txn'.write_set = <<>>
    BY <1>1, Zenon
  <2>3. txn' \in [state : {"GROWING", "ABORTED"}, heeds : BOOLEAN, write_set : Seq(WriteRecord)]
    BY <1>1, <2>1, Zenon
  <2> QED BY <2>1, <2>2, <2>3, Zenon DEF Txns
<1>3. \A r \in Rid : before'[r] = RowOf(v[r]) /\ before' = [s \in Rid |-> RowOf(v[s])]
  BY <1>1, RowsOfView
<1> HIDE DEF v
<1>4. \A c \in Cells : RowOf(c) \in Tuple \cup {NoTuple} /\ (RowOf(c) # NoTuple => c[1] # "free")
  BY DEF Cells, RowOf, Free
<1>5. \A r \in Rid : v[r] \in Cells
  BY <1>1
<1>6. before' \in [Rid -> Tuple \cup {NoTuple}] /\ \A r \in Rid : before'[r] # NoTuple => v[r][1] # "free"
  <2>1. before' = [s \in Rid |-> RowOf(v[s])]
    BY <1>1, RowsOfView DEF v
  <2> QED BY <1>3, <1>4, <1>5, <2>1
<1>7. History(<<>>, v, before')
  <2> DEFINE U == [j \in 0 .. 0 |-> v]
  <2>1. U \in [0 .. 0 -> [Rid -> Cells]] /\ U[0] = v
    BY <1>1
  <2>2. Leads(U, <<>>, v, before')
    BY <1>2, <1>3, <2>1 DEF Leads
  <2> QED BY <2>2 DEF History
<1>8. MarksLogged(<<>>, v)
  BY <1>2 DEF MarksLogged
<1>9. View(chain') = v
  BY <1>1 DEF v
<1> QED BY <1>1, <1>2, <1>6, <1>7, <1>8, <1>9 DEF HeapInv, v

\* The end of a transaction, when no assert has failed in the replay.
LEMMA EndKeeps ==
  ASSUME HeapInv, NEW h, NEW v \in [Rid -> Cells], Intact(h, v), EndAs(h)
  PROVE  HeapInv' /\ chain' = h.chain /\ txn' = NoTxn
<1>1. /\ h.ok /\ Sound(h.chain) /\ View(h.chain) = v
  BY DEF Intact
<1>2. /\ chain' = h.chain /\ txn' = NoTxn /\ cursor' = End /\ unseen' = {}
      /\ UNCHANGED <<crashed, before>>
  BY <1>1 DEF EndAs
<1>3. NoTxn.write_set = <<>> /\ NoTxn.heeds = FALSE /\ NoTxn \in Txns /\ DOMAIN <<>> = {}
  BY DEF NoTxn, Txns
<1>4. MarksLogged(<<>>, v)
  BY <1>3 DEF MarksLogged
<1> QED BY <1>1, <1>2, <1>3, <1>4 DEF HeapInv

LEMMA CommitKeeps ==
  ASSUME HeapInv, Commit
  PROVE  HeapInv' /\ txn # NoTxn /\ txn' = NoTxn /\ Rows(chain') = Rows(chain) /\ UNCHANGED before
<1> DEFINE h == Committed[Len(txn.write_set)]
<1>1. txn # NoTxn /\ EndAs(h) /\ UNCHANGED before
  BY DEF Commit, Running, EndAs
<1>2. PICK v \in [Rid -> Cells] : Intact(h, v) /\ \A r \in Rid : RowOf(View(chain)[r]) = RowOf(v[r])
  BY <1>1, CommittedShows
<1> HIDE DEF h
<1>3. HeapInv' /\ chain' = h.chain /\ txn' = NoTxn
  BY <1>1, <1>2, EndKeeps
<1>4. Sound(chain) /\ Sound(h.chain) /\ View(h.chain) = v
  BY <1>2 DEF Intact, HeapInv
<1>5. Rows(h.chain) = [r \in Rid |-> RowOf(v[r])] /\ Rows(chain) = [r \in Rid |-> RowOf(View(chain)[r])]
  BY <1>4, RowsOfView
<1>6. Rows(h.chain) = Rows(chain)
  BY <1>2, <1>5
<1> QED BY <1>1, <1>3, <1>6

LEMMA AbortKeeps ==
  ASSUME HeapInv, Abort
  PROVE  HeapInv' /\ txn # NoTxn /\ txn' = NoTxn /\ Rows(chain') = before /\ UNCHANGED before
<1> DEFINE h == Undone[Len(txn.write_set)]
<1>1. txn # NoTxn /\ txn.heeds /\ EndAs(h) /\ UNCHANGED before
  BY DEF Abort, Running, EndAs
<1>2. PICK v \in [Rid -> Cells] : Intact(h, v) /\ \A r \in Rid : before[r] = RowOf(v[r])
  BY <1>1, UndoneShows
<1> HIDE DEF h
<1>3. HeapInv' /\ chain' = h.chain /\ txn' = NoTxn
  BY <1>1, <1>2, EndKeeps
<1>4. Sound(h.chain) /\ View(h.chain) = v
  BY <1>2 DEF Intact
<1>5. Rows(h.chain) = [r \in Rid |-> RowOf(v[r])] /\ before = [r \in Rid |-> before[r]]
  BY <1>4, RowsOfView DEF HeapInv
<1>6. Rows(h.chain) = before
  BY <1>2, <1>5
<1> QED BY <1>1, <1>3, <1>6
------------------------------------------------------------------------------
\* What the iterator looks for on a page.
LEMMA ScanSees ==
  ASSUME Sound(chain), NEW k \in DOMAIN chain, NEW i \in Nat
  PROVE  /\ VisibleFrom(k, i) \in SUBSET Nat
         /\ \A j \in VisibleFrom(k, i) : /\ j >= i /\ <<k, j>> \in Rid
                                         /\ View(chain)[<<k, j>>][1] = "there"
         /\ \A r \in Rid : r[1] = k /\ r[2] >= i /\ View(chain)[r][1] = "there"
                           => r[2] \in VisibleFrom(k, i)
<1>1. /\ chain[k] \in Page /\ Good(chain[k]) /\ k \in 1 .. MaxPages
      /\ DOMAIN chain[k].slots = 1 .. Len(chain[k].slots) /\ Len(chain[k].slots) \in Nat
      /\ Len(chain[k].slots) <= MaxSlots
  <2>1. chain[k] \in Page /\ Good(chain[k]) /\ Len(chain[k].slots) <= MaxSlots
    BY DEF Sound, Good
  <2>2. k \in 1 .. MaxPages
    BY HeapAssumption DEF Sound
  <2> QED BY <2>1, <2>2, PageFacts
<1>2. MaxSlots \in Int
  BY PageAssumption DEF MaxSlots, HeaderSize, SlotSize
<1>3. ASSUME NEW j \in VisibleFrom(k, i)
      PROVE  j \in Nat /\ j >= i /\ <<k, j>> \in Rid /\ View(chain)[<<k, j>>][1] = "there"
  <2>1. j \in DOMAIN chain[k].slots /\ j >= i /\ Visible(chain[k], j)
    BY DEF VisibleFrom
  <2>2. j \in Nat /\ <<k, j>> \in Rid /\ <<k, j>>[1] = k /\ <<k, j>>[2] = j
    BY <1>1, <1>2, <2>1 DEF Rid
  <2>3. View(chain)[<<k, j>>] = Cell(chain[k], j)
    BY <2>2 DEF View
  <2> QED BY <1>1, <2>1, <2>2, <2>3, CellRead
<1>4. ASSUME NEW r \in Rid, r[1] = k, r[2] >= i, View(chain)[r][1] = "there"
      PROVE  r[2] \in VisibleFrom(k, i)
  <2>1. IsVisible(chain, r)
    BY <1>4, RowsOfView
  <2> QED BY <1>4, <2>1 DEF IsVisible, Visible, VisibleFrom
<1> QED BY <1>3, <1>4, Zenon

\* The rows that are left when the iterator stands on <<k, j>>.
LEMMA StepSkipsNone ==
  ASSUME Sound(chain), NEW k \in DOMAIN chain, NEW i \in Nat, VisibleFrom(k, i) # {}
  PROVE  LET c == <<k, Min(VisibleFrom(k, i))>> IN
         /\ c \in Rid /\ View(chain)[c][1] = "there"
         /\ \A r \in Rid : /\ View(chain)[r][1] = "there" /\ r # c
                           /\ k < r[1] \/ (k = r[1] /\ i <= r[2])
                           => After(c, r)
<1> DEFINE S == VisibleFrom(k, i)
           m == Min(S)
           c == <<k, m>>
<1>1. S \in SUBSET Nat /\ m \in S /\ \A j \in S : m <= j
  BY ScanSees, MinIsLeast
<1>2. c \in Rid /\ View(chain)[c][1] = "there"
  BY <1>1, ScanSees
<1>3. ASSUME NEW r \in Rid, View(chain)[r][1] = "there", r # c, k < r[1] \/ (k = r[1] /\ i <= r[2])
      PROVE  After(c, r)
  <2>1. CASE k < r[1]
    BY <2>1 DEF After
  <2>2. CASE k = r[1] /\ i <= r[2]
    <3>1. r[2] \in Nat /\ r = <<r[1], r[2]>>
      BY DEF Rid
    <3>2. r[2] \in S
      BY <1>3, <2>2, <3>1, ScanSees
    <3>3. m <= r[2] /\ m # r[2] /\ m \in Nat
      BY <1>1, <1>3, <2>2, <3>1, <3>2
    <3>4. m < r[2]
      BY <3>1, <3>3
    <3> QED BY <2>2, <3>4 DEF After
  <2> QED BY <1>3, <2>1, <2>2
<1> QED BY <1>2, <1>3

\* Where begin() and operator++ leave the scan.
Onward ==
  /\ cursor' \in Rid \cup {End} /\ unseen' \subseteq Rid
  /\ cursor' # End => /\ View(chain)[cursor'][1] # "free"
                      /\ \A r \in unseen' : View(chain)[r][1] = "there" /\ After(cursor', r)

LEMMA ScanBegins == ASSUME HeapInv, ScanBegin PROVE Onward
<1>1. /\ Sound(chain) /\ 1 \in DOMAIN chain
      /\ unseen' = {r \in Rid : IsVisible(chain, r)} \ {cursor'}
      /\ cursor' = IF VisibleFrom(1, 1) = {} THEN End ELSE <<1, Min(VisibleFrom(1, 1))>>
  <2>1. Sound(chain)
    BY DEF HeapInv
  <2>2. 1 \in DOMAIN chain
    BY <2>1, HeapAssumption DEF Sound
  <2> QED BY <2>1, <2>2 DEF ScanBegin
<1>2. \A r \in unseen' : r \in Rid /\ View(chain)[r][1] = "there" /\ r # cursor'
  BY <1>1, RowsOfView
<1>3. \A r \in Rid : 1 < r[1] \/ (1 = r[1] /\ 1 <= r[2])
  BY DEF Rid
<1>4. CASE VisibleFrom(1, 1) = {}
  BY <1>1, <1>2, <1>4 DEF Onward
<1>5. CASE VisibleFrom(1, 1) # {}
  <2>1. /\ cursor' \in Rid /\ View(chain)[cursor'][1] = "there"
        /\ \A r \in Rid : /\ View(chain)[r][1] = "there" /\ r # cursor'
                          /\ 1 < r[1] \/ (1 = r[1] /\ 1 <= r[2])
                          => After(cursor', r)
    BY <1>1, <1>5, StepSkipsNone
  <2> QED BY <1>2, <1>3, <2>1 DEF Onward
<1> QED BY <1>4, <1>5

\* operator++ passes over no row that is still to be seen.
LEMMA ScanGoesOn == ASSUME HeapInv, ScanNext PROVE Onward /\ (cursor' = End => unseen' = {})
<1> DEFINE k == cursor[1]
           i == cursor[2] + 1
           here == VisibleFrom(k, i)
           later == LaterPages(k)
<1>1. /\ Sound(chain) /\ cursor # End /\ cursor \in Rid /\ unseen \subseteq Rid
      /\ View(chain)[cursor][1] # "free"
      /\ \A r \in unseen : View(chain)[r][1] = "there" /\ After(cursor, r)
      /\ unseen' = unseen \ {cursor'}
      /\ cursor' = IF here # {} THEN <<k, Min(here)>>
                   ELSE IF later = {} THEN End
                   ELSE <<Min(later), Min(VisibleFrom(Min(later), 1))>>
  BY Zenon DEF HeapInv, ScanNext
<1>2. k \in DOMAIN chain /\ cursor[2] \in Nat /\ i \in Nat /\ k \in Nat
  <2>1. cursor[2] \in Nat /\ cursor[1] \in Nat
    BY <1>1 DEF Rid
  <2> QED BY <1>1, <2>1, UsedRid
<1>3. End \notin Rid
  BY DEF End, Rid
<1>4. \A r \in unseen : /\ r \in Rid /\ r[1] \in Nat /\ r[2] \in Nat
                        /\ k < r[1] \/ (k = r[1] /\ i <= r[2])
  <2>1. \A r \in Rid : r[1] \in Nat /\ r[2] \in Nat
    BY DEF Rid
  <2>2. \A a, b \in Nat : a < b => a + 1 <= b
    OBVIOUS
  <2> QED BY <1>1, <1>2, <2>1, <2>2 DEF After
<1>5. CASE here # {}
  <2>1. /\ cursor' \in Rid /\ View(chain)[cursor'][1] = "there"
        /\ \A r \in Rid : /\ View(chain)[r][1] = "there" /\ r # cursor'
                          /\ k < r[1] \/ (k = r[1] /\ i <= r[2])
                          => After(cursor', r)
    BY <1>1, <1>2, <1>5, StepSkipsNone, Zenon
  <2> QED BY <1>1, <1>3, <1>4, <2>1, Zenon DEF Onward
<1>6. ASSUME here = {}, NEW r \in unseen
      PROVE  k < r[1] /\ r[1] \in later /\ r[2] >= 1
  <2>1. View(chain)[r][1] = "there" /\ r \in Rid /\ r[1] \in Nat /\ r[2] \in Nat /\ r[2] >= 1
    <3>1. \A s \in Rid : s[2] >= 1
      BY DEF Rid
    <3> QED BY <1>1, <1>4, <3>1, Zenon
  <2>2. r[1] \in DOMAIN chain
    BY <1>1, <2>1, UsedRid, Zenon
  <2>3. r[2] \in VisibleFrom(r[1], 1)
    BY <1>1, <2>1, <2>2, ScanSees, Zenon
  <2>4. ~(k = r[1] /\ i <= r[2])
    BY <1>1, <1>2, <1>6, <2>1, ScanSees, Zenon
  <2>5. k < r[1]
    BY <1>4, <2>4
  <2> QED BY <1>2, <2>1, <2>2, <2>3, <2>5 DEF LaterPages
<1>7. CASE here = {} /\ later = {}
  <2>1. unseen = {} /\ cursor' = End
    BY <1>1, <1>6, <1>7
  <2> QED BY <1>1, <2>1, Zenon DEF Onward
<1>8. CASE here = {} /\ later # {}
  <2> DEFINE l == Min(later)
  <2>1. later \in SUBSET Nat
    <3>1. chain \in Seq(Page)
      BY <1>1 DEF Sound
    <3> QED BY <3>1 DEF LaterPages
  <2>2. l \in later /\ \A j \in later : l <= j
    BY <1>8, <2>1, MinIsLeast
  <2>3. l \in DOMAIN chain /\ VisibleFrom(l, 1) # {} /\ l \in Nat
    BY <2>1, <2>2, Zenon DEF LaterPages
  <2>4. cursor' = <<l, Min(VisibleFrom(l, 1))>>
    BY <1>1, <1>8
  <2> HIDE DEF l, here, later
  <2>5. /\ cursor' \in Rid /\ View(chain)[cursor'][1] = "there"
        /\ \A r \in Rid : /\ View(chain)[r][1] = "there" /\ r # cursor'
                          /\ l < r[1] \/ (l = r[1] /\ 1 <= r[2])
                          => After(cursor', r)
    BY <1>1, <2>3, <2>4, StepSkipsNone
  <2>6. \A r \in unseen : l < r[1] \/ (l = r[1] /\ 1 <= r[2])
    <3> TAKE r \in unseen
    <3>1. l <= r[1] /\ r[2] >= 1 /\ r[1] \in Nat /\ r[2] \in Nat
      BY <1>4, <1>6, <1>8, <2>2
    <3> QED BY <2>3, <3>1
  <2> QED BY <1>1, <1>3, <1>4, <2>5, <2>6, Zenon DEF Onward
<1> QED BY <1>5, <1>7, <1>8

LEMMA OnwardKeeps ==
  ASSUME HeapInv, Onward, UNCHANGED <<chain, txn, next_txn_id, crashed, before>>
  PROVE  HeapInv'
BY DEF HeapInv, Onward
------------------------------------------------------------------------------
LEMMA InitHeapInv == Init => HeapInv /\ Rows(chain) = [r \in Rid |-> NoTuple]
<1> SUFFICES ASSUME Init PROVE HeapInv /\ Rows(chain) = [r \in Rid |-> NoTuple]
  OBVIOUS
<1>1. /\ chain = <<NewTablePage>> /\ txn = NoTxn /\ crashed = FALSE /\ before = Rows(chain)
      /\ cursor = End /\ unseen = {}
  BY DEF Init
<1>2. Good(NewTablePage) /\ NewTablePage \in Page /\ \A i : Cell(NewTablePage, i) = Free
  BY NewPageGood DEF Good
<1>3. /\ <<NewTablePage>> \in Seq(Page) /\ Len(<<NewTablePage>>) = 1
      /\ DOMAIN <<NewTablePage>> = {1} /\ <<NewTablePage>>[1] = NewTablePage
  BY <1>2
<1>4. 1 \in 1 .. MaxPages
  BY HeapAssumption
<1>5. Sound(chain)
  BY <1>1, <1>2, <1>3, <1>4 DEF Sound
<1>6. \A r \in Rid : View(chain)[r] = Free
  BY <1>1, <1>2, <1>3 DEF View
<1>7. View(chain) \in [Rid -> Cells]
  BY <1>6 DEF View, Cells
<1>8. RowOf(Free) = NoTuple
  BY DEF RowOf, Free
<1>9. Rows(chain) = [r \in Rid |-> NoTuple]
  <2>1. Rows(chain) = [r \in Rid |-> RowOf(View(chain)[r])]
    BY <1>5, RowsOfView
  <2> QED BY <1>6, <1>8, <2>1
<1>10. before \in [Rid -> Tuple \cup {NoTuple}]
  BY <1>1, <1>9
<1>11. NoTxn.write_set = <<>> /\ NoTxn.heeds = FALSE /\ NoTxn \in Txns /\ DOMAIN <<>> = {}
  BY DEF NoTxn, Txns
<1>12. MarksLogged(<<>>, View(chain))
  BY <1>11 DEF MarksLogged
<1> QED BY <1>1, <1>5, <1>7, <1>9, <1>10, <1>11, <1>12 DEF HeapInv

LEMMA NextHeapInv == HeapInv /\ [Next]_vars => HeapInv'
<1> SUFFICES ASSUME HeapInv, [Next]_vars PROVE HeapInv'
  OBVIOUS
<1>1. ASSUME NEW heeds \in BOOLEAN, Begin(heeds) PROVE HeapInv'
  BY <1>1, BeginKeeps
<1>2. ASSUME NEW t \in Tuple, HeapInsertTuple(t) PROVE HeapInv'
  BY <1>2, InsertWrites, FailureKeeps, WritesKeep
<1>3. ASSUME NEW r \in Rid, HeapMarkDelete(r) PROVE HeapInv'
  BY <1>3, DeleteWrites, FailureKeeps, WritesKeep
<1>4. CASE UNCHANGED vars
  <2>1. UNCHANGED <<chain, txn, crashed, before, cursor, unseen>>
    BY <1>4 DEF vars
  <2> QED BY <2>1 DEF HeapInv
<1>5. ASSUME NEW r \in Rid, NEW t \in Tuple, HeapUpdateTuple(r, t) PROVE HeapInv'
  BY <1>4, <1>5, UpdateWrites, FailureKeeps, WritesKeep, Zenon
<1>6. CASE Commit
  BY <1>6, CommitKeeps
<1>7. CASE Abort
  BY <1>7, AbortKeeps
<1>8. CASE ScanBegin
  BY <1>8, ScanBegins, OnwardKeeps DEF ScanBegin
<1>9. CASE ScanNext
  BY <1>9, ScanGoesOn, OnwardKeeps DEF ScanNext
<1> QED BY <1>1, <1>2, <1>3, <1>4, <1>5, <1>6, <1>7, <1>8, <1>9 DEF Next

\* The invariant is inductive: table_heap.cpp and transaction_manager.cpp keep every
\* page laid out, and the write set always leads back to the rows from before.
THEOREM HeapInductive == Spec => []HeapInv
<1>1. Init => HeapInv
  BY InitHeapInv
<1> QED BY <1>1, NextHeapInv, PTL DEF Spec

\* For any size of the pages, any tuples and any length of the chain, every page stays
\* laid out and no assert of table_page.cpp fails, through every insertion, update,
\* mark, commit and abort.
THEOREM PagesStayLaidOut == Spec => []PagesLaidOut
<1>1. HeapInv => PagesLaidOut
  <2> SUFFICES ASSUME HeapInv PROVE PagesLaidOut
    OBVIOUS
  <2>1. /\ chain \in Seq(Page) /\ Len(chain) \in 1 .. MaxPages
        /\ \A k \in DOMAIN chain : LayoutOK(chain[k])
    BY DEF HeapInv, Sound, Good
  <2>2. txn.state \in {"NONE", "GROWING", "ABORTED"} /\ txn.write_set \in Seq(WriteRecord)
    <3>1. CASE txn = NoTxn
      BY <3>1 DEF NoTxn
    <3>2. CASE txn # NoTxn
      BY <3>2, TxnFacts
    <3> QED BY <3>1, <3>2
  <2>3. \A w \in Range(txn.write_set) : w.rid \in Rid
    <3>1. \A w \in WriteRecord : w.rid \in Rid
      BY DEF WriteRecord
    <3>2. \A j \in DOMAIN txn.write_set : txn.write_set[j] \in WriteRecord
      BY <2>2
    <3> QED BY <3>1, <3>2 DEF Range
  <2>4. /\ crashed = FALSE /\ before \in [Rid -> Tuple \cup {NoTuple}]
        /\ cursor \in Rid \cup {End} /\ unseen \subseteq Rid
    BY DEF HeapInv
  <2> QED BY <2>1, <2>2, <2>3, <2>4, Zenon DEF PagesLaidOut, TypeOK
<1> QED BY <1>1, HeapInductive, PTL

\* A scan that has started at a row gives, before it ends, every row that was there all
\* the time, whatever its transaction inserts, updates and deletes meanwhile.
THEOREM ScansComplete == Spec => ScanComplete
<1>1. HeapInv /\ [Next]_vars => [ScanNext /\ cursor' = End => unseen' = {}]_vars
  BY ScanGoesOn
<1> QED BY <1>1, HeapInductive, PTL DEF Spec, ScanComplete
------------------------------------------------------------------------------
\* A write is a write of the abstract table, or changes no row.
LEMMA WritesMap ==
  ASSUME HeapInv, NEW r, NEW x, Writes(r, x)
  PROVE  [Rows_!Next]_(Rows_!vars)
<1> DEFINE v == View(chain)
           rows == Rows(chain)
<1>1. /\ txn # NoTxn /\ r \in Rid /\ x \in Cells /\ x[1] # "free" /\ v[r][1] # "marked"
      /\ Sound(chain') /\ View(chain') = Put(v, r, x) /\ before' = before
  BY DEF Writes
<1>2. Sound(chain) /\ v \in [Rid -> Cells] /\ \A s \in Rid : before[s] # NoTuple => v[s][1] # "free"
  BY <1>1 DEF HeapInv
<1>3. rows = [s \in Rid |-> RowOf(v[s])] /\ Rows(chain') = [s \in Rid |-> RowOf(View(chain')[s])]
  BY <1>1, <1>2, RowsOfView
<1> HIDE DEF v, rows
<1>4. Put(v, r, x)[r] = x /\ \A s \in Rid : s # r => Put(v, r, x)[s] = v[s]
  BY <1>1, <1>2 DEF Put
<1>5. Rows(chain') = [rows EXCEPT ![r] = RowOf(x)] /\ Rows(chain')[r] = RowOf(x)
  <2>1. Rows(chain') = [s \in Rid |-> IF s = r THEN RowOf(x) ELSE RowOf(v[s])]
    BY <1>1, <1>3, <1>4
  <2> QED BY <1>1, <1>3, <2>1
<1>6. txn' # NoTxn
  <2>1. txn.state # "NONE"
    <3>1. txn.state \in {"GROWING", "ABORTED"}
      BY <1>1, TxnFacts
    <3> QED BY <3>1
  <2>2. txn'.state = txn.state
    <3>1. txn \in [state : {"GROWING", "ABORTED"}, heeds : BOOLEAN, write_set : Seq(WriteRecord)]
      BY <1>1, TxnFacts
    <3>2. \A w : WithRecord(w).state = txn.state
      BY <3>1 DEF WithRecord
    <3> QED BY <3>2 DEF Writes
  <2> QED BY <2>1, <2>2 DEF NoTxn
<1>7. x = <<x[1], x[2]>> /\ x[1] \in {"there", "marked"} /\ x[2] \in Tuple
  BY <1>1 DEF Cells, Free
<1>8. NoTuple \notin Tuple
  BY HeapAssumption DEF NoTuple
<1>9. CASE RowOf(x) = rows[r]
  <2>1. Rows(chain') = rows
    BY <1>1, <1>3, <1>5, <1>9
  <2> QED BY <1>1, <1>6, <2>1 DEF Rows_!vars, rows
<1>10. CASE RowOf(x) # rows[r] /\ x[1] = "marked"
  <2>1. RowOf(x) = NoTuple
    BY <1>10 DEF RowOf
  <2>2. Rows_!Delete(r)
    BY <1>1, <1>5, <1>6, <1>10, <2>1 DEF Rows_!Delete, rows
  <2> QED BY <1>1, <1>5, <1>10, <2>2 DEF Rows_!Next, rows
<1>11. CASE RowOf(x) # rows[r] /\ x[1] = "there"
  <2> DEFINE t == x[2]
  <2>1. RowOf(x) = t /\ t \in Tuple /\ Rows(chain')[r] = t
    BY <1>5, <1>7, <1>11 DEF RowOf
  <2>2. CASE rows[r] # NoTuple
    <3>1. Rows_!Update(r, t)
      BY <1>1, <1>5, <1>6, <2>1, <2>2 DEF Rows_!Update, rows
    <3> QED BY <1>1, <1>5, <1>11, <2>1, <3>1 DEF Rows_!Next, rows
  <2>3. CASE rows[r] = NoTuple
    <3>1. v[r] \in Cells /\ rows[r] = RowOf(v[r])
      BY <1>1, <1>2, <1>3
    <3>2. v[r][1] = "free"
      BY <1>1, <1>8, <2>3, <3>1 DEF Cells, RowOf, Free
    <3>3. before[r] = NoTuple
      BY <1>1, <1>2, <3>2
    <3>4. Rows_!Insert(r, t)
      BY <1>1, <1>5, <1>6, <2>1, <2>3, <3>3 DEF Rows_!Insert, rows
    <3> QED BY <1>1, <1>5, <1>11, <2>1, <3>4 DEF Rows_!Next, rows
  <2> QED BY <2>2, <2>3
<1> QED BY <1>7, <1>9, <1>10, <1>11

LEMMA FailureMaps == ASSUME HeapInv, FailedCall PROVE UNCHANGED Rows_!vars
<1>1. txn \in [state : {"GROWING", "ABORTED"}, heeds : BOOLEAN, write_set : Seq(WriteRecord)]
  BY TxnFacts DEF FailedCall
<1>2. txn'.state = "ABORTED"
  BY <1>1 DEF FailedCall
<1>3. txn # NoTxn /\ txn' # NoTxn /\ chain' = chain /\ before' = before
  BY <1>2 DEF FailedCall, NoTxn
<1> QED BY <1>3 DEF Rows_!vars

\* The heap, the write set, Commit() and Abort() implement the abstract table: a
\* transaction sees its writes, a commit keeps them all, and an abort gives back every
\* row there was.
THEOREM HeapImplementsTable == Spec => ImplementsTable
<1>1. Init => Rows_!Init
  <2> SUFFICES ASSUME Init PROVE Rows_!Init
    OBVIOUS
  <2>1. Rows(chain) = [r \in Rid |-> NoTuple]
    BY InitHeapInv
  <2>2. txn = NoTxn /\ before = Rows(chain)
    BY DEF Init
  <2> QED BY <2>1, <2>2 DEF Rows_!Init
<1>2. HeapInv /\ [Next]_vars => [Rows_!Next]_(Rows_!vars)
  <2> SUFFICES ASSUME HeapInv, [Next]_vars PROVE [Rows_!Next]_(Rows_!vars)
    OBVIOUS
  <2>1. ASSUME NEW heeds \in BOOLEAN, Begin(heeds) PROVE Rows_!Begin
    <3>1. txn = NoTxn /\ txn'.state = "GROWING" /\ before' = Rows(chain) /\ chain' = chain
      BY <2>1 DEF Begin
    <3>2. txn' # NoTxn
      BY <3>1 DEF NoTxn
    <3> QED BY <3>1, <3>2 DEF Rows_!Begin
  <2>2. ASSUME NEW t \in Tuple, HeapInsertTuple(t) PROVE [Rows_!Next]_(Rows_!vars)
    BY <2>2, InsertWrites, FailureMaps, WritesMap
  <2>3. ASSUME NEW r \in Rid, HeapMarkDelete(r) PROVE [Rows_!Next]_(Rows_!vars)
    BY <2>3, DeleteWrites, FailureMaps, WritesMap
  <2>4. ASSUME UNCHANGED <<chain, txn, before>> PROVE UNCHANGED Rows_!vars
    BY <2>4 DEF Rows_!vars
  <2>5. ASSUME NEW r \in Rid, NEW t \in Tuple, HeapUpdateTuple(r, t) PROVE [Rows_!Next]_(Rows_!vars)
    <3>1. CASE UNCHANGED vars
      BY <2>4, <3>1 DEF vars
    <3> QED BY <2>5, <3>1, UpdateWrites, FailureMaps, WritesMap, Zenon
  <2>6. CASE Commit
    <3>1. txn # NoTxn /\ txn' = NoTxn /\ Rows(chain') = Rows(chain) /\ before' = before
      BY <2>6, CommitKeeps
    <3>2. Rows_!Commit
      BY <3>1 DEF Rows_!Commit
    <3> QED BY <3>2 DEF Rows_!Next
  <2>7. CASE Abort
    <3>1. txn # NoTxn /\ txn' = NoTxn /\ Rows(chain') = before /\ before' = before
      BY <2>7, AbortKeeps
    <3>2. Rows_!Abort
      BY <3>1 DEF Rows_!Abort
    <3> QED BY <3>2 DEF Rows_!Next
  <2>8. CASE ScanBegin \/ ScanNext \/ UNCHANGED vars
    <3>1. UNCHANGED <<chain, txn, before>>
      BY <2>8 DEF ScanBegin, ScanNext, vars
    <3> QED BY <2>4, <3>1
  <2>9. Rows_!Begin => Rows_!Next
    BY DEF Rows_!Next
  <2> QED BY <2>1, <2>2, <2>3, <2>5, <2>6, <2>7, <2>8, <2>9 DEF Next
<1> QED BY <1>1, <1>2, HeapInductive, PTL DEF Spec, ImplementsTable, Rows_!Spec
==============================================================================
