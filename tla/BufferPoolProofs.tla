--------------------------- MODULE BufferPoolProofs ---------------------------
(* The buffer pool's invariants hold for every pool size, every number of     *)
(* clients and of pages.  None of them is inductive alone: that a client's    *)
(* frame is not evicted needs the frame to be outside free_list_ and          *)
(* replacer_, which needs the pin counts to be right, which needs the page    *)
(* table to be injective.  IInv is their conjunction and three small facts.   *)
EXTENDS BufferPoolManager, WellFoundedInduction, FiniteSetTheorems, TLAPS

------------------------------------------------------------------------------
\* free_list_ and replacer_ are lists without duplicates: what taking an element
\* off, adding one and erasing one do to the set of their elements.

\* t is s without its k-th element: those behind it move up.
IsWithout(t, s, k) ==
  /\ Len(t) = Len(s) - 1
  /\ \A i \in 1 .. k - 1 : t[i] = s[i]
  /\ \A i \in k .. Len(s) - 1 : t[i] = s[i + 1]

\* A list without duplicates and without its k-th element.
LEMMA WithoutElement ==
  ASSUME NEW S, NEW s \in Seq(S), IsInjective(s), NEW n \in Nat, n = Len(s),
         NEW k \in 1 .. n, NEW t \in Seq(S), IsWithout(t, s, k)
  PROVE  IsInjective(t) /\ Range(t) = Range(s) \ {s[k]}
<1> DEFINE up(x) == IF x < k THEN x ELSE x + 1
<1>1. /\ DOMAIN s = 1 .. n /\ DOMAIN t = 1 .. n - 1
      /\ \A i \in 1 .. k - 1 : t[i] = s[i]
      /\ \A i \in k .. n - 1 : t[i] = s[i + 1]
  BY DEF IsWithout
<1>2. \A i \in 1 .. n - 1 : up(i) \in 1 .. n /\ up(i) # k /\ t[i] = s[up(i)]
  BY <1>1
<1>3. \A i, j \in 1 .. n - 1 : up(i) = up(j) => i = j
  OBVIOUS
<1>4. \A i \in 1 .. n : i # k => \E j \in 1 .. n - 1 : up(j) = i
  <2> TAKE i \in 1 .. n
  <2> HAVE i # k
  <2>1. CASE i < k
    <3>1. i \in 1 .. n - 1 /\ up(i) = i
      BY <2>1
    <3> QED BY <3>1
  <2>2. CASE i > k
    <3>1. i - 1 \in 1 .. n - 1 /\ up(i - 1) = i
      BY <2>2
    <3> QED BY <3>1
  <2> QED BY <2>1, <2>2
<1> HIDE DEF up
<1>5. IsInjective(t)
  <2> SUFFICES ASSUME NEW i \in 1 .. n - 1, NEW j \in 1 .. n - 1, t[i] = t[j]
               PROVE  i = j
    BY <1>1, Zenon DEF IsInjective
  <2>1. up(i) \in 1 .. n /\ up(j) \in 1 .. n /\ s[up(i)] = s[up(j)]
    BY <1>2
  <2>2. up(i) = up(j)
    BY <1>1, <2>1, Zenon DEF IsInjective
  <2> QED BY <1>3, <2>2
<1>6. \A x : x \in Range(t) => x \in Range(s) \ {s[k]}
  BY <1>1, <1>2 DEF IsInjective, Range
<1>7. ASSUME NEW x \in Range(s) \ {s[k]} PROVE x \in Range(t)
  <2>1. PICK i \in 1 .. n : x = s[i] /\ i # k
    BY <1>1 DEF Range
  <2>2. PICK j \in 1 .. n - 1 : up(j) = i
    BY <1>4, <2>1
  <2>3. j \in DOMAIN t /\ t[j] = x
    BY <1>1, <1>2, <2>1, <2>2
  <2> QED BY <2>3 DEF Range
<1> QED BY <1>5, <1>6, <1>7

\* Taking the last element off.
LEMMA OldestIsWithout ==
  ASSUME NEW S, NEW s \in Seq(S), s # <<>>
  PROVE  /\ Len(s) \in Nat /\ Len(s) \in 1 .. Len(s) /\ Oldest(s) = s[Len(s)]
         /\ WithoutOldest(s) \in Seq(S) /\ IsWithout(WithoutOldest(s), s, Len(s))
<1>1. Len(s) \in Nat \ {0}
  OBVIOUS
<1>2. WithoutOldest(s) \in Seq(S) /\ Len(WithoutOldest(s)) = Len(s) - 1
  <2>1. WithoutOldest(s) \in Seq(S) /\ DOMAIN WithoutOldest(s) = 1 .. Len(s) - 1
    BY <1>1 DEF WithoutOldest
  <2> QED BY <1>1, <2>1
<1>3. \A i \in 1 .. Len(s) - 1 : WithoutOldest(s)[i] = s[i]
  BY <1>1 DEF WithoutOldest
<1>4. \A i \in Len(s) .. Len(s) - 1 : FALSE
  BY <1>1
<1> QED BY <1>1, <1>2, <1>3, <1>4 DEF IsWithout, Oldest

LEMMA OldestOfList ==
  ASSUME NEW S, NEW s \in Seq(S), s # <<>>, IsInjective(s)
  PROVE  /\ WithoutOldest(s) \in Seq(S)
         /\ IsInjective(WithoutOldest(s))
         /\ Range(WithoutOldest(s)) = Range(s) \ {Oldest(s)}
         /\ Oldest(s) \in Range(s)
         /\ Oldest(s) \in S
<1>1. /\ Len(s) \in Nat /\ Len(s) \in 1 .. Len(s) /\ Oldest(s) = s[Len(s)]
      /\ WithoutOldest(s) \in Seq(S) /\ IsWithout(WithoutOldest(s), s, Len(s))
  BY OldestIsWithout
<1>2. /\ IsInjective(WithoutOldest(s))
      /\ Range(WithoutOldest(s)) = Range(s) \ {s[Len(s)]}
  BY <1>1, WithoutElement
<1>3. s[Len(s)] \in Range(s) /\ s[Len(s)] \in S
  BY <1>1 DEF Range
<1> QED BY <1>1, <1>2, <1>3

\* Erasing a value that is there.
LEMMA ErasedElements ==
  ASSUME NEW S, NEW s \in Seq(S), IsInjective(s),
         NEW n \in Nat, n = Len(s), NEW k \in 1 .. n, NEW v, v = s[k]
  PROVE  Erased(s, v) \in Seq(S) /\ IsWithout(Erased(s, v), s, k)
<1> DEFINE t == [j \in 1 .. n - 1 |-> s[IF j < k THEN j ELSE j + 1]]
<1>1. v \in Range(s) /\ \A j \in DOMAIN s : s[j] = v <=> j = k
  BY DEF IsInjective, Range
<1>2. (CHOOSE j \in DOMAIN s : s[j] = v) = k
  BY <1>1
<1>3. Erased(s, v) = t
  BY <1>1, <1>2 DEF Erased
<1>4. t \in Seq(S) /\ Len(t) = n - 1
  <2>1. n - 1 \in Nat /\ \A j \in 1 .. n - 1 : t[j] \in S
    OBVIOUS
  <2> QED BY <2>1
<1> QED BY <1>3, <1>4 DEF IsWithout

\* Erasing a value, which need not be there.
LEMMA EraseFromList ==
  ASSUME NEW S, NEW s \in Seq(S), NEW v, IsInjective(s)
  PROVE  /\ Erased(s, v) \in Seq(S)
         /\ IsInjective(Erased(s, v))
         /\ Range(Erased(s, v)) = Range(s) \ {v}
<1>1. CASE v \notin Range(s)
  BY <1>1 DEF Erased
<1>2. CASE v \in Range(s)
  <2>1. PICK k \in 1 .. Len(s) : v = s[k]
    BY <1>2 DEF Range
  <2>2. Len(s) \in Nat
    OBVIOUS
  <2>3. Erased(s, v) \in Seq(S) /\ IsWithout(Erased(s, v), s, k)
    BY <2>1, <2>2, ErasedElements
  <2> QED BY <2>1, <2>2, <2>3, WithoutElement
<1> QED BY <1>1, <1>2

\* Taking the first element off a list without duplicates.
LEMMA TailOfList ==
  ASSUME NEW S, NEW s \in Seq(S), s # <<>>, IsInjective(s)
  PROVE  /\ Tail(s) \in Seq(S)
         /\ IsInjective(Tail(s))
         /\ Range(Tail(s)) = Range(s) \ {Head(s)}
         /\ Head(s) \in Range(s)
         /\ Head(s) \in S
<1> DEFINE t == Tail(s)
<1>1. /\ Len(s) \in Nat \ {0}
      /\ t \in Seq(S)
      /\ DOMAIN s = 1 .. Len(s)
      /\ DOMAIN t = 1 .. Len(s) - 1
      /\ \A i \in DOMAIN t : t[i] = s[i + 1]
      /\ Head(s) = s[1]
  OBVIOUS
<1> HIDE DEF t
<1>2. IsInjective(t)
  BY <1>1 DEF IsInjective
<1>3. \A x : x \in Range(t) => x \in Range(s) \ {s[1]}
  BY <1>1 DEF IsInjective, Range
<1>4. ASSUME NEW x \in Range(s) \ {s[1]} PROVE x \in Range(t)
  <2>1. PICK i \in DOMAIN s : x = s[i]
    BY DEF Range
  <2>2. i - 1 \in DOMAIN t /\ t[i - 1] = x
    BY <1>1, <2>1
  <2> QED BY <2>2 DEF Range
<1>5. s[1] \in Range(s) /\ s[1] \in S
  BY <1>1 DEF Range
<1> QED BY <1>1, <1>2, <1>3, <1>4, <1>5 DEF t

\* Adding a new element at the end.
LEMMA AppendToList ==
  ASSUME NEW S, NEW s \in Seq(S), NEW v \in S, IsInjective(s), v \notin Range(s)
  PROVE  /\ Append(s, v) \in Seq(S)
         /\ IsInjective(Append(s, v))
         /\ Range(Append(s, v)) = Range(s) \cup {v}
<1> DEFINE t == Append(s, v)
           n == Len(s)
<1>1. /\ n \in Nat
      /\ DOMAIN s = 1 .. n
      /\ t \in Seq(S)
      /\ DOMAIN t = 1 .. n + 1
      /\ \A i \in 1 .. n : t[i] = s[i]
      /\ t[n + 1] = v
  OBVIOUS
<1> HIDE DEF t, n
<1>2. IsInjective(t)
  BY <1>1 DEF IsInjective, Range
<1>3. \A x : x \in Range(t) <=> x \in Range(s) \cup {v}
  <2>1. \A x : x \in Range(t) => x \in Range(s) \cup {v}
    BY <1>1 DEF Range
  <2>2. ASSUME NEW x \in Range(s) PROVE x \in Range(t)
    <3>1. PICK i \in DOMAIN s : x = s[i]
      BY DEF Range
    <3>2. i \in DOMAIN t /\ t[i] = x
      BY <1>1, <3>1
    <3> QED BY <3>2 DEF Range
  <2>3. v \in Range(t)
    BY <1>1 DEF Range
  <2> QED BY <2>1, <2>2, <2>3
<1> QED BY <1>1, <1>2, <1>3 DEF t

\* Adding a new element at the front.
LEMMA ConsToList ==
  ASSUME NEW S, NEW s \in Seq(S), NEW v \in S, IsInjective(s), v \notin Range(s)
  PROVE  /\ <<v>> \o s \in Seq(S)
         /\ IsInjective(<<v>> \o s)
         /\ Range(<<v>> \o s) = Range(s) \cup {v}
<1> DEFINE t == <<v>> \o s
           n == Len(s)
<1>1. /\ n \in Nat
      /\ DOMAIN s = 1 .. n
      /\ t \in Seq(S)
      /\ DOMAIN t = 1 .. n + 1
      /\ \A i \in 1 .. n : t[i + 1] = s[i]
      /\ t[1] = v
  OBVIOUS
<1> HIDE DEF t, n
<1>2. \A i \in DOMAIN t : i = 1 \/ (i - 1 \in DOMAIN s /\ t[i] = s[i - 1])
  BY <1>1
<1>3. IsInjective(t)
  BY <1>1, <1>2 DEF IsInjective, Range
<1>4. \A x : x \in Range(t) => x \in Range(s) \cup {v}
  BY <1>1, <1>2 DEF Range
<1>5. ASSUME NEW x \in Range(s) PROVE x \in Range(t)
  <2>1. PICK i \in DOMAIN s : x = s[i]
    BY DEF Range
  <2>2. i + 1 \in DOMAIN t /\ t[i + 1] = x
    BY <1>1, <2>1
  <2> QED BY <2>2 DEF Range
<1>6. v \in Range(t)
  BY <1>1 DEF Range
<1> QED BY <1>1, <1>3, <1>4, <1>5, <1>6 DEF t
------------------------------------------------------------------------------
\* Writing an allocated page keeps the disk well formed and next_page_id_.
LEMMA WritePageKeeps ==
  ASSUME NEW d \in Disk, d.size <= d.next, NEW p \in PageId, p < d.next,
         NEW data \in Data
  PROVE  /\ WritePage(d, p, data) \in Disk
         /\ WritePage(d, p, data).next = d.next
         /\ WritePage(d, p, data).size <= d.next
<1>1. CASE d.failed
  BY <1>1 DEF WritePage
<1>2. CASE ~d.failed
  <2> DEFINE size == IF p >= d.size THEN p + 1 ELSE d.size
             file == [d.file EXCEPT ![p] = data]
  <2>1. WritePage(d, p, data) = [d EXCEPT !.file = file, !.size = size]
    BY <1>2 DEF WritePage, Disk
  <2>2. file \in [PageId -> Data]
    BY DEF Disk
  <2>3. size \in 0 .. MaxPages /\ size <= d.next
    BY DiskAssumption DEF Disk, PageId
  <2> HIDE DEF size, file
  <2> QED BY <2>1, <2>2, <2>3, Zenon DEF Disk
<1> QED BY <1>1, <1>2

\* Reading a page changes nothing but the state of the stream.
LEMMA ReadPageKeeps ==
  ASSUME NEW d \in Disk, NEW p \in PageId, NEW buffer \in Data
  PROVE  /\ ReadPage(d, p, buffer).disk \in Disk
         /\ ReadPage(d, p, buffer).disk.next = d.next
         /\ ReadPage(d, p, buffer).disk.size = d.size
         /\ ReadPage(d, p, buffer).data \in Data
BY DiskAssumption, Zenon DEF Disk, ReadPage, PageId

\* Saving the content of a frame before it is reused keeps the disk well formed.
LEMMA WrittenBackKeeps ==
  ASSUME IInv, NEW f \in Frame
  PROVE  /\ WrittenBack(f) \in Disk
         /\ WrittenBack(f).next = disk.next
         /\ WrittenBack(f).size <= disk.next
<1>1. CASE pages[f].is_dirty
  <2>1. PICK p \in PageId : page_table[p] = f
    BY <1>1 DEF IInv, Aux, Mapped
  <2>2. pages[f].page_id = p /\ p < disk.next
    BY <2>1 DEF IInv, Aux, FrameAccounting, Frame, NoFrame
  <2>3. disk \in Disk /\ disk.size <= disk.next /\ pages[f].data \in Data
    BY DEF IInv, TypeOK, FrameState
  <2> QED BY <1>1, <2>2, <2>3, WritePageKeeps DEF WrittenBack
<1>2. CASE ~pages[f].is_dirty
  BY <1>2 DEF WrittenBack, IInv, TypeOK
<1> QED BY <1>1, <1>2

\* A victim is one of the frames, and is in neither list afterwards.
LEMMA TakeVictimRemoves ==
  ASSUME IInv, victim # NoFrame, TakeVictim
  PROVE  /\ victim \in Frame
         /\ free_list' \in Seq(Frame) /\ IsInjective(free_list')
         /\ Range(free_list') = Range(free_list) \ {victim}
         /\ replacer' \in Seq(Frame) /\ IsInjective(replacer')
         /\ Range(replacer') = Range(replacer) \ {victim}
         /\ victim \in Range(free_list) \/ victim \in Range(replacer)
<1>1. /\ free_list \in Seq(Frame) /\ IsInjective(free_list)
      /\ replacer \in Seq(Frame) /\ IsInjective(replacer)
      /\ \A f \in Frame : ~(f \in Range(free_list) /\ f \in Range(replacer))
  BY DEF IInv, TypeOK, FrameAccounting
<1>2. CASE free_list # <<>>
  <2>1. victim = Head(free_list) /\ free_list' = Tail(free_list) /\ replacer' = replacer
    BY <1>2 DEF victim, TakeVictim
  <2>2. /\ Tail(free_list) \in Seq(Frame) /\ IsInjective(Tail(free_list))
        /\ Range(Tail(free_list)) = Range(free_list) \ {victim}
        /\ victim \in Range(free_list) /\ victim \in Frame
    BY <1>1, <1>2, <2>1, TailOfList
  <2>3. Range(replacer) = Range(replacer) \ {victim}
    BY <1>1, <2>2
  <2> QED BY <1>1, <2>1, <2>2, <2>3
<1>3. CASE free_list = <<>>
  <2>1. /\ victim = Oldest(replacer) /\ replacer # <<>>
        /\ replacer' = WithoutOldest(replacer) /\ free_list' = free_list
    BY <1>3 DEF victim, TakeVictim, Oldest, WithoutOldest
  <2>2. /\ WithoutOldest(replacer) \in Seq(Frame) /\ IsInjective(WithoutOldest(replacer))
        /\ Range(WithoutOldest(replacer)) = Range(replacer) \ {victim}
        /\ victim \in Range(replacer) /\ victim \in Frame
    BY <1>1, <2>1, OldestOfList
  <2>3. Range(free_list) = Range(free_list) \ {victim}
    BY <1>1, <2>2
  <2> QED BY <1>1, <2>1, <2>2, <2>3
<1> QED BY <1>2, <1>3

\* Nobody holds the page of a frame that is free or evictable.
LEMMA VictimUnheld ==
  ASSUME IInv, NEW f \in Frame, f \in Range(free_list) \/ f \in Range(replacer),
         NEW c \in Client, pin[c] # NoPin
  PROVE  pin[c].frame # f /\ page_table[pin[c].page] # f
<1> SUFFICES ASSUME page_table[pin[c].page] = f PROVE FALSE
  BY DEF IInv, PinnedPagesStay
<1> DEFINE p == pin[c].page
<1>1. p \in PageId /\ f # NoFrame
  BY DEF IInv, Aux, Frame, NoFrame
<1>2. Mapped(f)
  BY <1>1 DEF Mapped
<1>3. pages[f].pin_count = 0
  BY <1>2 DEF IInv, FrameAccounting
<1>4. Cardinality(Holders(p)) = 0
  BY <1>1, <1>3 DEF IInv, PinnedPagesStay
<1>5. IsFiniteSet(Holders(p))
  BY PoolAssumption, FS_Subset DEF Holders
<1>6. Holders(p) = {}
  BY <1>4, <1>5, FS_EmptySet
<1> QED BY <1>6 DEF Holders
------------------------------------------------------------------------------
\* Giving an evicted or free frame to a page that has none: the frame's old page
\* loses it, and nothing else moves.
LEMMA OccupyMoves ==
  ASSUME IInv, NEW c \in Client, NEW p \in PageId, NEW data \in Data,
         victim # NoFrame, VictimIsUnused, TakeVictim, Occupy(c, victim, p, data)
  PROVE  /\ victim \in Frame
         /\ page_table' \in [PageId -> Frame \cup {NoFrame}]
         /\ page_table'[p] = victim
         /\ \A q \in PageId \ {p} : page_table'[q] =
              IF page_table[q] = victim THEN NoFrame ELSE page_table[q]
         /\ pages' \in [Frame -> FrameState]
         /\ pages'[victim] = [page_id |-> p, pin_count |-> 1,
                             is_dirty |-> FALSE, data |-> data]
         /\ \A g \in Frame \ {victim} : pages'[g] = pages[g]
<1> DEFINE f == victim
<1>1. /\ f \in Frame
      /\ free_list' \in Seq(Frame) /\ IsInjective(free_list')
      /\ Range(free_list') = Range(free_list) \ {f}
      /\ replacer' \in Seq(Frame) /\ IsInjective(replacer')
      /\ Range(replacer') = Range(replacer) \ {f}
      /\ f \in Range(free_list) \/ f \in Range(replacer)
  BY TakeVictimRemoves
<1>2. /\ pages \in [Frame -> FrameState]
      /\ page_table \in [PageId -> Frame \cup {NoFrame}]
  BY DEF IInv, TypeOK
<1>3. NoFrame \notin Frame /\ INVALID_PAGE_ID \notin PageId
  BY DEF NoFrame, Frame, INVALID_PAGE_ID, PageId
<1>4. /\ pages' = [pages EXCEPT ![f] = [page_id |-> p, pin_count |-> 1,
                                        is_dirty |-> FALSE, data |-> data]]
      /\ page_table' = Remapped(f, p)
  BY DEF Occupy
<1>5. pages[f].page_id \in PageId => page_table[pages[f].page_id] = f
  <2>1. CASE free_list # <<>>
    BY <1>3, <2>1 DEF VictimIsUnused
  <2>2. CASE free_list = <<>>
    <3>1. f \in Range(replacer)
      BY <1>1, <2>2 DEF Range
    <3>2. PICK q \in PageId : page_table[q] = f
      BY <1>1, <3>1 DEF IInv, FrameAccounting, Mapped
    <3> QED BY <1>1, <1>3, <3>2 DEF IInv, FrameAccounting
  <2> QED BY <2>1, <2>2
<1>6. \A q \in PageId : page_table[q] = f => pages[f].page_id = q
  BY <1>1, <1>3 DEF IInv, FrameAccounting
<1>7. /\ page_table' \in [PageId -> Frame \cup {NoFrame}]
      /\ page_table'[p] = f
      /\ \A q \in PageId \ {p} : page_table'[q] =
           IF page_table[q] = f THEN NoFrame ELSE page_table[q]
  <2>1. \A q \in PageId \ {p} : q = pages[f].page_id <=> page_table[q] = f
    BY <1>5, <1>6
  <2> QED BY <1>1, <1>2, <1>4, <2>1 DEF Remapped
<1> HIDE DEF f
<1>8. /\ pages' \in [Frame -> FrameState]
      /\ pages'[f] = [page_id |-> p, pin_count |-> 1, is_dirty |-> FALSE, data |-> data]
      /\ \A g \in Frame \ {f} : pages'[g] = pages[g]
  BY <1>1, <1>2, <1>4 DEF FrameState
<1> QED BY <1>1, <1>7, <1>8 DEF f

\* Giving an evicted or free frame to a page that has none, pinned by c.
LEMMA OccupyKeeps ==
  ASSUME IInv, NEW c \in Client, pin[c] = NoPin,
         NEW p \in PageId, page_table[p] = NoFrame, NEW data \in Data,
         victim # NoFrame, VictimIsUnused, TakeVictim, Occupy(c, victim, p, data),
         disk' \in Disk, disk.next <= disk'.next, p < disk'.next
  PROVE  /\ pages' \in [Frame -> FrameState]
         /\ page_table' \in [PageId -> Frame \cup {NoFrame}]
         /\ pin' \in [Client -> PinState]
         /\ replacer' \in Seq(Frame) /\ free_list' \in Seq(Frame)
         /\ FrameAccounting' /\ PinnedPagesStay' /\ Aux'
<1> DEFINE f == victim
<1>1. /\ f \in Frame
      /\ free_list' \in Seq(Frame) /\ IsInjective(free_list')
      /\ Range(free_list') = Range(free_list) \ {f}
      /\ replacer' \in Seq(Frame) /\ IsInjective(replacer')
      /\ Range(replacer') = Range(replacer) \ {f}
      /\ f \in Range(free_list) \/ f \in Range(replacer)
  BY TakeVictimRemoves
<1>2. /\ pages \in [Frame -> FrameState]
      /\ page_table \in [PageId -> Frame \cup {NoFrame}]
      /\ pin \in [Client -> PinState]
      /\ disk.next \in Int /\ disk'.next \in Int
  BY DiskAssumption DEF IInv, TypeOK, Disk
<1>3. NoFrame \notin Frame /\ INVALID_PAGE_ID \notin PageId
  BY DEF NoFrame, Frame, INVALID_PAGE_ID, PageId
<1>4. pin' = [pin EXCEPT ![c] = [page |-> p, frame |-> f, wrote |-> FALSE]]
  BY DEF Occupy
<1>5. /\ page_table' \in [PageId -> Frame \cup {NoFrame}]
      /\ page_table'[p] = f
      /\ \A q \in PageId \ {p} : page_table'[q] =
           IF page_table[q] = f THEN NoFrame ELSE page_table[q]
  BY OccupyMoves, Zenon
<1>6. /\ pages' \in [Frame -> FrameState]
      /\ pages'[f] = [page_id |-> p, pin_count |-> 1, is_dirty |-> FALSE, data |-> data]
      /\ \A g \in Frame \ {f} : pages'[g] = pages[g]
  BY OccupyMoves
<1> HIDE DEF f
<1>7. \A g \in Frame : Mapped(g)' <=> g = f \/ Mapped(g)
  <2> SUFFICES ASSUME NEW g \in Frame
               PROVE  (\E q \in PageId : page_table'[q] = g)
                      <=> g = f \/ \E q \in PageId : page_table[q] = g
    BY DEF Mapped
  <2>1. CASE g = f
    BY <1>5, <2>1
  <2>2. CASE g # f
    BY <1>3, <1>5, <2>2
  <2> QED BY <2>1, <2>2
<1>8. /\ pin' \in [Client -> PinState]
       /\ pin'[c] = [page |-> p, frame |-> f, wrote |-> FALSE]
       /\ \A d \in Client \ {c} : pin'[d] = pin[d]
  BY <1>1, <1>2, <1>4 DEF PinState
<1>9. FrameAccounting'
  <2>1. \A g \in Frame : g \in Range(free_list)' <=> ~Mapped(g)'
    <3>1. Range(free_list)' = Range(free_list) \ {f}
      BY <1>1
    <3> QED BY <1>7, <3>1 DEF IInv, FrameAccounting
  <2>2. \A g \in Frame : g \in Range(replacer)' <=> Mapped(g)' /\ pages'[g].pin_count = 0
    <3>1. Range(replacer)' = Range(replacer) \ {f}
      BY <1>1
    <3> QED BY <1>7, <1>6, <3>1 DEF IInv, FrameAccounting
  <2>3. \A q \in PageId : page_table'[q] # NoFrame => pages'[page_table'[q]].page_id = q
    BY <1>2, <1>5, <1>6 DEF IInv, FrameAccounting
  <2> QED BY <1>1, <2>1, <2>2, <2>3 DEF FrameAccounting
<1>10. \A d \in Client \ {c} : pin[d] # NoPin =>
         /\ pin[d].page \in PageId \ {p} /\ page_table[pin[d].page] # f
         /\ page_table[pin[d].page] = pin[d].frame /\ pin[d].frame # NoFrame
  BY <1>1, VictimUnheld, Zenon DEF IInv, PinnedPagesStay, Aux, f
<1>11. PinnedPagesStay'
  <2>1. ASSUME NEW d \in Client, pin'[d] # NoPin
        PROVE  page_table'[pin'[d].page] = pin'[d].frame /\ pin'[d].frame # NoFrame
    <3>1. CASE d = c
      BY <1>1, <1>3, <1>5, <1>8, <3>1
    <3>2. CASE d # c
      BY <1>5, <1>8, <1>10, <2>1, <3>2
    <3> QED BY <3>1, <3>2
  <2>2. ASSUME NEW q \in PageId, page_table'[q] # NoFrame
        PROVE  pages'[page_table'[q]].pin_count = Cardinality(Holders(q)')
    <3>1. pin[c].page = INVALID_PAGE_ID /\ \A d \in Client : pin[d] = NoPin => pin[d].page # q
      BY <1>3 DEF NoPin
    <3>2. CASE q = p
      <4>1. Holders(q)' = {c}
        BY <1>8, <1>10, <3>1, <3>2 DEF Holders
      <4>2. pages'[page_table'[q]].pin_count = 1
        BY <1>5, <1>6, <3>2
      <4>3. Cardinality({c}) = 1
        BY FS_Singleton
      <4> QED BY <4>1, <4>2, <4>3
    <3>3. CASE q # p
      <4>1. Holders(q)' = Holders(q)
        BY <1>8, <3>1, <3>3, <1>3 DEF Holders
      <4>2. page_table'[q] = page_table[q] /\ page_table[q] \in Frame \ {f}
        BY <1>2, <1>5, <2>2, <3>3
      <4> QED BY <1>3, <1>6, <4>1, <4>2, Zenon DEF IInv, PinnedPagesStay
    <3> QED BY <3>2, <3>3
  <2> QED BY <2>1, <2>2 DEF PinnedPagesStay
<1>12. Aux'
  <2>1. \A g \in Frame : pages'[g].is_dirty => Mapped(g)'
    BY <1>7, <1>6 DEF IInv, Aux
  <2>2. \A q \in PageId : page_table'[q] # NoFrame => q < disk'.next
    BY <1>2, <1>5 DEF IInv, Aux, PageId
  <2>3. \A d \in Client : pin'[d] # NoPin => pin'[d].page \in PageId
    BY <1>8 DEF IInv, Aux
  <2> QED BY <2>1, <2>2, <2>3 DEF Aux
<1> QED BY <1>1, <1>5, <1>6, <1>8, <1>9, <1>11, <1>12
------------------------------------------------------------------------------
\* The pins of a page, with one client more or less.
LEMMA HoldersCount ==
  ASSUME NEW S, S \subseteq Client, NEW c \in Client
  PROVE  /\ Cardinality(S) \in Nat
         /\ c \notin S => Cardinality(S \cup {c}) = Cardinality(S) + 1
         /\ c \in S => Cardinality(S \ {c}) = Cardinality(S) - 1
         /\ c \in S => Cardinality(S) # 0
<1>1. IsFiniteSet(S)
  BY PoolAssumption, FS_Subset
<1>2. Cardinality(S) \in Nat
  BY <1>1, FS_CardinalityType
<1>3. c \notin S => Cardinality(S \cup {c}) = Cardinality(S) + 1
  BY <1>1, FS_AddElement
<1>4. c \in S => Cardinality(S \ {c}) = Cardinality(S) - 1
  BY <1>1, FS_RemoveElement
<1>5. c \in S => Cardinality(S) # 0
  BY <1>1, FS_EmptySet
<1> QED BY <1>2, <1>3, <1>4, <1>5

\* A pin more in the record of a frame.
LEMMA AddPin ==
  ASSUME NEW r \in FrameState
  PROVE  LET s == [r EXCEPT !.pin_count = @ + 1] IN
         /\ s \in FrameState
         /\ r.pin_count \in Nat
         /\ s.pin_count = r.pin_count + 1
         /\ s.page_id = r.page_id
         /\ s.is_dirty = r.is_dirty
         /\ s.data = r.data
<1> DEFINE s == [r EXCEPT !.pin_count = @ + 1]
<1>1. s \in FrameState /\ r.pin_count \in Nat /\ s.pin_count = r.pin_count + 1
  BY DEF FrameState
<1>2. s.page_id = r.page_id /\ s.is_dirty = r.is_dirty /\ s.data = r.data
  BY DEF FrameState
<1> QED BY <1>1, <1>2

\* A pin less in the record of a frame, and a new dirty flag.
LEMMA DropPin ==
  ASSUME NEW r \in FrameState, r.pin_count # 0, NEW b \in BOOLEAN
  PROVE  LET s == [r EXCEPT !.is_dirty = b, !.pin_count = @ - 1] IN
         /\ s \in FrameState
         /\ s.pin_count = r.pin_count - 1
         /\ s.page_id = r.page_id
         /\ s.is_dirty = b
         /\ s.data = r.data
<1> DEFINE s == [r EXCEPT !.is_dirty = b, !.pin_count = @ - 1]
<1>1. s.pin_count = r.pin_count - 1 /\ s.page_id = r.page_id /\ s.data = r.data
  BY DEF FrameState
<1>2. s.is_dirty = b
  BY DEF FrameState
<1>3. r.pin_count - 1 \in Nat
  BY DEF FrameState
<1>4. s \in FrameState
  BY <1>3, Zenon DEF FrameState
<1> QED BY <1>1, <1>2, <1>4

\* FetchPage() of a buffered page adds a pin and takes the frame off the replacer.
LEMMA FetchHitKeeps ==
  ASSUME IInv, NEW c \in Client, pin[c] = NoPin, NEW p \in PageId,
         page_table[p] # NoFrame, FetchHit(c, p)
  PROVE  IInv'
<1> DEFINE f == page_table[p]
<1>1. /\ pages \in [Frame -> FrameState]
      /\ page_table \in [PageId -> Frame \cup {NoFrame}]
      /\ pin \in [Client -> PinState]
      /\ f \in Frame
      /\ replacer \in Seq(Frame) /\ IsInjective(replacer)
  BY DEF IInv, TypeOK, FrameAccounting
<1>2. /\ pages' = [pages EXCEPT ![f].pin_count = @ + 1]
      /\ replacer' = Erased(replacer, f)
      /\ pin' = [pin EXCEPT ![c] = [page |-> p, frame |-> f, wrote |-> FALSE]]
      /\ UNCHANGED <<page_table, free_list, disk, aborted, live, content>>
  BY DEF FetchHit
<1> HIDE DEF f
<1>3. /\ pages' \in [Frame -> FrameState]
      /\ pages'[f].pin_count = pages[f].pin_count + 1
      /\ \A g \in Frame \ {f} : pages'[g] = pages[g]
      /\ \A g \in Frame : pages'[g].page_id = pages[g].page_id
                          /\ pages'[g].is_dirty = pages[g].is_dirty
      /\ pages[f].pin_count \in Nat
  <2> DEFINE r == [pages[f] EXCEPT !.pin_count = @ + 1]
  <2>1. /\ r \in FrameState /\ pages[f].pin_count \in Nat
        /\ r.pin_count = pages[f].pin_count + 1
        /\ r.page_id = pages[f].page_id
        /\ r.is_dirty = pages[f].is_dirty
    <3>1. pages[f] \in FrameState
      BY <1>1
    <3> QED BY <3>1, AddPin
  <2>2. pages' = [pages EXCEPT ![f] = r]
    BY <1>1, <1>2
  <2> HIDE DEF r
  <2>3. pages' \in [Frame -> FrameState] /\ pages'[f] = r
        /\ \A g \in Frame \ {f} : pages'[g] = pages[g]
    BY <1>1, <2>1, <2>2
  <2> QED BY <2>1, <2>3
<1>4. /\ replacer' \in Seq(Frame) /\ IsInjective(replacer')
      /\ Range(replacer') = Range(replacer) \ {f}
  BY <1>1, <1>2, EraseFromList
<1>5. /\ pin' \in [Client -> PinState]
      /\ pin'[c] = [page |-> p, frame |-> f, wrote |-> FALSE]
      /\ \A d \in Client \ {c} : pin'[d] = pin[d]
  BY <1>1, <1>2 DEF PinState
<1>6. INVALID_PAGE_ID \notin PageId /\ NoFrame \notin Frame
  BY DEF INVALID_PAGE_ID, PageId, NoFrame, Frame
<1>7. \A g : Mapped(g)' <=> Mapped(g)
  BY <1>2 DEF Mapped
<1>8. TypeOK'
  BY <1>2, <1>3, <1>4, <1>5 DEF IInv, TypeOK
<1>9. FrameAccounting'
  <2>1. Mapped(f)
    BY DEF Mapped, f
  <2>2. \A g \in Frame : g \in Range(replacer') <=> Mapped(g)' /\ pages'[g].pin_count = 0
    BY <1>3, <1>4, <1>7, <2>1 DEF IInv, FrameAccounting
  <2>3. \A q \in PageId : page_table'[q] # NoFrame => pages'[page_table'[q]].page_id = q
    BY <1>1, <1>2, <1>3 DEF IInv, FrameAccounting
  <2>4. /\ IsInjective(free_list')
        /\ \A g \in Frame : g \in Range(free_list') <=> ~Mapped(g)'
    BY <1>2, <1>7 DEF IInv, FrameAccounting
  <2> QED BY <1>4, <2>2, <2>3, <2>4 DEF FrameAccounting
<1>10. PinnedPagesStay'
  <2>1. ASSUME NEW d \in Client, pin'[d] # NoPin
        PROVE  page_table'[pin'[d].page] = pin'[d].frame /\ pin'[d].frame # NoFrame
    BY <1>1, <1>2, <1>5, <1>6, <2>1 DEF IInv, PinnedPagesStay, f
  <2>2. ASSUME NEW q \in PageId, page_table'[q] # NoFrame
        PROVE  pages'[page_table'[q]].pin_count = Cardinality(Holders(q)')
    <3>1. pages[page_table[q]].pin_count = Cardinality(Holders(q)) /\ page_table[q] \in Frame
      BY <1>1, <1>2, <2>2 DEF IInv, PinnedPagesStay
    <3>2. pin[c].page \notin PageId /\ c \notin Holders(q) /\ Holders(q) \subseteq Client
      BY <1>6 DEF Holders, NoPin
    <3>3. CASE q = p
      <4>1. Holders(q)' = Holders(q) \cup {c}
        BY <1>5, <3>2, <3>3 DEF Holders
      <4>2. Cardinality(Holders(q)') = Cardinality(Holders(q)) + 1
        BY <3>2, <4>1, HoldersCount
      <4> QED BY <1>2, <1>3, <3>1, <3>3, <4>2, Zenon DEF f
    <3>4. CASE q # p
      <4>1. Holders(q)' = Holders(q)
        BY <1>5, <3>2, <3>4 DEF Holders
      <4>2. page_table[q] # f
        BY <1>2, <1>1, <2>2, <3>4 DEF IInv, FrameAccounting, f
      <4> QED BY <1>2, <1>3, <3>1, <4>1, <4>2
    <3> QED BY <3>3, <3>4
  <2> QED BY <2>1, <2>2 DEF PinnedPagesStay
<1>11. Aux'
  BY <1>2, <1>3, <1>5, <1>7 DEF IInv, Aux
<1> QED BY <1>8, <1>9, <1>10, <1>11 DEF IInv
------------------------------------------------------------------------------
\* A step that moves no frame and changes no pin keeps the invariant, whatever
\* it does to the content and the dirty flags of buffered pages.
LEMMA InPlaceKeeps ==
  ASSUME IInv, UNCHANGED <<page_table, replacer, free_list>>, live' \subseteq live,
         pages' \in [Frame -> FrameState],
         \A g \in Frame : /\ pages'[g].page_id = pages[g].page_id
                          /\ pages'[g].pin_count = pages[g].pin_count
                          /\ pages'[g].is_dirty => Mapped(g),
         disk' \in Disk, disk'.next = disk.next, disk'.size <= disk.next,
         aborted' \in BOOLEAN, content' \in [PageId -> Data],
         pin' \in [Client -> PinState],
         \A c \in Client : /\ pin'[c].page = pin[c].page
                           /\ pin'[c].frame = pin[c].frame
                           /\ pin'[c] # NoPin => pin[c] # NoPin
  PROVE  IInv'
<1>1. TypeOK'
  BY DEF IInv, TypeOK
<1>2. \A g : Mapped(g)' <=> Mapped(g)
  BY DEF Mapped
<1>3. page_table \in [PageId -> Frame \cup {NoFrame}]
  BY DEF IInv, TypeOK
<1>4. FrameAccounting'
  <2>1. \A g \in Frame : g \in Range(replacer') <=> Mapped(g)' /\ pages'[g].pin_count = 0
    BY <1>2 DEF IInv, FrameAccounting
  <2>2. \A q \in PageId : page_table'[q] # NoFrame => pages'[page_table'[q]].page_id = q
    BY <1>3 DEF IInv, FrameAccounting
  <2>3. /\ IsInjective(free_list') /\ IsInjective(replacer')
        /\ \A g \in Frame : g \in Range(free_list') <=> ~Mapped(g)'
    BY <1>2 DEF IInv, FrameAccounting
  <2> QED BY <2>1, <2>2, <2>3 DEF FrameAccounting
<1>5. PinnedPagesStay'
  <2>1. \A q : Holders(q)' = Holders(q)
    BY DEF Holders
  <2>2. ASSUME NEW q \in PageId, page_table'[q] # NoFrame
        PROVE  pages'[page_table'[q]].pin_count = Cardinality(Holders(q)')
    BY <1>3, <2>1, <2>2, Zenon DEF IInv, PinnedPagesStay
  <2>3. ASSUME NEW d \in Client, pin'[d] # NoPin
        PROVE  page_table'[pin'[d].page] = pin'[d].frame /\ pin'[d].frame # NoFrame
    BY <2>3 DEF IInv, PinnedPagesStay
  <2> QED BY <2>2, <2>3 DEF PinnedPagesStay
<1>6. Aux'
  <2>1. \A g \in Frame : pages'[g].is_dirty => Mapped(g)'
    BY <1>2
  <2>2. \A q \in PageId : page_table'[q] # NoFrame => q < disk'.next
    BY DEF IInv, Aux
  <2>3. \A d \in Client : pin'[d] # NoPin => pin'[d].page \in PageId
    BY DEF IInv, Aux
  <2> QED BY <2>1, <2>2, <2>3 DEF Aux
<1> QED BY <1>1, <1>4, <1>5, <1>6 DEF IInv

\* A failed assert, and a call that answers nullptr, change no state of the pool.
LEMMA AbortKeeps ==
  ASSUME IInv, Abort \/ UNCHANGED vars
  PROVE  IInv'
<1>1. /\ UNCHANGED <<pages, page_table, replacer, free_list, disk, pin, live, content>>
      /\ aborted' \in BOOLEAN
  BY Zenon DEF Abort, pool, vars, IInv, TypeOK
<1>2. disk \in Disk /\ disk.size <= disk.next
      /\ pages \in [Frame -> FrameState] /\ pin \in [Client -> PinState]
      /\ content \in [PageId -> Data] /\ \A g \in Frame : pages[g].is_dirty => Mapped(g)
  BY DEF IInv, TypeOK, Aux
<1> QED BY <1>1, <1>2, InPlaceKeeps

\* UnpinPage() of a page that nobody holds changes at most its dirty flag.
LEMMA StrayUnpinKeeps ==
  ASSUME IInv, NEW p \in PageId, NEW b \in UnpinFlags, StrayUnpin(p, b)
  PROVE  IInv'
<1> DEFINE f == page_table[p]
<1>1. /\ disk \in Disk /\ disk.size <= disk.next /\ aborted \in BOOLEAN
      /\ pages \in [Frame -> FrameState] /\ pin \in [Client -> PinState]
      /\ content \in [PageId -> Data] /\ b \in BOOLEAN
      /\ f \in Frame \cup {NoFrame}
      /\ \A g \in Frame : pages[g].is_dirty => Mapped(g)
  BY PoolAssumption DEF IInv, TypeOK, Aux
<1>2. UNCHANGED <<page_table, replacer, free_list, disk, aborted, pin, live, content>>
      /\ \/ UNCHANGED pages
         \/ f # NoFrame /\ pages' = [pages EXCEPT ![f].is_dirty = b]
  <2>1. CASE f = NoFrame
    BY <2>1 DEF StrayUnpin, UnpinPage
  <2>2. CASE f # NoFrame
    <3>1. Holders(p) = {}
      BY DEF StrayUnpin, Holders
    <3>2. pages[f].pin_count = 0
      BY <2>2, <3>1, FS_EmptySet DEF IInv, PinnedPagesStay
    <3> QED BY <2>2, <3>2 DEF StrayUnpin, UnpinPage
  <2> QED BY <2>1, <2>2
<1>3. /\ pages' \in [Frame -> FrameState]
      /\ \A g \in Frame : /\ pages'[g].page_id = pages[g].page_id
                          /\ pages'[g].pin_count = pages[g].pin_count
                          /\ pages'[g].is_dirty => Mapped(g)
  <2>1. CASE UNCHANGED pages
    BY <1>1, <2>1
  <2>2. CASE f # NoFrame /\ pages' = [pages EXCEPT ![f].is_dirty = b]
    <3>1. Mapped(f)
      BY DEF Mapped
    <3> HIDE DEF f
    <3>2. pages' \in [Frame -> FrameState]
      BY <1>1, <2>2 DEF FrameState
    <3>3. \A g \in Frame : g # f => pages'[g] = pages[g]
      BY <1>1, <2>2
    <3>4. f \in Frame => pages'[f].page_id = pages[f].page_id /\ pages'[f].pin_count = pages[f].pin_count
      BY <1>1, <2>2 DEF FrameState
    <3> QED BY <1>1, <3>1, <3>3, <3>4, <3>2
  <2> QED BY <1>2, <2>1, <2>2
<1> QED BY <1>1, <1>2, <1>3, InPlaceKeeps

\* FlushPage() writes an allocated page and clears its dirty flag.
LEMMA FlushPageKeeps ==
  ASSUME IInv, NEW p \in PageId, FlushPage(p)
  PROVE  IInv'
<1> DEFINE f == page_table[p]
<1>1. /\ disk \in Disk /\ disk.size <= disk.next /\ aborted \in BOOLEAN
      /\ pages \in [Frame -> FrameState] /\ pin \in [Client -> PinState]
      /\ content \in [PageId -> Data]
      /\ f \in Frame \cup {NoFrame}
      /\ \A g \in Frame : pages[g].is_dirty => Mapped(g)
  BY DEF IInv, TypeOK, Aux
<1>2. UNCHANGED <<page_table, replacer, free_list, aborted, pin, live, content>>
  BY DEF FlushPage
<1>3. CASE UNCHANGED <<disk, pages>>
  BY <1>1, <1>2, <1>3, InPlaceKeeps
<1>4. CASE /\ f # NoFrame
           /\ disk' = WritePage(disk, p, pages[f].data)
           /\ pages' = [pages EXCEPT ![f].is_dirty = FALSE]
  <2>1. f \in Frame /\ pages[f].data \in Data /\ p < disk.next
    BY <1>1, <1>4 DEF IInv, Aux, FrameState
  <2>2. disk' \in Disk /\ disk'.next = disk.next /\ disk'.size <= disk.next
    BY <1>1, <1>4, <2>1, WritePageKeeps
  <2> HIDE DEF f
  <2>3. pages' \in [Frame -> FrameState]
    BY <1>1, <1>4, <2>1, Zenon DEF FrameState
  <2>4. \A g \in Frame : g # f => pages'[g] = pages[g]
    BY <1>1, <1>4
  <2>5. /\ pages'[f].page_id = pages[f].page_id
        /\ pages'[f].pin_count = pages[f].pin_count
    BY <1>1, <1>4, <2>1 DEF FrameState
  <2>6. ~pages'[f].is_dirty
    BY <1>1, <1>4, <2>1 DEF FrameState
  <2>7. \A g \in Frame : /\ pages'[g].page_id = pages[g].page_id
                         /\ pages'[g].pin_count = pages[g].pin_count
                         /\ pages'[g].is_dirty => Mapped(g)
    BY <1>1, <2>4, <2>5, <2>6
  <2> QED BY <1>1, <1>2, <2>2, <2>3, <2>7, InPlaceKeeps
<1> QED BY <1>3, <1>4 DEF FlushPage

\* A client writes only to the frame of the page it holds.
LEMMA WriteKeeps ==
  ASSUME IInv, NEW c \in Client, NEW data \in Data, Write(c, data)
  PROVE  IInv'
<1> DEFINE f == pin[c].frame
<1>1. /\ disk \in Disk /\ disk.size <= disk.next /\ aborted \in BOOLEAN
      /\ pages \in [Frame -> FrameState] /\ pin \in [Client -> PinState]
      /\ content \in [PageId -> Data]
      /\ page_table \in [PageId -> Frame \cup {NoFrame}]
      /\ \A g \in Frame : pages[g].is_dirty => Mapped(g)
  BY DEF IInv, TypeOK, Aux
<1>2. /\ UNCHANGED <<page_table, replacer, free_list, disk, aborted, live>>
      /\ pages' = [pages EXCEPT ![f].data = data]
      /\ pin' = [pin EXCEPT ![c].wrote = TRUE]
      /\ content' = [content EXCEPT ![pin[c].page] = data]
      /\ pin[c] # NoPin
  BY DEF Write
<1>3. f \in Frame /\ pin[c].page \in PageId
  BY <1>1, <1>2 DEF IInv, PinnedPagesStay, Aux
<1>4. content' \in [PageId -> Data]
  BY <1>1, <1>2, <1>3
<1>5. /\ pages' \in [Frame -> FrameState]
      /\ \A g \in Frame : g # f => pages'[g] = pages[g]
      /\ pages'[f].page_id = pages[f].page_id
      /\ pages'[f].pin_count = pages[f].pin_count
  BY <1>1, <1>2, <1>3 DEF FrameState
<1>6. pages'[f].is_dirty = pages[f].is_dirty
  BY <1>1, <1>2, <1>3 DEF FrameState
<1>7. /\ pin' \in [Client -> PinState]
      /\ \A d \in Client : d # c => pin'[d] = pin[d]
      /\ pin'[c].page = pin[c].page
      /\ pin'[c].frame = pin[c].frame
  BY <1>1, <1>2, Zenon DEF PinState
<1>8. \A g \in Frame : /\ pages'[g].page_id = pages[g].page_id
                       /\ pages'[g].pin_count = pages[g].pin_count
                       /\ pages'[g].is_dirty => Mapped(g)
  BY <1>1, <1>5, <1>6
<1>9. \A d \in Client : /\ pin'[d].page = pin[d].page
                        /\ pin'[d].frame = pin[d].frame
                        /\ pin'[d] # NoPin => pin[d] # NoPin
  BY <1>2, <1>7
<1> QED BY <1>1, <1>2, <1>4, <1>5, <1>7, <1>8, <1>9, InPlaceKeeps, Zenon

\* Unpin() gives one pin back, and the last pin makes the frame evictable.
LEMMA UnpinKeeps ==
  ASSUME IInv, NEW c \in Client, NEW b \in BOOLEAN, Unpin(c, b)
  PROVE  IInv'
<1> DEFINE p == pin[c].page
           f == page_table[p]
<1>1. /\ pages \in [Frame -> FrameState]
      /\ page_table \in [PageId -> Frame \cup {NoFrame}]
      /\ pin \in [Client -> PinState]
      /\ replacer \in Seq(Frame) /\ IsInjective(replacer) /\ b \in BOOLEAN
  BY DEF IInv, TypeOK, FrameAccounting
<1>2. p \in PageId /\ f \in Frame /\ f # NoFrame /\ c \in Holders(p)
  BY <1>1 DEF Unpin, IInv, PinnedPagesStay, Aux, Holders
<1>3. pages[f].pin_count = Cardinality(Holders(p)) /\ pages[f].pin_count \in Nat \ {0}
  <2>1. pages[f].pin_count = Cardinality(Holders(p))
    BY <1>2 DEF IInv, PinnedPagesStay
  <2>2. Holders(p) \subseteq Client
    BY DEF Holders
  <2> QED BY <1>2, <2>1, <2>2, HoldersCount, Zenon
<1>4. /\ pages' = [pages EXCEPT ![f].is_dirty = b, ![f].pin_count = @ - 1]
      /\ replacer' = IF pages[f].pin_count = 1 THEN <<f>> \o Erased(replacer, f)
                     ELSE replacer
      /\ pin' = [pin EXCEPT ![c] = NoPin]
      /\ UNCHANGED <<page_table, free_list, disk, aborted, live, content>>
  <2>1. f # NoFrame /\ ~(pages[f].pin_count <= 0)
    BY <1>2, <1>3
  <2>2. UnpinPage(p, b)
    BY DEF Unpin
  <2>3. /\ pages' = [pages EXCEPT ![f].is_dirty = b, ![f].pin_count = @ - 1]
        /\ replacer' = IF pages[f].pin_count = 1 THEN <<f>> \o Erased(replacer, f)
                       ELSE replacer
    BY <2>1, <2>2, Zenon DEF UnpinPage, Inserted
  <2> QED BY <2>3, Zenon DEF Unpin
<1>5. Mapped(f) /\ \A g : Mapped(g)' <=> Mapped(g)
  BY <1>2, <1>4, Zenon DEF Mapped
<1>6. INVALID_PAGE_ID \notin PageId /\ NoFrame \notin Frame
  BY DEF INVALID_PAGE_ID, PageId, NoFrame, Frame
<1> HIDE DEF f, p
<1>7. /\ pages' \in [Frame -> FrameState]
      /\ pages'[f].pin_count = pages[f].pin_count - 1
      /\ pages'[f].page_id = pages[f].page_id
      /\ \A g \in Frame \ {f} : pages'[g] = pages[g]
  <2> DEFINE r == [pages[f] EXCEPT !.is_dirty = b, !.pin_count = @ - 1]
  <2>1. /\ r \in FrameState /\ r.pin_count = pages[f].pin_count - 1
        /\ r.page_id = pages[f].page_id
    <3>1. pages[f] \in FrameState
      BY <1>1, <1>2
    <3> QED BY <1>1, <1>3, <3>1, DropPin, Zenon
  <2>2. pages' = [pages EXCEPT ![f] = r]
    BY <1>1, <1>2, <1>4, Zenon
  <2> HIDE DEF r
  <2> QED BY <1>1, <1>2, <2>1, <2>2
<1>8. /\ pin' \in [Client -> PinState]
      /\ pin'[c] = NoPin
      /\ \A d \in Client \ {c} : pin'[d] = pin[d]
  <2>1. NoPin \in PinState
    BY DEF NoPin, PinState
  <2> QED BY <1>1, <1>4, <2>1
<1>9. /\ replacer' \in Seq(Frame) /\ IsInjective(replacer')
      /\ Range(replacer') = IF pages[f].pin_count = 1 THEN Range(replacer) \cup {f}
                            ELSE Range(replacer)
  <2> DEFINE s == Erased(replacer, f)
  <2>1. s \in Seq(Frame) /\ IsInjective(s) /\ Range(s) = Range(replacer) \ {f}
    BY <1>1, EraseFromList
  <2> HIDE DEF s
  <2>2. /\ <<f>> \o s \in Seq(Frame) /\ IsInjective(<<f>> \o s)
        /\ Range(<<f>> \o s) = Range(s) \cup {f}
    BY <1>2, <2>1, ConsToList
  <2>3. CASE pages[f].pin_count = 1
    BY <1>4, <2>1, <2>2, <2>3 DEF s
  <2>4. CASE pages[f].pin_count # 1
    BY <1>1, <1>4, <2>4
  <2> QED BY <2>3, <2>4
<1>10. TypeOK'
  BY <1>4, <1>7, <1>8, <1>9 DEF IInv, TypeOK
<1>11. FrameAccounting'
  <2>1. \A g \in Frame : g \in Range(replacer') <=> Mapped(g)' /\ pages'[g].pin_count = 0
    <3>1. ASSUME NEW g \in Frame, g # f
          PROVE  g \in Range(replacer') <=> Mapped(g)' /\ pages'[g].pin_count = 0
      BY <1>5, <1>7, <1>9, <3>1 DEF IInv, FrameAccounting
    <3>2. f \in Range(replacer) => pages[f].pin_count = 0
      BY <1>2 DEF IInv, FrameAccounting
    <3>3. f \in Range(replacer') <=> pages'[f].pin_count = 0
      BY <1>3, <1>7, <1>9, <3>2
    <3> QED BY <1>5, <3>1, <3>3
  <2>2. \A q \in PageId : page_table'[q] # NoFrame => pages'[page_table'[q]].page_id = q
    BY <1>1, <1>4, <1>7 DEF IInv, FrameAccounting
  <2>3. /\ IsInjective(free_list')
        /\ \A g \in Frame : g \in Range(free_list') <=> ~Mapped(g)'
    BY <1>4, <1>5 DEF IInv, FrameAccounting
  <2> QED BY <1>9, <2>1, <2>2, <2>3 DEF FrameAccounting
<1>12. PinnedPagesStay'
  <2>1. ASSUME NEW d \in Client, pin'[d] # NoPin
        PROVE  page_table'[pin'[d].page] = pin'[d].frame /\ pin'[d].frame # NoFrame
    BY <1>4, <1>8, <2>1 DEF IInv, PinnedPagesStay
  <2>2. ASSUME NEW q \in PageId, page_table'[q] # NoFrame
        PROVE  pages'[page_table'[q]].pin_count = Cardinality(Holders(q)')
    <3>1. pages[page_table[q]].pin_count = Cardinality(Holders(q)) /\ page_table[q] \in Frame
      BY <1>1, <1>4, <2>2 DEF IInv, PinnedPagesStay
    <3>2. Holders(q)' = Holders(q) \ {c} /\ Holders(q) \subseteq Client
      BY <1>6, <1>8 DEF Holders, NoPin
    <3>3. CASE q = p
      <4>1. Cardinality(Holders(q)') = Cardinality(Holders(q)) - 1
        BY <1>2, <3>2, <3>3, HoldersCount
      <4> QED BY <1>4, <1>7, <3>1, <3>3, <4>1, Zenon DEF f
    <3>4. CASE q # p
      <4>1. c \notin Holders(q)
        BY <3>4 DEF Holders, p
      <4>2. Holders(q)' = Holders(q)
        BY <3>2, <4>1
      <4>3. page_table[q] # f
        BY <1>2, <1>4, <2>2, <3>4, Zenon DEF IInv, FrameAccounting, f
      <4> QED BY <1>4, <1>7, <3>1, <4>2, <4>3
    <3> QED BY <3>3, <3>4
  <2> QED BY <2>1, <2>2 DEF PinnedPagesStay
<1>13. Aux'
  <2>1. \A g \in Frame : pages'[g].is_dirty => Mapped(g)'
    BY <1>5, <1>7 DEF IInv, Aux
  <2>2. \A q \in PageId : page_table'[q] # NoFrame => q < disk'.next
    BY <1>4 DEF IInv, Aux
  <2>3. \A d \in Client : pin'[d] # NoPin => pin'[d].page \in PageId
    BY <1>8 DEF IInv, Aux
  <2> QED BY <2>1, <2>2, <2>3 DEF Aux
<1> QED BY <1>10, <1>11, <1>12, <1>13 DEF IInv

\* DeletePage() moves an unpinned frame to the free list.
LEMMA DeletePageKeeps ==
  ASSUME IInv, NEW p \in PageId, DeletePage(p)
  PROVE  IInv'
<1> DEFINE f == page_table[p]
<1>1. /\ pages \in [Frame -> FrameState]
      /\ page_table \in [PageId -> Frame \cup {NoFrame}]
      /\ pin \in [Client -> PinState]
      /\ replacer \in Seq(Frame) /\ IsInjective(replacer)
      /\ free_list \in Seq(Frame) /\ IsInjective(free_list)
      /\ disk \in Disk /\ disk.size <= disk.next /\ aborted \in BOOLEAN
      /\ content \in [PageId -> Data]
      /\ \A g \in Frame : pages[g].is_dirty => Mapped(g)
  BY DEF IInv, TypeOK, FrameAccounting, Aux
<1>2. UNCHANGED <<disk, aborted, pin, content>>
  BY DEF DeletePage
<1>3. CASE UNCHANGED pool /\ live' \subseteq live
  <2>1. UNCHANGED <<pages, page_table, replacer, free_list>>
    BY <1>3 DEF pool
  <2> QED BY <1>1, <1>2, <1>3, <2>1, InPlaceKeeps
<1>4. CASE /\ f # NoFrame /\ ~(pages[f].pin_count > 0)
           /\ live' = live \ {p}
           /\ replacer' = Erased(replacer, f)
           /\ page_table' = [page_table EXCEPT ![p] = NoFrame]
           /\ pages' = [pages EXCEPT ![f].is_dirty = FALSE, ![f].data = Zero]
           /\ free_list' = Append(free_list, f)
  <2>1. f \in Frame /\ Mapped(f) /\ NoFrame \notin Frame /\ INVALID_PAGE_ID \notin PageId
    BY <1>1, <1>4 DEF Mapped, Frame, NoFrame, INVALID_PAGE_ID, PageId
  <2>2. f \notin Range(free_list)
    BY <2>1 DEF IInv, FrameAccounting
  <2>3. pages[f].pin_count = 0 /\ f \in Range(replacer)
    <3>1. pages[f].pin_count \in Nat
      BY <1>1, <2>1 DEF FrameState
    <3>2. pages[f].pin_count = 0
      BY <1>4, <3>1
    <3> QED BY <2>1, <3>2 DEF IInv, FrameAccounting
  <2>4. \A q \in PageId : page_table[q] = f => q = p
    BY <1>4 DEF IInv, FrameAccounting
  <2>5. \A d \in Client : pin[d] # NoPin => pin[d].page \in PageId \ {p}
    BY <1>4, <2>1, <2>3, VictimUnheld DEF IInv, Aux
  <2>6. /\ page_table' \in [PageId -> Frame \cup {NoFrame}]
        /\ page_table'[p] = NoFrame
        /\ \A q \in PageId \ {p} : page_table'[q] = page_table[q]
    BY <1>1, <1>4
  <2>7. \A g \in Frame : Mapped(g)' <=> g # f /\ Mapped(g)
    <3> SUFFICES ASSUME NEW g \in Frame
                 PROVE  (\E q \in PageId : page_table'[q] = g)
                        <=> g # f /\ \E q \in PageId : page_table[q] = g
      BY DEF Mapped
    <3> QED BY <2>1, <2>4, <2>6
  <2> HIDE DEF f
  <2>8. /\ pages' \in [Frame -> FrameState]
        /\ \A g \in Frame \ {f} : pages'[g] = pages[g]
    BY <1>1, <1>4, <2>1, DiskAssumption, Zenon DEF FrameState
  <2>9. ~pages'[f].is_dirty
    BY <1>1, <1>4, <2>1 DEF FrameState
  <2>10. /\ replacer' \in Seq(Frame) /\ IsInjective(replacer')
         /\ Range(replacer') = Range(replacer) \ {f}
    BY <1>1, <1>4, EraseFromList
  <2>11. /\ free_list' \in Seq(Frame) /\ IsInjective(free_list')
         /\ Range(free_list') = Range(free_list) \cup {f}
    BY <1>1, <1>4, <2>1, <2>2, AppendToList
  <2>12. TypeOK'
    BY <1>2, <1>4, <2>6, <2>8, <2>10, <2>11, Zenon DEF IInv, TypeOK
  <2>13. FrameAccounting'
    <3>1. \A g \in Frame : g \in Range(free_list') <=> ~Mapped(g)'
      BY <2>7, <2>11 DEF IInv, FrameAccounting
    <3>2. \A g \in Frame : g \in Range(replacer') <=> Mapped(g)' /\ pages'[g].pin_count = 0
      BY <2>7, <2>8, <2>10 DEF IInv, FrameAccounting
    <3>3. \A q \in PageId : page_table'[q] # NoFrame => pages'[page_table'[q]].page_id = q
      BY <1>1, <2>4, <2>6, <2>8 DEF IInv, FrameAccounting
    <3> QED BY <2>10, <2>11, <3>1, <3>2, <3>3 DEF FrameAccounting
  <2>14. PinnedPagesStay'
    <3>1. ASSUME NEW d \in Client, pin'[d] # NoPin
          PROVE  page_table'[pin'[d].page] = pin'[d].frame /\ pin'[d].frame # NoFrame
      BY <1>2, <2>5, <2>6, <3>1 DEF IInv, PinnedPagesStay
    <3>2. ASSUME NEW q \in PageId, page_table'[q] # NoFrame
          PROVE  pages'[page_table'[q]].pin_count = Cardinality(Holders(q)')
      <4>1. Holders(q)' = Holders(q)
        BY <1>2 DEF Holders
      <4>2. page_table'[q] = page_table[q] /\ page_table[q] \in Frame \ {f}
        BY <1>1, <2>4, <2>6, <3>2
      <4> QED BY <2>1, <2>8, <4>1, <4>2 DEF IInv, PinnedPagesStay
    <3> QED BY <3>1, <3>2 DEF PinnedPagesStay
  <2>15. Aux'
    <3>1. \A g \in Frame : pages'[g].is_dirty => Mapped(g)'
      BY <2>7, <2>8, <2>9 DEF IInv, Aux
    <3>2. \A q \in PageId : page_table'[q] # NoFrame => q < disk'.next
      BY <1>2, <2>6 DEF IInv, Aux
    <3>3. \A d \in Client : pin'[d] # NoPin => pin'[d].page \in PageId
      BY <1>2 DEF IInv, Aux
    <3> QED BY <3>1, <3>2, <3>3 DEF Aux
  <2> QED BY <2>12, <2>13, <2>14, <2>15 DEF IInv
<1>5. \/ UNCHANGED pool /\ live' \subseteq live
      \/ /\ f # NoFrame /\ ~(pages[f].pin_count > 0)
         /\ live' = live \ {p}
         /\ replacer' = Erased(replacer, f)
         /\ page_table' = [page_table EXCEPT ![p] = NoFrame]
         /\ pages' = [pages EXCEPT ![f].is_dirty = FALSE, ![f].data = Zero]
         /\ free_list' = Append(free_list, f)
  BY Zenon DEF DeletePage
<1> QED BY <1>3, <1>4, <1>5

\* FetchPage() of a page that is not buffered reads it into a victim's frame.
LEMMA FetchMissKeeps ==
  ASSUME IInv, NEW c \in Client, pin[c] = NoPin, NEW p \in PageId, p \in live,
         page_table[p] = NoFrame, victim # NoFrame, VictimIsUnused, FetchMiss(c, p)
  PROVE  IInv'
<1> DEFINE f == victim
           read == ReadPage(WrittenBack(f), p, pages[f].data)
<1>1. /\ TakeVictim /\ Occupy(c, f, p, read.data) /\ disk' = read.disk
      /\ UNCHANGED <<aborted, live, content>>
  BY DEF FetchMiss
<1>2. f \in Frame
  BY <1>1, TakeVictimRemoves
<1>3. pages[f].data \in Data /\ disk.next \in Int /\ p < disk.next
  BY <1>2, DiskAssumption DEF IInv, TypeOK, FrameState, Disk, PageId
<1>4. /\ WrittenBack(f) \in Disk
      /\ WrittenBack(f).next = disk.next
      /\ WrittenBack(f).size <= disk.next
  BY <1>2, WrittenBackKeeps
<1>5. /\ read.disk \in Disk
      /\ read.disk.next = disk.next
      /\ read.disk.size <= disk.next
      /\ read.data \in Data
  BY <1>3, <1>4, ReadPageKeeps
<1>6. /\ disk' \in Disk /\ disk'.next = disk.next /\ disk'.size <= disk.next
      /\ disk.next <= disk'.next /\ p < disk'.next
  BY <1>1, <1>3, <1>5
<1>7. /\ pages' \in [Frame -> FrameState]
      /\ page_table' \in [PageId -> Frame \cup {NoFrame}]
      /\ pin' \in [Client -> PinState]
      /\ replacer' \in Seq(Frame) /\ free_list' \in Seq(Frame)
      /\ FrameAccounting' /\ PinnedPagesStay' /\ Aux'
  BY <1>1, <1>5, <1>6, OccupyKeeps, Zenon
<1>8. TypeOK'
  BY <1>1, <1>6, <1>7, Zenon DEF IInv, TypeOK
<1> QED BY <1>7, <1>8 DEF IInv

\* NewPage() gives the victim's frame to a page id that was never handed out.
LEMMA NewPageKeeps ==
  ASSUME IInv, NEW c \in Client, NewPage(c)
  PROVE  IInv'
<1> DEFINE f == victim
           p == disk.next
<1>1. CASE Abort \/ UNCHANGED vars
  BY <1>1, AbortKeeps
<1>2. CASE /\ f # NoFrame /\ VictimIsUnused /\ TakeVictim
           /\ Occupy(c, f, p, Zero)
           /\ disk' = AllocatePage(WrittenBack(f))
           /\ live' = live \cup {p}
           /\ content' = [content EXCEPT ![p] = Zero]
           /\ UNCHANGED aborted
  <2>1. f \in Frame
    BY <1>2, TakeVictimRemoves
  <2>2. pin[c] = NoPin /\ p < MaxPages
    BY DEF NewPage, MayCall
  <2>3. /\ disk \in Disk /\ p \in PageId /\ p \in Int
        /\ live \in SUBSET (0 .. p - 1) /\ content \in [PageId -> Data]
    BY <2>2, DiskAssumption DEF IInv, TypeOK, Disk, PageId
  <2>4. page_table[p] = NoFrame
    BY <2>3 DEF IInv, Aux
  <2>5. /\ WrittenBack(f) \in Disk
        /\ WrittenBack(f).next = p
        /\ WrittenBack(f).size <= p
    BY <2>1, WrittenBackKeeps
  <2>6. /\ disk' \in Disk /\ disk'.next = p + 1 /\ disk'.size <= p + 1
    <3> DEFINE w == WrittenBack(f)
    <3>1. w \in Disk /\ w.next = p /\ w.size <= p /\ w.size \in Int
      BY <2>5, DiskAssumption DEF Disk
    <3>2. disk' = [w EXCEPT !.next = @ + 1]
      BY <1>2 DEF AllocatePage
    <3>3. p + 1 \in 0 .. MaxPages
      BY <2>3, DiskAssumption DEF PageId
    <3> HIDE DEF w, p
    <3>4. disk' = [w EXCEPT !.next = p + 1]
      BY <3>1, <3>2
    <3>5. disk' \in Disk /\ disk'.next = p + 1 /\ disk'.size = w.size
      BY <3>1, <3>3, <3>4 DEF Disk
    <3> QED BY <2>3, <3>1, <3>5
  <2> HIDE DEF f
  <2>7. p < disk'.next /\ disk.next <= disk'.next /\ Zero \in Data
    BY <2>3, <2>6, DiskAssumption
  <2>8. /\ pages' \in [Frame -> FrameState]
        /\ page_table' \in [PageId -> Frame \cup {NoFrame}]
        /\ pin' \in [Client -> PinState]
        /\ replacer' \in Seq(Frame) /\ free_list' \in Seq(Frame)
        /\ FrameAccounting' /\ PinnedPagesStay' /\ Aux'
    BY <1>2, <2>2, <2>3, <2>4, <2>6, <2>7, OccupyKeeps DEF f
  <2>9. live' \in SUBSET (0 .. disk'.next - 1) /\ content' \in [PageId -> Data]
    <3>1. live' = live \cup {p} /\ disk'.next - 1 = p /\ p \in Nat
      BY <1>2, <2>3, <2>6, DiskAssumption DEF PageId
    <3>2. content' \in [PageId -> Data]
      BY <1>2, <2>3, <2>7
    <3> HIDE DEF p
    <3>3. live' \subseteq 0 .. p
      BY <2>3, <3>1
    <3> QED BY <3>1, <3>2, <3>3
  <2>10. TypeOK'
    BY <1>2, <2>6, <2>8, <2>9 DEF IInv, TypeOK
  <2> QED BY <2>8, <2>10 DEF IInv
<1> QED BY <1>1, <1>2 DEF NewPage
------------------------------------------------------------------------------
\* A pool that has just been constructed: every frame is on the free list.
LEMMA InitIInv == Init => IInv
<1> SUFFICES ASSUME Init PROVE IInv
  OBVIOUS
<1>1. NoFrame \notin Frame /\ INVALID_PAGE_ID \notin PageId /\ PoolSize \in Nat
  BY PoolAssumption DEF NoFrame, Frame, INVALID_PAGE_ID, PageId
<1>2. disk \in Disk /\ disk.size = 0 /\ disk.next = 0
  BY DiskAssumption DEF Init, Open, EmptyFile, Disk
<1>3. pages \in [Frame -> FrameState] /\ pin \in [Client -> PinState]
  BY DiskAssumption DEF Init, FrameState, PinState, NoPin
<1>4. free_list \in Seq(Frame) /\ IsInjective(free_list) /\ Range(free_list) = Frame
  <2>1. free_list = [i \in 1 .. PoolSize |-> i] /\ Frame = 1 .. PoolSize
    BY DEF Init, Frame
  <2>2. free_list \in Seq(Frame)
    BY <1>1, <2>1
  <2>3. IsInjective(free_list) /\ Range(free_list) = Frame
    BY <2>1 DEF IsInjective, Range
  <2> QED BY <2>2, <2>3
<1>5. replacer \in Seq(Frame) /\ IsInjective(replacer) /\ Range(replacer) = {}
  <2>1. replacer = <<>> /\ <<>> \in Seq(Frame) /\ DOMAIN <<>> = {}
    BY DEF Init
  <2> QED BY <2>1 DEF IsInjective, Range
<1>6. \A f \in Frame : ~Mapped(f)
  BY <1>1 DEF Init, Mapped
<1>7. TypeOK
  <2>1. /\ page_table \in [PageId -> Frame \cup {NoFrame}]
        /\ content \in [PageId -> Data]
    BY DiskAssumption DEF Init
  <2>2. aborted \in BOOLEAN /\ live = {}
    BY Zenon DEF Init
  <2>3. disk.size <= disk.next
    BY <1>2
  <2> QED BY <1>2, <1>3, <1>4, <1>5, <2>1, <2>2, <2>3 DEF TypeOK
<1>8. FrameAccounting
  BY <1>4, <1>5, <1>6, Zenon DEF Init, FrameAccounting
<1>9. PinnedPagesStay
  BY DEF Init, PinnedPagesStay
<1>10. Aux
  <2>1. \A f \in Frame : ~pages[f].is_dirty
    BY DEF Init
  <2> QED BY <2>1 DEF Init, Aux
<1> QED BY <1>7, <1>8, <1>9, <1>10 DEF IInv

\* Every call of the pool keeps the invariant.
LEMMA NextIInv == IInv /\ [Next]_vars => IInv'
<1> SUFFICES ASSUME IInv, [Next]_vars PROVE IInv'
  OBVIOUS
<1>1. ASSUME NEW c \in Client, NewPage(c) PROVE IInv'
  BY <1>1, NewPageKeeps
<1>2. ASSUME NEW c \in Client, NEW p \in PageId, FetchPage(c, p) PROVE IInv'
  <2>1. pin[c] = NoPin /\ p \in live
    BY <1>2 DEF FetchPage, MayCall
  <2>2. CASE page_table[p] # NoFrame /\ FetchHit(c, p)
    BY <2>1, <2>2, FetchHitKeeps
  <2>3. CASE Abort \/ UNCHANGED vars
    BY <2>3, AbortKeeps
  <2>4. CASE page_table[p] = NoFrame /\ victim # NoFrame /\ VictimIsUnused /\ FetchMiss(c, p)
    BY <2>1, <2>4, FetchMissKeeps
  <2> QED BY <1>2, <2>2, <2>3, <2>4 DEF FetchPage
<1>3. ASSUME NEW c \in Client, NEW d \in UnpinFlags, Unpin(c, d) PROVE IInv'
  BY <1>3, PoolAssumption, UnpinKeeps
<1>4. ASSUME NEW p \in PageId, NEW d \in UnpinFlags, StrayUnpin(p, d) PROVE IInv'
  BY <1>4, StrayUnpinKeeps
<1>5. ASSUME NEW p \in PageId, FlushPage(p) PROVE IInv'
  BY <1>5, FlushPageKeeps
<1>6. ASSUME NEW p \in PageId, DeletePage(p) PROVE IInv'
  BY <1>6, DeletePageKeeps
<1>7. ASSUME NEW c \in Client, NEW data \in Data \ {Zero}, Write(c, data) PROVE IInv'
  BY <1>7, WriteKeeps
<1>8. CASE UNCHANGED vars
  BY <1>8, AbortKeeps
<1> QED BY <1>1, <1>2, <1>3, <1>4, <1>5, <1>6, <1>7, <1>8 DEF Next

\* The inductive invariant of the buffer pool.
THEOREM Inductive == Spec => []IInv
BY InitIInv, NextIInv, PTL DEF Spec

\* The variables of the pool keep their types.
THEOREM TypeCorrect == Spec => []TypeOK
<1>1. IInv => TypeOK
  BY DEF IInv
<1> QED BY <1>1, Inductive, PTL

\* No frame is leaked or listed twice, and the page table is right.
THEOREM FramesAccounted == Spec => []FrameAccounting
<1>1. IInv => FrameAccounting
  BY DEF IInv
<1> QED BY <1>1, Inductive, PTL

\* A client's page stays in the client's frame until it is unpinned, and pin
\* counts are exact.
THEOREM PinsRespected == Spec => []PinnedPagesStay
<1>1. IInv => PinnedPagesStay
  BY DEF IInv
<1> QED BY <1>1, Inductive, PTL

\* The victim's frame is missing only when both lists are empty.
LEMMA AllPinned == IInv => NullOnlyWhenAllPinned
<1> SUFFICES ASSUME IInv, victim = NoFrame, NEW f \in Frame
             PROVE  \E c \in Client : pin[c].frame = f
  BY DEF NullOnlyWhenAllPinned
<1>1. /\ free_list \in Seq(Frame) /\ IsInjective(free_list)
      /\ replacer \in Seq(Frame) /\ IsInjective(replacer)
      /\ NoFrame \notin Frame /\ INVALID_PAGE_ID \notin PageId
  BY DEF IInv, TypeOK, FrameAccounting, NoFrame, Frame, INVALID_PAGE_ID, PageId
<1>2. free_list = <<>>
  BY <1>1, TailOfList DEF victim
<1>3. replacer = <<>>
  BY <1>1, <1>2, OldestOfList DEF victim, Oldest
<1>4. Range(free_list) = {} /\ Range(replacer) = {}
  BY <1>2, <1>3 DEF Range
<1>5. Mapped(f) /\ pages[f].pin_count # 0
  BY <1>4 DEF IInv, FrameAccounting
<1>6. PICK p \in PageId : page_table[p] = f
  BY <1>5 DEF Mapped
<1>7. Cardinality(Holders(p)) # 0
  BY <1>1, <1>5, <1>6 DEF IInv, PinnedPagesStay
<1>8. PICK c \in Client : pin[c].page = p
  BY <1>7, FS_EmptySet, Zenon DEF Holders
<1>9. pin[c] # NoPin
  <2>1. p # INVALID_PAGE_ID
    BY <1>1, <1>6, Zenon
  <2>2. NoPin.page = INVALID_PAGE_ID
    BY DEF NoPin
  <2> QED BY <1>8, <2>1, <2>2, Zenon
<1> QED BY <1>6, <1>8, <1>9 DEF IInv, PinnedPagesStay

\* FetchPage() and NewPage() answer nullptr only when every frame is pinned.
THEOREM NullMeansAllPinned == Spec => []NullOnlyWhenAllPinned
BY AllPinned, Inductive, PTL
------------------------------------------------------------------------------
(* What the pool does to the content of a page.  Safe(q) says why the content  *)
(* of q will still be somewhere after an eviction: each action is shown to     *)
(* keep it, except an unpin of q as clean and a read that meets the end of the *)
(* file.                                                                       *)

\* Page by page: what the invariant says of the frames.
LEMMA PoolFacts ==
  ASSUME IInv
  PROVE  /\ pages \in [Frame -> FrameState]
         /\ page_table \in [PageId -> Frame \cup {NoFrame}]
         /\ disk \in Disk
         /\ content \in [PageId -> Data]
         /\ live \subseteq PageId
         /\ NoFrame \notin Frame
         /\ \A p \in PageId : page_table[p] # NoFrame =>
              /\ page_table[p] \in Frame
              /\ pages[page_table[p]].page_id = p
         /\ \A p, q \in PageId : page_table[p] = page_table[q] /\ p # q =>
              page_table[p] = NoFrame
<1>1. /\ pages \in [Frame -> FrameState]
      /\ page_table \in [PageId -> Frame \cup {NoFrame}]
      /\ disk \in Disk
      /\ content \in [PageId -> Data]
      /\ live \subseteq 0 .. disk.next - 1
  BY DEF IInv, TypeOK
<1>2. live \subseteq PageId
  BY <1>1, DiskAssumption DEF Disk, PageId
<1>3. NoFrame \notin Frame
  BY DEF NoFrame, Frame
<1>4. \A p \in PageId : page_table[p] # NoFrame => pages[page_table[p]].page_id = p
  BY DEF IInv, FrameAccounting
<1> QED BY <1>1, <1>2, <1>3, <1>4

\* Safe(q) after a step, spelt out.
LEMMA SafeStep ==
  ASSUME NEW q \in PageId, ~disk'.failed,
         page_table'[q] = NoFrame => Durable(q)',
         page_table'[q] # NoFrame =>
           /\ pages'[page_table'[q]].data = content'[q]
           /\ \/ pages'[page_table'[q]].is_dirty
              \/ pages'[page_table'[q]].pin_count > 0
              \/ Durable(q)'
  PROVE  Safe(q)'
BY DEF Safe

\* A step that changes neither the page nor its frame.
LEMMA SafeElsewhere ==
  ASSUME NEW q \in PageId, Safe(q),
         page_table'[q] = page_table[q], content'[q] = content[q], ~disk'.failed,
         page_table[q] # NoFrame => pages'[page_table[q]] = pages[page_table[q]],
         Durable(q) => Durable(q)'
  PROVE  Safe(q)'
BY SafeStep DEF Safe

\* Writing page p leaves the rest of the file alone.
LEMMA WritePageWrites ==
  ASSUME NEW d \in Disk, ~d.failed, NEW p \in PageId, NEW data \in Data
  PROVE  LET w == WritePage(d, p, data) IN
         /\ ~w.failed
         /\ p < w.size /\ w.file[p] = data
         /\ \A q \in PageId \ {p} : w.file[q] = d.file[q] /\ (q < d.size => q < w.size)
<1> DEFINE w == WritePage(d, p, data)
           size == IF p >= d.size THEN p + 1 ELSE d.size
           file == [d.file EXCEPT ![p] = data]
<1>1. w = [d EXCEPT !.file = file, !.size = size]
  BY DEF WritePage, Disk
<1>2. d.file \in [PageId -> Data] /\ d.size \in Int /\ PageId \subseteq Int
  BY DiskAssumption DEF Disk, PageId
<1>3. p < size /\ \A q \in PageId : q < d.size => q < size
  BY <1>2
<1>4. file[p] = data /\ \A q \in PageId \ {p} : file[q] = d.file[q]
  BY <1>2
<1> HIDE DEF size, file
<1>5. w.file = file /\ w.size = size
  BY <1>1 DEF Disk
<1>6. ~w.failed
  BY <1>1 DEF Disk
<1> QED BY <1>3, <1>4, <1>5, <1>6

\* Once a victim is written back, its page and all pages that were in the file
\* are in the file.
LEMMA VictimSaved ==
  ASSUME IInv, NEW f \in Frame, pages[f].pin_count = 0,
         NEW q \in PageId, Safe(q), page_table[q] = f \/ Durable(q)
  PROVE  /\ ~WrittenBack(f).failed
         /\ q < WrittenBack(f).size /\ WrittenBack(f).file[q] = content[q]
<1>1. ~disk.failed /\ disk \in Disk /\ f # NoFrame
  BY PoolFacts DEF Safe
<1>2. CASE ~pages[f].is_dirty
  <2>1. WrittenBack(f) = disk
    BY <1>2 DEF WrittenBack
  <2>2. Durable(q)
    BY <1>1, <1>2 DEF Safe
  <2> QED BY <1>1, <2>1, <2>2 DEF Durable
<1>3. CASE pages[f].is_dirty
  <2>1. PICK p \in PageId : page_table[p] = f
    BY <1>3 DEF IInv, Aux, Mapped
  <2>2. pages[f].page_id = p /\ pages[f].data \in Data
    BY <1>1, <2>1, PoolFacts DEF FrameState
  <2> DEFINE w == WrittenBack(f)
  <2>3. w = WritePage(disk, p, pages[f].data)
    BY <1>3, <2>2 DEF WrittenBack
  <2>4. /\ ~w.failed /\ p < w.size /\ w.file[p] = pages[f].data
        /\ \A r \in PageId \ {p} : w.file[r] = disk.file[r] /\ (r < disk.size => r < w.size)
    BY <1>1, <2>2, <2>3, WritePageWrites
  <2> HIDE DEF w
  <2>5. CASE q = p
    <3>1. pages[f].data = content[q]
      BY <1>1, <2>1, <2>5 DEF Safe
    <3> QED BY <2>4, <2>5, <3>1 DEF w
  <2>6. CASE q # p
    <3>1. Durable(q)
      BY <1>1, <2>1, <2>6, PoolFacts
    <3> QED BY <2>4, <2>6, <3>1 DEF Durable, w
  <2> QED BY <2>5, <2>6
<1> QED BY <1>2, <1>3
------------------------------------------------------------------------------
\* FetchPage() of a buffered page changes neither content nor flags.
LEMMA FetchHitSafe ==
  ASSUME IInv, NEW c \in Client, NEW p \in PageId, page_table[p] # NoFrame,
         FetchHit(c, p), NEW q \in PageId, Safe(q)
  PROVE  Safe(q)'
<1> DEFINE f == page_table[p]
<1>1. /\ pages' = [pages EXCEPT ![f].pin_count = @ + 1]
      /\ UNCHANGED <<page_table, disk, content>>
  BY DEF FetchHit
<1>2. pages \in [Frame -> FrameState] /\ f \in Frame
  BY PoolFacts
<1>3. ~disk'.failed /\ (Durable(q)' <=> Durable(q))
  BY <1>1 DEF Safe, Durable
<1>4. CASE page_table[q] # f
  <2>1. page_table[q] # NoFrame => pages'[page_table[q]] = pages[page_table[q]]
    BY <1>1, <1>2, <1>4, PoolFacts
  <2> QED BY <1>1, <1>3, <2>1, SafeElsewhere
<1>5. CASE page_table[q] = f
  <2> HIDE DEF f
  <2>1. pages[f] \in FrameState /\ pages'[f] = [pages[f] EXCEPT !.pin_count = @ + 1]
    BY <1>1, <1>2
  <2>2. /\ pages'[f].pin_count = pages[f].pin_count + 1
        /\ pages[f].pin_count \in Nat
        /\ pages'[f].data = pages[f].data
    BY <2>1, AddPin
  <2>3. f # NoFrame /\ pages[f].data = content[q]
    BY <1>2, <1>5, PoolFacts DEF Safe
  <2>4. pages'[f].pin_count > 0
    BY <2>2
  <2> QED BY <1>1, <1>3, <1>5, <2>2, <2>3, <2>4, SafeStep
<1> QED BY <1>4, <1>5

\* A page moves into the victim's frame: the content of the victim's own page
\* is in the file then, and the other pages are where they were.
LEMMA OccupySafe ==
  ASSUME IInv, NEW c \in Client, NEW p \in PageId, NEW data \in Data,
         victim # NoFrame, VictimIsUnused, TakeVictim, Occupy(c, victim, p, data),
         NEW q \in PageId, q # p, Safe(q), content'[q] = content[q], ~disk'.failed,
         disk'.file = WrittenBack(victim).file, disk'.size = WrittenBack(victim).size
  PROVE  Safe(q)'
<1> DEFINE f == victim
<1>1. /\ f \in Frame
      /\ page_table'[q] = IF page_table[q] = f THEN NoFrame ELSE page_table[q]
      /\ \A g \in Frame \ {f} : pages'[g] = pages[g]
  BY OccupyMoves, Zenon
<1>2. pages[f].pin_count = 0
  BY DEF VictimIsUnused
<1>3. page_table[q] = f \/ Durable(q) => Durable(q)'
  BY <1>1, <1>2, VictimSaved DEF Durable
<1> HIDE DEF f
<1>4. CASE page_table[q] = f
  BY <1>1, <1>3, <1>4, SafeStep
<1>5. CASE page_table[q] # f
  <2>1. page_table[q] # NoFrame => pages'[page_table[q]] = pages[page_table[q]]
    BY <1>1, <1>5, PoolFacts
  <2> QED BY <1>1, <1>3, <1>5, <2>1, SafeElsewhere
<1> QED BY <1>4, <1>5

\* FetchPage() reads back the content that is in the file, after the victim's has
\* been saved there.
LEMMA FetchMissSafe ==
  ASSUME IInv, NEW c \in Client, NEW p \in PageId, page_table[p] = NoFrame,
         victim # NoFrame, VictimIsUnused, FetchMiss(c, p),
         NEW q \in PageId, Safe(q), Safe(p) \/ ~disk'.failed
  PROVE  Safe(q)'
<1> DEFINE f == victim
           w == WrittenBack(f)
           read == ReadPage(w, p, pages[f].data)
<1>1. /\ TakeVictim /\ Occupy(c, f, p, read.data) /\ disk' = read.disk
      /\ UNCHANGED content
  BY DEF FetchMiss
<1>2. f \in Frame /\ pages[f].pin_count = 0 /\ pages[f].data \in Data
  BY <1>1, TakeVictimRemoves, PoolFacts DEF VictimIsUnused, FrameState
<1>3. w \in Disk /\ w.size \in Int /\ p \in Int
  BY <1>2, WrittenBackKeeps, DiskAssumption DEF Disk, PageId
<1>4. read.data \in Data
  BY <1>2, <1>3, ReadPageKeeps
<1>5. read.disk.file = w.file /\ read.disk.size = w.size
  BY <1>3 DEF ReadPage, Disk
<1>6. Safe(p) => read.disk = w /\ ~w.failed /\ read.data = content[p]
  <2> SUFFICES ASSUME Safe(p) PROVE read.disk = w /\ ~w.failed /\ read.data = content[p]
    OBVIOUS
  <2>1. Durable(p)
    BY DEF Safe
  <2>2. ~w.failed /\ p < w.size /\ w.file[p] = content[p]
    BY <1>2, <2>1, VictimSaved
  <2>3. ~(p > w.size) /\ ~(p = w.size \/ w.failed)
    BY <1>3, <2>2
  <2>4. read = [disk |-> w, data |-> w.file[p]]
    BY <2>3, Zenon DEF ReadPage
  <2> QED BY <2>2, <2>4
<1> HIDE DEF w, read
<1>7. ~disk'.failed
  BY <1>1, <1>6
<1>8. CASE q # p
  BY <1>1, <1>4, <1>5, <1>7, <1>8, OccupySafe DEF w
<1>9. CASE q = p
  <2>1. /\ page_table'[p] = f
        /\ pages'[f] = [page_id |-> p, pin_count |-> 1, is_dirty |-> FALSE, data |-> read.data]
    BY <1>1, <1>4, OccupyMoves
  <2>2. f # NoFrame /\ read.data = content'[p]
    BY <1>1, <1>6, <1>9
  <2>3. pages'[f].data = content'[p] /\ pages'[f].pin_count > 0
    BY <2>1, <2>2
  <2> QED BY <1>7, <1>9, <2>1, <2>2, <2>3, SafeStep
<1> QED BY <1>8, <1>9

\* NewPage() saves the victim's content; the id it hands out is no live page's.
LEMMA NewPageSafe ==
  ASSUME IInv, NEW c \in Client, NewPage(c), ~(Abort \/ UNCHANGED vars), ~disk.failed
  PROVE  /\ ~disk'.failed
         /\ live' = live \cup {disk.next}
         /\ \A q \in {disk.next} : Safe(q)'
         /\ \A q \in live : Safe(q) => Safe(q)'
<1> DEFINE f == victim
           w == WrittenBack(f)
<1>0. PICK p \in PageId : p = disk.next
  BY PoolFacts, DiskAssumption DEF NewPage, Disk, PageId
<1>1. /\ victim # NoFrame /\ VictimIsUnused
      /\ TakeVictim /\ Occupy(c, f, p, Zero) /\ disk' = AllocatePage(w)
      /\ live' = live \cup {p}
      /\ content' = [content EXCEPT ![p] = Zero]
  BY <1>0 DEF NewPage
<1>2. f \in Frame /\ pages[f].data \in Data
  BY <1>1, TakeVictimRemoves, PoolFacts DEF FrameState
<1>3. w \in Disk /\ Zero \in Data
  BY <1>1, <1>2, WrittenBackKeeps, PoolFacts, DiskAssumption
<1>4. disk'.file = w.file /\ disk'.size = w.size
  BY <1>1, <1>3 DEF AllocatePage, Disk
<1>5. ~w.failed
  <2>1. CASE ~pages[f].is_dirty
    BY <2>1 DEF WrittenBack
  <2>2. CASE pages[f].is_dirty
    <3>1. PICK r \in PageId : page_table[r] = f
      BY <1>2, <2>2 DEF IInv, Aux, Mapped
    <3>2. pages[f].page_id = r
      BY <1>2, <3>1, PoolFacts
    <3>3. w = WritePage(disk, r, pages[f].data)
      BY <2>2, <3>2 DEF WrittenBack
    <3> QED BY <1>2, <3>3, PoolFacts, WritePageWrites
  <2> QED BY <2>1, <2>2
<1>6. ~disk'.failed
  BY <1>1, <1>3, <1>5 DEF AllocatePage, Disk
<1> HIDE DEF w
<1>7. content'[p] = Zero /\ \A q \in PageId \ {p} : content'[q] = content[q]
  BY <1>1, <1>3, PoolFacts
<1>8. Safe(p)'
  <2>1. /\ page_table'[p] = f
        /\ pages'[f] = [page_id |-> p, pin_count |-> 1, is_dirty |-> FALSE, data |-> Zero]
    BY <1>1, <1>3, OccupyMoves
  <2>2. f # NoFrame /\ pages'[f].data = content'[p] /\ pages'[f].pin_count > 0
    BY <1>1, <1>7, <2>1
  <2> QED BY <1>3, <1>6, <2>1, <2>2, SafeStep
<1>9. ASSUME NEW q \in live, Safe(q) PROVE Safe(q)'
  <2>1. q \in PageId
    BY PoolFacts
  <2>2. q # p
    BY <1>0 DEF IInv, TypeOK, Disk
  <2> QED BY <1>1, <1>3, <1>4, <1>6, <1>7, <1>9, <2>1, <2>2, OccupySafe DEF w
<1> QED BY <1>0, <1>1, <1>6, <1>8, <1>9

\* UnpinPage() with is_dirty = true marks the page, whoever calls it; with false it
\* touches no other page.
LEMMA UnpinPageSafe ==
  ASSUME IInv, NEW p \in PageId, NEW b \in BOOLEAN, UnpinPage(p, b),
         UNCHANGED <<page_table, disk, content>>,
         NEW q \in PageId, Safe(q), q = p => b
  PROVE  Safe(q)'
<1> DEFINE f == page_table[p]
<1>1. ~disk'.failed /\ (Durable(q)' <=> Durable(q))
  BY DEF Safe, Durable
<1>2. /\ pages \in [Frame -> FrameState]
      /\ f # NoFrame => f \in Frame
  BY PoolFacts
<1>3. \/ UNCHANGED pages
      \/ f # NoFrame /\ pages' = [pages EXCEPT ![f].is_dirty = b]
      \/ f # NoFrame /\ pages' = [pages EXCEPT ![f].is_dirty = b, ![f].pin_count = @ - 1]
  BY Zenon DEF UnpinPage
<1>4. CASE UNCHANGED pages
  BY <1>1, <1>4, SafeElsewhere
<1>5. CASE q # p
  <2>1. page_table[q] # NoFrame => page_table[q] # f /\ page_table[q] \in Frame
    BY <1>5, PoolFacts
  <2>2. page_table[q] # NoFrame => pages'[page_table[q]] = pages[page_table[q]]
    BY <1>2, <1>3, <2>1
  <2> QED BY <1>1, <2>2, SafeElsewhere
<1>6. CASE q = p /\ ~UNCHANGED pages
  <2>1. f # NoFrame /\ b = TRUE
    BY <1>3, <1>6
  <2>2. pages[f].data = content[q]
    BY <1>6, <2>1 DEF Safe
  <2> HIDE DEF f
  <2>3. pages'[f].data = pages[f].data
    BY <1>2, <1>3, <2>1, Zenon DEF FrameState
  <2>4. pages'[f].is_dirty
    BY <1>2, <1>3, <1>6, <2>1, Zenon DEF FrameState
  <2> QED BY <1>1, <1>6, <2>1, <2>2, <2>3, <2>4, SafeStep DEF f
<1> QED BY <1>4, <1>5, <1>6

\* FlushPage() clears the flag of a page only after it has written the page.
LEMMA FlushPageSafe ==
  ASSUME IInv, NEW p \in PageId, FlushPage(p), NEW q \in PageId, Safe(q)
  PROVE  Safe(q)'
<1> DEFINE f == page_table[p]
<1>1. UNCHANGED <<page_table, content>>
  BY DEF FlushPage
<1>2. CASE UNCHANGED <<disk, pages>>
  <2>1. ~disk'.failed /\ (Durable(q)' <=> Durable(q))
    BY <1>1, <1>2 DEF Safe, Durable
  <2> QED BY <1>1, <1>2, <2>1, SafeElsewhere
<1>3. CASE /\ f # NoFrame
           /\ disk' = WritePage(disk, p, pages[f].data)
           /\ pages' = [pages EXCEPT ![f].is_dirty = FALSE]
  <2>1. /\ f \in Frame /\ pages[f] \in FrameState /\ pages \in [Frame -> FrameState]
        /\ disk \in Disk /\ ~disk.failed /\ pages[f].data \in Data
    BY <1>3, PoolFacts DEF Safe, FrameState
  <2>2. /\ ~disk'.failed /\ p < disk'.size /\ disk'.file[p] = pages[f].data
        /\ \A r \in PageId \ {p} : disk'.file[r] = disk.file[r]
                                   /\ (r < disk.size => r < disk'.size)
    BY <1>3, <2>1, WritePageWrites
  <2>3. CASE q # p
    <3>1. page_table[q] # NoFrame => pages'[page_table[q]] = pages[page_table[q]]
      BY <1>3, <2>1, <2>3, PoolFacts
    <3>2. Durable(q) => Durable(q)'
      BY <1>1, <2>2, <2>3 DEF Durable
    <3> QED BY <1>1, <2>2, <3>1, <3>2, SafeElsewhere
  <2>4. CASE q = p
    <3>1. pages[f].data = content[q]
      BY <1>3, <2>4 DEF Safe
    <3>2. Durable(q)'
      BY <1>1, <2>2, <2>4, <3>1 DEF Durable
    <3> HIDE DEF f
    <3>3. pages'[f].data = pages[f].data
      BY <1>3, <2>1 DEF FrameState
    <3> QED BY <1>1, <1>3, <2>2, <2>4, <3>1, <3>2, <3>3, SafeStep DEF f
  <2> QED BY <2>3, <2>4
<1> QED BY <1>2, <1>3 DEF FlushPage

\* DeletePage() forgets the page; the others are where they were.
LEMMA DeletePageSafe ==
  ASSUME IInv, NEW p \in PageId, DeletePage(p),
         NEW q \in PageId, Safe(q), q \in live'
  PROVE  Safe(q)'
<1> DEFINE f == page_table[p]
<1>1. UNCHANGED content /\ ~disk'.failed /\ (Durable(q)' <=> Durable(q))
  BY Zenon DEF DeletePage, Safe, Durable
<1>2. CASE UNCHANGED <<pages, page_table>>
  BY <1>1, <1>2, SafeElsewhere
<1>3. CASE /\ f # NoFrame
           /\ live' = live \ {p}
           /\ page_table' = [page_table EXCEPT ![p] = NoFrame]
           /\ pages' = [pages EXCEPT ![f].is_dirty = FALSE, ![f].data = Zero]
  <2>1. q # p /\ page_table'[q] = page_table[q] /\ page_table[q] # f
    BY <1>3, PoolFacts
  <2> HIDE DEF f
  <2>2. page_table[q] # NoFrame => pages'[page_table[q]] = pages[page_table[q]]
    BY <1>3, <2>1, PoolFacts
  <2> QED BY <1>1, <2>1, <2>2, SafeElsewhere
<1> QED BY <1>2, <1>3, Zenon DEF DeletePage, pool

\* A client writes to the frame of its own page and to no other.
LEMMA WriteSafe ==
  ASSUME IInv, NEW c \in Client, NEW data \in Data, Write(c, data),
         NEW q \in PageId, Safe(q)
  PROVE  Safe(q)'
<1> DEFINE p == pin[c].page
           f == pin[c].frame
<1>1. /\ pages' = [pages EXCEPT ![f].data = data]
      /\ content' = [content EXCEPT ![p] = data]
      /\ UNCHANGED <<page_table, disk>>
      /\ pin[c] # NoPin
  BY DEF Write
<1>2. p \in PageId /\ page_table[p] = f /\ f # NoFrame
  BY <1>1, Zenon DEF IInv, PinnedPagesStay, Aux
<1>3. f \in Frame /\ pages[f] \in FrameState /\ pages \in [Frame -> FrameState]
  BY <1>2, PoolFacts
<1>4. pages[f].pin_count # 0 /\ pages[f].pin_count \in Nat
  <2>1. c \in Holders(p) /\ Holders(p) \subseteq Client
    BY DEF Holders
  <2>2. Cardinality(Holders(p)) # 0
    BY <2>1, HoldersCount, Zenon
  <2> QED BY <1>2, <1>3, <2>2, Zenon DEF IInv, PinnedPagesStay, FrameState
<1>5. ~disk'.failed
  BY <1>1 DEF Safe
<1>6. q # p => page_table[q] # f
  BY <1>2, PoolFacts
<1> HIDE DEF p, f
<1>7. content'[p] = data /\ (q # p => content'[q] = content[q])
  BY <1>1, <1>2, PoolFacts
<1>8. /\ \A g \in Frame : g # f => pages'[g] = pages[g]
      /\ pages'[f].data = data
      /\ pages'[f].pin_count > 0
  BY <1>1, <1>3, <1>4 DEF FrameState
<1>9. CASE q = p
  BY <1>1, <1>2, <1>5, <1>7, <1>8, <1>9, SafeStep
<1>10. CASE q # p
  <2>1. page_table[q] # NoFrame => pages'[page_table[q]] = pages[page_table[q]]
    BY <1>6, <1>8, <1>10, PoolFacts
  <2>2. Durable(q) => Durable(q)'
    BY <1>1, <1>7, <1>10 DEF Durable
  <2> QED BY <1>1, <1>5, <1>7, <1>10, <2>1, <2>2, SafeElsewhere
<1> QED BY <1>9, <1>10
------------------------------------------------------------------------------
\* What a step does to a safe page that stays: an unpin of it as clean and a read
\* that fails the stream are the exceptions.
LEMMA StepSafe ==
  ASSUME IInv, [Next]_vars, NEW q \in live, q \in live', Safe(q),
         \A c \in Client, b \in UnpinFlags : pin[c].page = q /\ Unpin(c, b) => b,
         \A b \in UnpinFlags : StrayUnpin(q, b) => b,
         \A p \in live : Safe(p) \/ ~disk'.failed
  PROVE  Safe(q)'
<1>1. q \in PageId /\ ~disk.failed
  BY PoolFacts, Zenon DEF Safe
<1>2. ASSUME Abort \/ UNCHANGED vars PROVE Safe(q)'
  <2>1. UNCHANGED <<pages, page_table, disk, content>>
    BY <1>2 DEF Abort, vars, pool
  <2>2. ~disk'.failed /\ (Durable(q)' <=> Durable(q))
    BY <1>1, <2>1 DEF Durable
  <2> QED BY <1>1, <2>1, <2>2, SafeElsewhere
<1>3. ASSUME NEW c \in Client, NewPage(c) PROVE Safe(q)'
  BY <1>1, <1>2, <1>3, NewPageSafe
<1>4. ASSUME NEW c \in Client, NEW p \in PageId, FetchPage(c, p) PROVE Safe(q)'
  <2>1. p \in live
    BY <1>4 DEF FetchPage
  <2>2. CASE page_table[p] # NoFrame /\ FetchHit(c, p)
    BY <1>1, <2>2, FetchHitSafe
  <2>3. CASE page_table[p] = NoFrame /\ victim # NoFrame /\ VictimIsUnused /\ FetchMiss(c, p)
    BY <1>1, <2>1, <2>3, FetchMissSafe
  <2> QED BY <1>2, <1>4, <2>2, <2>3 DEF FetchPage
<1>5. ASSUME NEW c \in Client, NEW b \in UnpinFlags, Unpin(c, b) PROVE Safe(q)'
  <2>1. pin[c].page \in PageId /\ b \in BOOLEAN
    BY <1>5, PoolAssumption DEF Unpin, IInv, Aux
  <2>2. UnpinPage(pin[c].page, b) /\ UNCHANGED <<page_table, disk, content>>
    BY <1>5 DEF Unpin
  <2>3. q = pin[c].page => b
    BY <1>5, <2>1
  <2> QED BY <1>1, <2>1, <2>2, <2>3, UnpinPageSafe
<1>6. ASSUME NEW p \in PageId, NEW b \in UnpinFlags, StrayUnpin(p, b) PROVE Safe(q)'
  <2>1. UnpinPage(p, b) /\ UNCHANGED <<page_table, disk, content>>
    BY <1>6 DEF StrayUnpin
  <2>2. b \in BOOLEAN /\ (q = p => b)
    BY <1>6, PoolAssumption
  <2> QED BY <1>1, <2>1, <2>2, UnpinPageSafe
<1>7. ASSUME NEW p \in PageId, FlushPage(p) PROVE Safe(q)'
  BY <1>1, <1>7, FlushPageSafe
<1>8. ASSUME NEW p \in PageId, DeletePage(p) PROVE Safe(q)'
  BY <1>1, <1>8, DeletePageSafe
<1>9. ASSUME NEW c \in Client, NEW data \in Data \ {Zero}, Write(c, data) PROVE Safe(q)'
  BY <1>1, <1>9, WriteSafe
<1> QED BY <1>2, <1>3, <1>4, <1>5, <1>6, <1>7, <1>8, <1>9 DEF Next

\* Content is lost only by an unpin as clean, or over a page lost before.
THEOREM LossesAreCleanUnpins == Spec => OnlyCleanUnpinsLose
<1> DEFINE Lost == \A p \in live \cap live' :
                     Safe(p) /\ ~Safe(p)' => CleanUnpin(p) \/ FailedRead
<1>1. IInv /\ [Next]_vars => [Lost]_vars
  <2> SUFFICES ASSUME IInv, [Next]_vars, NEW q \in live \cap live', Safe(q),
                      ~CleanUnpin(q), ~FailedRead
               PROVE  Safe(q)'
    OBVIOUS
  <2>1. /\ \A c \in Client, b \in BOOLEAN : pin[c].page = q /\ Unpin(c, b) => b
        /\ \A b \in BOOLEAN : StrayUnpin(q, b) => b
    BY Zenon DEF CleanUnpin
  <2>2. \A p \in live : Safe(p) \/ ~disk'.failed
    BY DEF FailedRead
  <2> QED BY <2>1, <2>2, PoolAssumption, StepSafe
<1> QED BY <1>1, Inductive, PTL DEF Spec, OnlyCleanUnpinsLose
------------------------------------------------------------------------------
\* The stream has not failed, and every page is safe.
SInv == IInv /\ ~disk.failed /\ \A p \in live : Safe(p)

LEMMA InitSInv == Init => SInv
BY InitIInv DEF Init, Open, SInv

\* Every call keeps the content of the live pages, if callers unpin as dirty.
LEMMA NextSInv ==
  ASSUME UnpinFlags = {TRUE}
  PROVE  SInv /\ [Next]_vars => SInv'
<1> SUFFICES ASSUME SInv, [Next]_vars PROVE SInv'
  OBVIOUS
<1>1. IInv /\ IInv' /\ ~disk.failed /\ live \subseteq PageId /\ \A p \in live : Safe(p)
  BY NextIInv, PoolFacts DEF SInv
<1>2. ASSUME NEW q \in live, q \in live' PROVE Safe(q)'
  BY <1>1, <1>2, StepSafe
<1>3. CASE \E c \in Client : NewPage(c) /\ ~(Abort \/ UNCHANGED vars)
  <2>1. /\ ~disk'.failed
        /\ live' = live \cup {disk.next}
        /\ \A q \in {disk.next} : Safe(q)'
    BY <1>1, <1>3, NewPageSafe
  <2>2. \A q \in live' : Safe(q)'
    BY <1>2, <2>1
  <2> QED BY <1>1, <2>1, <2>2 DEF SInv
<1>4. ASSUME live' \subseteq live, ~disk'.failed PROVE SInv'
  BY <1>1, <1>2, <1>4 DEF SInv
<1>5. CASE Abort \/ UNCHANGED vars
  <2>1. UNCHANGED <<live, disk>>
    BY <1>5 DEF Abort, vars, pool
  <2> QED BY <1>1, <1>4, <2>1
<1>6. ASSUME NEW c \in Client, NEW p \in PageId, FetchPage(c, p) PROVE SInv'
  <2>1. p \in live /\ Safe(p)
    BY <1>1, <1>6 DEF FetchPage
  <2>2. CASE page_table[p] # NoFrame /\ FetchHit(c, p)
    <3>1. UNCHANGED <<live, disk>>
      BY <2>2 DEF FetchHit
    <3> QED BY <1>1, <1>4, <3>1
  <2>3. CASE page_table[p] = NoFrame /\ victim # NoFrame /\ VictimIsUnused /\ FetchMiss(c, p)
    <3>1. UNCHANGED live
      BY <2>3 DEF FetchMiss
    <3>2. ~disk'.failed
      BY <1>2, <2>1, <3>1 DEF Safe
    <3> QED BY <1>4, <3>1, <3>2
  <2> QED BY <1>5, <1>6, <2>2, <2>3 DEF FetchPage
<1>7. ASSUME NEW p \in PageId, FlushPage(p) PROVE SInv'
  <2>1. UNCHANGED live /\ p \in live
    BY <1>7 DEF FlushPage
  <2>2. ~disk'.failed
    BY <1>2, <2>1 DEF Safe
  <2> QED BY <1>4, <2>1, <2>2
<1>8. ASSUME NEW p \in PageId, DeletePage(p) PROVE SInv'
  <2>1. UNCHANGED disk /\ live' \subseteq live
    BY <1>8 DEF DeletePage
  <2> QED BY <1>1, <1>4, <2>1
<1>9. ASSUME \/ \E c \in Client, b \in UnpinFlags : Unpin(c, b)
             \/ \E p \in PageId, b \in UnpinFlags : StrayUnpin(p, b)
             \/ \E c \in Client, data \in Data \ {Zero} : Write(c, data)
      PROVE  SInv'
  <2>1. UNCHANGED <<live, disk>>
    BY <1>9, Zenon DEF Unpin, StrayUnpin, Write
  <2> QED BY <1>1, <1>4, <2>1
<1> QED BY <1>3, <1>5, <1>6, <1>7, <1>8, <1>9, Zenon DEF Next

\* Eviction, flushing and refetching lose no update, as long as every caller
\* unpins with is_dirty = true.
THEOREM NothingLost ==
  ASSUME UnpinFlags = {TRUE}
  PROVE  Spec => []ContentPreserved
<1>1. SInv => ContentPreserved
  BY DEF SInv, ContentPreserved, Safe, Durable
<1> QED BY <1>1, InitSInv, NextSInv, PTL DEF Spec
==============================================================================
