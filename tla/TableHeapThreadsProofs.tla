------------------------ MODULE TableHeapThreadsProofs ------------------------
(* The table heap between threads, for every number of threads, frames, pages *)
(* and slots.  TableHeapThreadsWrites shows that its steps keep HInv if the   *)
(* pool does what the heap relies on; here the pool's own lemmas show that it *)
(* does, and HInv gives the properties.                                       *)
EXTENDS TableHeapThreadsWrites, BufferPoolProofs

\* A set of natural numbers that is not empty has a least element.
LEMMA Least ==
  ASSUME NEW T \in SUBSET Nat, T # {}
  PROVE  \E m \in T : \A k \in T : m <= k
<1> DEFINE R == OpToRel(<, Nat)
<1>1. IsWellFoundedOn(R, Nat)
  BY NatLessThanWellFounded, Zenon
<1>2. \A a, b \in Nat : <<a, b>> \in R <=> a < b
  BY DEF OpToRel
<1> HIDE DEF R
<1>3. PICK m \in T : \A k \in T : ~(<<k, m>> \in R)
  BY <1>1, WFMin, Zenon
<1>4. \A k \in T : ~(k < m)
  BY <1>2, <1>3, Zenon
<1> QED BY <1>4
-------------------------------------------------------------------------------
\* A step that changes neither frames nor pins nor pages.
LEMMA LeavesHold ==
  ASSUME HInv
  PROVE  Leaves
<1> SUFFICES ASSUME UNCHANGED <<pool, disk, pin, live, content>>, aborted' \in BOOLEAN
             PROVE  IInv' /\ Frames'
  BY DEF Leaves
<1>1. UNCHANGED <<pages, page_table, replacer, free_list, disk, pin, live, content>>
  BY DEF pool
<1>2. IInv'
  <2>1. disk \in Disk /\ disk.size <= disk.next
        /\ pages \in [Frame -> FrameState] /\ pin \in [Client -> PinState]
        /\ content \in [PageId -> Data] /\ \A g \in Frame : pages[g].is_dirty => Mapped(g)
    BY Zenon DEF HInv, IInv, TypeOK, Aux
  <2>2. IInv /\ UNCHANGED <<page_table, replacer, free_list>> /\ live' \subseteq live
    BY <1>1, Zenon DEF HInv
  <2> QED BY <1>1, <2>1, <2>2, InPlaceKeeps
<1>3. \A f \in Frame : Mapped(f)' <=> Mapped(f)
  BY <1>1 DEF Mapped
<1>4. Frames'
  BY <1>1, <1>3, Zenon DEF HInv, Frames
<1> QED BY <1>2, <1>4

\* GetVictimPage() meets its asserts.
LEMMA VictimsUnused ==
  ASSUME HInv, victim # NoFrame
  PROVE  VictimIsUnused
<1>1. /\ free_list \in Seq(Frame) /\ IsInjective(free_list)
      /\ replacer \in Seq(Frame) /\ IsInjective(replacer)
  BY DEF HInv, IInv, TypeOK, FrameAccounting
<1>2. CASE free_list # <<>>
  <2>1. victim = Head(free_list) /\ victim \in Range(free_list) /\ victim \in Frame
    BY <1>1, <1>2, TailOfList, Zenon DEF victim
  <2>2. ~Mapped(victim)
    BY <2>1, Zenon DEF HInv, IInv, FrameAccounting
  <2> QED BY <2>1, <2>2 DEF HInv, Frames, VictimIsUnused
<1>3. CASE free_list = <<>>
  <2>1. victim \in Range(replacer) /\ victim \in Frame
    BY <1>1, <1>3, OldestOfList DEF victim, Oldest
  <2> QED BY <1>3, <2>1, Zenon DEF HInv, IInv, FrameAccounting, VictimIsUnused
<1> QED BY <1>2, <1>3

\* The frames after a page has moved into the victim's.
LEMMA OccupiedFrames ==
  ASSUME HInv, NEW c \in Client, NEW p \in PageId, page_table[p] = NoFrame,
         NEW data \in Data, victim # NoFrame, TakeVictim, Occupy(c, victim, p, data)
  PROVE  /\ \A f \in Frame : ~Mapped(f)' =>
              pages'[f].page_id = INVALID_PAGE_ID /\ pages'[f].pin_count = 0
         /\ \A q \in PageId : page_table'[q] # NoFrame => q = p \/ page_table[q] # NoFrame
         /\ \A d \in Client : ~pin'[d].wrote
         /\ victim \in Frame /\ pin' = [pin EXCEPT ![c] = [page |-> p, frame |-> victim, wrote |-> FALSE]]
         /\ page_table'[p] = victim
<1>1. VictimIsUnused
  BY VictimsUnused
<1>2. /\ victim \in Frame
      /\ page_table'[p] = victim
      /\ \A q \in PageId \ {p} : page_table'[q] =
           IF page_table[q] = victim THEN NoFrame ELSE page_table[q]
      /\ \A g \in Frame \ {victim} : pages'[g] = pages[g]
  BY <1>1, OccupyMoves, Zenon DEF HInv
<1>3. NoFrame \notin Frame
  BY DEF NoFrame, Frame
<1>4. ASSUME NEW f \in Frame, ~Mapped(f)' PROVE ~Mapped(f) /\ f # victim
  <2>1. f # victim
    BY <1>2, <1>4, Zenon DEF Mapped
  <2>2. ASSUME NEW q \in PageId, page_table[q] = f PROVE FALSE
    BY <1>2, <1>3, <1>4, <2>1, <2>2 DEF Mapped
  <2> QED BY <2>1, <2>2, Zenon DEF Mapped
<1>5. pin' = [pin EXCEPT ![c] = [page |-> p, frame |-> victim, wrote |-> FALSE]]
  BY DEF Occupy
<1>6. \A d \in Client : ~pin'[d].wrote
  <2>1. pin \in [Client -> PinState] /\ \A d \in Client : ~pin[d].wrote
    BY DEF HInv, IInv, TypeOK, Frames
  <2> QED BY <1>5, <2>1
<1>7. \A f \in Frame : ~Mapped(f)' =>
        pages'[f].page_id = INVALID_PAGE_ID /\ pages'[f].pin_count = 0
  BY <1>2, <1>4 DEF HInv, Frames
<1> QED BY <1>2, <1>5, <1>6, <1>7

\* FetchPage() that does not answer nullptr.
LEMMA FetchesHold ==
  ASSUME HInv
  PROVE  Fetches
<1> SUFFICES ASSUME NEW c \in Client, NEW p \in PageId, ~IsNull(p), FetchPage(c, p)
             PROVE  /\ IInv' /\ Frames' /\ UNCHANGED <<aborted, live, content>>
                    /\ pin[c] = NoPin /\ pin'[c] # NoPin /\ pin'[c].page = p
                    /\ \A d \in Client \ {c} : pin'[d] = pin[d]
  BY Zenon DEF Fetches
<1>1. pin[c] = NoPin /\ p \in live /\ IInv /\ pin \in [Client -> PinState]
  BY Zenon DEF FetchPage, MayCall, HInv, IInv, TypeOK
<1>2. INVALID_PAGE_ID \notin PageId /\ \A f : NoPin # [page |-> p, frame |-> f, wrote |-> FALSE]
  <2>1. INVALID_PAGE_ID \notin PageId
    BY DEF INVALID_PAGE_ID, PageId
  <2>2. NoPin.page = INVALID_PAGE_ID
    BY Zenon DEF NoPin
  <2> QED BY <2>1, <2>2
<1>3. CASE page_table[p] # NoFrame /\ FetchHit(c, p)
  <2> DEFINE f == page_table[p]
  <2>1. IInv'
    BY <1>1, <1>3, FetchHitKeeps, Zenon
  <2>2. /\ pages' = [pages EXCEPT ![f].pin_count = @ + 1]
        /\ pin' = [pin EXCEPT ![c] = [page |-> p, frame |-> f, wrote |-> FALSE]]
        /\ UNCHANGED <<page_table, aborted, live, content>>
    BY <1>3, Zenon DEF FetchHit
  <2>3. pages \in [Frame -> FrameState] /\ f \in Frame /\ Mapped(f)
    BY <1>1, <1>3, PoolFacts DEF Mapped
  <2>4. \A g \in Frame : pages'[g].data = pages[g].data /\ (g # f => pages'[g] = pages[g])
    <3>1. \A g \in Frame : g # f => pages'[g] = pages[g]
      BY <2>2, <2>3, Zenon
    <3>2. pages[f] \in FrameState /\ pages'[f] = [pages[f] EXCEPT !.pin_count = @ + 1]
      BY <2>2, <2>3, Zenon
    <3>3. pages'[f].data = pages[f].data
      BY <3>2, AddPin
    <3> QED BY <3>1, <3>3
  <2>5. \A g \in Frame : Mapped(g)' <=> Mapped(g)
    BY <2>2 DEF Mapped
  <2>6. \A d \in Client : ~pin'[d].wrote
    BY <1>1, <2>2, Zenon DEF HInv, Frames
  <2>7. Frames'
    <3>1. \A g \in Frame : ~Mapped(g)' => pages'[g].page_id = INVALID_PAGE_ID /\ pages'[g].pin_count = 0
      BY <2>3, <2>4, <2>5 DEF HInv, Frames
    <3>2. \A q \in PageId : page_table'[q] # NoFrame => q \in live'
      BY <2>2, Zenon DEF HInv, Frames
    <3>3. Cardinality(live') <= PoolSize =>
            \A q \in live' : page_table'[q] # NoFrame /\ pages'[page_table'[q]].data = content'[q]
      BY <2>2, <2>4, PoolFacts DEF HInv, Frames
    <3> QED BY <2>6, <3>1, <3>2, <3>3, Zenon DEF Frames
  <2> QED BY <1>1, <1>2, <2>1, <2>2, <2>7, Zenon
<1>4. CASE page_table[p] = NoFrame /\ victim # NoFrame /\ VictimIsUnused /\ FetchMiss(c, p)
  <2> DEFINE read == ReadPage(WrittenBack(victim), p, pages[victim].data)
  <2>1. IInv'
    BY <1>1, <1>4, FetchMissKeeps, Zenon
  <2>2. TakeVictim /\ Occupy(c, victim, p, read.data) /\ UNCHANGED <<aborted, live, content>>
    BY <1>4, Zenon DEF FetchMiss
  <2>3. read.data \in Data
    <3>1. victim \in Frame
      BY <1>1, <1>4, <2>2, TakeVictimRemoves, Zenon
    <3>2. pages[victim].data \in Data /\ WrittenBack(victim) \in Disk
      BY <1>1, <3>1, PoolFacts, WrittenBackKeeps, Zenon DEF FrameState
    <3> QED BY <1>1, <3>1, <3>2, WrittenBackKeeps, ReadPageKeeps, Zenon
  <2> HIDE DEF read
  <2>4. /\ \A f \in Frame : ~Mapped(f)' =>
             pages'[f].page_id = INVALID_PAGE_ID /\ pages'[f].pin_count = 0
        /\ \A q \in PageId : page_table'[q] # NoFrame => q = p \/ page_table[q] # NoFrame
        /\ \A d \in Client : ~pin'[d].wrote
        /\ victim \in Frame
        /\ pin' = [pin EXCEPT ![c] = [page |-> p, frame |-> victim, wrote |-> FALSE]]
    BY <1>1, <1>4, <2>2, <2>3, OccupiedFrames, Zenon
  <2>5. ~(Cardinality(live) <= PoolSize)
    BY <1>1, <1>4, Zenon DEF HInv, Frames
  <2>6. \A q \in PageId : page_table'[q] # NoFrame => q \in live'
    BY <1>1, <2>2, <2>4, Zenon DEF HInv, Frames
  <2>7. Frames'
    BY <2>2, <2>4, <2>5, <2>6, Zenon DEF Frames
  <2> QED BY <1>1, <1>2, <2>1, <2>2, <2>4, <2>7, Zenon
<1> QED BY <1>3, <1>4, VictimsUnused, Zenon DEF FetchPage, IsNull

\* A pool without a free frame holds as many pages as it has frames.
LEMMA FullPool ==
  ASSUME HInv, \A f \in Frame : Mapped(f),
         NEW S, S \subseteq live, \A p \in PageId : page_table[p] # NoFrame => p \in S
  PROVE  IsFiniteSet(S) /\ Cardinality(S) \in Nat /\ PoolSize <= Cardinality(S)
<1>1. IsFiniteSet(PageId) /\ live \subseteq PageId
  BY FS_Interval, DiskAssumption, PoolFacts DEF PageId, HInv
<1>2. IsFiniteSet(S) /\ Cardinality(S) \in Nat
  BY <1>1, FS_Subset, FS_CardinalityType
<1>3. IsFiniteSet(Frame) /\ Cardinality(Frame) = PoolSize /\ PoolSize \in Nat
  BY PoolAssumption, FS_Interval DEF Frame
<1> DEFINE page == [f \in Frame |-> pages[f].page_id]
<1>4. ASSUME NEW f \in Frame
      PROVE  /\ pages[f].page_id \in PageId /\ page_table[pages[f].page_id] = f
             /\ pages[f].page_id \in S
  <2>1. PICK p \in PageId : page_table[p] = f
    BY DEF Mapped
  <2>2. f # NoFrame /\ pages[f].page_id = p
    BY <2>1, PoolFacts DEF HInv
  <2> QED BY <2>1, <2>2
<1>5. page \in [Frame -> S] /\ \A f, g \in Frame : f # g => page[f] # page[g]
  BY <1>4
<1> HIDE DEF page
<1>6. ~(Cardinality(S) < Cardinality(Frame))
  BY <1>2, <1>3, <1>5, FS_PigeonHole
<1> QED BY <1>2, <1>3, <1>6

\* NewPage() that finds a frame.  While the table fits into the pool, that frame has
\* never been used.
LEMMA MakesHold ==
  ASSUME HInv
  PROVE  Makes
<1> SUFFICES ASSUME NEW c \in Client, victim # NoFrame, NewPage(c)
             PROVE  /\ IInv' /\ Frames' /\ UNCHANGED aborted
                    /\ disk.next \in PageId /\ disk.next \notin live
                    /\ live' = live \cup {disk.next}
                    /\ content' = [content EXCEPT ![disk.next] = Zero]
                    /\ pin[c] = NoPin /\ pin'[c] # NoPin /\ pin'[c].page = disk.next
                    /\ \A d \in Client \ {c} : pin'[d] = pin[d]
  BY DEF Makes
<1>1. IInv /\ pin[c] = NoPin /\ pin \in [Client -> PinState]
  BY DEF NewPage, MayCall, HInv, IInv, TypeOK
<1>2. IInv'
  BY <1>1, NewPageKeeps
<1>3. disk.next \in PageId /\ disk.next \notin live /\ live \subseteq PageId
      /\ IsFiniteSet(live)
  <2>1. disk.next \in PageId /\ disk.next \notin live /\ live \subseteq PageId
    BY <1>1, DiskAssumption, PoolFacts DEF NewPage, IInv, TypeOK, Disk, PageId
  <2>2. IsFiniteSet(PageId)
    BY FS_Interval, DiskAssumption DEF PageId
  <2> QED BY <2>1, <2>2, FS_Subset
<1>4. /\ TakeVictim /\ Occupy(c, victim, disk.next, Zero)
      /\ live' = live \cup {disk.next}
      /\ content' = [content EXCEPT ![disk.next] = Zero]
      /\ UNCHANGED aborted
  BY VictimsUnused, Zenon DEF NewPage
<1>5. PICK p \in PageId : p = disk.next
  BY <1>3, Zenon
<1>6. page_table[p] = NoFrame /\ Zero \in Data
  BY <1>3, <1>5, DiskAssumption, Zenon DEF HInv, Frames
<1>7. /\ \A f \in Frame : ~Mapped(f)' =>
           pages'[f].page_id = INVALID_PAGE_ID /\ pages'[f].pin_count = 0
      /\ \A q \in PageId : page_table'[q] # NoFrame => q = p \/ page_table[q] # NoFrame
      /\ \A d \in Client : ~pin'[d].wrote
      /\ victim \in Frame
      /\ pin' = [pin EXCEPT ![c] = [page |-> p, frame |-> victim, wrote |-> FALSE]]
  BY <1>4, <1>5, <1>6, OccupiedFrames, Zenon
<1>8. pin'[c] # NoPin /\ pin'[c].page = p /\ \A d \in Client \ {c} : pin'[d] = pin[d]
  <2>1. NoPin.page = INVALID_PAGE_ID /\ INVALID_PAGE_ID \notin PageId
    BY DEF NoPin, INVALID_PAGE_ID, PageId
  <2>2. pin'[c].page = p /\ \A d \in Client \ {c} : pin'[d] = pin[d]
    BY <1>1, <1>7, Zenon
  <2> QED BY <2>1, <2>2
<1>9. \A q \in PageId : page_table'[q] # NoFrame => q \in live'
  BY <1>4, <1>5, <1>7, Zenon DEF HInv, Frames
<1>10. ASSUME Cardinality(live') <= PoolSize, NEW q \in live'
       PROVE  page_table'[q] # NoFrame /\ pages'[page_table'[q]].data = content'[q]
  <2>1. /\ page_table'[p] = victim
        /\ \A r \in PageId \ {p} : page_table'[r] =
             IF page_table[r] = victim THEN NoFrame ELSE page_table[r]
        /\ pages'[victim] = [page_id |-> p, pin_count |-> 1, is_dirty |-> FALSE, data |-> Zero]
        /\ \A g \in Frame \ {victim} : pages'[g] = pages[g]
    BY <1>1, <1>4, <1>5, <1>6, VictimsUnused, OccupyMoves
  <2>2. Cardinality(live) \in Nat /\ Cardinality(live') = Cardinality(live) + 1 /\ PoolSize \in Nat
    BY <1>3, <1>4, FS_AddElement, FS_CardinalityType, PoolAssumption, Zenon
  <2>3. Cardinality(live) < PoolSize
    BY <1>10, <2>2
  <2>4. PICK f \in Frame : ~Mapped(f)
    <3> SUFFICES ASSUME \A f \in Frame : Mapped(f) PROVE FALSE
      BY Zenon
    <3>1. \A r \in PageId : page_table[r] # NoFrame => r \in live
      BY Zenon DEF HInv, Frames
    <3>2. PoolSize <= Cardinality(live)
      BY <3>1, FullPool, Zenon
    <3> QED BY <2>2, <2>3, <3>2
  <2>5. ~Mapped(victim)
    <3>1. f \in Range(free_list)
      BY <1>1, <2>4 DEF IInv, FrameAccounting
    <3>2. free_list # <<>> /\ free_list \in Seq(Frame) /\ IsInjective(free_list)
      BY <1>1, <3>1 DEF IInv, TypeOK, FrameAccounting, Range
    <3>3. victim \in Range(free_list)
      BY <3>2, TailOfList, Zenon DEF victim
    <3> QED BY <1>1, <1>7, <3>3, Zenon DEF IInv, FrameAccounting
  <2>6. CASE q = p
    BY <1>3, <1>4, <1>5, <1>7, <2>1, <2>6, PoolFacts DEF Frame, NoFrame, HInv
  <2>7. CASE q # p
    <3>1. q \in live /\ q \in PageId
      BY <1>3, <1>4, <1>5, <2>7, Zenon
    <3>2. page_table[q] # NoFrame /\ pages[page_table[q]].data = content[q]
      BY <2>2, <2>3, <3>1 DEF HInv, Frames
    <3>3. page_table[q] # victim /\ page_table[q] \in Frame
      BY <1>1, <2>5, <3>1, <3>2, PoolFacts, Zenon DEF Mapped
    <3>4. content'[q] = content[q]
      BY <1>1, <1>4, <1>5, <2>7, <3>1, PoolFacts, Zenon
    <3> QED BY <2>1, <2>7, <3>1, <3>2, <3>3, <3>4, Zenon
  <2> QED BY <2>6, <2>7
<1>11. Frames'
  BY <1>7, <1>9, <1>10, Zenon DEF Frames
<1> QED BY <1>1, <1>2, <1>3, <1>4, <1>5, <1>8, <1>11

\* UnpinPage() of a page that a call has pinned.
LEMMA UnpinsHold ==
  ASSUME HInv
  PROVE  Unpins
<1> SUFFICES ASSUME NEW c \in Client, NEW b \in BOOLEAN, Unpin(c, b)
             PROVE  /\ IInv' /\ Frames' /\ UNCHANGED <<aborted, live, content>>
                    /\ pin'[c] = NoPin /\ \A d \in Client \ {c} : pin'[d] = pin[d]
  BY DEF Unpins
<1> DEFINE f == page_table[pin[c].page]
<1>1. IInv /\ pin \in [Client -> PinState] /\ pages \in [Frame -> FrameState]
  BY DEF HInv, IInv, TypeOK
<1>2. IInv'
  BY <1>1, UnpinKeeps
<1>3. /\ UNCHANGED <<page_table, aborted, live, content>>
      /\ pin' = [pin EXCEPT ![c] = NoPin]
      /\ UnpinPage(pin[c].page, b) /\ pin[c] # NoPin
  BY DEF Unpin
<1>4. pin[c].page \in PageId /\ f \in Frame /\ f # NoFrame /\ Mapped(f)
  BY <1>1, <1>3, PoolFacts DEF IInv, PinnedPagesStay, Aux, Mapped
<1>5. \A g \in Frame : pages'[g].data = pages[g].data /\ (g # f => pages'[g] = pages[g])
  <2>1. \/ pages' = [pages EXCEPT ![f].is_dirty = b]
        \/ pages' = [pages EXCEPT ![f].is_dirty = b, ![f].pin_count = @ - 1]
    BY <1>3, <1>4, Zenon DEF UnpinPage
  <2> HIDE DEF f
  <2>2. \A g \in Frame : g # f => pages'[g] = pages[g]
    BY <1>1, <2>1
  <2>3. pages'[f].data = pages[f].data
    BY <1>1, <1>4, <2>1 DEF FrameState
  <2> QED BY <2>2, <2>3, Zenon
<1>6. \A g \in Frame : Mapped(g)' <=> Mapped(g)
  BY <1>3, Zenon DEF Mapped
<1>7. \A d \in Client : ~pin'[d].wrote
  BY <1>1, <1>3, Zenon DEF HInv, Frames, NoPin
<1>8. Frames'
  <2>1. \A g \in Frame : ~Mapped(g)' => pages'[g].page_id = INVALID_PAGE_ID /\ pages'[g].pin_count = 0
    BY <1>4, <1>5, <1>6 DEF HInv, Frames
  <2>2. \A q \in PageId : page_table'[q] # NoFrame => q \in live'
    BY <1>3, Zenon DEF HInv, Frames
  <2>3. Cardinality(live') <= PoolSize =>
          \A q \in live' : page_table'[q] # NoFrame /\ pages'[page_table'[q]].data = content'[q]
    BY <1>1, <1>3, <1>5, PoolFacts, Zenon DEF HInv, Frames
  <2> QED BY <1>7, <2>1, <2>2, <2>3, Zenon DEF Frames
<1> QED BY <1>1, <1>2, <1>3, <1>8

\* Writing to pages through their frames.
LEMMA StoresHold ==
  ASSUME HInv
  PROVE  Stores
<1> SUFFICES ASSUME NEW new, DOMAIN new \subseteq PageId, \A p \in DOMAIN new : new[p] \in Data,
                    Store(new)
             PROVE  /\ IInv' /\ Frames' /\ UNCHANGED <<aborted, live, pin>>
                    /\ content' = [p \in PageId |-> IF p \in DOMAIN new THEN new[p]
                                                    ELSE content[p]]
  BY DEF Stores
<1>1. /\ IInv /\ pin \in [Client -> PinState] /\ pages \in [Frame -> FrameState]
      /\ disk \in Disk /\ disk.size <= disk.next /\ aborted \in BOOLEAN
      /\ \A g \in Frame : pages[g].is_dirty => Mapped(g)
  BY DEF HInv, IInv, TypeOK, Aux
<1>2. /\ pages' = [f \in Frame |-> IF pages[f].page_id \in DOMAIN new
                                   THEN [pages[f] EXCEPT !.data = new[pages[f].page_id]]
                                   ELSE pages[f]]
      /\ content' = [p \in PageId |-> IF p \in DOMAIN new THEN new[p] ELSE content[p]]
      /\ UNCHANGED <<page_table, replacer, free_list, disk, aborted, pin, live>>
  BY DEF Store
<1>3. content' \in [PageId -> Data]
  BY <1>1, <1>2, PoolFacts
<1>4. ASSUME NEW g \in Frame
      PROVE  /\ pages'[g] \in FrameState
             /\ pages'[g].page_id = pages[g].page_id
             /\ pages'[g].pin_count = pages[g].pin_count
             /\ pages'[g].is_dirty = pages[g].is_dirty
             /\ pages'[g].data = IF pages[g].page_id \in DOMAIN new THEN new[pages[g].page_id]
                                 ELSE pages[g].data
  <2>1. CASE pages[g].page_id \in DOMAIN new
    <3>1. pages[g] \in FrameState /\ new[pages[g].page_id] \in Data
          /\ pages'[g] = [pages[g] EXCEPT !.data = new[pages[g].page_id]]
      BY <1>1, <1>2, <2>1
    <3>2. pages'[g] \in FrameState /\ pages'[g].page_id = pages[g].page_id
          /\ pages'[g].pin_count = pages[g].pin_count /\ pages'[g].data = new[pages[g].page_id]
      BY <3>1, Zenon DEF FrameState
    <3>3. pages'[g].is_dirty = pages[g].is_dirty
      BY <3>1 DEF FrameState
    <3> QED BY <2>1, <3>2, <3>3, Zenon
  <2>2. CASE pages[g].page_id \notin DOMAIN new
    BY <1>1, <1>2, <2>2
  <2> QED BY <2>1, <2>2, Zenon
<1>5. pages' \in [Frame -> FrameState]
  BY <1>2, <1>4
<1>6. IInv'
  <2>1. \A g \in Frame : /\ pages'[g].page_id = pages[g].page_id
                         /\ pages'[g].pin_count = pages[g].pin_count
                         /\ pages'[g].is_dirty => Mapped(g)
    BY <1>1, <1>4, Zenon
  <2>2. UNCHANGED <<page_table, replacer, free_list>> /\ live' \subseteq live
    BY <1>2, Zenon
  <2> QED BY <1>1, <1>2, <1>3, <1>5, <2>1, <2>2, InPlaceKeeps, Zenon
<1>7. \A g \in Frame : Mapped(g)' <=> Mapped(g)
  BY <1>2, Zenon DEF Mapped
<1>8. Frames'
  <2>1. \A g \in Frame : ~Mapped(g)' => pages'[g].page_id = INVALID_PAGE_ID /\ pages'[g].pin_count = 0
    BY <1>4, <1>7 DEF HInv, Frames
  <2>2. \A q \in PageId : page_table'[q] # NoFrame => q \in live'
    BY <1>2, Zenon DEF HInv, Frames
  <2>3. ASSUME Cardinality(live) <= PoolSize, NEW q \in live
        PROVE  page_table'[q] # NoFrame /\ pages'[page_table'[q]].data = content'[q]
    <3>1. q \in PageId
      BY <1>1, PoolFacts, Zenon
    <3>2. page_table[q] # NoFrame /\ pages[page_table[q]].data = content[q]
      BY <2>3, Zenon DEF HInv, Frames
    <3>3. page_table[q] \in Frame /\ pages[page_table[q]].page_id = q
      BY <1>1, <3>1, <3>2, PoolFacts
    <3> QED BY <1>2, <1>4, <3>1, <3>2, <3>3
  <2>4. \A d \in Client : ~pin'[d].wrote
    BY <1>2 DEF HInv, Frames
  <2> QED BY <1>2, <2>1, <2>2, <2>3, <2>4, Zenon DEF Frames
<1> QED BY <1>2, <1>6, <1>8

\* When there is no frame for a page, the frames are pinned by calls and hold other
\* pages.
LEMMA NullsHold ==
  ASSUME HInv
  PROVE  Nulls
<1> SUFFICES ASSUME NEW p \in live, IsNull(p)
             PROVE  /\ Cardinality(live) > PoolSize
                    /\ \A f \in Frame : \E c \in Client : pin[c].frame = f /\ th[c[1]].pc # "idle"
  BY Zenon DEF Nulls
<1>1. /\ IInv /\ page_table[p] = NoFrame /\ NoFrame \notin Frame /\ victim = NoFrame
      /\ free_list \in Seq(Frame) /\ IsInjective(free_list)
      /\ replacer \in Seq(Frame) /\ IsInjective(replacer)
  BY DEF HInv, IInv, TypeOK, FrameAccounting, IsNull, NoFrame, Frame
<1>2. \A f \in Frame : \E c \in Client : pin[c].frame = f
  BY <1>1, AllPinned DEF NullOnlyWhenAllPinned
<1>3. ASSUME NEW f \in Frame PROVE \E c \in Client : pin[c].frame = f /\ th[c[1]].pc # "idle"
  <2>1. PICK c \in Client : pin[c].frame = f
    BY <1>2, Zenon
  <2>2. pin[c] # NoPin
    BY <1>1, <2>1 DEF NoPin
  <2>3. c[1] \in Thread /\ (c = Cur(c[1]) \/ c = Other(c[1]))
    BY TwoClients, Zenon DEF HInv
  <2>4. th[c[1]].pc # "idle"
    BY <2>2, <2>3, Zenon DEF HInv, Own, Pins, Unpinned, Twice
  <2> QED BY <2>1, <2>4, Zenon
<1>4. free_list = <<>>
  BY <1>1, TailOfList DEF victim
<1>5. \A f \in Frame : Mapped(f)
  BY <1>1, <1>4 DEF IInv, FrameAccounting, Range
<1>6. \A q \in PageId : page_table[q] # NoFrame => q \in live \ {p}
  BY <1>1, Zenon DEF HInv, Frames
<1>7. PoolSize <= Cardinality(live \ {p}) /\ Cardinality(live \ {p}) \in Nat
  BY <1>5, <1>6, FullPool, Zenon
<1>8. IsFiniteSet(live) /\ Cardinality(live) \in Nat
  <2>1. \A q \in PageId : page_table[q] # NoFrame => q \in live
    BY <1>6, Zenon
  <2> QED BY <1>5, <2>1, FullPool, Zenon
<1>9. Cardinality(live \ {p}) = Cardinality(live) - 1
  BY <1>8, FS_RemoveElement, Zenon
<1> QED BY <1>3, <1>7, <1>8, <1>9, PoolAssumption
-------------------------------------------------------------------------------
\* A table with its first page only.
LEMMA InitHInv == HeapInit => HInv
<1> SUFFICES ASSUME HeapInit PROVE HInv
  OBVIOUS
<1>1. /\ NoFrame \notin Frame /\ INVALID_PAGE_ID \notin PageId /\ 1 \in Frame
      /\ first_page_id \in PageId /\ first_page_id = 0 /\ PoolSize \in Nat
  BY PoolAssumption, DiskAssumption, ThreadsAssumption
     DEF NoFrame, Frame, INVALID_PAGE_ID, PageId, first_page_id
<1>2. EmptyPage \in HeapPage /\ EmptyPage \in Data /\ EmptyPage # Zero /\ Zero \in Data
      /\ EmptyPage.next = INVALID_PAGE_ID
  <2>1. EmptyPage \in HeapPage /\ EmptyPage.next = INVALID_PAGE_ID
    BY Zenon DEF EmptyPage, HeapPage
  <2> QED BY <2>1, ThreadsAssumption, DiskAssumption, Zenon
<1>3. disk \in Disk /\ disk.size = 0 /\ disk.next = 1
  <2> DEFINE d == Open(EmptyFile, 0)
  <2>1. d \in Disk /\ d.size = 0 /\ d.next = 0
    BY DiskAssumption DEF Open, EmptyFile, Disk
  <2>2. disk = [d EXCEPT !.next = d.next + 1]
    BY Zenon DEF HeapInit, AllocatePage
  <2> HIDE DEF d
  <2>3. disk = [d EXCEPT !.next = 1] /\ 1 \in 0 .. MaxPages
    BY <2>1, <2>2, DiskAssumption, ThreadsAssumption
  <2> QED BY <2>1, <2>3, Zenon DEF Disk
<1>4. \A f \in Frame :
        pages[f] = IF f = 1 THEN [page_id |-> first_page_id, pin_count |-> 0,
                                  is_dirty |-> TRUE, data |-> EmptyPage]
                   ELSE [page_id |-> INVALID_PAGE_ID, pin_count |-> 0, is_dirty |-> FALSE,
                         data |-> Zero]
  BY Zenon DEF HeapInit
<1>5. pages \in [Frame -> FrameState] /\ pin \in [Client -> PinState]
  <2>1. ASSUME NEW f \in Frame PROVE pages[f] \in FrameState
    <3>1. CASE f = 1
      <4>1. pages[f] = [page_id |-> first_page_id, pin_count |-> 0, is_dirty |-> TRUE,
                        data |-> EmptyPage]
        BY <1>4, <3>1, Zenon
      <4> QED BY <1>1, <1>2, <4>1 DEF FrameState
    <3>2. CASE f # 1
      <4>1. pages[f] = [page_id |-> INVALID_PAGE_ID, pin_count |-> 0, is_dirty |-> FALSE,
                        data |-> Zero]
        BY <1>4, <3>2, Zenon
      <4> QED BY <1>2, <4>1 DEF FrameState
    <3> QED BY <3>1, <3>2, Zenon
  <2>2. pages \in [Frame -> FrameState]
    BY <2>1, Zenon DEF HeapInit
  <2> QED BY <2>2, Zenon DEF HeapInit, PinState, NoPin
<1>6. \A f \in Frame : Mapped(f) <=> f = 1
  BY <1>1, Zenon DEF HeapInit, Mapped
<1>7. free_list \in Seq(Frame) /\ IsInjective(free_list) /\ Range(free_list) = Frame \ {1}
  <2>1. free_list = [j \in 1 .. PoolSize - 1 |-> j + 1] /\ Frame = 1 .. PoolSize
        /\ PoolSize - 1 \in Nat
    BY <1>1, PoolAssumption DEF HeapInit, Frame
  <2>2. free_list \in Seq(Frame)
    BY <1>1, <2>1
  <2>3. IsInjective(free_list)
    BY <1>1, <2>1 DEF IsInjective
  <2>4. ASSUME NEW f \in Frame \ {1} PROVE f - 1 \in DOMAIN free_list /\ free_list[f - 1] = f
    BY <1>1, <2>1
  <2>5. Range(free_list) \subseteq Frame \ {1}
    BY <1>1, <2>1 DEF Range
  <2>6. Frame \ {1} \subseteq Range(free_list)
    BY <2>4 DEF Range
  <2> QED BY <2>2, <2>3, <2>5, <2>6, Zenon
<1>8. replacer \in Seq(Frame) /\ IsInjective(replacer) /\ Range(replacer) = {1}
  <2>1. replacer = <<1>> /\ replacer \in Seq(Frame) /\ DOMAIN replacer = {1} /\ replacer[1] = 1
    BY <1>1 DEF HeapInit
  <2> QED BY <2>1, Zenon DEF IsInjective, Range
<1>9. TypeOK
  <2>1. /\ page_table \in [PageId -> Frame \cup {NoFrame}] /\ content \in [PageId -> Data]
        /\ aborted \in BOOLEAN
    BY <1>1, <1>2, Zenon DEF HeapInit
  <2>2. live \in SUBSET (0 .. disk.next - 1) /\ disk.size <= disk.next
    BY <1>1, <1>3 DEF HeapInit
  <2> QED BY <1>3, <1>5, <1>7, <1>8, <2>1, <2>2, Zenon DEF TypeOK
<1>10. \A f \in Frame : pages[f].pin_count = 0
  BY <1>4
<1>11. pages[1].page_id = first_page_id /\ pages[1].data = EmptyPage
  BY <1>1, <1>4
<1>12. \A p \in PageId : page_table[p] = IF p = first_page_id THEN 1 ELSE NoFrame
  BY Zenon DEF HeapInit
<1>13. FrameAccounting
  <2>1. \A p \in PageId : page_table[p] # NoFrame => pages[page_table[p]].page_id = p
    BY <1>11, <1>12, Zenon
  <2>2. \A f \in Frame : f \in Range(free_list) <=> ~Mapped(f)
    BY <1>6, <1>7, Zenon
  <2>3. \A f \in Frame : f \in Range(replacer) <=> Mapped(f) /\ pages[f].pin_count = 0
    BY <1>6, <1>8, <1>10
  <2> QED BY <1>7, <1>8, <2>1, <2>2, <2>3, Zenon DEF FrameAccounting
<1>14. \A c \in Client : pin[c] = NoPin
  BY Zenon DEF HeapInit
<1>15. PinnedPagesStay
  <2>1. \A p \in PageId : Holders(p) = {}
    BY <1>1, <1>14 DEF Holders, NoPin
  <2>2. Cardinality({}) = 0
    BY FS_EmptySet, Zenon
  <2> QED BY <1>1, <1>10, <1>12, <1>14, <2>1, <2>2, Zenon DEF PinnedPagesStay
<1>16. Aux
  <2>1. \A f \in Frame : pages[f].is_dirty => f = 1
    BY <1>4
  <2>2. \A f \in Frame : pages[f].is_dirty => Mapped(f)
    BY <1>6, <2>1, Zenon
  <2>3. \A p \in PageId : page_table[p] # NoFrame => p < disk.next
    BY <1>1, <1>3, <1>12
  <2> QED BY <1>14, <2>2, <2>3, Zenon DEF Aux
<1>17. HeapTypes
  <2>1. Idle(MaxCalls) \in ThreadState
    BY <1>1, ThreadsAssumption, Zenon DEF Idle, ThreadState, End
  <2> QED BY <2>1, Zenon DEF HeapInit, HeapTypes
<1>18. live = {first_page_id} /\ Linked = {first_page_id}
       /\ \A p \in PageId : content[p] = IF p = first_page_id THEN EmptyPage ELSE Zero
  BY <1>1, <1>2, Zenon DEF HeapInit, Linked
<1>19. Chain
  <2>1. content[first_page_id].next = INVALID_PAGE_ID
    BY <1>1, <1>2, <1>18
  <2>2. \A p, q \in Linked : ~(q < p)
    BY <1>1, <1>18
  <2> QED BY <1>18, <2>1, <2>2 DEF Chain
<1>20. Frames
  BY <1>1, <1>4, <1>6, <1>11, <1>12, <1>14, <1>18, <1>2 DEF Frames, NoPin
<1>21. NullExplained
  BY Zenon DEF HeapInit, NullExplained
<1>22. ASSUME NEW t \in Thread PROVE Own(t)
  <2>1. th[t] = [pc |-> "idle", op |-> "none", at |-> first_page_id, rid |-> End, pinned |-> 1,
                 flag |-> FALSE, then |-> "idle", inside |-> FALSE, must |-> {},
                 refused |-> FALSE, calls |-> MaxCalls]
    BY Zenon DEF HeapInit, Idle
  <2>2. Unpinned(th[t]) /\ ~Twice(th[t]) /\ ~Latched(th[t]) /\ ~OnRow(th[t])
    BY <2>1 DEF Unpinned, Twice, Latched, OnRow
  <2>3. Pins(t)
    <3>1. pin[Cur(t)] = NoPin /\ pin[Other(t)] = NoPin
      BY <1>14, <1>17, TwoClients, Zenon
    <3> QED BY <2>2, <3>1, Zenon DEF Pins
  <2>4. Places(t)
    <3>1. /\ th[t].at \in Linked /\ th[t].rid = End /\ th[t].op = "none"
          /\ th[t].pc = "idle" /\ ~th[t].inside
      BY <1>18, <2>1
    <3> QED BY <2>2, <3>1, Zenon DEF Places
  <2>5. Appends(t) /\ Scans(t)
    BY <2>1 DEF Appends, Scans
  <2>6. Latches(t)
    BY ThreadsAssumption, Zenon DEF HeapInit, Latches
  <2> QED BY <2>3, <2>4, <2>5, <2>6, Zenon DEF Own
<1> QED BY <1>9, <1>13, <1>15, <1>16, <1>17, <1>19, <1>20, <1>21, <1>22 DEF HInv, IInv

\* Every step keeps the invariant.
LEMMA NextHInv == HInv /\ [HeapNext]_heapVars => HInv'
<1> SUFFICES ASSUME HInv, [HeapNext]_heapVars PROVE HInv'
  BY Zenon
<1>1. Slot \subseteq Nat
  BY DEF Slot
<1>2. FirstSlots
  BY <1>1, Least, Zenon DEF FirstSlots
<1>3. Relies
  BY <1>2, LeavesHold, FetchesHold, MakesHold, UnpinsHold, StoresHold, NullsHold, Zenon DEF Relies
<1> QED BY <1>3, NextKeeps, Zenon

\* Whatever the threads do, the pool's accounting holds, a thread's pins and latches
\* are where its call needs them, and the pages are linked in the order of their ids.
THEOREM HeapInductive == HeapSpec => []HInv
BY InitHInv, NextHInv, PTL DEF HeapSpec

\* The pool's two invariants hold under the table heap as well: every frame is in one
\* place, and the page of a call stays in its frame until the call unpins it.
THEOREM HeapKeepsPins == HeapSpec => [](FrameAccounting /\ PinnedPagesStay)
<1>1. HInv => FrameAccounting /\ PinnedPagesStay
  BY Zenon DEF HInv, IInv
<1> QED BY <1>1, HeapInductive, PTL
-------------------------------------------------------------------------------
\* InsertTuple() by several threads at a time: following the next page ids from the
\* first page meets every page once.
THEOREM ChainStaysComplete == HeapSpec => []ChainComplete
<1>1. HInv => ChainComplete
  <2> SUFFICES ASSUME HInv, NEW p \in live \ {first_page_id},
                      \A t \in Thread : th[t].pc = "link" => pin[Other(t)].page # p
               PROVE  Cardinality({q \in live : content[q] # Zero /\ content[q].next = p}) = 1
    BY Zenon DEF ChainComplete
  <2>1. Chain /\ p \in Linked
    BY Zenon DEF HInv, Chain
  <2>2. PICK q \in Linked : content[q].next = p
    BY <2>1, Zenon DEF Chain
  <2>3. Linked \subseteq PageId /\ INVALID_PAGE_ID \notin PageId /\ \A n \in PageId : n \in Int
    BY PoolFacts DEF HInv, Linked, PageId, INVALID_PAGE_ID
  <2>4. ASSUME NEW a \in Linked, NEW b \in Linked, content[a].next = p, content[b].next = p
        PROVE  ~(a < b)
    <3>1. b < p
      BY <2>1, <2>3, <2>4 DEF Chain
    <3>2. a < b => p <= b
      BY <2>1, <2>4 DEF Chain
    <3> QED BY <2>1, <2>3, <3>1, <3>2
  <2>5. \A r \in Linked : content[r].next = p => r = q
    BY <2>2, <2>3, <2>4
  <2>6. {r \in live : content[r] # Zero /\ content[r].next = p} = {q}
    BY <2>2, <2>5, Zenon DEF Linked
  <2> QED BY <2>6, FS_Singleton, Zenon
<1> QED BY <1>1, HeapInductive, PTL

\* A null pointer is used only when unreturned calls have all frames pinned and the
\* table is larger than the pool.
THEOREM NullsExplained == HeapSpec => []NullExplained
<1>1. HInv => NullExplained
  BY Zenon DEF HInv
<1> QED BY <1>1, HeapInductive, PTL

\* A table that fits into the pool loses nothing, although the calls that only look at
\* a page unpin it as clean.
THEOREM RowsStay == HeapSpec => []RowsStayInPool
<1>1. HInv => RowsStayInPool
  BY Zenon DEF HInv, Frames, RowsStayInPool, ContentPreserved
<1> QED BY <1>1, HeapInductive, PTL

\* Threads that wait for one another: operator++ that latches its page a second time
\* is always among them.
THEOREM NestedLatchDeadlocks == HeapSpec => []OnlyNestedLatchDeadlocks
<1>1. HInv => OnlyNestedLatchDeadlocks
  <2> SUFFICES ASSUME HInv, NEW S \in SUBSET Thread, S # {},
                      \A t \in S : \E u \in S : WaitsFor(t, u),
                      \A t \in S : ~(th[t].pc = "copy" /\ th[t].inside)
               PROVE  FALSE
    BY DEF OnlyNestedLatchDeadlocks
  <2>1. ASSUME NEW t \in S
        PROVE  /\ th[t].pc \in {"wlatch", "begin", "rlatch", "copy"} /\ ~th[t].inside
               /\ PageFrame(t) \in Frame
    <3>1. th[t].pc \in {"wlatch", "begin", "rlatch", "copy"} /\ t \in Thread
      BY Zenon DEF WaitsFor
    <3>2. ~th[t].inside
      BY <3>1, Zenon DEF HInv, Own, Places, Latched
    <3>3. Cur(t) \in Client /\ pin[Cur(t)] # NoPin
      BY <3>1, TwoClients, Zenon DEF HInv, Own, Pins, Unpinned
    <3>4. PageFrame(t) \in Frame
      BY <3>3 DEF HInv, IInv, TypeOK, PinnedPagesStay, PinState, PageFrame
    <3> QED BY <3>1, <3>2, <3>4
  <2>2. \A t \in S : \A f \in Frame : t \notin readers[f]
    BY <2>1, Zenon DEF HInv, Own, Latches
  <2>3. ASSUME NEW t \in S, NEW f \in Frame, writer[f] = t PROVE FALSE
    <3>1. th[t].pc = "wlatch" /\ PageFrame(t) = f
      BY <2>1, <2>3 DEF HInv, Own, Latches, WritesAt
    <3>2. PICK u \in S : WaitsFor(t, u)
      BY Zenon
    <3>3. u \in readers[f]
      BY <2>3, <3>1, <3>2, Zenon DEF WaitsFor
    <3> QED BY <2>2, <3>3, Zenon
  <2>4. PICK t \in S, u \in S : WaitsFor(t, u)
    BY Zenon
  <2> QED BY <2>1, <2>2, <2>3, <2>4, Zenon DEF WaitsFor
<1> QED BY <1>1, HeapInductive, PTL

\* A scan that started at a row and comes to the end has given every row that was
\* there all the time, unless GetTuple() had no frame for the first one.
THEOREM ScansComplete == HeapSpec => ScanComplete
<1>1. ASSUME HInv, [HeapNext]_heapVars, NEW t \in Thread,
             th[t].op = "scan", th[t].pc = "rlatch", th'[t].rid = End
      PROVE  th'[t].must = {} \/ th[t].refused
  <2>1. th[t].rid # End /\ th[t] \in ThreadState
    BY <1>1, Zenon DEF HInv, HeapTypes, Own, Places, OnRow
  <2>2. PICK u \in Thread : \/ Step(u)
                            \/ \E r \in Rid : Call(u, "delete", r)
                            \/ \E op \in {"insert", "scan"} : Call(u, op, End)
    BY <1>1, <2>1, Zenon DEF HeapNext, heapVars
  <2>3. u = t
    BY <1>1, <2>1, <2>2, OtherRows, Zenon
  <2>4. ScanPage(t)
    BY Zenon, <1>1, <2>2, <2>3 DEF Step, Call, UnpinStep, Enter, FetchToWrite, InsertTuple,
       NewTablePage, LinkPage, MarkDelete, FetchToScan, ScanBegin, ScanHop, ScanLeave,
       GetTuple, CopyTuple, At
  <2>5. Running
    BY <2>4, Zenon DEF ScanPage, At
  <2> DEFINE here == VisibleFrom(View(t), FromSlot(t))
             hop == here = {} /\ View(t).next # INVALID_PAGE_ID
             rid == IF here # {} THEN <<Page(t), Min(here)>>
                    ELSE IF hop THEN th[t].rid ELSE End
             pc == IF here # {} THEN "get" ELSE IF hop THEN "hop" ELSE "leave"
  <2>6. th' = [th EXCEPT ![t].inside = TRUE, ![t].rid = rid, ![t].pc = pc]
    BY <1>1, <2>4, Zenon DEF ScanPage, HInv, HeapTypes
  <2>7. th'[t].rid = rid /\ th'[t].must = th[t].must
    <3> HIDE DEF rid, pc
    <3> QED BY <1>1, <2>1, <2>6 DEF HInv, HeapTypes, ThreadState
  <2>8. here = {} /\ View(t).next = INVALID_PAGE_ID
    <3>1. here # {} => Page(t) \in PageId
      BY <1>1, <2>5, ScanPlace, Zenon
    <3>2. INVALID_PAGE_ID \notin PageId
      BY DEF INVALID_PAGE_ID, PageId
    <3> QED BY <1>1, <2>1, <2>7, <3>1, <3>2 DEF End
  <2> QED BY <1>1, <2>5, <2>7, <2>8, EndOfScan
<1>2. HInv /\ [HeapNext]_heapVars =>
        [\A t \in Thread : th[t].op = "scan" /\ th[t].pc = "rlatch" /\ th'[t].rid = End
           => th'[t].must = {} \/ th[t].refused]_heapVars
  BY <1>1, Zenon
<1> QED BY <1>2, HeapInductive, PTL DEF HeapSpec, ScanComplete
===============================================================================
