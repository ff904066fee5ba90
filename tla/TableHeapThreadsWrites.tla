------------------------ MODULE TableHeapThreadsWrites ------------------------
(* The calls that change pages, and every step together: what is left of the  *)
(* proof that a step of TableHeapThreads keeps its invariant, from the         *)
(* interface Relies of the buffer pool.                                        *)
EXTENDS TableHeapThreadsSteps

\* Where a call has a page that it writes to.
LEMMA WritePlace ==
  ASSUME HInv, Running, NEW t \in Thread, th[t].pc \in {"wlatch", "new", "link"}
  PROVE  /\ pin[Cur(t)] # NoPin /\ (th[t].pc # "link" => pin[Other(t)] = NoPin)
         /\ ~th[t].inside /\ PageFrame(t) \in Frame
         /\ Page(t) \in Linked /\ Page(t) \in PageId /\ Page(t) \in live
         /\ View(t) = content[Page(t)] /\ View(t) \in HeapPage
         /\ \A f \in Frame : (writer[f] = t => f = PageFrame(t)) /\ t \notin readers[f]
<1>1. Own(t)
  BY DEF HInv
<1>2. pin[Cur(t)] # NoPin /\ (th[t].pc # "link" => pin[Other(t)] = NoPin) /\ ~th[t].inside
  BY <1>1, Zenon DEF Own, Pins, Unpinned, Twice, Places, Latched
<1>3. \A f \in Frame : WritesAt(t, f) => f = PageFrame(t)
  BY DEF WritesAt
<1> QED BY <1>1, <1>2, <1>3, PageSeen DEF Own, Latches

\* A call that has written to its page lets it go.
LEMMA OwnWritten ==
  ASSUME HInv, Running, NEW t \in Thread, th[t].pc \in {"wlatch", "new"}, HeapTypes',
         UNCHANGED pin, Unlatched(t), Linked \subseteq Linked',
         th'[t].pc = "unpin", th'[t].then \in {"idle", "fetch"}, th'[t].op = th[t].op,
         th'[t].op # "scan", th'[t].at \in Linked, th'[t].rid = th[t].rid,
         th'[t].op = "delete" => th'[t].at = th[t].at,
         th'[t].pinned = th[t].pinned, th'[t].inside = th[t].inside,
         \A m \in th'[t].must : Visible(m)'
  PROVE  Own(t)'
<1>1. Own(t)
  BY DEF HInv
<1>2. /\ pin[Cur(t)] # NoPin /\ pin[Other(t)] = NoPin /\ ~th[t].inside /\ PageFrame(t) \in Frame
      /\ \A f \in Frame : (writer[f] = t => f = PageFrame(t)) /\ t \notin readers[f]
  BY WritePlace, Zenon
<1>3. Cur(t)' = Cur(t) /\ Other(t)' = Other(t)
  BY DEF Cur, Other
<1>4. /\ ~Unpinned(th'[t]) /\ ~Twice(th'[t]) /\ ~Latched(th'[t]) /\ ~OnRow(th'[t])
  BY DEF Unpinned, Twice, Latched, OnRow
<1>5. Pins(t)'
  BY <1>1, <1>2, <1>3, <1>4, Zenon DEF Own, Pins
<1>6. Places(t)'
  BY <1>1, <1>2, <1>4, Zenon DEF Own, Places
<1>7. Appends(t)' /\ Scans(t)'
  BY Zenon DEF Appends, Scans
<1>8. Latches(t)'
  <2>1. \A f \in Frame : writer'[f] # t /\ t \notin readers'[f]
    BY <1>2, ThreadsAssumption, Zenon DEF HInv, HeapTypes, Unlatched
  <2> QED BY <2>1, Zenon DEF Latches
<1> QED BY <1>5, <1>6, <1>7, <1>8 DEF Own

\* A latch that its writer gives back.
LEMMA UnlatchedOne ==
  ASSUME HeapTypes, NEW t \in Thread, Unlatched(t), PageFrame(t) \in Frame,
         writer[PageFrame(t)] \in {None, t}
  PROVE  /\ writer' \in [Frame -> Thread \cup {None}] /\ readers' = readers
         /\ \A f \in Frame : \A u \in Thread \ {t} :
              /\ writer'[f] = u <=> writer[f] = u
              /\ u \in readers'[f] <=> u \in readers[f]
<1>1. writer' = [writer EXCEPT ![PageFrame(t)] = None] /\ readers' = readers
  BY DEF Unlatched
<1>2. \A f \in Frame : writer'[f] = IF f = PageFrame(t) THEN None ELSE writer[f]
  BY <1>1 DEF HeapTypes
<1> QED BY <1>1, <1>2, ThreadsAssumption DEF HeapTypes

\* InsertTuple() finds room on its page.
LEMMA InsertHere ==
  ASSUME HInv, Relies, NEW t \in Thread, InsertTuple(t), FreeSlots(View(t)) # {}
  PROVE  HInv'
<1> DEFINE P == Page(t)
           i == Min(FreeSlots(View(t)))
           page == [View(t) EXCEPT !.slots[i] = "row"]
           new == [p \in {P} |-> page]
           W == Unpinning(t, TRUE, "idle")
<1>1. /\ Running /\ th[t].pc = "wlatch" /\ th[t].op = "insert" /\ CanWLatch(t)
      /\ Unlatched(t) /\ Own(t) /\ th[t] \in ThreadState
  BY Zenon DEF InsertTuple, At, HInv, HeapTypes
<1>1a. Store(new) /\ th' = W
  BY Zenon DEF InsertTuple
<1>2. /\ PageFrame(t) \in Frame /\ P \in Linked /\ P \in PageId /\ P \in live
      /\ View(t) = content[P] /\ View(t) \in HeapPage
  BY <1>1, WritePlace
<1>3. i \in Slot /\ View(t).slots[i] = "free"
  <2>1. FreeSlots(View(t)) \in SUBSET Slot
    BY DEF FreeSlots
  <2>2. i \in FreeSlots(View(t))
    BY <2>1, FirstSlot
  <2> QED BY <2>2 DEF FreeSlots
<1>4. /\ page \in HeapPage /\ page.next = content[P].next
      /\ \A j \in Slot : page.slots[j] = IF j = i THEN "row" ELSE content[P].slots[j]
  <2> HIDE DEF i
  <2> QED BY <1>2, <1>3 DEF HeapPage
<1>5. page # Zero /\ page \in Data
  BY <1>4, ThreadsAssumption
<1> HIDE DEF page
<1>6. DOMAIN new = {P} /\ new[P] = page
  OBVIOUS
<1>7. /\ IInv' /\ Frames' /\ UNCHANGED <<aborted, live, pin>>
      /\ content' = [p \in PageId |-> IF p \in DOMAIN new THEN new[p] ELSE content[p]]
  <2>1. Store(new) /\ DOMAIN new \subseteq PageId /\ \A p \in DOMAIN new : new[p] \in Data
    BY <1>1a, <1>2, <1>5, <1>6
  <2> HIDE DEF new
  <2> QED BY <2>1, PoolStores
<1>8. \A p \in PageId : content'[p] = IF p = P THEN page ELSE content[p]
  BY <1>6, <1>7
<1>9. /\ th' \in [Thread -> ThreadState] /\ \A u \in Thread \ {t} : th'[u] = th[u]
      /\ th'[t].pc = "unpin" /\ th'[t].then = "idle"
      /\ th'[t].op = th[t].op /\ th'[t].at = th[t].at /\ th'[t].rid = th[t].rid
      /\ th'[t].pinned = th[t].pinned /\ th'[t].inside = th[t].inside
      /\ th'[t].must = th[t].must
  <2>1. W \in {Unpinning(t, TRUE, "idle"), Unpinning(t, FALSE, "idle")}
    OBVIOUS
  <2> HIDE DEF W
  <2>2. /\ W \in [Thread -> ThreadState] /\ \A u \in Thread \ {t} : W[u] = th[u]
        /\ W[t].pc = "unpin" /\ W[t].then = "idle"
        /\ W[t].op = th[t].op /\ W[t].at = th[t].at /\ W[t].rid = th[t].rid
        /\ W[t].pinned = th[t].pinned /\ W[t].inside = th[t].inside
        /\ W[t].must = th[t].must
    BY <2>1, UnpinNext, Zenon DEF ToUnpin
  <2> QED BY <1>1a, <2>2, Zenon
<1>10. /\ writer' \in [Frame -> Thread \cup {None}] /\ readers' = readers
       /\ \A f \in Frame : \A u \in Thread \ {t} :
            /\ writer'[f] = u <=> writer[f] = u
            /\ u \in readers'[f] <=> u \in readers[f]
  BY <1>1, <1>2, UnlatchedOne DEF CanWLatch, HInv
<1>11. HeapTypes' /\ Others(t)
  BY <1>7, <1>9, <1>10, OthersAlone DEF HInv, HeapTypes
<1>12. \A u \in Thread : \A m \in th[u].must : Visible(m) => Visible(m)'
  <2> SUFFICES ASSUME NEW u \in Thread, NEW m \in th[u].must, Visible(m) PROVE Visible(m)'
    OBVIOUS
  <2>1. m[1] \in PageId /\ m[2] \in Slot
    BY DEF HInv, HeapTypes, ThreadState, Rid
  <2>2. CASE m[1] = P
    BY <1>4, <1>5, <1>8, <2>1, <2>2 DEF Visible
  <2>3. CASE m[1] # P
    BY <1>8, <2>1, <2>3 DEF Visible
  <2> QED BY <2>2, <2>3
<1>13. Linked' = Linked /\ Linked \subseteq PageId
  BY <1>2, <1>5, <1>7, <1>8, PoolTypes DEF Linked, HInv
<1>14. Chain'
  BY <1>1, <1>2, <1>4, <1>5, <1>7, <1>8, <1>11, <1>13, ChainKept, Zenon DEF Linked
<1>15. Contents(t)
  <2>1. \A p \in Linked : content'[p] # Zero /\ content'[p].next = content[p].next
    BY <1>4, <1>5, <1>8, <1>13 DEF Linked
  <2>2. \A p \in live : content[p] = Zero => content'[p] = Zero
    BY <1>2, <1>8, PoolTypes, Zenon DEF HInv, Linked
  <2>3. \A u \in Thread : th'[u].must = th[u].must
    BY <1>9
  <2> QED BY <1>7, <1>12, <2>1, <2>2, <2>3, Zenon DEF Contents
<1>16. Own(t)'
  <2>1. \A m \in th'[t].must : Visible(m)'
    BY <1>1, <1>9, <1>12, Zenon DEF Own, Scans
  <2>2. th[t].at \in Linked
    BY <1>1, Zenon DEF Own, Places
  <2> QED BY <1>1, <1>7, <1>9, <1>11, <1>13, <2>1, <2>2, OwnWritten, Zenon
<1> QED BY <1>1, <1>7, <1>11, <1>14, <1>15, <1>16, Together

\* InsertTuple() with the latch of its page.
LEMMA InsertTupleKeeps ==
  ASSUME HInv, Relies, NEW t \in Thread, InsertTuple(t)
  PROVE  HInv'
<1> DEFINE next == View(t).next
           W == Unpinning(t, FALSE, "fetch")
<1>1. /\ Running /\ th[t].pc = "wlatch" /\ th[t].op = "insert" /\ CanWLatch(t)
      /\ Own(t) /\ th[t] \in ThreadState
  BY DEF InsertTuple, At, HInv, HeapTypes
<1>2. /\ pin[Cur(t)] # NoPin /\ pin[Other(t)] = NoPin /\ ~th[t].inside
      /\ PageFrame(t) \in Frame /\ Page(t) \in Linked /\ next = content[Page(t)].next
      /\ \A f \in Frame : (writer[f] = t => f = PageFrame(t)) /\ t \notin readers[f]
  BY <1>1, WritePlace, Zenon
<1>3. CASE FreeSlots(View(t)) # {}
  BY <1>3, InsertHere
<1>4. CASE /\ next # INVALID_PAGE_ID /\ th' = [W EXCEPT ![t].at = next]
           /\ Unlatched(t) /\ UnchangedPool
  <2>1. UNCHANGED vars /\ UNCHANGED <<pin, live, content>>
    BY <1>4 DEF UnchangedPool, vars
  <2>2. next \in Linked /\ next \in PageId
    BY <1>2, <1>4, PoolTypes, Zenon DEF HInv, Chain, Linked
  <2>3. W \in {Unpinning(t, TRUE, "fetch"), Unpinning(t, FALSE, "fetch")}
    OBVIOUS
  <2> HIDE DEF W
  <2>4. /\ W \in [Thread -> ThreadState] /\ \A u \in Thread \ {t} : W[u] = th[u]
        /\ W[t].pc = "unpin" /\ W[t].then = "fetch"
        /\ W[t].op = th[t].op /\ W[t].rid = th[t].rid
        /\ W[t].pinned = th[t].pinned /\ W[t].inside = th[t].inside
        /\ W[t].must = th[t].must
    BY <2>3, UnpinNext, Zenon DEF ToUnpin
  <2> HIDE DEF next
  <2>5. /\ th'[t] = [W[t] EXCEPT !.at = next] /\ W[t] \in ThreadState
        /\ \A u \in Thread \ {t} : th'[u] = th[u]
    BY <1>4, <2>4
  <2>6. /\ th'[t].pc = "unpin" /\ th'[t].then = "fetch" /\ th'[t].at = next
        /\ th'[t].op = th[t].op /\ th'[t].rid = th[t].rid
        /\ th'[t].pinned = th[t].pinned /\ th'[t].inside = th[t].inside
        /\ th'[t].must = th[t].must
    BY <2>4, <2>5 DEF ThreadState
  <2>7. th'[t] \in ThreadState
    BY <2>2, <2>5 DEF ThreadState
  <2>8. /\ writer' \in [Frame -> Thread \cup {None}] /\ readers' = readers
        /\ \A f \in Frame : \A u \in Thread \ {t} :
             /\ writer'[f] = u <=> writer[f] = u
             /\ u \in readers'[f] <=> u \in readers[f]
    BY <1>1, <1>2, <1>4, UnlatchedOne DEF CanWLatch, HInv
  <2>9. HeapTypes'
    BY <1>4, <2>4, <2>7, <2>8 DEF HInv, HeapTypes
  <2>10. Linked' = Linked /\ \A m \in th'[t].must : Visible(m)'
    BY <1>1, <2>1, <2>6 DEF Own, Scans, Visible, Linked
  <2>11. Own(t)'
    BY <1>1, <1>4, <2>1, <2>2, <2>6, <2>9, <2>10, OwnWritten
  <2> QED BY <1>1, <2>1, <2>5, <2>8, <2>9, <2>11, PoolSame
<1>5. CASE /\ next = INVALID_PAGE_ID /\ GoTo(t, "new") /\ UnchangedPool
           /\ writer' = [writer EXCEPT ![PageFrame(t)] = t] /\ UNCHANGED readers
  <2>1. UNCHANGED vars /\ UNCHANGED <<pin, live, content>>
    BY <1>5 DEF UnchangedPool, vars
  <2>2. /\ th' \in [Thread -> ThreadState] /\ \A u \in Thread \ {t} : th'[u] = th[u]
        /\ th'[t].pc = "new" /\ th'[t].op = th[t].op /\ th'[t].at = th[t].at
        /\ th'[t].rid = th[t].rid /\ th'[t].inside = th[t].inside
        /\ th'[t].must = th[t].must
        /\ Cur(t)' = Cur(t) /\ Other(t)' = Other(t)
    BY <1>5, GoesTo, Zenon DEF HInv
  <2>3. \A f \in Frame : writer'[f] = IF f = PageFrame(t) THEN t ELSE writer[f]
    BY <1>5 DEF HInv, HeapTypes
  <2>4. HeapTypes'
    BY <1>5, <2>2, Zenon DEF HInv, HeapTypes
  <2>5. \A f \in Frame : \A u \in Thread \ {t} : writer'[f] = u <=> writer[f] = u
    BY <1>1, <2>3, ThreadsAssumption DEF CanWLatch
  <2>6. Page(t)' = Page(t) /\ PageFrame(t)' = PageFrame(t) /\ Linked' = Linked
    BY <2>1, <2>2 DEF Page, PageFrame, Linked
  <2>7. /\ ~Unpinned(th'[t]) /\ ~Twice(th'[t]) /\ ~Latched(th'[t]) /\ ~OnRow(th'[t])
    BY <2>2 DEF Unpinned, Twice, Latched, OnRow
  <2>8. Pins(t)'
    BY <1>1, <1>2, <2>1, <2>2, <2>6, <2>7, Zenon DEF Own, Pins
  <2>9. Places(t)'
    BY <1>1, <1>2, <2>2, <2>6, <2>7, Zenon DEF Own, Places
  <2>10. Appends(t)'
    BY <1>2, <1>5, <2>1, <2>2, <2>3, <2>6, Zenon DEF Appends
  <2>11. Latches(t)'
    BY <1>2, <1>5, <2>2, <2>3, <2>6 DEF Latches, WritesAt
  <2>12. Scans(t)'
    BY <1>1, <2>1, <2>2, Zenon DEF Own, Scans, Visible
  <2>13. Own(t)'
    BY <2>8, <2>9, <2>10, <2>11, <2>12 DEF Own
  <2> QED BY <1>1, <1>5, <2>1, <2>2, <2>4, <2>5, <2>13, PoolSame
<1> QED BY <1>3, <1>4, <1>5, Zenon DEF InsertTuple

\* InsertTuple() asks for a new page.
LEMMA NewTablePageKeeps ==
  ASSUME HInv, Relies, NEW t \in Thread, NewTablePage(t)
  PROVE  HInv'
<1> DEFINE W == Unpinning(t, FALSE, "idle")
           n == disk.next
<1>1. /\ Running /\ th[t].pc = "new" /\ th[t].op = "insert" /\ Own(t) /\ th[t] \in ThreadState
  BY DEF NewTablePage, At, HInv, HeapTypes
<1>2. /\ pin[Cur(t)] # NoPin /\ pin[Other(t)] = NoPin /\ ~th[t].inside
      /\ PageFrame(t) \in Frame /\ Page(t) \in Linked /\ Page(t) \in live
      /\ \A f \in Frame : (writer[f] = t => f = PageFrame(t)) /\ t \notin readers[f]
  BY <1>1, WritePlace
<1>3. content[Page(t)].next = INVALID_PAGE_ID /\ writer[PageFrame(t)] = t
  BY <1>1 DEF Own, Appends
<1>4. CASE th' = W /\ Unlatched(t) /\ UnchangedPool
  <2>1. UNCHANGED vars /\ UNCHANGED <<pin, live, content>>
    BY <1>4 DEF UnchangedPool, vars
  <2>2. W \in {Unpinning(t, TRUE, "idle"), Unpinning(t, FALSE, "idle")}
    OBVIOUS
  <2> HIDE DEF W
  <2>3. /\ W \in [Thread -> ThreadState] /\ \A u \in Thread \ {t} : W[u] = th[u]
        /\ W[t].pc = "unpin" /\ W[t].then = "idle"
        /\ W[t].op = th[t].op /\ W[t].at = th[t].at /\ W[t].rid = th[t].rid
        /\ W[t].pinned = th[t].pinned /\ W[t].inside = th[t].inside
        /\ W[t].must = th[t].must
    BY <2>2, UnpinNext, Zenon DEF ToUnpin
  <2>4. /\ writer' \in [Frame -> Thread \cup {None}] /\ readers' = readers
        /\ \A f \in Frame : \A u \in Thread \ {t} :
             /\ writer'[f] = u <=> writer[f] = u
             /\ u \in readers'[f] <=> u \in readers[f]
    BY <1>2, <1>3, <1>4, UnlatchedOne, Zenon DEF HInv
  <2>5. HeapTypes' /\ \A u \in Thread \ {t} : th'[u] = th[u]
    BY <1>4, <2>3, <2>4 DEF HInv, HeapTypes
  <2>6. Linked' = Linked /\ (\A m \in th'[t].must : Visible(m)') /\ th[t].at \in Linked
    BY <1>1, <1>4, <2>1, <2>3, Zenon DEF Own, Scans, Places, Visible, Linked
  <2>7. Own(t)'
    BY <1>1, <1>4, <2>1, <2>3, <2>5, <2>6, OwnWritten, Zenon
  <2> QED BY <1>1, <2>1, <2>4, <2>5, <2>7, PoolSame
<1>5. CASE victim # NoFrame /\ NewPage(Other(t)) /\ GoTo(t, "link") /\ UnchangedLatches
  <2>1. Cur(t) \in Client /\ Other(t) \in Client /\ Other(t) # Cur(t)
        /\ UNCHANGED <<writer, readers>>
    BY <1>5, TwoClients DEF HInv, UnchangedLatches
  <2>2. /\ IInv' /\ Frames' /\ UNCHANGED aborted /\ n \in PageId /\ n \notin live
        /\ live' = live \cup {n} /\ content' = [content EXCEPT ![n] = Zero]
        /\ pin'[Other(t)] # NoPin /\ pin'[Other(t)].page = n
        /\ \A d \in Client \ {Other(t)} : pin'[d] = pin[d]
    BY <1>5, <2>1, PoolMakes
  <2>3. content \in [PageId -> Data] /\ Page(t) < n /\ live \subseteq PageId
    <3>1. Page(t) \in 0 .. disk.next - 1 /\ disk \in Disk
      BY <1>2, Zenon DEF HInv, IInv, TypeOK
    <3>2. Page(t) < n
      BY <3>1, DiskAssumption DEF Disk
    <3> QED BY <3>2, PoolTypes DEF HInv
  <2> HIDE DEF n
  <2>4. content'[n] = Zero /\ \A p \in live : content'[p] = content[p]
    BY <2>2, <2>3
  <2>5. /\ th' \in [Thread -> ThreadState] /\ \A u \in Thread \ {t} : th'[u] = th[u]
        /\ th'[t].pc = "link" /\ th'[t].op = th[t].op /\ th'[t].at = th[t].at
        /\ th'[t].rid = th[t].rid /\ th'[t].inside = th[t].inside
        /\ th'[t].must = th[t].must
        /\ Cur(t)' = Cur(t) /\ Other(t)' = Other(t)
    BY <1>5, GoesTo, Zenon DEF HInv
  <2>6. HeapTypes' /\ Others(t)
    BY <2>1, <2>2, <2>5, OthersAlone, Zenon DEF HInv, HeapTypes
  <2>7. /\ Linked' = Linked /\ pin'[Cur(t)] = pin[Cur(t)]
        /\ Page(t)' = Page(t) /\ PageFrame(t)' = PageFrame(t)
    BY <2>1, <2>2, <2>4, <2>5 DEF Linked, Page, PageFrame
  <2>8. Chain'
    <3>1. \A p \in Linked : content'[p] = content[p]
      BY <2>4 DEF Linked
    <3>2. \A p \in live' \ Linked' : p = n
      <4> SUFFICES ASSUME NEW p \in live \ Linked PROVE FALSE
        BY <2>2, <2>7, Zenon
      <4>1. PICK u \in Thread : th[u].pc = "link"
        BY Zenon DEF HInv, Chain
      <4> QED BY <1>1, <4>1, OneAppends, Zenon
    <3>3. \A p \in live' \ Linked' : \E u \in Thread : th'[u].pc = "link" /\ (pin[Other(u)].page)' = p
      BY <2>2, <2>5, <3>2
    <3>4. \A p \in PageId : content'[p] # Zero => p \in live'
      BY <2>2, <2>3, Zenon DEF HInv, Chain
    <3> QED BY <2>7, <3>1, <3>3, <3>4 DEF HInv, Chain
  <2>9. \A u \in Thread : \A m \in th[u].must : Visible(m) /\ Visible(m)'
    <3> SUFFICES ASSUME NEW u \in Thread, NEW m \in th[u].must PROVE Visible(m) /\ Visible(m)'
      BY Zenon
    <3>1. Visible(m) /\ m[1] \in PageId
      BY DEF HInv, Own, Scans, HeapTypes, ThreadState, Rid
    <3>2. m[1] \in live
      BY <3>1, Zenon DEF Visible, HInv, Chain
    <3> QED BY <2>4, <3>1, <3>2, Zenon DEF Visible
  <2>10. Contents(t)
    <3>1. \A u \in Thread : th'[u].must = th[u].must
      BY <2>5
    <3> QED BY <2>2, <2>4, <2>9, <3>1, Zenon DEF Contents, Linked
  <2>11. Own(t)'
    <3>1. ~Unpinned(th'[t]) /\ Twice(th'[t]) /\ ~Latched(th'[t]) /\ ~OnRow(th'[t])
      BY <2>5, Zenon DEF Unpinned, Twice, Latched, OnRow
    <3>2. Pins(t)'
      BY <1>1, <1>2, <2>2, <2>5, <2>7, <3>1, Zenon DEF Own, Pins
    <3>3. Places(t)'
      BY <1>1, <1>2, <2>5, <2>7, <3>1, Zenon DEF Own, Places
    <3>4. Appends(t)'
      BY <1>2, <1>3, <2>1, <2>2, <2>3, <2>4, <2>5, <2>7, Zenon DEF Appends
    <3>5. Latches(t)'
      BY <1>2, <2>1, <2>5, <2>7, Zenon DEF Latches, WritesAt
    <3>6. Scans(t)'
      BY <1>1, <2>5, <2>9, Zenon DEF Scans
    <3> QED BY <3>2, <3>3, <3>4, <3>5, <3>6 DEF Own
  <2> QED BY <1>1, <2>2, <2>6, <2>8, <2>10, <2>11, Together, Zenon
<1> QED BY <1>4, <1>5, Zenon DEF NewTablePage

\* Nobody has entered the latch of a frame whose page is not linked yet.
LEMMA NewFrameFree ==
  ASSUME HInv, NEW t \in Thread, th[t].pc = "link"
  PROVE  /\ pin[Other(t)].frame \in Frame /\ pin[Other(t)].page \in PageId
         /\ page_table[pin[Other(t)].page] = pin[Other(t)].frame
         /\ \A u \in Thread \ {t} : writer[pin[Other(t)].frame] # u
<1> DEFINE new == pin[Other(t)]
<1>1. Other(t) \in Client /\ new # NoPin /\ content[new.page] = Zero
  BY TwoClients, Zenon DEF HInv, Own, Pins, Twice, Appends
<1>2. new.page \in PageId /\ page_table[new.page] = new.frame /\ new.frame # NoFrame
  BY <1>1, Zenon DEF HInv, IInv, Aux, PinnedPagesStay
<1>3. new.frame \in Frame
  BY <1>2, PoolTypes, Zenon DEF HInv
<1>4. ASSUME NEW u \in Thread \ {t}, writer[new.frame] = u PROVE FALSE
  <2>1. WritesAt(u, new.frame) /\ Own(u)
    BY <1>3, <1>4 DEF HInv, Own, Latches
  <2>2. PICK c \in {Cur(u), Other(u)} :
          pin[c] # NoPin /\ pin[c].frame = new.frame /\ pin[c].page \in Linked
    BY <2>1, Zenon DEF WritesAt, Own, Pins, Unpinned, Twice, PageFrame
  <2>3. c \in Client
    BY TwoClients DEF HInv
  <2>4. pin[c].page \in PageId /\ page_table[pin[c].page] = new.frame
    BY <2>2, <2>3, Zenon DEF HInv, IInv, Aux, PinnedPagesStay
  <2>5. pin[c].page = new.page
    BY <1>2, <1>3, <2>4, PoolTypes DEF HInv
  <2> QED BY <1>1, <2>2, <2>5 DEF Linked
<1> QED BY <1>2, <1>3, <1>4

\* The chain with one more page behind its last one.
LEMMA ChainGrows ==
  ASSUME HInv, NEW t \in Thread, th[t].pc = "link", live' = live,
         NEW P, P = Page(t), NEW N, N = pin[Other(t)].page,
         \A p \in PageId \ {P, N} : content'[p] = content[p],
         content'[P] # Zero, content'[P].next = N,
         content'[N] # Zero, content'[N].next = INVALID_PAGE_ID
  PROVE  Chain'
<1>1. /\ P \in Linked /\ P < N /\ content[P].next = INVALID_PAGE_ID
      /\ N \in live /\ content[N] = Zero
  BY DEF HInv, Own, Pins, Unpinned, Appends, Page
<1>2. live \subseteq PageId /\ INVALID_PAGE_ID \notin PageId /\ \A p \in PageId : p \in Int
  BY PoolTypes DEF HInv, INVALID_PAGE_ID, PageId
<1>3. P \in PageId /\ N \in PageId /\ N # P /\ N \notin Linked
  BY <1>1, <1>2 DEF Linked
<1>4. Linked' = Linked \cup {N} /\ Linked \subseteq PageId
  BY <1>1, <1>2, <1>3 DEF Linked
<1>5. \A q \in Linked \ {P} : content'[q] = content[q]
  BY <1>3, <1>4
<1>6. \A q \in Linked : q <= P
  BY <1>1, <1>2, <1>3, <1>4 DEF HInv, Chain
<1>7. Chain
  BY DEF HInv
<1>8. first_page_id \in Linked'
  BY <1>4, <1>7 DEF Chain
<1>9. \A q \in Linked' : (content[q].next)' # INVALID_PAGE_ID =>
        (content[q].next)' \in Linked' /\ q < (content[q].next)'
  BY <1>1, <1>4, <1>5, <1>7 DEF Chain
<1>10. ASSUME NEW p \in Linked', NEW q \in Linked', q < p
       PROVE  (content[q].next)' # INVALID_PAGE_ID /\ (content[q].next)' <= p
  <2>1. q \in Linked /\ q \in Int /\ P \in Int /\ N \in Int /\ p \in Int
    BY <1>1, <1>2, <1>3, <1>4, <1>6, <1>10
  <2>2. CASE q = P
    <3>1. p = N
      BY <1>4, <1>6, <1>10, <2>1, <2>2
    <3> QED BY <1>2, <1>3, <2>1, <2>2, <3>1
  <2>3. CASE q # P
    <3>1. q < P
      BY <1>6, <2>1, <2>3
    <3>2. content[q].next # INVALID_PAGE_ID /\ content[q].next <= P
          /\ content[q].next \in Int
      BY <1>1, <1>2, <1>4, <1>7, <2>1, <3>1, Zenon DEF Chain
    <3>3. p \in Linked => content[q].next <= p
      BY <1>7, <1>10, <2>1, Zenon DEF Chain
    <3>4. p = N => content[q].next <= p
      BY <1>1, <2>1, <3>2
    <3> QED BY <1>4, <1>5, <2>1, <2>3, <3>2, <3>3, <3>4, Zenon
  <2> QED BY <2>2, <2>3
<1>11. \A p \in Linked' \ {first_page_id} : \E q \in Linked' : (content[q].next)' = p
  <2> SUFFICES ASSUME NEW p \in Linked' \ {first_page_id}
               PROVE  \E q \in Linked' : (content[q].next)' = p
    OBVIOUS
  <2>1. CASE p = N
    BY <1>1, <1>4, <2>1, Zenon
  <2>2. CASE p \in Linked
    <3>1. PICK q \in Linked : content[q].next = p
      BY <1>7, <2>2, Zenon DEF Chain
    <3>2. q # P
      BY <1>1, <1>2, <1>4, <2>2, <3>1, Zenon
    <3> QED BY <1>4, <1>5, <3>1, <3>2, Zenon
  <2> QED BY <1>4, <2>1, <2>2
<1>12. live' \ Linked' = {}
  <2> SUFFICES ASSUME NEW p \in live \ Linked, p # N PROVE FALSE
    BY <1>4
  <2>1. PICK u \in Thread : th[u].pc = "link" /\ pin[Other(u)].page = p
    BY Zenon DEF HInv, Chain
  <2>2. u = t
    BY <2>1, OneAppends, Zenon
  <2> QED BY <2>1, <2>2
<1>13. \A p \in PageId : content'[p] # Zero => p \in live'
  BY <1>1, <1>7 DEF Chain, Linked
<1> QED BY <1>8, <1>9, <1>10, <1>11, <1>12, <1>13 DEF Chain

\* InsertTuple() links its new page.
LEMMA LinkPageKeeps ==
  ASSUME HInv, Relies, NEW t \in Thread, LinkPage(t)
  PROVE  HInv'
<1> DEFINE P == Page(t)
           N == pin[Other(t)].page
           g == pin[Other(t)].frame
           last == [View(t) EXCEPT !.next = N]
           new == [p \in {P, N} |-> IF p = P THEN last ELSE EmptyPage]
           W == Unpinning(t, TRUE, "wlatch")
<1>1. /\ Running /\ th[t].pc = "link" /\ th[t].op = "insert" /\ Own(t) /\ th[t] \in ThreadState
  BY DEF LinkPage, At, HInv, HeapTypes
<1>1a. /\ Store(new) /\ th' = W /\ UNCHANGED readers
       /\ writer' = [writer EXCEPT ![PageFrame(t)] = None, ![g] = t]
  BY DEF LinkPage
<1>2. /\ pin[Cur(t)] # NoPin /\ ~th[t].inside /\ PageFrame(t) \in Frame
      /\ P \in Linked /\ P \in PageId /\ View(t) = content[P] /\ View(t) \in HeapPage
      /\ \A f \in Frame : (writer[f] = t => f = PageFrame(t)) /\ t \notin readers[f]
  BY <1>1, WritePlace
<1>3. /\ g \in Frame /\ N \in PageId /\ page_table[N] = g
      /\ \A u \in Thread \ {t} : writer[g] # u
  BY <1>1, NewFrameFree, Zenon
<1>4. /\ pin[Other(t)] # NoPin /\ content[P].next = INVALID_PAGE_ID /\ writer[PageFrame(t)] = t
      /\ N \in live /\ content[N] = Zero /\ P < N
  BY <1>1, Zenon DEF Own, Pins, Twice, Appends
<1>5. /\ last \in HeapPage /\ last.next = N /\ last.slots = content[P].slots
      /\ EmptyPage \in HeapPage /\ EmptyPage.next = INVALID_PAGE_ID
  <2>1. last \in HeapPage /\ last.next = N /\ last.slots = content[P].slots
    BY <1>2, <1>3, Zenon DEF HeapPage
  <2>2. EmptyPage \in HeapPage /\ EmptyPage.next = INVALID_PAGE_ID
    BY DEF HeapPage, EmptyPage
  <2> QED BY <2>1, <2>2
<1>6. last # Zero /\ EmptyPage # Zero /\ last \in Data /\ EmptyPage \in Data
  BY <1>5, ThreadsAssumption
<1>7. P # N /\ N \notin Linked
  BY <1>2, <1>4, Zenon DEF Linked
<1> HIDE DEF last
<1>8. DOMAIN new = {P, N} /\ new[P] = last /\ new[N] = EmptyPage
  BY <1>7
<1>9. /\ IInv' /\ Frames' /\ UNCHANGED <<aborted, live, pin>>
      /\ content' = [p \in PageId |-> IF p \in DOMAIN new THEN new[p] ELSE content[p]]
  <2>1. Store(new) /\ DOMAIN new \subseteq PageId /\ \A p \in DOMAIN new : new[p] \in Data
    BY <1>1a, <1>2, <1>3, <1>6, <1>8, Zenon
  <2> HIDE DEF new
  <2> QED BY <2>1, PoolStores
<1> HIDE DEF new
<1>10. /\ content'[P] = last /\ content'[N] = EmptyPage
       /\ \A p \in PageId \ {P, N} : content'[p] = content[p]
  BY <1>2, <1>3, <1>8, <1>9, Zenon
<1>11. /\ th' \in [Thread -> ThreadState] /\ \A u \in Thread \ {t} : th'[u] = th[u]
       /\ th'[t].pc = "unpin" /\ th'[t].then = "wlatch"
       /\ th'[t].op = th[t].op /\ th'[t].at = th[t].at /\ th'[t].rid = th[t].rid
       /\ th'[t].pinned = th[t].pinned /\ th'[t].inside = th[t].inside
       /\ th'[t].must = th[t].must
  <2>1. W \in {Unpinning(t, TRUE, "wlatch"), Unpinning(t, FALSE, "wlatch")}
    OBVIOUS
  <2> HIDE DEF W
  <2>2. /\ W \in [Thread -> ThreadState] /\ \A u \in Thread \ {t} : W[u] = th[u]
        /\ W[t].pc = "unpin" /\ W[t].then = "wlatch"
        /\ W[t].op = th[t].op /\ W[t].at = th[t].at /\ W[t].rid = th[t].rid
        /\ W[t].pinned = th[t].pinned /\ W[t].inside = th[t].inside
        /\ W[t].must = th[t].must
    BY <2>1, UnpinNext, Zenon DEF ToUnpin
  <2> QED BY <1>1a, <2>2
<1>12. \A f \in Frame : writer'[f] = IF f = g THEN t ELSE IF f = PageFrame(t) THEN None
                                     ELSE writer[f]
  BY <1>1a, <1>2, <1>3, Zenon DEF HInv, HeapTypes
<1>13. HeapTypes'
  BY <1>1a, <1>11, Zenon DEF HInv, HeapTypes
<1>14. Others(t)
  <2>1. \A f \in Frame : \A u \in Thread \ {t} : /\ writer'[f] = u <=> writer[f] = u
                                                 /\ u \in readers'[f] <=> u \in readers[f]
    BY <1>1a, <1>3, <1>4, <1>12, ThreadsAssumption, Zenon
  <2> QED BY <1>9, <1>11, <2>1, OthersAlone, Zenon DEF HInv
<1>15. Linked \subseteq Linked' /\ N \in Linked' /\ Linked \subseteq PageId
  <2>1. Linked \subseteq PageId
    BY PoolTypes DEF HInv, Linked
  <2> QED BY <1>4, <1>6, <1>9, <1>10, <2>1, Zenon DEF Linked
<1>16. Chain'
  BY <1>1, <1>5, <1>6, <1>9, <1>10, ChainGrows
<1>17. \A u \in Thread : \A m \in th[u].must : Visible(m)'
  <2> SUFFICES ASSUME NEW u \in Thread, NEW m \in th[u].must PROVE Visible(m)'
    OBVIOUS
  <2>1. Visible(m) /\ m[1] \in PageId
    BY DEF HInv, Own, Scans, HeapTypes, ThreadState, Rid
  <2>2. m[1] # N
    BY <1>4, <2>1 DEF Visible
  <2>3. CASE m[1] = P
    BY <1>5, <1>6, <1>10, <2>1, <2>3, Zenon DEF Visible
  <2>4. CASE m[1] # P
    BY <1>10, <2>1, <2>2, <2>4 DEF Visible
  <2> QED BY <2>3, <2>4
<1>18. Contents(t)
  <2>1. \A u \in Thread : th'[u].must = th[u].must
    BY <1>11
  <2>2. \A p \in Linked : /\ content'[p] # Zero
                          /\ content'[p].next = content[p].next \/ p = P
    BY <1>6, <1>7, <1>10, <1>15 DEF Linked
  <2>3. \A p \in live : content[p] = Zero => content'[p] = Zero \/ p = N
    BY <1>2, <1>10, PoolTypes, Zenon DEF HInv, Linked
  <2> QED BY <1>1, <1>9, <1>17, <2>1, <2>2, <2>3, Zenon DEF Contents
<1>19. Own(t)'
  <2>1. ~Unpinned(th'[t]) /\ Twice(th'[t]) /\ ~Latched(th'[t]) /\ ~OnRow(th'[t])
    BY <1>11 DEF Unpinned, Twice, Latched, OnRow
  <2>2. Cur(t)' = Cur(t) /\ Other(t)' = Other(t)
    BY <1>11 DEF Cur, Other
  <2>3. Pins(t)'
    BY <1>2, <1>4, <1>9, <1>15, <2>1, <2>2, Zenon DEF Pins, Page
  <2>4. Places(t)'
    BY <1>1, <1>2, <1>11, <1>15, <2>1, Zenon DEF Own, Places
  <2>5. Appends(t)' /\ Scans(t)'
    BY <1>1, <1>11, <1>17, Zenon DEF Appends, Scans
  <2>6. \A f \in Frame : (writer'[f] = t => f = g) /\ t \notin readers'[f]
    BY <1>1a, <1>2, <1>12, ThreadsAssumption, Zenon
  <2>7. Latches(t)'
    BY <1>9, <1>11, <2>2, <2>6, Zenon DEF Latches, WritesAt
  <2> QED BY <2>3, <2>4, <2>5, <2>7 DEF Own
<1> QED BY <1>1, <1>9, <1>13, <1>14, <1>16, <1>18, <1>19, Together

\* MarkDelete() with the latch of the row's page.
LEMMA MarkDeleteKeeps ==
  ASSUME HInv, Relies, NEW t \in Thread, MarkDelete(t)
  PROVE  HInv'
<1> DEFINE P == Page(t)
           rid == th[t].rid
           i == rid[2]
           page == [View(t) EXCEPT !.slots[i] = IF @ = "row" THEN "marked" ELSE @]
           new == [p \in {P} |-> page]
           W == Unpinning(t, TRUE, "idle")
<1>1. /\ Running /\ th[t].pc = "wlatch" /\ th[t].op = "delete" /\ CanWLatch(t)
      /\ Unlatched(t) /\ Own(t) /\ th[t] \in ThreadState
  BY Zenon DEF MarkDelete, At, HInv, HeapTypes
<1>1a. Store(new) /\ th' = [u \in Thread |-> [W[u] EXCEPT !.must = @ \ {rid}]]
  BY Zenon DEF MarkDelete
<1>2. /\ PageFrame(t) \in Frame /\ P \in Linked /\ P \in PageId
      /\ View(t) = content[P] /\ View(t) \in HeapPage
  BY <1>1, WritePlace
<1>3. rid = <<P, i>> /\ i \in Slot
  <2>1. rid # End /\ rid[1] = P
    BY <1>1, Zenon DEF Own, Places
  <2> QED BY <1>1, <2>1 DEF ThreadState, Rid
<1>4. /\ page \in HeapPage /\ page.next = content[P].next
      /\ \A j \in Slot : j # i => page.slots[j] = content[P].slots[j]
  <2> HIDE DEF i
  <2> QED BY <1>2, <1>3, Zenon DEF HeapPage
<1>5. page # Zero /\ page \in Data
  BY <1>4, ThreadsAssumption, Zenon
<1> HIDE DEF page
<1>6. DOMAIN new = {P} /\ new[P] = page
  OBVIOUS
<1>7. /\ IInv' /\ Frames' /\ UNCHANGED <<aborted, live, pin>>
      /\ content' = [p \in PageId |-> IF p \in DOMAIN new THEN new[p] ELSE content[p]]
  <2>1. Store(new) /\ DOMAIN new \subseteq PageId /\ \A p \in DOMAIN new : new[p] \in Data
    BY <1>1a, <1>2, <1>5, <1>6
  <2> HIDE DEF new
  <2> QED BY <2>1, PoolStores
<1>8. \A p \in PageId : content'[p] = IF p = P THEN page ELSE content[p]
  BY <1>6, <1>7
<1> HIDE DEF new, rid, i
<1>9. /\ W \in [Thread -> ThreadState] /\ \A u \in Thread \ {t} : W[u] = th[u]
      /\ W[t].pc = "unpin" /\ W[t].then = "idle"
      /\ W[t].op = th[t].op /\ W[t].at = th[t].at /\ W[t].rid = th[t].rid
      /\ W[t].pinned = th[t].pinned /\ W[t].inside = th[t].inside
      /\ W[t].must = th[t].must
  <2>1. W \in {Unpinning(t, TRUE, "idle"), Unpinning(t, FALSE, "idle")}
    OBVIOUS
  <2> HIDE DEF W
  <2> QED BY <2>1, UnpinNext, Zenon DEF ToUnpin
<1> HIDE DEF W
<1>10. ASSUME NEW u \in Thread
       PROVE  /\ th'[u] \in ThreadState /\ Alike(th'[u], W[u])
              /\ th'[u].must = W[u].must \ {rid}
  <2>1. th'[u] = [W[u] EXCEPT !.must = W[u].must \ {rid}] /\ W[u] \in ThreadState
    BY <1>1a, <1>9 DEF ThreadState
  <2>2. th'[u].must = W[u].must \ {rid} /\ th'[u] \in ThreadState
    BY <2>1 DEF ThreadState
  <2>3. /\ th'[u].pc = W[u].pc /\ th'[u].op = W[u].op /\ th'[u].at = W[u].at
        /\ th'[u].rid = W[u].rid /\ th'[u].pinned = W[u].pinned /\ th'[u].then = W[u].then
        /\ th'[u].calls = W[u].calls
    BY <2>1 DEF ThreadState
  <2>4. th'[u].flag = W[u].flag /\ th'[u].inside = W[u].inside /\ th'[u].refused = W[u].refused
    BY <2>1 DEF ThreadState
  <2> QED BY <2>2, <2>3, <2>4 DEF Alike
<1>11. /\ writer' \in [Frame -> Thread \cup {None}] /\ readers' = readers
       /\ \A f \in Frame : \A u \in Thread \ {t} :
            /\ writer'[f] = u <=> writer[f] = u
            /\ u \in readers'[f] <=> u \in readers[f]
  BY <1>1, <1>2, UnlatchedOne DEF CanWLatch, HInv
<1>12. HeapTypes'
  BY <1>1a, <1>10, <1>11, Zenon DEF HInv, HeapTypes
<1>13. Others(t)
  BY <1>7, <1>9, <1>10, <1>11 DEF Others
<1>14. \A u \in Thread : \A m \in th'[u].must : m \in th[u].must /\ Visible(m)'
  <2> SUFFICES ASSUME NEW u \in Thread, NEW m \in th'[u].must
               PROVE  m \in th[u].must /\ Visible(m)'
    OBVIOUS
  <2>1. m \in th[u].must /\ m # rid
    BY <1>9, <1>10
  <2>2. m = <<m[1], m[2]>> /\ m[1] \in PageId /\ m[2] \in Slot /\ Visible(m)
    BY <2>1 DEF HInv, HeapTypes, ThreadState, Rid, Own, Scans
  <2>3. CASE m[1] = P
    <3>1. m[2] # i
      BY <1>3, <2>1, <2>2, <2>3
    <3> QED BY <1>4, <1>5, <1>8, <2>1, <2>2, <2>3, <3>1 DEF Visible
  <2>4. CASE m[1] # P
    BY <1>8, <2>1, <2>2, <2>4 DEF Visible
  <2> QED BY <2>3, <2>4
<1>15. Linked' = Linked /\ Linked \subseteq PageId
  BY <1>2, <1>5, <1>7, <1>8, PoolTypes DEF Linked, HInv
<1>16. Chain'
  BY <1>1, <1>2, <1>4, <1>5, <1>7, <1>8, <1>13, <1>15, ChainKept, Zenon DEF Linked
<1>17. Contents(t)
  <2>1. \A p \in Linked : content'[p] # Zero /\ content'[p].next = content[p].next
    BY <1>4, <1>5, <1>8, <1>15 DEF Linked
  <2>2. \A p \in live : content[p] = Zero => content'[p] = Zero
    BY <1>2, <1>8, PoolTypes, Zenon DEF HInv, Linked
  <2> QED BY <1>7, <1>14, <2>1, <2>2, Zenon DEF Contents
<1>18. Own(t)'
  <2>1. \A m \in th'[t].must : Visible(m)'
    BY <1>14
  <2>2. th[t].at \in Linked
    BY <1>1, Zenon DEF Own, Places
  <2>3. /\ th'[t].pc = "unpin" /\ th'[t].then = "idle" /\ th'[t].op = th[t].op
        /\ th'[t].at = th[t].at /\ th'[t].rid = th[t].rid
        /\ th'[t].pinned = th[t].pinned /\ th'[t].inside = th[t].inside
    BY <1>9, <1>10, Zenon DEF Alike
  <2> QED BY <1>1, <1>7, <1>12, <1>15, <2>1, <2>2, <2>3, OwnWritten
<1> QED BY <1>1, <1>7, <1>12, <1>13, <1>16, <1>17, <1>18, Together
-------------------------------------------------------------------------------
\* Every step keeps the invariant.
LEMMA NextKeeps ==
  ASSUME HInv, Relies, [HeapNext]_heapVars
  PROVE  HInv'
<1>1. CASE UNCHANGED heapVars
  <2>1. UNCHANGED <<pool, disk, pin, live, content>> /\ UNCHANGED <<writer, readers, th>>
        /\ UNCHANGED <<aborted, pin, live, content>>
    BY <1>1 DEF heapVars, vars, pool
  <2>2. aborted' \in BOOLEAN
    BY <2>1 DEF HInv, IInv, TypeOK
  <2>3. IInv' /\ Frames'
    BY <2>1, <2>2, PoolLeft
  <2>4. NullExplained' /\ HeapTypes'
    BY <2>1 DEF HInv, HeapTypes, NullExplained
  <2>5. /\ Linked' = Linked
        /\ \A t : /\ Cur(t)' = Cur(t) /\ Other(t)' = Other(t) /\ Page(t)' = Page(t)
                  /\ PageFrame(t)' = PageFrame(t)
    BY <2>1 DEF Linked, Cur, Other, Page, PageFrame
  <2>6. Chain'
    BY <2>1, <2>5 DEF HInv, Chain
  <2>7. ASSUME NEW t \in Thread PROVE Own(t)'
    <3>1. Pins(t)' /\ Places(t)'
      BY <2>1, <2>5, Zenon DEF HInv, Own, Pins, Places
    <3>2. Appends(t)' /\ Latches(t)'
      <4>1. Appends(t) /\ Latches(t)
        BY Zenon DEF HInv, Own
      <4>2. Appends(t)'
        BY <2>1, <2>5, <4>1, Zenon DEF Appends
      <4>3. \A f \in Frame : WritesAt(t, f)' <=> WritesAt(t, f)
        BY <2>1, <2>5, Zenon DEF WritesAt
      <4>4. Latches(t)'
        BY <2>1, <2>5, <4>1, <4>3, Zenon DEF Latches
      <4> QED BY <4>2, <4>4
    <3>3. Scans(t)'
      BY <2>1, <2>5, Zenon DEF HInv, Own, Scans, Ahead, Visible
    <3> QED BY <3>1, <3>2, <3>3 DEF Own
  <2> QED BY <2>3, <2>4, <2>6, <2>7 DEF HInv
<1>2. ASSUME NEW t \in Thread, Step(t) PROVE HInv'
  <2>1. CASE UnpinStep(t)
    <3>1. th[t].then \in {"idle", "fetch", "get", "wlatch", "rlatch", "leave"}
      BY DEF HInv, HeapTypes, ThreadState
    <3> QED BY <2>1, <3>1, UnpinLast, UnpinFirst
  <2>2. CASE Enter(t)
    BY <2>2, EnterKeeps
  <2>3. CASE FetchToWrite(t)
    BY <2>3, FetchToWriteKeeps
  <2>4. CASE InsertTuple(t)
    BY <2>4, InsertTupleKeeps
  <2>5. CASE NewTablePage(t)
    BY <2>5, NewTablePageKeeps
  <2>6. CASE LinkPage(t)
    BY <2>6, LinkPageKeeps
  <2>7. CASE MarkDelete(t)
    BY <2>7, MarkDeleteKeeps
  <2>8. CASE FetchToScan(t)
    BY <2>8, FetchToScanKeeps
  <2>9. CASE ScanBegin(t)
    BY <2>9, ScanBeginKeeps
  <2>10. CASE ScanPage(t)
    BY <2>10, ScanPageKeeps
  <2>11. CASE ScanHop(t)
    BY <2>11, ScanHopKeeps
  <2>12. CASE ScanLeave(t)
    BY <2>12, ScanLeaveKeeps
  <2>13. CASE GetTuple(t)
    BY <2>13, GetTupleKeeps
  <2>14. CASE CopyTuple(t)
    BY <2>14, CopyTupleKeeps
  <2> QED BY <1>2, <2>1, <2>2, <2>3, <2>4, <2>5, <2>6, <2>7, <2>8, <2>9, <2>10, <2>11,
             <2>12, <2>13, <2>14 DEF Step
<1>3. ASSUME NEW t \in Thread, NEW r \in Rid, Call(t, "delete", r) PROVE HInv'
  BY <1>3, CallKeeps
<1>4. ASSUME NEW t \in Thread, NEW op \in {"insert", "scan"}, Call(t, op, End) PROVE HInv'
  BY <1>4, CallKeeps
<1> QED BY <1>1, <1>2, <1>3, <1>4 DEF HeapNext

\* A step leaves the row of another thread's iterator alone.
LEMMA OtherRows ==
  ASSUME HInv, NEW u \in Thread, NEW t \in Thread, t # u,
         \/ Step(u)
         \/ \E r \in Rid : Call(u, "delete", r)
         \/ \E op \in {"insert", "scan"} : Call(u, op, End)
  PROVE  th'[t].rid = th[t].rid
<1>1. th \in [Thread -> ThreadState]
  BY DEF HInv, HeapTypes
<1>2. ASSUME NEW flag \in BOOLEAN, NEW then \in {"idle", "fetch", "get", "wlatch", "rlatch", "leave"}
      PROVE  DOMAIN Unpinning(u, flag, then) = Thread /\ Unpinning(u, flag, then)[t] = th[t]
  BY <1>1 DEF Unpinning
<1>3. CASE UnpinStep(u) \/ Enter(u)
  BY <1>1, <1>3 DEF UnpinStep, Enter
<1>4. CASE FetchToWrite(u)
  BY <1>1, <1>4 DEF FetchToWrite, Fetch, GoTo, Return, NullUsed
<1>5. CASE InsertTuple(u)
  <2> DEFINE W == Unpinning(u, FALSE, "fetch")
  <2>1. DOMAIN W = Thread /\ W[t] = th[t] /\ Unpinning(u, TRUE, "idle")[t] = th[t]
    BY <1>2, Zenon
  <2>2. \/ th' = Unpinning(u, TRUE, "idle")
        \/ th' = [W EXCEPT ![u].at = View(u).next]
        \/ GoTo(u, "new")
    BY <1>5, Zenon DEF InsertTuple
  <2> HIDE DEF W
  <2> QED BY <1>1, <2>1, <2>2, Zenon DEF GoTo
<1>6. CASE NewTablePage(u) \/ LinkPage(u)
  BY <1>1, <1>2, <1>6, Zenon DEF NewTablePage, LinkPage, GoTo
<1>7. CASE MarkDelete(u)
  <2>1. th'[t] = [Unpinning(u, TRUE, "idle")[t] EXCEPT !.must = @ \ {th[u].rid}]
    BY <1>7, Zenon DEF MarkDelete
  <2>2. th'[t] = [th[t] EXCEPT !.must = @ \ {th[u].rid}] /\ th[t] \in ThreadState
    BY <1>1, <1>2, <2>1, Zenon
  <2> QED BY <2>2 DEF ThreadState
<1>8. CASE FetchToScan(u)
  BY <1>1, <1>8 DEF FetchToScan, Fetch, GoTo, NullUsed
<1>9. CASE ScanBegin(u) \/ CopyTuple(u) \/ ScanLeave(u) \/ ScanHop(u)
  <2>1. PICK then \in {"idle", "fetch", "get", "wlatch", "rlatch", "leave"} :
          LET W == Unpinning(u, FALSE, then) IN
          \/ th' = W
          \/ th' = [W EXCEPT ![u].rid = <<Page(u), Min(VisibleFrom(View(u), 1))>>,
                             ![u].must = Rows]
          \/ th' = [W EXCEPT ![u].must = @ \ {th[u].rid}]
          \/ th' = [W EXCEPT ![u].inside = FALSE]
          \/ UNCHANGED th
    <3>1. CASE ScanBegin(u)
      BY <3>1, Zenon DEF ScanBegin
    <3>2. CASE CopyTuple(u)
      BY <3>2, Zenon DEF CopyTuple
    <3>3. CASE ScanLeave(u)
      BY <3>3, Zenon DEF ScanLeave
    <3>4. CASE ScanHop(u)
      BY <3>4, Zenon DEF ScanHop, NullUsed
    <3> QED BY <1>9, <3>1, <3>2, <3>3, <3>4, Zenon
  <2> DEFINE W == Unpinning(u, FALSE, then)
  <2>2. DOMAIN W = Thread /\ W[t] = th[t]
    BY <1>2, Zenon
  <2> HIDE DEF W
  <2> QED BY <2>1, <2>2, Zenon DEF W
<1>10. CASE ScanPage(u)
  BY <1>1, <1>10, Zenon DEF ScanPage
<1>11. CASE GetTuple(u)
  BY <1>1, <1>11 DEF GetTuple, Fetch, GoTo
<1>12. CASE (\E r \in Rid : Call(u, "delete", r)) \/ \E op \in {"insert", "scan"} : Call(u, op, End)
  BY <1>1, <1>12, Zenon DEF Call
<1> QED BY <1>3, <1>4, <1>5, <1>6, <1>7, <1>8, <1>9, <1>10, <1>11, <1>12 DEF Step
==============================================================================
