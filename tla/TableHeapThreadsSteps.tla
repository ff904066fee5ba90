------------------------ MODULE TableHeapThreadsSteps ------------------------
(* The table heap between threads: every step keeps HInv, for every number of *)
(* threads, frames, pages and slots, if the pool does what the heap relies on *)
(* (Relies).  HInv adds to the pool's invariant IInv where a thread's pins    *)
(* and latches are at each place of its call, that the pages are linked in    *)
(* the order of their ids, and what a scan still has in front of it.          *)
EXTENDS TableHeapThreads, TLAPS

ThreadState ==
  [pc : {"idle", "fetch", "wlatch", "new", "link", "begin", "rlatch", "hop", "get",
         "copy", "leave", "unpin"},
   op : {"none", "insert", "delete", "scan"}, at : PageId, rid : Rid \cup {End},
   pinned : {1, 2}, flag : BOOLEAN,
   then : {"idle", "fetch", "get", "wlatch", "rlatch", "leave"},
   inside : BOOLEAN, must : SUBSET Rid, refused : BOOLEAN, calls : Nat]

HeapTypes ==
  /\ th \in [Thread -> ThreadState]
  /\ writer \in [Frame -> Thread \cup {None}]
  /\ readers \in [Frame -> SUBSET Thread]

\* The pages that are initialized, and so linked.
Linked == {p \in live : content[p] # Zero}

\* At these places a call has no page pinned, and at these two.
Unpinned(r) == r.pc \in {"idle", "fetch"} \/ (r.pc = "get" /\ ~r.inside)
Twice(r) ==
  \/ r.pc = "link"
  \/ r.pc = "copy" /\ r.inside
  \/ r.pc = "unpin" /\ r.then \in {"wlatch", "rlatch", "leave"}

\* Where operator++ has a latch for reading.
Latched(r) == r.pc \in {"hop", "leave"} \/ (r.pc = "unpin" /\ r.then = "leave")

\* Where the iterator is at a row.
OnRow(r) ==
  \/ r.pc \in {"rlatch", "get", "copy", "hop"}
  \/ r.pc = "unpin" /\ r.then \in {"get", "rlatch"}

Pins(t) ==
  /\ pin[Cur(t)] = NoPin <=> Unpinned(th[t])
  /\ pin[Other(t)] # NoPin <=> Twice(th[t])
  /\ pin[Cur(t)] # NoPin => pin[Cur(t)].page \in Linked
  /\ pin[Other(t)] # NoPin /\ th[t].pc # "link" => pin[Other(t)].page \in Linked

Places(t) ==
  LET r == th[t] IN
  /\ r.at \in Linked
  /\ r.rid # End => r.rid[1] \in Linked
  /\ OnRow(r) => r.rid # End
  /\ r.op = "delete" => r.rid # End /\ r.at = r.rid[1]
                        /\ (r.pc = "wlatch" => Page(t) = r.at)
  /\ r.pc = "unpin" /\ r.then = "wlatch" => r.op = "insert"
  /\ r.pc = "begin" => Page(t) = first_page_id
  /\ r.inside => r.pc \in {"get", "copy"} \/ Latched(r)
  /\ Latched(r) => r.inside
  /\ r.pc \in {"get", "copy"} /\ r.inside => Page(t) = r.rid[1]
  /\ Twice(r) /\ r.inside => pin[Other(t)].page = Page(t)
  /\ r.pc = "hop" => content[Page(t)].next # INVALID_PAGE_ID

\* An append: the page at the end of the table is latched, the new one is empty.
Appends(t) ==
  /\ th[t].pc \in {"new", "link"} =>
       content[Page(t)].next = INVALID_PAGE_ID /\ writer[PageFrame(t)] = t
  /\ th[t].pc = "link" =>
       /\ pin[Other(t)].page \in live
       /\ content[pin[Other(t)].page] = Zero
       /\ Page(t) < pin[Other(t)].page

\* Who has entered a latch is where it is used.
WritesAt(t, f) ==
  \/ th[t].pc \in {"wlatch", "new", "link"} /\ PageFrame(t) = f
  \/ th[t].pc = "unpin" /\ th[t].then = "wlatch" /\ pin[Other(t)].frame = f
Latches(t) ==
  \A f \in Frame :
    /\ writer[f] = t => WritesAt(t, f)
    /\ t \in readers[f] => th[t].inside /\ PageFrame(t) = f

\* The pages are linked in the order of their ids.
Chain ==
  /\ first_page_id \in Linked
  /\ \A q \in Linked : content[q].next # INVALID_PAGE_ID =>
       content[q].next \in Linked /\ q < content[q].next
  /\ \A p, q \in Linked : q < p =>
       content[q].next # INVALID_PAGE_ID /\ content[q].next <= p
  /\ \A p \in Linked \ {first_page_id} : \E q \in Linked : content[q].next = p
  /\ \A p \in live \ Linked : \E t \in Thread : th[t].pc = "link" /\ pin[Other(t)].page = p
  /\ \A p \in PageId : content[p] # Zero => p \in live

\* The heap deletes no page: a frame without one was never used, and while the
\* table fits into the pool all of it is there.
Frames ==
  /\ \A f \in Frame : ~Mapped(f) => pages[f].page_id = INVALID_PAGE_ID /\ pages[f].pin_count = 0
  /\ \A p \in PageId : page_table[p] # NoFrame => p \in live
  /\ \A c \in Client : ~pin[c].wrote
  /\ Cardinality(live) <= PoolSize =>
       \A p \in live : page_table[p] # NoFrame /\ pages[page_table[p]].data = content[p]

\* Row r comes before row s in a scan.
Before(r, s) == r[1] < s[1] \/ (r[1] = s[1] /\ r[2] < s[2])

\* The row that a scan is at has yet to be given.
Giving(r) == r.pc \in {"get", "copy"} \/ (r.pc = "unpin" /\ r.then = "get")

\* Rows that a scan still has to give are there, behind the one it is at, and on no
\* page that it has left.
Ahead(t) ==
  LET r == th[t] IN
  \A m \in r.must :
    /\ r.rid # End
    /\ Before(r.rid, m) \/ (m = r.rid /\ Giving(r))
    /\ r.pc = "rlatch" => Page(t) <= m[1]
    /\ r.pc = "hop" => Page(t) < m[1]
    /\ r.pc = "unpin" /\ r.then = "rlatch" => pin[Other(t)].page <= m[1]
Scans(t) ==
  /\ \A m \in th[t].must : Visible(m)
  /\ th[t].op = "scan" /\ ~th[t].refused => Ahead(t)

Own(t) == Pins(t) /\ Places(t) /\ Appends(t) /\ Latches(t) /\ Scans(t)

HInv ==
  /\ IInv /\ HeapTypes /\ Chain /\ Frames /\ NullExplained
  /\ \A t \in Thread : Own(t)
-------------------------------------------------------------------------------
\* What IInv says of the pool's parts, spelt out.
LEMMA PoolTypes ==
  ASSUME IInv
  PROVE  /\ pages \in [Frame -> FrameState]
         /\ page_table \in [PageId -> Frame \cup {NoFrame}]
         /\ content \in [PageId -> Data]
         /\ live \subseteq PageId
         /\ NoFrame \notin Frame
         /\ \A p \in PageId : page_table[p] # NoFrame =>
              /\ page_table[p] \in Frame
              /\ pages[page_table[p]].page_id = p
<1>1. /\ pages \in [Frame -> FrameState]
      /\ page_table \in [PageId -> Frame \cup {NoFrame}]
      /\ content \in [PageId -> Data]
      /\ disk \in Disk /\ live \subseteq 0 .. disk.next - 1
  BY DEF IInv, TypeOK
<1>2. live \subseteq PageId
  BY <1>1, DiskAssumption DEF Disk, PageId
<1>3. NoFrame \notin Frame
  BY DEF NoFrame, Frame
<1>4. \A p \in PageId : page_table[p] # NoFrame => pages[page_table[p]].page_id = p
  BY DEF IInv, FrameAccounting
<1> QED BY <1>1, <1>2, <1>3, <1>4

\* A thread's two pins.
LEMMA TwoClients ==
  ASSUME HeapTypes
  PROVE  /\ \A t \in Thread : /\ Cur(t) \in Client /\ Other(t) \in Client
                             /\ \/ Cur(t) = <<t, 1>> /\ Other(t) = <<t, 2>>
                                \/ Cur(t) = <<t, 2>> /\ Other(t) = <<t, 1>>
         /\ \A c \in Client : c[1] \in Thread /\ (c = Cur(c[1]) \/ c = Other(c[1]))
<1>1. \A t \in Thread : th[t].pinned \in {1, 2}
  BY DEF HeapTypes, ThreadState
<1>2. 3 - 1 = 2 /\ 3 - 2 = 1
  OBVIOUS
<1>3. ASSUME NEW t \in Thread
      PROVE  /\ Cur(t) \in Client /\ Other(t) \in Client
             /\ \/ Cur(t) = <<t, 1>> /\ Other(t) = <<t, 2>>
                \/ Cur(t) = <<t, 2>> /\ Other(t) = <<t, 1>>
  BY <1>1, <1>2, ThreadsAssumption DEF Cur, Other
<1>4. ASSUME NEW c \in Client PROVE c[1] \in Thread /\ (c = Cur(c[1]) \/ c = Other(c[1]))
  <2>1. PICK t \in Thread, i \in {1, 2} : c = <<t, i>>
    BY ThreadsAssumption
  <2>2. c[1] = t
    BY <2>1
  <2> QED BY <1>3, <2>1, <2>2
<1> QED BY <1>3, <1>4

\* A page that a call has pinned, seen through its frame.
LEMMA PageSeen ==
  ASSUME HInv, Running, NEW t \in Thread, pin[Cur(t)] # NoPin
  PROVE  /\ Page(t) \in Linked /\ Page(t) \in PageId /\ Page(t) \in live
         /\ PageFrame(t) \in Frame /\ page_table[Page(t)] = PageFrame(t)
         /\ pages[PageFrame(t)].page_id = Page(t)
         /\ View(t) = content[Page(t)] /\ View(t) \in HeapPage
<1>1. Cur(t) \in Client
  BY TwoClients DEF HInv
<1>2. Page(t) \in Linked /\ Page(t) \in live /\ content[Page(t)] # Zero
  BY DEF HInv, Own, Pins, Page, Linked
<1>3. Page(t) \in PageId
  BY <1>2, PoolTypes DEF HInv
<1>4. page_table[Page(t)] = PageFrame(t) /\ PageFrame(t) # NoFrame
  BY <1>1 DEF HInv, IInv, PinnedPagesStay, Page, PageFrame
<1>5. PageFrame(t) \in Frame /\ pages[PageFrame(t)].page_id = Page(t)
  BY <1>3, <1>4, PoolTypes DEF HInv
<1>6. View(t) = content[Page(t)]
  BY <1>2, <1>4 DEF Running, ContentPreserved, View
<1>7. content[Page(t)] \in HeapPage
  BY <1>2, <1>3, PoolTypes, ThreadsAssumption DEF HInv
<1> QED BY <1>2, <1>3, <1>4, <1>5, <1>6, <1>7
-------------------------------------------------------------------------------
\* Two states of a thread that differ at most in the rows it has yet to give.
Alike(r, s) ==
  /\ r.pc = s.pc /\ r.op = s.op /\ r.at = s.at /\ r.rid = s.rid /\ r.pinned = s.pinned
  /\ r.flag = s.flag /\ r.then = s.then /\ r.inside = s.inside /\ r.refused = s.refused
  /\ r.calls = s.calls

\* What a step of t leaves alone of the other threads: all but the rows that it
\* deletes.
Others(t) ==
  \A u \in Thread \ {t} :
    /\ Alike(th'[u], th[u]) /\ th'[u].must \subseteq th[u].must
    /\ pin'[<<u, 1>>] = pin[<<u, 1>>] /\ pin'[<<u, 2>>] = pin[<<u, 2>>]
    /\ \A f \in Frame : /\ writer'[f] = u <=> writer[f] = u
                        /\ u \in readers'[f] <=> u \in readers[f]

\* What a step of t may do to the pages: link its new page behind its last one.
Contents(t) ==
  /\ live \subseteq live'
  /\ \A p \in Linked :
       /\ content'[p] # Zero
       /\ content'[p].next = content[p].next \/ (th[t].pc = "link" /\ p = Page(t))
  /\ \A p \in live : content[p] = Zero =>
       content'[p] = Zero \/ (th[t].pc = "link" /\ p = pin[Other(t)].page)
  /\ \A u \in Thread : \A m \in th'[u].must : Visible(m) => Visible(m)'

\* Only one thread at a time appends a page: there is one last page, and its latch.
LEMMA OneAppends ==
  ASSUME HInv, NEW t \in Thread, NEW u \in Thread,
         th[t].pc \in {"new", "link"}, th[u].pc \in {"new", "link"}
  PROVE  t = u
<1>1. ASSUME NEW s \in Thread, th[s].pc \in {"new", "link"}
      PROVE  /\ Page(s) \in Linked /\ Page(s) \in PageId
             /\ content[Page(s)].next = INVALID_PAGE_ID
             /\ writer[page_table[Page(s)]] = s
  <2>1. Cur(s) \in Client /\ pin[Cur(s)] # NoPin
    BY <1>1, TwoClients DEF HInv, Own, Pins, Unpinned
  <2>2. page_table[Page(s)] = PageFrame(s)
    BY <2>1 DEF HInv, IInv, PinnedPagesStay, Page, PageFrame
  <2>3. Page(s) \in Linked
    BY <2>1 DEF HInv, Own, Pins, Page
  <2>4. Page(s) \in PageId
    BY <2>3, PoolTypes DEF HInv, Linked
  <2> QED BY <1>1, <2>2, <2>3, <2>4 DEF HInv, Own, Appends
<1>2. Page(t) \in Int /\ Page(u) \in Int
  BY <1>1, DiskAssumption DEF PageId
<1>3. ~(Page(t) < Page(u)) /\ ~(Page(u) < Page(t))
  BY <1>1 DEF HInv, Chain
<1>4. Page(t) = Page(u)
  BY <1>2, <1>3
<1> QED BY <1>1, <1>4

\* A step of t keeps what the invariant says of the other threads.
LEMMA OthersKeep ==
  ASSUME HInv, NEW t \in Thread, Others(t), Contents(t), HeapTypes',
         NEW u \in Thread, u # t
  PROVE  Own(u)'
<1>1. /\ Alike(th'[u], th[u]) /\ th'[u].must \subseteq th[u].must
      /\ \A f \in Frame : /\ writer'[f] = u <=> writer[f] = u
                          /\ u \in readers'[f] <=> u \in readers[f]
  BY Zenon DEF Others
<1>2. /\ Cur(u)' = Cur(u) /\ Other(u)' = Other(u)
      /\ pin'[Cur(u)] = pin[Cur(u)] /\ pin'[Other(u)] = pin[Other(u)]
  <2>1. Cur(u)' = Cur(u) /\ Other(u)' = Other(u)
    BY <1>1 DEF Alike, Cur, Other
  <2>2. \/ Cur(u) = <<u, 1>> /\ Other(u) = <<u, 2>>
        \/ Cur(u) = <<u, 2>> /\ Other(u) = <<u, 1>>
    BY TwoClients DEF HInv
  <2> QED BY <2>1, <2>2 DEF Others
<1>3. Page(u)' = Page(u) /\ PageFrame(u)' = PageFrame(u)
  BY <1>2 DEF Page, PageFrame
<1>4. Own(u) /\ th[u] \in ThreadState
  BY DEF HInv, HeapTypes
<1>5. Linked \subseteq Linked'
  BY DEF Contents, Linked
<1>6. /\ Unpinned(th'[u]) <=> Unpinned(th[u])
      /\ Twice(th'[u]) <=> Twice(th[u])
      /\ Latched(th'[u]) <=> Latched(th[u])
      /\ OnRow(th'[u]) <=> OnRow(th[u])
      /\ Giving(th'[u]) <=> Giving(th[u])
  BY <1>1 DEF Alike, Unpinned, Twice, Latched, OnRow, Giving
<1>7. Pins(u)'
  BY <1>1, <1>2, <1>4, <1>5, <1>6, Zenon DEF Own, Pins, Alike
<1>8. th[u].pc # "idle" /\ th[u].pc # "fetch" /\ th[u].pc # "get" => Page(u) \in Linked
  BY <1>4 DEF Own, Pins, Unpinned, Page
<1>9. ASSUME NEW p \in Linked, content[p].next # INVALID_PAGE_ID
      PROVE  content'[p].next # INVALID_PAGE_ID
  BY <1>9 DEF Contents, HInv, Own, Appends
<1>10. Places(u)'
  <2>1. Places(u)
    BY <1>4 DEF Own
  <2>2. th'[u].pc = "hop" => content'[Page(u)].next # INVALID_PAGE_ID
    BY <1>1, <1>8, <1>9, <2>1, Zenon DEF Alike, Places
  <2> QED BY <1>1, <1>2, <1>3, <1>5, <1>6, <2>1, <2>2 DEF Places, Alike
<1>11. Appends(u)'
  <2> SUFFICES ASSUME th'[u].pc \in {"new", "link"} PROVE Appends(u)'
    BY Zenon DEF Appends
  <2>1. th[u].pc \in {"new", "link"} /\ th[t].pc # "link"
    BY <1>1, OneAppends DEF Alike
  <2>2. Appends(u) /\ Page(u) \in Linked
    BY <1>4, <1>8, <2>1 DEF Own
  <2>3. content'[Page(u)].next = INVALID_PAGE_ID
    BY <2>1, <2>2 DEF Contents, Appends
  <2>4. Cur(u) \in Client /\ PageFrame(u) \in Frame
    <3>1. Cur(u) \in Client /\ pin[Cur(u)] # NoPin
      BY <1>4, <2>1, TwoClients, Zenon DEF HInv, Own, Pins, Unpinned
    <3> QED BY <3>1, Zenon DEF HInv, IInv, TypeOK, PinnedPagesStay, PinState, PageFrame
  <2>5. writer'[PageFrame(u)] = u
    BY <1>1, <2>1, <2>2, <2>4, Zenon DEF Appends
  <2>6. th[u].pc = "link" => /\ pin[Other(u)].page \in live'
                             /\ content'[pin[Other(u)].page] = Zero
    BY <2>1, <2>2, Zenon DEF Appends, Contents
  <2> QED BY <1>1, <1>2, <1>3, <2>2, <2>3, <2>5, <2>6, Zenon DEF Appends, Alike
<1>12. Latches(u)'
  <2>1. \A f \in Frame : WritesAt(u, f)' <=> WritesAt(u, f)
    BY <1>1, <1>2, <1>3 DEF WritesAt, Alike
  <2> QED BY <1>1, <1>3, <1>4, <2>1, Zenon DEF Own, Latches, Alike
<1>13. Scans(u)'
  <2>1. \A m \in th'[u].must : Visible(m)'
    BY <1>1, <1>4 DEF Own, Scans, Contents
  <2>2. Ahead(u) => Ahead(u)'
    BY <1>1, <1>2, <1>3, <1>6, Zenon DEF Ahead, Alike
  <2> QED BY <1>1, <1>4, <2>1, <2>2 DEF Own, Scans, Alike
<1> QED BY <1>7, <1>10, <1>11, <1>12, <1>13 DEF Own
-------------------------------------------------------------------------------
\* What the steps of the heap rely on: what each call of the pool does, and that a
\* set of slots has a first one.  TableHeapThreadsProofs shows it from the pool's
\* own proofs.
Leaves ==
  UNCHANGED <<pool, disk, pin, live, content>> /\ aborted' \in BOOLEAN => IInv' /\ Frames'

Fetches ==
  \A c \in Client, p \in PageId : ~IsNull(p) /\ FetchPage(c, p) =>
    /\ IInv' /\ Frames' /\ UNCHANGED <<aborted, live, content>>
    /\ pin[c] = NoPin /\ pin'[c] # NoPin /\ pin'[c].page = p
    /\ \A d \in Client \ {c} : pin'[d] = pin[d]

Makes ==
  \A c \in Client : victim # NoFrame /\ NewPage(c) =>
    /\ IInv' /\ Frames' /\ UNCHANGED aborted
    /\ disk.next \in PageId /\ disk.next \notin live
    /\ live' = live \cup {disk.next} /\ content' = [content EXCEPT ![disk.next] = Zero]
    /\ pin[c] = NoPin /\ pin'[c] # NoPin /\ pin'[c].page = disk.next
    /\ \A d \in Client \ {c} : pin'[d] = pin[d]

Unpins ==
  \A c \in Client, b \in BOOLEAN : Unpin(c, b) =>
    /\ IInv' /\ Frames' /\ UNCHANGED <<aborted, live, content>>
    /\ pin'[c] = NoPin /\ \A d \in Client \ {c} : pin'[d] = pin[d]

Stores ==
  \A new : DOMAIN new \subseteq PageId /\ (\A p \in DOMAIN new : new[p] \in Data) /\ Store(new) =>
    /\ IInv' /\ Frames' /\ UNCHANGED <<aborted, live, pin>>
    /\ content' = [p \in PageId |-> IF p \in DOMAIN new THEN new[p] ELSE content[p]]

Nulls ==
  \A p \in live : IsNull(p) =>
    /\ Cardinality(live) > PoolSize
    /\ \A f \in Frame : \E c \in Client : pin[c].frame = f /\ th[c[1]].pc # "idle"

FirstSlots == \A S \in SUBSET Slot : S # {} => \E i \in S : \A j \in S : i <= j

Relies == Leaves /\ Fetches /\ Makes /\ Unpins /\ Stores /\ Nulls /\ FirstSlots

LEMMA PoolLeft ==
  ASSUME Relies, UNCHANGED <<pool, disk, pin, live, content>>, aborted' \in BOOLEAN
  PROVE  IInv' /\ Frames'
BY DEF Relies, Leaves

LEMMA PoolFetches ==
  ASSUME Relies, NEW c \in Client, NEW p \in PageId, ~IsNull(p), FetchPage(c, p)
  PROVE  /\ IInv' /\ Frames' /\ UNCHANGED <<aborted, live, content>>
         /\ pin[c] = NoPin /\ pin'[c] # NoPin /\ pin'[c].page = p
         /\ \A d \in Client \ {c} : pin'[d] = pin[d]
BY DEF Relies, Fetches

LEMMA PoolMakes ==
  ASSUME Relies, NEW c \in Client, victim # NoFrame, NewPage(c)
  PROVE  /\ IInv' /\ Frames' /\ UNCHANGED aborted
         /\ disk.next \in PageId /\ disk.next \notin live
         /\ live' = live \cup {disk.next} /\ content' = [content EXCEPT ![disk.next] = Zero]
         /\ pin[c] = NoPin /\ pin'[c] # NoPin /\ pin'[c].page = disk.next
         /\ \A d \in Client \ {c} : pin'[d] = pin[d]
BY DEF Relies, Makes

LEMMA PoolUnpins ==
  ASSUME Relies, NEW c \in Client, NEW b \in BOOLEAN, Unpin(c, b)
  PROVE  /\ IInv' /\ Frames' /\ UNCHANGED <<aborted, live, content>>
         /\ pin'[c] = NoPin /\ \A d \in Client \ {c} : pin'[d] = pin[d]
BY DEF Relies, Unpins

LEMMA PoolStores ==
  ASSUME Relies, NEW new, DOMAIN new \subseteq PageId, \A p \in DOMAIN new : new[p] \in Data,
         Store(new)
  PROVE  /\ IInv' /\ Frames' /\ UNCHANGED <<aborted, live, pin>>
         /\ content' = [p \in PageId |-> IF p \in DOMAIN new THEN new[p] ELSE content[p]]
BY DEF Relies, Stores

LEMMA NoFrameLeft ==
  ASSUME Relies, NEW p \in live, IsNull(p)
  PROVE  /\ Cardinality(live) > PoolSize
         /\ \A f \in Frame : \E c \in Client : pin[c].frame = f /\ th[c[1]].pc # "idle"
BY DEF Relies, Nulls
-------------------------------------------------------------------------------
\* A thread's step in its own variables.
Moves(t, r) == r \in ThreadState /\ th' = [th EXCEPT ![t] = r]

LEMMA MovesOne ==
  ASSUME HeapTypes, NEW t \in Thread, NEW r, Moves(t, r)
  PROVE  /\ th' \in [Thread -> ThreadState] /\ th'[t] = r
         /\ \A u \in Thread \ {t} : th'[u] = th[u]
BY DEF Moves, HeapTypes

\* A step that touches no other thread's variables, pins and latches.
LEMMA OthersAlone ==
  ASSUME NEW t \in Thread, HeapTypes,
         \A u \in Thread \ {t} : th'[u] = th[u],
         \A c \in Client : c # Cur(t) /\ c # Other(t) => pin'[c] = pin[c],
         \A f \in Frame : \A u \in Thread \ {t} : /\ writer'[f] = u <=> writer[f] = u
                                                  /\ u \in readers'[f] <=> u \in readers[f]
  PROVE  Others(t)
<1>1. ASSUME NEW u \in Thread \ {t}
      PROVE  pin'[<<u, 1>>] = pin[<<u, 1>>] /\ pin'[<<u, 2>>] = pin[<<u, 2>>]
  <2>1. <<u, 1>> \in Client /\ <<u, 2>> \in Client
    BY ThreadsAssumption
  <2>2. ASSUME NEW i \in {1, 2} PROVE <<u, i>> # Cur(t) /\ <<u, i>> # Other(t)
    BY DEF Cur, Other
  <2> QED BY <2>1, <2>2
<1> QED BY <1>1, Zenon DEF Others, Alike

\* While no page is made or linked the chain stays as it is.
LEMMA ChainKept ==
  ASSUME HInv, NEW t \in Thread, Others(t), th[t].pc # "link", live' = live,
         \A p \in PageId : content'[p] = Zero <=> content[p] = Zero,
         \A p \in Linked : content'[p].next = content[p].next
  PROVE  Chain'
<1>1. Linked' = Linked
  BY PoolTypes DEF Linked, HInv
<1>2. ASSUME NEW p \in live' \ Linked'
      PROVE  \E u \in Thread : th'[u].pc = "link" /\ (pin[Other(u)].page)' = p
  <2>1. PICK u \in Thread : th[u].pc = "link" /\ pin[Other(u)].page = p
    BY <1>1 DEF HInv, Chain
  <2>2. u # t /\ Alike(th'[u], th[u]) /\ pin'[<<u, 1>>] = pin[<<u, 1>>]
        /\ pin'[<<u, 2>>] = pin[<<u, 2>>]
    BY <2>1 DEF Others
  <2>3. Other(u)' = Other(u) /\ (Other(u) = <<u, 1>> \/ Other(u) = <<u, 2>>)
    BY <2>2, TwoClients, Zenon DEF Alike, Other, HInv
  <2> QED BY <2>1, <2>2, <2>3 DEF Alike
<1>3. Chain
  BY DEF HInv
<1> QED BY <1>1, <1>2, <1>3 DEF Chain

\* The parts of the invariant after a step of t.
LEMMA Together ==
  ASSUME HInv, Running, NEW t \in Thread, Others(t), Contents(t),
         HeapTypes', IInv', Frames', Chain', UNCHANGED aborted, Own(t)'
  PROVE  HInv'
<1>1. \A u \in Thread : Own(u)'
  BY OthersKeep
<1>2. NullExplained'
  BY DEF Running, NullExplained
<1> QED BY <1>1, <1>2 DEF HInv

\* A step that changes no page, only t's variables, pins and latches.
LEMMA PagesSame ==
  ASSUME HInv, Running, NEW t \in Thread, Others(t), th[t].pc # "link",
         UNCHANGED <<aborted, live, content>>, HeapTypes', IInv', Frames', Own(t)'
  PROVE  HInv'
<1>1. Contents(t)
  BY DEF Contents, Linked, Visible
<1>2. Chain'
  BY ChainKept
<1> QED BY <1>1, <1>2, Together

\* A step that changes only t's variables and latches.
LEMMA PoolSame ==
  ASSUME HInv, Relies, Running, NEW t \in Thread, th[t].pc # "link", UNCHANGED vars,
         \A u \in Thread \ {t} : th'[u] = th[u],
         \A f \in Frame : \A u \in Thread \ {t} : /\ writer'[f] = u <=> writer[f] = u
                                                  /\ u \in readers'[f] <=> u \in readers[f],
         HeapTypes', Own(t)'
  PROVE  HInv'
<1>1. UNCHANGED <<pool, disk, pin, live, content>> /\ aborted' = aborted
  BY DEF vars, pool
<1>2. aborted' \in BOOLEAN
  BY <1>1 DEF HInv, IInv, TypeOK
<1>3. IInv' /\ Frames'
  BY <1>1, <1>2, PoolLeft
<1>4. Others(t)
  BY <1>1, OthersAlone DEF HInv
<1> QED BY <1>1, <1>3, <1>4, PagesSame
-------------------------------------------------------------------------------
\* Of a thread that is to return or to go on without a page, nothing is left.
LEMMA NothingLeft ==
  ASSUME HInv, NEW t \in Thread,
         \/ th[t].pc = "fetch"
         \/ th[t].pc = "unpin" /\ th[t].then \in {"idle", "fetch", "get"}
         \/ th[t].pc = "get" /\ ~th[t].inside
  PROVE  /\ pin[Other(t)] = NoPin /\ ~th[t].inside
         /\ \A f \in Frame : writer[f] # t /\ t \notin readers[f]
<1>1. Own(t)
  BY DEF HInv
<1>2. pin[Other(t)] = NoPin
  BY <1>1 DEF Own, Pins, Twice
<1>3. ~th[t].inside
  BY <1>1, Zenon DEF Own, Places, Latched
<1>4. \A f \in Frame : ~WritesAt(t, f)
  BY DEF WritesAt
<1> QED BY <1>1, <1>2, <1>3, <1>4 DEF Own, Latches

\* A thread that has returned, or has just called.
LEMMA OwnIdle ==
  ASSUME HeapTypes', Chain', NEW t \in Thread, NEW n, th'[t] = Idle(n),
         pin'[<<t, 1>>] = NoPin, pin'[<<t, 2>>] = NoPin,
         \A f \in Frame : writer'[f] # t /\ t \notin readers'[f]
  PROVE  Own(t)'
<1>1. th'[t] = [pc |-> "idle", op |-> "none", at |-> first_page_id, rid |-> End, pinned |-> 1,
                flag |-> FALSE, then |-> "idle", inside |-> FALSE, must |-> {},
                refused |-> FALSE, calls |-> n]
  BY DEF Idle
<1>2. Cur(t)' = <<t, 1>> /\ Other(t)' = <<t, 2>>
  BY <1>1 DEF Cur, Other
<1>3. Unpinned(th'[t]) /\ ~Twice(th'[t]) /\ ~Latched(th'[t]) /\ ~OnRow(th'[t])
  BY <1>1 DEF Unpinned, Twice, Latched, OnRow
<1>4. Pins(t)'
  BY <1>2, <1>3 DEF Pins
<1>5. Places(t)'
  BY <1>1, <1>3 DEF Places, Chain
<1>6. Appends(t)' /\ Scans(t)'
  <2>1. th'[t].pc = "idle" /\ th'[t].op = "none" /\ th'[t].must = {}
    BY <1>1
  <2>2. Appends(t)'
    BY <2>1 DEF Appends
  <2>3. Scans(t)'
    BY <2>1 DEF Scans
  <2> QED BY <2>2, <2>3
<1>7. Latches(t)'
  BY Zenon DEF Latches
<1> QED BY <1>4, <1>5, <1>6, <1>7 DEF Own

\* UnpinPage() at the end of a call, or before it goes on without a page.
LEMMA UnpinLast ==
  ASSUME HInv, Relies, NEW t \in Thread, UnpinStep(t), th[t].then \in {"idle", "fetch", "get"}
  PROVE  HInv'
<1> DEFINE r == th[t]
<1>1. /\ Running /\ r.pc = "unpin" /\ Unpin(Cur(t), r.flag) /\ UNCHANGED <<writer, readers>>
      /\ r \in ThreadState
  BY DEF UnpinStep, UnchangedLatches, HInv, HeapTypes
<1>2. /\ pin[Other(t)] = NoPin /\ ~r.inside
      /\ \A f \in Frame : writer[f] # t /\ t \notin readers[f]
  BY <1>1, NothingLeft
<1>3. Cur(t) \in Client /\ Other(t) \in Client /\ Other(t) # Cur(t)
      /\ {<<t, 1>>, <<t, 2>>} = {Cur(t), Other(t)}
  BY TwoClients DEF HInv
<1>4. r.flag \in BOOLEAN
  BY <1>1 DEF ThreadState
<1>5. /\ IInv' /\ Frames' /\ UNCHANGED <<aborted, live, content>>
      /\ pin'[Cur(t)] = NoPin /\ \A d \in Client \ {Cur(t)} : pin'[d] = pin[d]
  BY <1>1, <1>3, <1>4, PoolUnpins
<1>6. pin'[<<t, 1>>] = NoPin /\ pin'[<<t, 2>>] = NoPin
  BY <1>2, <1>3, <1>5
<1>7. CASE r.then = "idle"
  <2>1. Idle(r.calls) \in ThreadState
    BY <1>1, DiskAssumption, ThreadsAssumption
       DEF Idle, ThreadState, first_page_id, End, PageId
  <2>2. Moves(t, Idle(r.calls))
    BY <1>7, <2>1 DEF UnpinStep, Moves
  <2>3. th' \in [Thread -> ThreadState] /\ th'[t] = Idle(r.calls)
        /\ \A u \in Thread \ {t} : th'[u] = th[u]
    BY <2>2, MovesOne DEF HInv
  <2>4. HeapTypes'
    BY <1>1, <2>3 DEF HInv, HeapTypes
  <2>5. Others(t)
    BY <1>1, <1>5, <2>3, OthersAlone DEF HInv
  <2>6. Chain'
    BY <1>1, <1>5, <2>5, ChainKept
  <2>7. Own(t)'
    BY <1>1, <1>2, <1>6, <2>3, <2>4, <2>6, OwnIdle
  <2> QED BY <1>1, <1>5, <2>4, <2>5, <2>7, PagesSame
<1>8. CASE r.then \in {"fetch", "get"}
  <2> DEFINE s == [r EXCEPT !.pc = r.then]
  <2>1. s \in ThreadState
    BY <1>1, <1>8 DEF ThreadState
  <2>2. th' = [th EXCEPT ![t] = s]
    <3>1. th' = [th EXCEPT ![t].pc = th[t].then,
                           ![t].pinned = IF pin[Other(t)] = NoPin THEN @ ELSE 3 - @]
      BY <1>8 DEF UnpinStep
    <3>2. th' = [th EXCEPT ![t].pc = th[t].then, ![t].pinned = th[t].pinned]
      BY <1>2, <3>1 DEF HInv, HeapTypes
    <3> QED BY <3>2, Zenon DEF HInv, HeapTypes, ThreadState
  <2>3. th' \in [Thread -> ThreadState] /\ th'[t] = s
        /\ \A u \in Thread \ {t} : th'[u] = th[u]
    BY <2>1, <2>2, MovesOne, Zenon DEF HInv, Moves
  <2>4. /\ th'[t].pc = r.then /\ th'[t].op = r.op /\ th'[t].at = r.at /\ th'[t].rid = r.rid
        /\ th'[t].pinned = r.pinned /\ th'[t].then = r.then /\ th'[t].inside = r.inside
        /\ th'[t].must = r.must /\ th'[t].refused = r.refused
    BY <1>1, <2>3 DEF ThreadState
  <2>5. HeapTypes'
    BY <1>1, <2>3 DEF HInv, HeapTypes
  <2>6. Others(t)
    BY <1>1, <1>5, <2>3, OthersAlone DEF HInv
  <2>7. Cur(t)' = Cur(t) /\ Other(t)' = Other(t) /\ Linked' = Linked
    BY <1>5, <2>4 DEF Cur, Other, Linked
  <2> HIDE DEF s
  <2>8. Own(t) /\ Unpinned(th'[t]) /\ ~Twice(th'[t]) /\ ~Latched(th'[t])
    BY <1>2, <1>8, <2>4 DEF HInv, Unpinned, Twice, Latched
  <2>9. Pins(t)'
    BY <1>2, <1>3, <1>5, <2>7, <2>8 DEF Pins
  <2>10. Places(t)'
    BY <1>1, <1>2, <1>8, <2>4, <2>7, <2>8, Zenon DEF Own, Places, OnRow
  <2>11. Appends(t)' /\ Latches(t)'
    BY <1>1, <1>2, <1>8, <2>4, Zenon DEF Appends, Latches
  <2>12. Scans(t)'
    <3>1. \A m \in r.must : Visible(m)'
      BY <1>5, <2>8, Zenon DEF Own, Scans, Visible
    <3>2. Ahead(t) => Ahead(t)'
      BY <1>1, <1>8, <2>4, Zenon DEF Ahead, Giving
    <3> QED BY <2>4, <2>8, <3>1, <3>2 DEF Own, Scans
  <2>13. Own(t)'
    BY <2>9, <2>10, <2>11, <2>12 DEF Own
  <2> QED BY <1>1, <1>5, <2>5, <2>6, <2>13, PagesSame
<1> QED BY <1>7, <1>8

\* UnpinPage() of the first of two pages: the call goes on with the other one.
LEMMA UnpinFirst ==
  ASSUME HInv, Relies, NEW t \in Thread, UnpinStep(t), th[t].then \in {"wlatch", "rlatch", "leave"}
  PROVE  HInv'
<1> DEFINE r == th[t]
           s == [r EXCEPT !.pc = r.then, !.pinned = 3 - r.pinned]
<1>1. /\ Running /\ r.pc = "unpin" /\ Unpin(Cur(t), r.flag) /\ UNCHANGED <<writer, readers>>
      /\ r \in ThreadState /\ Own(t)
  BY DEF UnpinStep, UnchangedLatches, HInv, HeapTypes
<1>2. pin[Other(t)] # NoPin /\ pin[Other(t)].page \in Linked
  BY <1>1 DEF Own, Pins, Twice
<1>3. Cur(t) \in Client /\ Other(t) \in Client /\ Other(t) # Cur(t)
  BY TwoClients DEF HInv
<1>4. r.flag \in BOOLEAN /\ r.pinned \in {1, 2}
  BY <1>1 DEF ThreadState
<1>5. /\ IInv' /\ Frames' /\ UNCHANGED <<aborted, live, content>>
      /\ pin'[Cur(t)] = NoPin /\ \A d \in Client \ {Cur(t)} : pin'[d] = pin[d]
  BY <1>1, <1>3, <1>4, PoolUnpins
<1>6. 3 - r.pinned \in {1, 2} /\ 3 - (3 - r.pinned) = r.pinned
  BY <1>4
<1>7. Moves(t, s)
  <2>1. s \in ThreadState
    BY <1>1, <1>6, Zenon DEF ThreadState
  <2>2. th' = [th EXCEPT ![t].pc = th[t].then,
                         ![t].pinned = IF pin[Other(t)] = NoPin THEN @ ELSE 3 - @]
    BY DEF UnpinStep
  <2>3. th' = [th EXCEPT ![t].pc = th[t].then, ![t].pinned = 3 - th[t].pinned]
    BY <1>2, <2>2 DEF HInv, HeapTypes
  <2>4. th' = [th EXCEPT ![t] = s]
    BY <2>3 DEF HInv, HeapTypes, ThreadState
  <2> QED BY <2>1, <2>4 DEF Moves
<1>8. th' \in [Thread -> ThreadState] /\ th'[t] = s
      /\ \A u \in Thread \ {t} : th'[u] = th[u]
  BY <1>7, MovesOne DEF HInv
<1>9. /\ th'[t].pc = r.then /\ th'[t].op = r.op /\ th'[t].at = r.at /\ th'[t].rid = r.rid
      /\ th'[t].pinned = 3 - r.pinned /\ th'[t].then = r.then /\ th'[t].inside = r.inside
      /\ th'[t].must = r.must /\ th'[t].refused = r.refused
  BY <1>1, <1>8 DEF ThreadState
<1> HIDE DEF s
<1>10. HeapTypes'
  BY <1>1, <1>8 DEF HInv, HeapTypes
<1>11. Others(t)
  BY <1>1, <1>5, <1>8, OthersAlone DEF HInv
<1>12. Cur(t)' = Other(t) /\ Other(t)' = Cur(t) /\ Linked' = Linked
  BY <1>5, <1>6, <1>9 DEF Cur, Other, Linked
<1>13. pin'[Cur(t)'] = pin[Other(t)] /\ pin'[Other(t)'] = NoPin
  BY <1>3, <1>5, <1>12
<1>14. Page(t)' = pin[Other(t)].page /\ PageFrame(t)' = pin[Other(t)].frame
  BY <1>13 DEF Page, PageFrame
<1>15. ~Unpinned(th'[t]) /\ ~Twice(th'[t]) /\ ~Giving(r)
       /\ (Latched(th'[t]) <=> Latched(r)) /\ (OnRow(th'[t]) <=> OnRow(r))
  BY <1>1, <1>9, Zenon DEF Unpinned, Twice, Latched, OnRow, Giving
<1>16. Pins(t)'
  BY <1>2, <1>12, <1>13, <1>15 DEF Pins
<1>17. Places(t)'
  <2>1. Places(t) /\ (r.inside => r.then = "leave")
    BY <1>1, Zenon DEF Own, Places, Latched
  <2> QED BY <1>1, <1>9, <1>12, <1>15, <2>1, Zenon DEF Places
<1>18. Appends(t)'
  BY <1>9, Zenon DEF Appends
<1>19. Latches(t)'
  <2>1. r.inside => PageFrame(t)' = PageFrame(t)
    <3>1. r.inside => pin[Other(t)].page = pin[Cur(t)].page
      BY <1>1, Zenon DEF Own, Places, Twice, Latched, Page
    <3>2. pin[Cur(t)] # NoPin
      BY <1>1, Zenon DEF Unpin
    <3> QED BY <1>2, <1>3, <1>14, <3>1, <3>2, Zenon DEF HInv, IInv, PinnedPagesStay, PageFrame
  <2>2. \A f \in Frame : WritesAt(t, f) => WritesAt(t, f)'
    BY <1>1, <1>9, <1>14, Zenon DEF WritesAt
  <2> QED BY <1>1, <1>9, <2>1, <2>2, Zenon DEF Own, Latches
<1>20. Scans(t)'
  <2>1. \A m \in r.must : Visible(m)'
    BY <1>1, <1>5, Zenon DEF Own, Scans, Visible
  <2>2. Ahead(t) => Ahead(t)'
    BY <1>1, <1>9, <1>14, <1>15, Zenon DEF Ahead
  <2> QED BY <1>1, <1>9, <2>1, <2>2, Zenon DEF Own, Scans
<1>21. Own(t)'
  BY <1>16, <1>17, <1>18, <1>19, <1>20 DEF Own
<1> QED BY <1>1, <1>5, <1>10, <1>11, <1>21, PagesSame

\* WLock() up to its wait.
LEMMA EnterKeeps ==
  ASSUME HInv, Relies, NEW t \in Thread, Enter(t)
  PROVE  HInv'
<1>1. /\ Running /\ th[t].pc = "wlatch" /\ writer[PageFrame(t)] = None
      /\ writer' = [writer EXCEPT ![PageFrame(t)] = t]
      /\ UNCHANGED <<readers, th>> /\ UNCHANGED vars /\ Own(t)
  BY DEF Enter, UnchangedPool, HInv
<1>2. UNCHANGED <<pin, live, content>>
  BY <1>1 DEF vars
<1>3. HeapTypes' /\ \A f \in Frame : writer'[f] = IF f = PageFrame(t) THEN t ELSE writer[f]
  BY <1>1, Zenon DEF HInv, HeapTypes
<1>4. \A f \in Frame : \A u \in Thread \ {t} : writer'[f] = u <=> writer[f] = u
  BY <1>1, <1>3, ThreadsAssumption
<1>5. Cur(t)' = Cur(t) /\ Other(t)' = Other(t) /\ Page(t)' = Page(t)
      /\ PageFrame(t)' = PageFrame(t) /\ Linked' = Linked
  BY <1>1, <1>2 DEF Cur, Other, Page, PageFrame, Linked
<1>6. Own(t)'
  <2>1. Pins(t)' /\ Places(t)'
    BY <1>1, <1>2, <1>5, Zenon DEF Own, Pins, Places
  <2>2. Appends(t)'
    BY <1>1 DEF Appends
  <2>3. Latches(t)'
    BY <1>1, <1>2, <1>3, <1>5, Zenon DEF Own, Latches, WritesAt
  <2>4. Scans(t)'
    BY <1>1, <1>2, <1>5, Zenon DEF Own, Scans, Ahead, Visible
  <2> QED BY <2>1, <2>2, <2>3, <2>4 DEF Own
<1> QED BY <1>1, <1>3, <1>4, <1>6, PoolSame

\* A thread calls InsertTuple(), MarkDelete() or begin().
LEMMA CallKeeps ==
  ASSUME HInv, Relies, NEW t \in Thread, NEW op \in {"insert", "delete", "scan"}, NEW rid,
         op = "delete" => rid \in Rid, op # "delete" => rid = End, Call(t, op, rid)
  PROVE  HInv'
<1> DEFINE n == th[t].calls - 1
           a == IF op = "delete" THEN rid[1] ELSE first_page_id
           s == [Idle(n) EXCEPT !.op = op, !.pc = "fetch", !.rid = rid, !.at = a]
<1>1. /\ Running /\ th[t].pc = "idle" /\ th[t].calls > 0 /\ (op = "delete" => Visible(rid))
      /\ th' = [th EXCEPT ![t] = s] /\ UNCHANGED <<writer, readers>> /\ UNCHANGED vars
      /\ Own(t) /\ th[t] \in ThreadState
  BY DEF Call, UnchangedPool, UnchangedLatches, HInv, HeapTypes
<1>2. /\ s.pc = "fetch" /\ s.op = op /\ s.at = a /\ s.rid = rid
      /\ s.pinned = 1 /\ s.inside = FALSE /\ s.must = {}
  <2> HIDE DEF n, a
  <2> QED BY DEF Idle
<1>3. n \in Nat /\ a \in PageId /\ rid \in Rid \cup {End} /\ (rid # End => rid \in Rid)
  <2>1. n \in Nat
    BY <1>1 DEF ThreadState
  <2>2. first_page_id \in PageId
    BY DiskAssumption, ThreadsAssumption DEF first_page_id, PageId
  <2> QED BY <2>1, <2>2 DEF Rid
<1>4. s \in ThreadState
  <2>1. Idle(n) \in ThreadState
    BY <1>3, DiskAssumption, ThreadsAssumption
       DEF Idle, ThreadState, first_page_id, End, PageId
  <2> HIDE DEF n, a
  <2> QED BY <1>3, <2>1, Zenon DEF ThreadState
<1>5. th' \in [Thread -> ThreadState] /\ th'[t] = s
      /\ \A u \in Thread \ {t} : th'[u] = th[u]
  BY <1>1, <1>4, MovesOne, Zenon DEF HInv, Moves
<1>6. HeapTypes'
  BY <1>1, <1>5 DEF HInv, HeapTypes
<1>7. UNCHANGED <<pin, live, content>> /\ Linked' = Linked
  BY <1>1 DEF vars, Linked
<1>8. pin'[<<t, 1>>] = NoPin /\ pin'[<<t, 2>>] = NoPin
  <2>1. pin[Cur(t)] = NoPin /\ pin[Other(t)] = NoPin
    BY <1>1 DEF Own, Pins, Unpinned, Twice
  <2> QED BY <1>7, <2>1, TwoClients DEF HInv
<1>9. /\ th'[t].pc = "fetch" /\ th'[t].op = op /\ th'[t].at = a /\ th'[t].rid = rid
      /\ th'[t].pinned = 1 /\ th'[t].inside = FALSE /\ th'[t].must = {}
  <2> HIDE DEF n, a, s
  <2> QED BY <1>2, <1>5
<1> HIDE DEF s
<1>10. Cur(t)' = <<t, 1>> /\ Other(t)' = <<t, 2>>
  BY <1>9 DEF Cur, Other
<1>11. a \in Linked /\ (rid # End => rid[1] \in Linked) /\ (op = "delete" => rid # End)
  <2>1. first_page_id \in Linked
    BY DEF HInv, Chain
  <2>2. op = "delete" => rid[1] \in Linked
    <3>1. op = "delete" => content[rid[1]] # Zero /\ rid[1] \in PageId
      BY <1>1, <1>3 DEF Visible, Rid
    <3>2. \A p \in PageId : content[p] # Zero => p \in live
      BY DEF HInv, Chain
    <3> QED BY <3>1, <3>2 DEF Linked
  <2>3. End \notin Rid
    BY DEF End, Rid, Slot
  <2> QED BY <2>1, <2>2, <2>3
<1>12. Own(t)'
  <2>1. Unpinned(th'[t]) /\ ~Twice(th'[t]) /\ ~Latched(th'[t]) /\ ~OnRow(th'[t])
    BY <1>9 DEF Unpinned, Twice, Latched, OnRow
  <2>2. Pins(t)'
    BY <1>8, <1>10, <2>1 DEF Pins
  <2>3. Places(t)'
    BY <1>7, <1>9, <1>11, <2>1 DEF Places
  <2>4. Appends(t)' /\ Scans(t)'
    BY <1>9 DEF Appends, Scans, Ahead
  <2>5. \A f \in Frame : ~WritesAt(t, f)
    BY <1>1 DEF WritesAt
  <2>6. ~th[t].inside
    BY <1>1, Zenon DEF Own, Places, Latched
  <2>7. Latches(t)'
    BY <1>1, <2>5, <2>6 DEF Own, Latches
  <2> QED BY <2>2, <2>3, <2>4, <2>7 DEF Own
<1> QED BY <1>1, <1>5, <1>6, <1>12, PoolSame
-------------------------------------------------------------------------------
\* A thread goes on to pc with its variables as they are.
LEMMA GoesTo ==
  ASSUME HeapTypes, NEW t \in Thread,
         NEW pc \in {"wlatch", "new", "link", "begin", "rlatch", "copy"}, GoTo(t, pc)
  PROVE  /\ th' \in [Thread -> ThreadState] /\ \A u \in Thread \ {t} : th'[u] = th[u]
         /\ th'[t].pc = pc /\ th'[t].op = th[t].op /\ th'[t].at = th[t].at
         /\ th'[t].rid = th[t].rid /\ th'[t].pinned = th[t].pinned
         /\ th'[t].then = th[t].then /\ th'[t].inside = th[t].inside
         /\ th'[t].must = th[t].must /\ th'[t].refused = th[t].refused
         /\ Cur(t)' = Cur(t) /\ Other(t)' = Other(t)
<1> DEFINE s == [th[t] EXCEPT !.pc = pc]
<1>1. th[t] \in ThreadState /\ s \in ThreadState
  BY DEF HeapTypes, ThreadState
<1>2. th' = [th EXCEPT ![t] = s]
  BY DEF GoTo, HeapTypes, ThreadState
<1>3. th' \in [Thread -> ThreadState] /\ th'[t] = s /\ \A u \in Thread \ {t} : th'[u] = th[u]
  BY <1>1, <1>2, MovesOne, Zenon DEF Moves
<1>4. /\ th'[t].pc = pc /\ th'[t].op = th[t].op /\ th'[t].at = th[t].at
      /\ th'[t].rid = th[t].rid /\ th'[t].pinned = th[t].pinned
      /\ th'[t].then = th[t].then /\ th'[t].inside = th[t].inside
      /\ th'[t].must = th[t].must /\ th'[t].refused = th[t].refused
  BY <1>1, <1>3 DEF ThreadState
<1>5. Cur(t)' = Cur(t) /\ Other(t)' = Other(t)
  BY <1>4 DEF Cur, Other
<1> QED BY <1>3, <1>4, <1>5

\* A null pointer for a page of the table is used.
LEMMA NullUsedKeeps ==
  ASSUME HInv, Relies, NEW p \in live, IsNull(p), NullUsed
  PROVE  HInv'
<1>1. /\ UNCHANGED <<pool, disk, pin, live, content>> /\ UNCHANGED <<writer, readers, th>>
      /\ UNCHANGED <<pin, live, content>> /\ aborted' \in BOOLEAN
  BY DEF NullUsed
<1>2. IInv' /\ Frames'
  BY <1>1, PoolLeft
<1>3. NullExplained'
  BY <1>1, NoFrameLeft DEF NullExplained
<1>4. HeapTypes'
  BY <1>1 DEF HInv, HeapTypes
<1>5. /\ Linked' = Linked
      /\ \A t : /\ Cur(t)' = Cur(t) /\ Other(t)' = Other(t) /\ Page(t)' = Page(t)
                /\ PageFrame(t)' = PageFrame(t)
  BY <1>1 DEF Linked, Cur, Other, Page, PageFrame
<1>6. Chain'
  BY <1>1, <1>5 DEF HInv, Chain
<1>7. ASSUME NEW t \in Thread PROVE Own(t)'
  <2>1. Pins(t)' /\ Places(t)'
    BY <1>1, <1>5, Zenon DEF HInv, Own, Pins, Places
  <2>2. Appends(t)'
    BY <1>1, <1>5, Zenon DEF HInv, Own, Appends
  <2>3. Latches(t)'
    <3>1. Latches(t)
      BY Zenon DEF HInv, Own
    <3>2. \A f \in Frame : WritesAt(t, f)' <=> WritesAt(t, f)
      BY <1>1, <1>5, Zenon DEF WritesAt
    <3> QED BY <1>1, <1>5, <3>1, <3>2, Zenon DEF Latches
  <2>4. Scans(t)'
    BY <1>1, <1>5, Zenon DEF HInv, Own, Scans, Ahead, Visible
  <2> QED BY <2>1, <2>2, <2>3, <2>4 DEF Own
<1> QED BY <1>2, <1>3, <1>4, <1>6, <1>7 DEF HInv

\* A call that has no page gets one.
LEMMA FetchedPage ==
  ASSUME HInv, Relies, Running, NEW t \in Thread, NEW p \in Linked, NEW pc,
         Fetch(t, Cur(t), p, pc),
         \/ th[t].pc = "fetch" /\ pc = "wlatch" /\ (th[t].op = "delete" => p = th[t].at)
         \/ th[t].pc = "fetch" /\ pc = "begin" /\ p = first_page_id
         \/ th[t].pc = "fetch" /\ pc = "rlatch" /\ th[t].rid # End /\ p = th[t].rid[1]
         \/ th[t].pc = "get" /\ pc = "copy" /\ ~th[t].inside
  PROVE  HInv'
<1>1. /\ ~IsNull(p) /\ FetchPage(Cur(t), p) /\ GoTo(t, pc) /\ UNCHANGED <<writer, readers>>
      /\ Own(t) /\ th[t] \in ThreadState
  BY DEF Fetch, UnchangedLatches, HInv, HeapTypes
<1>2. Cur(t) \in Client /\ Other(t) \in Client /\ Other(t) # Cur(t) /\ p \in PageId
  BY TwoClients, PoolTypes DEF HInv, Linked
<1>3. /\ IInv' /\ Frames' /\ UNCHANGED <<aborted, live, content>>
      /\ pin'[Cur(t)] # NoPin /\ pin'[Cur(t)].page = p
      /\ \A d \in Client \ {Cur(t)} : pin'[d] = pin[d]
  BY <1>1, <1>2, PoolFetches
<1>4. /\ pin[Other(t)] = NoPin /\ ~th[t].inside
      /\ \A f \in Frame : writer[f] # t /\ t \notin readers[f]
  BY NothingLeft
<1>5. /\ th' \in [Thread -> ThreadState] /\ \A u \in Thread \ {t} : th'[u] = th[u]
      /\ th'[t].pc = pc /\ th'[t].op = th[t].op /\ th'[t].at = th[t].at
      /\ th'[t].rid = th[t].rid /\ th'[t].inside = th[t].inside
      /\ th'[t].must = th[t].must /\ th'[t].refused = th[t].refused
      /\ Cur(t)' = Cur(t) /\ Other(t)' = Other(t)
  BY <1>1, GoesTo DEF HInv
<1>6. HeapTypes'
  BY <1>1, <1>5 DEF HInv, HeapTypes
<1>7. Others(t)
  BY <1>1, <1>3, <1>5, OthersAlone DEF HInv
<1>8. Page(t)' = p /\ Linked' = Linked /\ pin'[Other(t)] = NoPin
  BY <1>2, <1>3, <1>4, <1>5 DEF Page, Linked
<1>9. /\ ~Unpinned(th'[t]) /\ ~Twice(th'[t]) /\ ~Latched(th'[t])
      /\ (OnRow(th'[t]) => th[t].rid # End) /\ (Giving(th'[t]) <=> Giving(th[t]))
  BY <1>1, <1>4, <1>5, Zenon DEF Unpinned, Twice, Latched, OnRow, Giving, Own, Places
<1>10. Pins(t)'
  BY <1>3, <1>5, <1>8, <1>9, Zenon DEF Pins, Page
<1>11. Places(t)'
  BY <1>1, <1>4, <1>5, <1>8, <1>9, Zenon DEF Own, Places
<1>12. Appends(t)' /\ Latches(t)'
  BY <1>1, <1>4, <1>5, Zenon DEF Appends, Latches
<1>13. Scans(t)'
  <2>1. \A m \in th[t].must : Visible(m)'
    BY <1>1, <1>3, Zenon DEF Own, Scans, Visible
  <2>2. ASSUME Ahead(t) PROVE Ahead(t)'
    <3> SUFFICES ASSUME NEW m \in th[t].must, pc = "rlatch" PROVE p <= m[1]
      BY <1>5, <1>8, <1>9, <2>2, Zenon DEF Ahead
    <3>1. th[t].pc = "fetch" /\ th[t].rid # End /\ p = th[t].rid[1]
      BY Zenon
    <3>2. Before(th[t].rid, m)
      BY <2>2, <3>1, Zenon DEF Ahead, Giving
    <3>3. m[1] \in Int /\ p \in Int
      BY <1>1, <1>2 DEF ThreadState, Rid, PageId
    <3> QED BY <3>1, <3>2, <3>3 DEF Before
  <2> QED BY <1>1, <1>5, <2>1, <2>2, Zenon DEF Own, Scans
<1>14. Own(t)'
  BY <1>10, <1>11, <1>12, <1>13, Zenon DEF Own
<1> QED BY <1>3, <1>6, <1>7, <1>14, PagesSame

\* InsertTuple() and MarkDelete() fetch a page.
LEMMA FetchToWriteKeeps ==
  ASSUME HInv, Relies, NEW t \in Thread, FetchToWrite(t)
  PROVE  HInv'
<1> DEFINE p == th[t].at
<1>1. Running /\ th[t].pc = "fetch" /\ Own(t) /\ th[t] \in ThreadState
  BY DEF FetchToWrite, At, HInv, HeapTypes
<1>2. p \in Linked /\ p \in live
  BY <1>1 DEF Own, Places, Linked
<1>3. CASE Fetch(t, Cur(t), p, "wlatch")
  BY <1>1, <1>2, <1>3, FetchedPage
<1>4. CASE IsNull(p) /\ NullUsed
  BY <1>2, <1>4, NullUsedKeeps
<1>5. CASE Return(t) /\ UnchangedPool /\ UnchangedLatches
  <2>1. UNCHANGED vars /\ UNCHANGED <<writer, readers>> /\ UNCHANGED <<pin, live, content>>
    BY <1>5 DEF UnchangedPool, UnchangedLatches, vars
  <2>2. Idle(th[t].calls) \in ThreadState
    BY <1>1, DiskAssumption, ThreadsAssumption
       DEF Idle, ThreadState, first_page_id, End, PageId
  <2>3. th' \in [Thread -> ThreadState] /\ th'[t] = Idle(th[t].calls)
        /\ \A u \in Thread \ {t} : th'[u] = th[u]
    BY <1>5, <2>2, MovesOne, Zenon DEF HInv, Moves, Return
  <2>4. HeapTypes'
    BY <2>1, <2>3 DEF HInv, HeapTypes
  <2>5. pin[Other(t)] = NoPin /\ \A f \in Frame : writer[f] # t /\ t \notin readers[f]
    BY <1>1, NothingLeft
  <2>6. pin[Cur(t)] = NoPin
    BY <1>1 DEF Own, Pins, Unpinned
  <2>7. pin'[<<t, 1>>] = NoPin /\ pin'[<<t, 2>>] = NoPin
    BY <2>1, <2>5, <2>6, TwoClients DEF HInv
  <2>8. Others(t)
    BY <2>1, <2>3, OthersAlone DEF HInv
  <2>9. Chain'
    BY <1>1, <2>1, <2>8, ChainKept
  <2>10. Own(t)'
    BY <2>1, <2>3, <2>4, <2>5, <2>7, <2>9, OwnIdle
  <2> QED BY <1>1, <2>1, <2>3, <2>4, <2>10, PoolSame
<1> QED BY <1>3, <1>4, <1>5 DEF FetchToWrite

\* begin() and operator++ fetch a page.
LEMMA FetchToScanKeeps ==
  ASSUME HInv, Relies, NEW t \in Thread, FetchToScan(t)
  PROVE  HInv'
<1> DEFINE p == IF th[t].rid = End THEN first_page_id ELSE th[t].rid[1]
<1>1. Running /\ th[t].pc = "fetch" /\ Own(t)
  BY DEF FetchToScan, At, HInv
<1>2. p \in Linked /\ p \in live
  BY <1>1, Zenon DEF Own, Places, HInv, Chain, Linked
<1>3. CASE Fetch(t, Cur(t), p, "begin") /\ th[t].rid = End
  BY <1>1, <1>2, <1>3, FetchedPage
<1>4. CASE Fetch(t, Cur(t), p, "rlatch") /\ th[t].rid # End
  BY <1>1, <1>2, <1>4, FetchedPage
<1>5. CASE IsNull(p) /\ NullUsed
  BY <1>2, <1>5, NullUsedKeeps
<1> QED BY <1>3, <1>4, <1>5 DEF FetchToScan

\* What the threads are once t is to unpin a page and to go on at then.
ToUnpin(W, t, then) ==
  /\ W \in [Thread -> ThreadState] /\ \A u \in Thread \ {t} : W[u] = th[u]
  /\ W[t].pc = "unpin" /\ W[t].then = then
  /\ W[t].op = th[t].op /\ W[t].at = th[t].at /\ W[t].rid = th[t].rid
  /\ W[t].pinned = th[t].pinned /\ W[t].inside = th[t].inside
  /\ W[t].must = th[t].must /\ W[t].refused = th[t].refused

\* Unpinning() makes them so.
LEMMA UnpinNext ==
  ASSUME HInv, NEW t \in Thread, NEW W,
         NEW then \in {"idle", "fetch", "get", "wlatch", "rlatch", "leave"},
         W \in {Unpinning(t, TRUE, then), Unpinning(t, FALSE, then)}
  PROVE  ToUnpin(W, t, then)
<1>0. HeapTypes
  BY DEF HInv
<1>1. th[t] \in ThreadState
  BY <1>0 DEF HeapTypes
<1>2. ASSUME NEW flag \in BOOLEAN, W = Unpinning(t, flag, then)
      PROVE  W \in [Thread -> ThreadState]
             /\ W[t] = [th[t] EXCEPT !.pc = "unpin", !.flag = flag, !.then = then]
             /\ \A u \in Thread \ {t} : W[u] = th[u]
  <2>1. W = [th EXCEPT ![t] = [th[t] EXCEPT !.pc = "unpin", !.flag = flag, !.then = then]]
    BY <1>0, <1>1, <1>2, Zenon DEF Unpinning, HeapTypes, ThreadState
  <2>2. W[t] = [th[t] EXCEPT !.pc = "unpin", !.flag = flag, !.then = then]
        /\ \A u \in Thread \ {t} : W[u] = th[u]
    BY <1>0, <2>1 DEF HeapTypes
  <2>3. W[t] \in ThreadState
    BY <1>1, <2>2, Zenon DEF ThreadState
  <2> QED BY <1>0, <2>1, <2>2, <2>3 DEF HeapTypes
<1>3. PICK flag \in BOOLEAN : W = Unpinning(t, flag, then)
  BY Zenon
<1> QED BY <1>1, <1>2, <1>3, Zenon DEF ThreadState, ToUnpin

\* GetTuple(), by begin() or by operator++.
LEMMA GetTupleKeeps ==
  ASSUME HInv, Relies, NEW t \in Thread, GetTuple(t)
  PROVE  HInv'
<1> DEFINE p == th[t].rid[1]
<1>1. Running /\ th[t].pc = "get" /\ Own(t) /\ th[t] \in ThreadState
  BY DEF GetTuple, At, HInv, HeapTypes
<1>2. th[t].rid # End /\ p \in Linked /\ p \in live /\ p \in PageId
  BY <1>1, PoolTypes, Zenon DEF Own, Places, OnRow, Linked, HInv
<1>3. CASE ~th[t].inside /\ Fetch(t, Cur(t), p, "copy")
  BY <1>1, <1>2, <1>3, FetchedPage
<1>4. CASE th[t].inside /\ Fetch(t, Other(t), p, "copy")
  <2>1. /\ ~IsNull(p) /\ FetchPage(Other(t), p) /\ GoTo(t, "copy")
        /\ UNCHANGED <<writer, readers>>
    BY <1>4 DEF Fetch, UnchangedLatches
  <2>2. Cur(t) \in Client /\ Other(t) \in Client /\ Other(t) # Cur(t)
    BY TwoClients DEF HInv
  <2>3. /\ IInv' /\ Frames' /\ UNCHANGED <<aborted, live, content>>
        /\ pin'[Other(t)] # NoPin /\ pin'[Other(t)].page = p
        /\ \A d \in Client \ {Other(t)} : pin'[d] = pin[d]
    BY <1>2, <2>1, <2>2, PoolFetches
  <2>4. /\ th' \in [Thread -> ThreadState] /\ \A u \in Thread \ {t} : th'[u] = th[u]
        /\ th'[t].pc = "copy" /\ th'[t].op = th[t].op /\ th'[t].at = th[t].at
        /\ th'[t].rid = th[t].rid /\ th'[t].inside = th[t].inside
        /\ th'[t].must = th[t].must /\ th'[t].refused = th[t].refused
        /\ Cur(t)' = Cur(t) /\ Other(t)' = Other(t)
    BY <2>1, GoesTo, Zenon DEF HInv
  <2>5. HeapTypes'
    BY <2>1, <2>4 DEF HInv, HeapTypes
  <2>6. Others(t)
    BY <2>1, <2>3, <2>4, OthersAlone DEF HInv
  <2>7. /\ pin'[Cur(t)] = pin[Cur(t)] /\ Page(t)' = Page(t) /\ PageFrame(t)' = PageFrame(t)
        /\ Linked' = Linked
    BY <2>2, <2>3, <2>4 DEF Page, PageFrame, Linked
  <2>8. /\ ~Unpinned(th'[t]) /\ Twice(th'[t]) /\ ~Latched(th'[t])
        /\ Giving(th'[t]) /\ Giving(th[t]) /\ ~Unpinned(th[t])
    BY <1>1, <1>4, <2>4 DEF Unpinned, Twice, Latched, Giving
  <2>9. Pins(t)'
    BY <1>1, <1>2, <2>3, <2>4, <2>7, <2>8 DEF Own, Pins
  <2>10. Places(t)'
    BY <1>1, <1>2, <1>4, <2>3, <2>4, <2>7, <2>8 DEF Own, Places
  <2>11. Appends(t)'
    BY <2>4, Zenon DEF Appends
  <2>12. Latches(t)'
    BY <1>1, <2>1, <2>4, <2>7, Zenon DEF Own, Latches, WritesAt
  <2>13. Scans(t)'
    <3>1. \A m \in th[t].must : Visible(m)'
      BY <1>1, <2>3 DEF Own, Scans, Visible
    <3>2. Ahead(t) => Ahead(t)'
      BY <2>4, <2>8, Zenon DEF Ahead
    <3> QED BY <1>1, <2>4, <3>1, <3>2, Zenon DEF Own, Scans
  <2>14. Own(t)'
    BY <2>9, <2>10, <2>11, <2>12, <2>13 DEF Own
  <2> QED BY <1>1, <2>3, <2>5, <2>6, <2>14, PagesSame
<1>5. CASE /\ IsNull(p) /\ th' = [th EXCEPT ![t].pc = "fetch", ![t].refused = TRUE]
           /\ UnchangedPool /\ UnchangedLatches
  <2>1. UNCHANGED vars /\ UNCHANGED <<writer, readers>> /\ UNCHANGED <<pin, live, content>>
    BY <1>5 DEF UnchangedPool, UnchangedLatches, vars
  <2>2. ~th[t].inside
    <3> SUFFICES ASSUME th[t].inside PROVE FALSE
      OBVIOUS
    <3>1. pin[Cur(t)] # NoPin /\ Page(t) = p
      BY <1>1, Zenon DEF Own, Pins, Unpinned, Places
    <3>2. PageFrame(t) \in Frame /\ page_table[p] = PageFrame(t)
      BY <1>1, <3>1, PageSeen
    <3>3. page_table[p] # NoFrame
      BY <3>2 DEF NoFrame, Frame
    <3> QED BY <1>5, <3>3 DEF IsNull
  <2>3. /\ pin[Other(t)] = NoPin
        /\ \A f \in Frame : writer[f] # t /\ t \notin readers[f]
    BY <1>1, <2>2, NothingLeft
  <2> DEFINE s == [th[t] EXCEPT !.pc = "fetch", !.refused = TRUE]
  <2>4. s \in ThreadState /\ th' = [th EXCEPT ![t] = s]
    BY <1>1, <1>5, Zenon DEF HInv, HeapTypes, ThreadState
  <2>5. th' \in [Thread -> ThreadState] /\ th'[t] = s
        /\ \A u \in Thread \ {t} : th'[u] = th[u]
    BY <2>4, MovesOne, Zenon DEF HInv, Moves
  <2>6. /\ th'[t].pc = "fetch" /\ th'[t].op = th[t].op /\ th'[t].at = th[t].at
        /\ th'[t].rid = th[t].rid /\ th'[t].pinned = th[t].pinned
        /\ th'[t].inside = th[t].inside /\ th'[t].must = th[t].must
    BY <1>1, <2>5 DEF ThreadState
  <2>7. th'[t].refused
    BY <1>1, <2>5 DEF ThreadState
  <2> HIDE DEF s
  <2>8. HeapTypes'
    BY <2>1, <2>5 DEF HInv, HeapTypes
  <2>9. Cur(t)' = Cur(t) /\ Other(t)' = Other(t) /\ Linked' = Linked
    BY <2>1, <2>6, Zenon DEF Cur, Other, Linked
  <2>10. /\ Unpinned(th'[t]) /\ ~Twice(th'[t]) /\ ~Latched(th'[t]) /\ ~OnRow(th'[t])
         /\ Unpinned(th[t])
    BY <1>1, <2>2, <2>6, Zenon DEF Unpinned, Twice, Latched, OnRow
  <2>11. Pins(t)'
    BY <1>1, <2>1, <2>3, <2>9, <2>10, Zenon DEF Own, Pins
  <2>12. Places(t)'
    BY <1>1, <2>2, <2>6, <2>9, <2>10, Zenon DEF Own, Places
  <2>13. Appends(t)' /\ Latches(t)'
    BY <2>1, <2>3, <2>6, Zenon DEF Appends, Latches
  <2>14. Scans(t)'
    BY <1>1, <2>1, <2>6, <2>7, Zenon DEF Own, Scans, Visible
  <2>15. Own(t)'
    BY <2>11, <2>12, <2>13, <2>14 DEF Own
  <2> QED BY <1>1, <2>1, <2>5, <2>8, <2>15, PoolSame, Zenon
<1> QED BY <1>3, <1>4, <1>5 DEF GetTuple
-------------------------------------------------------------------------------
\* The first of a set of slots.
LEMMA FirstSlot ==
  ASSUME Relies, NEW S \in SUBSET Slot, S # {}
  PROVE  Min(S) \in S /\ Min(S) \in Slot /\ \A j \in S : Min(S) <= j
<1>1. \E m \in S : \A k \in S : m <= k
  BY DEF Relies, FirstSlots
<1> QED BY <1>1 DEF Min

\* Where operator++ is on a page.
LEMMA ScanPlace ==
  ASSUME HInv, Running, NEW t \in Thread, th[t].pc \in {"begin", "rlatch"}
  PROVE  /\ pin[Cur(t)] # NoPin /\ pin[Other(t)] = NoPin /\ ~th[t].inside
         /\ Page(t) \in Linked /\ Page(t) \in PageId
         /\ View(t) = content[Page(t)] /\ View(t) \in HeapPage
         /\ \A f \in Frame : writer[f] # t /\ t \notin readers[f]
<1>1. Own(t)
  BY DEF HInv
<1>2. pin[Cur(t)] # NoPin /\ pin[Other(t)] = NoPin /\ ~th[t].inside
  BY <1>1, Zenon DEF Own, Pins, Unpinned, Twice, Places, Latched
<1>3. \A f \in Frame : ~WritesAt(t, f)
  BY DEF WritesAt
<1> QED BY <1>1, <1>2, <1>3, PageSeen DEF Own, Latches

\* begin() with the first page.
LEMMA ScanBeginKeeps ==
  ASSUME HInv, Relies, NEW t \in Thread, ScanBegin(t)
  PROVE  HInv'
<1> DEFINE here == VisibleFrom(View(t), 1)
           rid == IF here = {} THEN th[t].rid ELSE <<Page(t), Min(here)>>
           must == IF here = {} THEN th[t].must ELSE Rows
           then == IF here = {} THEN "idle" ELSE "get"
           W == Unpinning(t, FALSE, then)
<1>1. /\ Running /\ th[t].pc = "begin" /\ th[t].op = "scan" /\ UNCHANGED vars
      /\ UNCHANGED <<writer, readers>> /\ Own(t) /\ th[t] \in ThreadState
  BY DEF ScanBegin, At, UnchangedPool, UnchangedLatches, HInv, HeapTypes
<1>2. /\ pin[Cur(t)] # NoPin /\ pin[Other(t)] = NoPin /\ ~th[t].inside
      /\ Page(t) \in Linked /\ Page(t) \in PageId
      /\ View(t) = content[Page(t)] /\ View(t) \in HeapPage
      /\ \A f \in Frame : writer[f] # t /\ t \notin readers[f]
  BY <1>1, ScanPlace
<1>3. here \in SUBSET Slot /\ \A j \in Slot : j \in here <=> View(t).slots[j] = "row"
  BY DEF VisibleFrom, Slot
<1>4. here # {} => Min(here) \in Slot /\ \A j \in here : Min(here) <= j
  BY <1>3, FirstSlot
<1>5. rid \in Rid \cup {End} /\ (here # {} => rid \in Rid) /\ must \in SUBSET Rid
  BY <1>1, <1>2, <1>4 DEF ThreadState, Rid, Rows
<1>6. th' = [W EXCEPT ![t].rid = rid, ![t].must = must]
  <2>1. CASE here = {}
    <3>1. W[t].rid = th[t].rid /\ W[t].must = th[t].must /\ W \in [Thread -> ThreadState]
      <4>1. then \in {"idle", "get"} /\ W \in {Unpinning(t, TRUE, then), Unpinning(t, FALSE, then)}
        OBVIOUS
      <4> HIDE DEF then, W
      <4> QED BY <4>1, UnpinNext, Zenon DEF ToUnpin
    <3>2. th' = W
      BY <2>1 DEF ScanBegin
    <3> HIDE DEF W
    <3> QED BY <2>1, <3>1, <3>2 DEF ThreadState
  <2>2. CASE here # {}
    BY <2>2, Zenon DEF ScanBegin
  <2> QED BY <2>1, <2>2, Zenon
<1>7. /\ W \in [Thread -> ThreadState] /\ \A u \in Thread \ {t} : W[u] = th[u]
      /\ W[t].pc = "unpin" /\ W[t].then = then
      /\ W[t].op = th[t].op /\ W[t].at = th[t].at
      /\ W[t].pinned = th[t].pinned /\ W[t].inside = th[t].inside
      /\ W[t].refused = th[t].refused
  <2>1. then \in {"idle", "get"} /\ W \in {Unpinning(t, TRUE, then), Unpinning(t, FALSE, then)}
    OBVIOUS
  <2> HIDE DEF then, W
  <2> QED BY <2>1, UnpinNext, Zenon DEF ToUnpin
<1> HIDE DEF W, rid, must, then
<1>8. /\ \A u \in Thread \ {t} : th'[u] = th[u]
      /\ th'[t].pc = "unpin" /\ th'[t].then = then
      /\ th'[t].op = th[t].op /\ th'[t].at = th[t].at /\ th'[t].rid = rid
      /\ th'[t].pinned = th[t].pinned /\ th'[t].inside = th[t].inside
      /\ th'[t].must = must /\ th'[t].refused = th[t].refused
  BY <1>6, <1>7 DEF ThreadState
<1>9. th' \in [Thread -> ThreadState]
  <2>1. th'[t] = [W[t] EXCEPT !.rid = rid, !.must = must]
    BY <1>6, <1>7 DEF ThreadState
  <2>2. W[t] \in ThreadState /\ rid \in Rid \cup {End} /\ must \in SUBSET Rid
    BY <1>5, <1>7
  <2>3. th'[t] \in ThreadState
    BY <2>1, <2>2, Zenon DEF ThreadState
  <2> QED BY <1>6, <1>7, <2>3
<1>10. HeapTypes'
  BY <1>1, <1>9 DEF HInv, HeapTypes
<1>11. UNCHANGED <<pin, live, content>> /\ Cur(t)' = Cur(t) /\ Other(t)' = Other(t)
       /\ Linked' = Linked
  BY <1>1, <1>8 DEF vars, Cur, Other, Linked
<1>12. /\ ~Unpinned(th'[t]) /\ ~Twice(th'[t]) /\ ~Latched(th'[t])
       /\ (OnRow(th'[t]) => here # {}) /\ (here # {} => Giving(th'[t]))
  BY <1>8 DEF Unpinned, Twice, Latched, OnRow, Giving, then
<1>13. rid # End => rid[1] \in Linked
  BY <1>1, <1>2, Zenon DEF Own, Places, rid
<1>14. here # {} => rid # End
  BY <1>5 DEF End, Rid, Slot
<1>15. Pins(t)'
  BY <1>1, <1>2, <1>11, <1>12, Zenon DEF Own, Pins
<1>16. Places(t)'
  BY <1>1, <1>2, <1>8, <1>11, <1>12, <1>13, <1>14, Zenon DEF Own, Places, then
<1>17. Appends(t)' /\ Latches(t)'
  BY <1>1, <1>2, <1>8, Zenon DEF Appends, Latches
<1>18. Scans(t)'
  <2>1. CASE here = {}
    <3>1. \A m \in must : Visible(m)'
      BY <1>1, <1>11, <2>1, Zenon DEF Own, Scans, Visible, must
    <3>2. Ahead(t) => Ahead(t)'
      BY <1>1, <1>8, <1>12, <2>1, Zenon DEF Ahead, Giving, must, rid, then
    <3> QED BY <1>1, <1>8, <3>1, <3>2, Zenon DEF Own, Scans
  <2>2. CASE here # {}
    <3>1. \A m \in must : Visible(m)' /\ Visible(m) /\ m \in Rid
      BY <1>11, <2>2, Zenon DEF must, Rows, Visible
    <3>2. ASSUME NEW m \in must PROVE Before(rid, m) \/ m = rid
      <4>1. m \in Rid /\ Page(t) = 0 /\ rid = <<0, Min(here)>>
        BY <1>1, <2>2, <3>1, Zenon DEF Own, Places, first_page_id, rid
      <4>2. m = <<m[1], m[2]>> /\ m[1] \in PageId /\ m[2] \in Slot
        BY <4>1 DEF Rid
      <4>3. m[1] = 0 => Min(here) <= m[2]
        BY <1>2, <1>3, <1>4, <2>2, <3>1, <4>1, <4>2 DEF Visible
      <4>4. m[1] \in Nat /\ m[2] \in Int /\ Min(here) \in Int
        BY <1>4, <2>2, <4>2, DiskAssumption DEF PageId, Slot
      <4> HIDE DEF here
      <4> QED BY <4>1, <4>2, <4>3, <4>4 DEF Before
    <3>3. Ahead(t)'
      BY <1>8, <1>12, <1>14, <2>2, <3>2, Zenon DEF Ahead, then
    <3> QED BY <1>8, <3>1, <3>3, Zenon DEF Scans
  <2> QED BY <2>1, <2>2
<1>19. Own(t)'
  BY <1>15, <1>16, <1>17, <1>18 DEF Own
<1> QED BY <1>1, <1>8, <1>10, <1>19, PoolSame, Zenon

\* A row that operator++ has yet to give is on a later page, or on this one and found.
LEMMA RowsAhead ==
  ASSUME HInv, Running, NEW t \in Thread, th[t].pc = "rlatch", Ahead(t), NEW m \in th[t].must
  PROVE  /\ m \in Rid /\ m = <<m[1], m[2]>> /\ m[1] \in Linked /\ m[2] \in Slot
         /\ m[1] \in Int /\ m[2] \in Int /\ Page(t) \in Int /\ Page(t) <= m[1]
         /\ m[1] = Page(t) => m[2] \in VisibleFrom(View(t), FromSlot(t))
<1>1. /\ View(t) = content[Page(t)] /\ Page(t) \in PageId /\ Own(t) /\ th[t] \in ThreadState
  BY ScanPlace DEF HInv, HeapTypes
<1>2. m \in Rid /\ Visible(m)
  BY <1>1 DEF Own, Scans, ThreadState
<1>3. m = <<m[1], m[2]>> /\ m[1] \in PageId /\ m[2] \in Slot
  BY <1>2 DEF Rid
<1>4. m[1] \in Linked
  BY <1>2, <1>3 DEF Visible, HInv, Chain, Linked
<1>5. m[1] \in Int /\ m[2] \in Int /\ m[2] >= 1 /\ Page(t) \in Int
  BY <1>1, <1>3 DEF PageId, Slot
<1>6. th[t].rid # End /\ Before(th[t].rid, m) /\ Page(t) <= m[1]
  BY DEF Ahead, Giving
<1>7. th[t].rid[1] \in Int /\ th[t].rid[2] \in Int
  BY <1>1, <1>6 DEF ThreadState, Rid, PageId, Slot
<1>8. ASSUME m[1] = Page(t) PROVE m[2] \in VisibleFrom(View(t), FromSlot(t))
  <2>1. FromSlot(t) <= m[2]
    BY <1>5, <1>6, <1>7, <1>8 DEF FromSlot, Before
  <2>2. View(t).slots[m[2]] = "row"
    BY <1>1, <1>2, <1>8 DEF Visible
  <2> QED BY <1>3, <2>1, <2>2 DEF VisibleFrom
<1> QED BY <1>2, <1>3, <1>4, <1>5, <1>6, <1>8

\* The last page has been searched: nothing is left to give.
LEMMA EndOfScan ==
  ASSUME HInv, Running, NEW t \in Thread, th[t].pc = "rlatch", th[t].op = "scan",
         VisibleFrom(View(t), FromSlot(t)) = {}, View(t).next = INVALID_PAGE_ID
  PROVE  th[t].must = {} \/ th[t].refused
<1> SUFFICES ASSUME ~th[t].refused, NEW m \in th[t].must PROVE FALSE
  OBVIOUS
<1>1. Ahead(t)
  BY DEF HInv, Own, Scans
<1>2. m[1] \in Linked /\ m[1] \in Int /\ Page(t) \in Int /\ Page(t) <= m[1] /\ m[1] # Page(t)
  BY <1>1, RowsAhead
<1>3. Page(t) < m[1]
  BY <1>2
<1>4. Page(t) \in Linked /\ content[Page(t)].next = INVALID_PAGE_ID
  BY ScanPlace
<1> QED BY <1>2, <1>3, <1>4 DEF HInv, Chain

\* operator++ latches a page and looks for a row.
LEMMA ScanPageKeeps ==
  ASSUME HInv, Relies, NEW t \in Thread, ScanPage(t)
  PROVE  HInv'
<1> DEFINE here == VisibleFrom(View(t), FromSlot(t))
           hop == here = {} /\ View(t).next # INVALID_PAGE_ID
           rid == IF here # {} THEN <<Page(t), Min(here)>> ELSE IF hop THEN th[t].rid ELSE End
           pc == IF here # {} THEN "get" ELSE IF hop THEN "hop" ELSE "leave"
           s == [th[t] EXCEPT !.inside = TRUE, !.rid = rid, !.pc = pc]
<1>1. /\ Running /\ th[t].pc = "rlatch" /\ th[t].op = "scan" /\ UNCHANGED vars
      /\ readers' = [readers EXCEPT ![PageFrame(t)] = @ \cup {t}] /\ UNCHANGED writer
      /\ Own(t) /\ th[t] \in ThreadState
  BY Zenon DEF ScanPage, At, UnchangedPool, HInv, HeapTypes
<1>2. /\ pin[Cur(t)] # NoPin /\ pin[Other(t)] = NoPin /\ ~th[t].inside
      /\ Page(t) \in Linked /\ Page(t) \in PageId
      /\ View(t) = content[Page(t)] /\ View(t) \in HeapPage
      /\ \A f \in Frame : writer[f] # t /\ t \notin readers[f]
  BY <1>1, ScanPlace
<1>3. here # {} => Min(here) \in Slot /\ \A j \in here : Min(here) <= j
  <2>1. here \in SUBSET Slot
    BY DEF VisibleFrom
  <2> QED BY <2>1, FirstSlot
<1>4. rid \in Rid \cup {End} /\ (here # {} => rid \in Rid) /\ pc \in {"get", "hop", "leave"}
  BY <1>1, <1>2, <1>3 DEF ThreadState, Rid
<1>5. th' = [th EXCEPT ![t] = s]
  <2>1. th' = [th EXCEPT ![t].inside = TRUE,
                         ![t].rid = IF here # {} THEN <<Page(t), Min(here)>>
                                    ELSE IF hop THEN th[t].rid ELSE End,
                         ![t].pc = IF here # {} THEN "get" ELSE IF hop THEN "hop" ELSE "leave"]
    BY Zenon DEF ScanPage, HInv, HeapTypes
  <2>2. th' = [th EXCEPT ![t].inside = TRUE, ![t].rid = rid, ![t].pc = pc]
    BY <2>1, Zenon
  <2> HIDE DEF rid, pc
  <2> QED BY <2>2, Zenon DEF HInv, HeapTypes, ThreadState
<1> HIDE DEF pc, rid
<1>6. s \in ThreadState
  BY <1>1, <1>4, Zenon DEF ThreadState
<1>7. th' \in [Thread -> ThreadState] /\ th'[t] = s
      /\ \A u \in Thread \ {t} : th'[u] = th[u]
  BY <1>5, <1>6, MovesOne, Zenon DEF HInv, Moves
<1>8. /\ th'[t].pc = pc /\ th'[t].op = th[t].op /\ th'[t].at = th[t].at /\ th'[t].rid = rid
      /\ th'[t].pinned = th[t].pinned /\ th'[t].must = th[t].must
      /\ th'[t].refused = th[t].refused
  BY <1>1, <1>7 DEF ThreadState
<1>9. th'[t].inside
  BY <1>1, <1>7 DEF ThreadState
<1> HIDE DEF s, here, hop
<1>10. PageFrame(t) \in Frame
  BY <1>1, <1>2, PageSeen, Zenon
<1>11. HeapTypes' /\ \A f \in Frame : \A u \in Thread : u \in readers'[f] <=>
                       u \in readers[f] \/ (u = t /\ f = PageFrame(t))
  BY <1>1, <1>7, <1>10 DEF HInv, HeapTypes
<1>12. UNCHANGED <<pin, live, content>> /\ Cur(t)' = Cur(t) /\ Other(t)' = Other(t)
       /\ Page(t)' = Page(t) /\ PageFrame(t)' = PageFrame(t) /\ Linked' = Linked
  BY <1>1, <1>8, Zenon DEF vars, Cur, Other, Page, PageFrame, Linked
<1>13. /\ ~Unpinned(th'[t]) /\ ~Twice(th'[t]) /\ (Latched(th'[t]) <=> pc # "get")
       /\ (OnRow(th'[t]) <=> pc # "leave")
  BY <1>4, <1>8, <1>9 DEF Unpinned, Twice, Latched, OnRow
<1>14. th[t].rid # End /\ (rid # End => rid[1] \in Linked) /\ (pc # "leave" => rid # End)
       /\ (pc = "get" => rid[1] = Page(t))
  <2>1. th[t].rid # End /\ (th[t].rid # End => th[t].rid[1] \in Linked)
    BY <1>1, Zenon DEF Own, Places, OnRow
  <2>2. here # {} => rid # End
    BY <1>4 DEF End, Rid, Slot
  <2> QED BY <1>2, <2>1, <2>2 DEF rid, pc
<1>15. Pins(t)'
  BY <1>1, <1>2, <1>12, <1>13, Zenon DEF Own, Pins
<1>16. Places(t)'
  <2>1. pc = "hop" => content[Page(t)].next # INVALID_PAGE_ID
    BY <1>2, Zenon DEF pc, hop
  <2> QED BY <1>1, <1>4, <1>8, <1>9, <1>12, <1>13, <1>14, <2>1, Zenon DEF Own, Places
<1>17. Appends(t)'
  BY <1>4, <1>8 DEF Appends
<1>18. Latches(t)'
  BY <1>1, <1>2, <1>9, <1>11, <1>12, Zenon DEF Latches
<1>19. Scans(t)'
  <2>1. \A m \in th[t].must : Visible(m)'
    BY <1>1, <1>12, Zenon DEF Own, Scans, Visible
  <2>2. ASSUME ~th[t].refused PROVE Ahead(t)'
    <3>1. Ahead(t)
      BY <1>1, <2>2 DEF Own, Scans
    <3> SUFFICES ASSUME NEW m \in th[t].must
                 PROVE  /\ rid # End
                        /\ Before(rid, m) \/ (m = rid /\ pc = "get")
                        /\ pc = "hop" => Page(t) < m[1]
      <4>1. pc # "rlatch" /\ pc # "unpin"
        BY <1>4
      <4> QED BY <1>8, <1>12, <4>1 DEF Ahead, Giving
    <3>2. /\ m = <<m[1], m[2]>> /\ m[1] \in Int /\ m[2] \in Int
          /\ Page(t) \in Int /\ Page(t) <= m[1] /\ (m[1] = Page(t) => m[2] \in here)
      BY <1>1, <3>1, RowsAhead DEF here
    <3>3. CASE here # {}
      <4>1. rid = <<Page(t), Min(here)>> /\ rid # End /\ pc = "get"
        BY <1>14, <3>3 DEF rid, pc
      <4>2. Min(here) \in Int /\ (m[1] = Page(t) => Min(here) <= m[2])
        BY <1>3, <3>2, <3>3 DEF Slot
      <4> QED BY <3>2, <4>1, <4>2 DEF Before
    <3>4. CASE hop
      <4>1. rid = th[t].rid /\ pc = "hop" /\ m[1] # Page(t)
        BY <3>2, <3>4 DEF rid, pc, hop
      <4>2. Before(th[t].rid, m)
        BY <1>1, <3>1 DEF Ahead, Giving
      <4> QED BY <1>14, <3>2, <4>1, <4>2
    <3>5. CASE here = {} /\ ~hop
      BY <1>1, <2>2, <3>5, EndOfScan, Zenon DEF here, hop
    <3> QED BY <3>3, <3>4, <3>5 DEF hop
  <2> QED BY <1>8, <2>1, <2>2 DEF Scans
<1>20. Own(t)'
  BY <1>15, <1>16, <1>17, <1>18, <1>19 DEF Own
<1>21. \A f \in Frame : \A u \in Thread \ {t} : /\ writer'[f] = u <=> writer[f] = u
                                                /\ u \in readers'[f] <=> u \in readers[f]
  BY <1>1, <1>11
<1> QED BY <1>1, <1>7, <1>11, <1>20, <1>21, PoolSame

\* Where operator++ has the page latched.
LEMMA ReadPlace ==
  ASSUME HInv, Running, NEW t \in Thread, th[t].pc \in {"hop", "leave"}
  PROVE  /\ pin[Cur(t)] # NoPin /\ pin[Other(t)] = NoPin /\ PageFrame(t) \in Frame
         /\ Page(t) \in Linked /\ View(t) = content[Page(t)]
         /\ \A f \in Frame : writer[f] # t /\ (t \in readers[f] => f = PageFrame(t))
<1>1. Own(t)
  BY DEF HInv
<1>2. pin[Cur(t)] # NoPin /\ pin[Other(t)] = NoPin
  BY <1>1 DEF Own, Pins, Unpinned, Twice
<1>3. \A f \in Frame : ~WritesAt(t, f)
  BY DEF WritesAt
<1> QED BY <1>1, <1>2, <1>3, PageSeen DEF Own, Latches

\* operator++ goes on to the next page.
LEMMA ScanHopKeeps ==
  ASSUME HInv, Relies, NEW t \in Thread, ScanHop(t)
  PROVE  HInv'
<1> DEFINE next == View(t).next
           W == Unpinning(t, FALSE, "rlatch")
<1>1. Running /\ th[t].pc = "hop" /\ th[t].op = "scan" /\ Own(t) /\ th[t] \in ThreadState
  BY DEF ScanHop, At, HInv, HeapTypes
<1>2. /\ pin[Cur(t)] # NoPin /\ pin[Other(t)] = NoPin /\ PageFrame(t) \in Frame
      /\ Page(t) \in Linked /\ next = content[Page(t)].next
      /\ \A f \in Frame : writer[f] # t /\ (t \in readers[f] => f = PageFrame(t))
  BY <1>1, ReadPlace
<1>3. next \in Linked /\ next \in live /\ next \in PageId
  <2>1. next # INVALID_PAGE_ID
    BY <1>1, <1>2, Zenon DEF Own, Places
  <2>2. next \in Linked
    BY <1>2, <2>1, Zenon DEF HInv, Chain
  <2> QED BY <2>2, PoolTypes DEF HInv, Linked
<1>4. CASE IsNull(next) /\ NullUsed
  BY <1>3, <1>4, NullUsedKeeps
<1>5. CASE /\ ~IsNull(next) /\ FetchPage(Other(t), next)
           /\ readers' = [readers EXCEPT ![PageFrame(t)] = @ \ {t}] /\ UNCHANGED writer
           /\ th' = [W EXCEPT ![t].inside = FALSE]
  <2>1. Cur(t) \in Client /\ Other(t) \in Client /\ Other(t) # Cur(t)
    BY TwoClients DEF HInv
  <2>2. /\ IInv' /\ Frames' /\ UNCHANGED <<aborted, live, content>>
        /\ pin'[Other(t)] # NoPin /\ pin'[Other(t)].page = next
        /\ \A d \in Client \ {Other(t)} : pin'[d] = pin[d]
    BY <1>3, <1>5, <2>1, PoolFetches
  <2>3. /\ W \in [Thread -> ThreadState] /\ \A u \in Thread \ {t} : W[u] = th[u]
        /\ W[t].pc = "unpin" /\ W[t].then = "rlatch"
        /\ W[t].op = th[t].op /\ W[t].at = th[t].at /\ W[t].rid = th[t].rid
        /\ W[t].pinned = th[t].pinned
        /\ W[t].must = th[t].must /\ W[t].refused = th[t].refused
    <3>1. W \in {Unpinning(t, TRUE, "rlatch"), Unpinning(t, FALSE, "rlatch")}
      OBVIOUS
    <3> HIDE DEF W
    <3> QED BY <3>1, UnpinNext, Zenon DEF ToUnpin
  <2> HIDE DEF W
  <2>4. /\ th'[t] = [W[t] EXCEPT !.inside = FALSE] /\ W[t] \in ThreadState
        /\ \A u \in Thread \ {t} : th'[u] = th[u]
    BY <1>5, <2>3
  <2>5. /\ th'[t].pc = "unpin" /\ th'[t].then = "rlatch"
        /\ th'[t].op = th[t].op /\ th'[t].at = th[t].at /\ th'[t].rid = th[t].rid
        /\ th'[t].pinned = th[t].pinned
        /\ th'[t].must = th[t].must /\ th'[t].refused = th[t].refused
    BY <2>3, <2>4 DEF ThreadState
  <2>6. ~th'[t].inside /\ th'[t] \in ThreadState
    BY <2>4, Zenon DEF ThreadState
  <2>7. HeapTypes' /\ \A f \in Frame : \A u \in Thread : u \in readers'[f] <=>
                        u \in readers[f] /\ ~(u = t /\ f = PageFrame(t))
    BY <1>2, <1>5, <2>3, <2>6 DEF HInv, HeapTypes
  <2>8. Others(t)
    BY <1>5, <2>2, <2>4, <2>7, OthersAlone DEF HInv
  <2>9. /\ Cur(t)' = Cur(t) /\ Other(t)' = Other(t) /\ pin'[Cur(t)] = pin[Cur(t)]
        /\ Linked' = Linked
    BY <2>1, <2>2, <2>5 DEF Cur, Other, Linked
  <2>10. /\ ~Unpinned(th'[t]) /\ Twice(th'[t]) /\ ~Latched(th'[t])
         /\ OnRow(th[t]) /\ ~Giving(th[t])
    BY <1>1, <2>5 DEF Unpinned, Twice, Latched, OnRow, Giving
  <2>11. Pins(t)'
    BY <1>1, <1>2, <1>3, <2>2, <2>9, <2>10, Zenon DEF Own, Pins
  <2>12. Places(t)'
    BY <1>1, <2>5, <2>6, <2>9, <2>10, Zenon DEF Own, Places
  <2>13. Appends(t)' /\ Latches(t)'
    BY <1>2, <1>5, <2>5, <2>7 DEF Appends, Latches
  <2>14. Scans(t)'
    <3>1. \A m \in th[t].must : Visible(m) /\ Visible(m)' /\ m \in Rid
      BY <1>1, <2>2, Zenon DEF Own, Scans, Visible, ThreadState
    <3>2. ASSUME Ahead(t) PROVE Ahead(t)'
      <4>1. ASSUME NEW m \in th[t].must PROVE next <= m[1]
        <5>1. m[1] \in Linked
          BY <3>1, Zenon DEF Visible, Rid, HInv, Chain, Linked
        <5>2. Page(t) < m[1]
          BY <1>1, <3>2, Zenon DEF Ahead
        <5> QED BY <1>2, <5>1, <5>2, Zenon DEF HInv, Chain
      <4> QED BY <2>2, <2>5, <2>9, <2>10, <3>2, <4>1, Zenon DEF Ahead
    <3> QED BY <1>1, <2>5, <3>1, <3>2, Zenon DEF Own, Scans
  <2>15. Own(t)'
    BY <2>11, <2>12, <2>13, <2>14 DEF Own
  <2> QED BY <1>1, <2>2, <2>7, <2>8, <2>15, PagesSame
<1> QED BY <1>4, <1>5, Zenon DEF ScanHop

\* operator++ lets its page go.
LEMMA ScanLeaveKeeps ==
  ASSUME HInv, Relies, NEW t \in Thread, ScanLeave(t)
  PROVE  HInv'
<1> DEFINE then == IF th[t].rid = End THEN "idle" ELSE "fetch"
           W == Unpinning(t, FALSE, then)
<1>1. /\ Running /\ th[t].pc = "leave" /\ th[t].op = "scan" /\ UNCHANGED vars
      /\ readers' = [readers EXCEPT ![PageFrame(t)] = @ \ {t}] /\ UNCHANGED writer
      /\ th' = [W EXCEPT ![t].inside = FALSE] /\ Own(t) /\ th[t] \in ThreadState
  BY DEF ScanLeave, At, UnchangedPool, HInv, HeapTypes
<1>2. /\ pin[Cur(t)] # NoPin /\ pin[Other(t)] = NoPin /\ PageFrame(t) \in Frame
      /\ \A f \in Frame : writer[f] # t /\ (t \in readers[f] => f = PageFrame(t))
  BY <1>1, ReadPlace
<1>3. then \in {"idle", "fetch"} /\ W \in {Unpinning(t, TRUE, then), Unpinning(t, FALSE, then)}
  OBVIOUS
<1> HIDE DEF then, W
<1>4. /\ W \in [Thread -> ThreadState] /\ \A u \in Thread \ {t} : W[u] = th[u]
      /\ W[t].pc = "unpin" /\ W[t].then = then
      /\ W[t].op = th[t].op /\ W[t].at = th[t].at /\ W[t].rid = th[t].rid
      /\ W[t].pinned = th[t].pinned
      /\ W[t].must = th[t].must /\ W[t].refused = th[t].refused
  BY <1>3, UnpinNext, Zenon DEF ToUnpin
<1>5. /\ th'[t] = [W[t] EXCEPT !.inside = FALSE] /\ W[t] \in ThreadState
      /\ \A u \in Thread \ {t} : th'[u] = th[u]
  BY <1>1, <1>4
<1>6. /\ th'[t].pc = "unpin" /\ th'[t].then = then
      /\ th'[t].op = th[t].op /\ th'[t].at = th[t].at /\ th'[t].rid = th[t].rid
      /\ th'[t].pinned = th[t].pinned
      /\ th'[t].must = th[t].must /\ th'[t].refused = th[t].refused
  BY <1>4, <1>5 DEF ThreadState
<1>7. ~th'[t].inside /\ th'[t] \in ThreadState
  BY <1>5, Zenon DEF ThreadState
<1>8. HeapTypes' /\ \A f \in Frame : \A u \in Thread : u \in readers'[f] <=>
                      u \in readers[f] /\ ~(u = t /\ f = PageFrame(t))
  BY <1>1, <1>2, <1>4, <1>7 DEF HInv, HeapTypes
<1>9. UNCHANGED <<pin, live, content>> /\ Cur(t)' = Cur(t) /\ Other(t)' = Other(t)
      /\ Linked' = Linked
  BY <1>1, <1>6 DEF vars, Cur, Other, Linked
<1>10. /\ ~Unpinned(th'[t]) /\ ~Twice(th'[t]) /\ ~Latched(th'[t]) /\ ~OnRow(th'[t])
       /\ ~Giving(th[t])
  BY <1>1, <1>3, <1>6 DEF Unpinned, Twice, Latched, OnRow, Giving
<1>11. Pins(t)'
  BY <1>1, <1>2, <1>9, <1>10 DEF Own, Pins
<1>12. Places(t)'
  BY <1>1, <1>3, <1>6, <1>7, <1>9, <1>10 DEF Own, Places
<1>13. Appends(t)' /\ Latches(t)'
  BY <1>1, <1>2, <1>6, <1>8 DEF Appends, Latches
<1>14. Scans(t)'
  <2>1. \A m \in th[t].must : Visible(m)'
    BY <1>1, <1>9 DEF Own, Scans, Visible
  <2>2. Ahead(t) => Ahead(t)'
    BY <1>3, <1>6, <1>10 DEF Ahead
  <2> QED BY <1>1, <1>6, <2>1, <2>2 DEF Own, Scans
<1>15. Own(t)'
  BY <1>11, <1>12, <1>13, <1>14 DEF Own
<1>16. \A f \in Frame : \A u \in Thread \ {t} : /\ writer'[f] = u <=> writer[f] = u
                                                /\ u \in readers'[f] <=> u \in readers[f]
  BY <1>1, <1>8
<1> QED BY <1>1, <1>5, <1>8, <1>15, <1>16, PoolSame

\* The tuple is copied: the row has been given.
LEMMA CopyTupleKeeps ==
  ASSUME HInv, Relies, NEW t \in Thread, CopyTuple(t)
  PROVE  HInv'
<1> DEFINE then == IF th[t].inside THEN "leave" ELSE "fetch"
           W == Unpinning(t, FALSE, then)
           must == th[t].must \ {th[t].rid}
<1>1. /\ Running /\ th[t].pc = "copy" /\ th[t].op = "scan" /\ UNCHANGED vars
      /\ UNCHANGED <<writer, readers>> /\ Own(t) /\ th[t] \in ThreadState
  BY DEF CopyTuple, At, UnchangedPool, UnchangedLatches, HInv, HeapTypes
<1>2. /\ then \in {"leave", "fetch"} /\ (then = "leave" <=> th[t].inside)
      /\ W \in {Unpinning(t, TRUE, then), Unpinning(t, FALSE, then)}
  <2>1. th[t].inside \in BOOLEAN
    BY <1>1 DEF ThreadState
  <2>2. then \in {"leave", "fetch"} /\ (then = "leave" <=> th[t].inside)
    BY <2>1
  <2> QED BY <2>2
<1>3. th' = [W EXCEPT ![t].must = @ \ {th[t].rid}]
  BY DEF CopyTuple
<1> HIDE DEF then, W
<1>4. /\ W \in [Thread -> ThreadState] /\ \A u \in Thread \ {t} : W[u] = th[u]
      /\ W[t].pc = "unpin" /\ W[t].then = then
      /\ W[t].op = th[t].op /\ W[t].at = th[t].at /\ W[t].rid = th[t].rid
      /\ W[t].pinned = th[t].pinned /\ W[t].inside = th[t].inside
      /\ W[t].must = th[t].must /\ W[t].refused = th[t].refused
  <2>1. then \in {"idle", "fetch", "get", "wlatch", "rlatch", "leave"}
    BY <1>2
  <2>2. W \in {Unpinning(t, TRUE, then), Unpinning(t, FALSE, then)}
    BY <1>2, Zenon
  <2>3. ToUnpin(W, t, then)
    BY <2>1, <2>2, UnpinNext, Zenon
  <2> QED BY <2>3 DEF ToUnpin
<1>5. /\ th'[t] = [W[t] EXCEPT !.must = must] /\ W[t] \in ThreadState
      /\ \A u \in Thread \ {t} : th'[u] = th[u]
  BY <1>3, <1>4 DEF ThreadState
<1>6. /\ th'[t].pc = "unpin" /\ th'[t].then = then
      /\ th'[t].op = th[t].op /\ th'[t].at = th[t].at /\ th'[t].rid = th[t].rid
      /\ th'[t].pinned = th[t].pinned /\ th'[t].inside = th[t].inside
      /\ th'[t].must = must /\ th'[t].refused = th[t].refused
  BY <1>4, <1>5 DEF ThreadState
<1>7. HeapTypes'
  <2>1. must \in SUBSET Rid
    BY <1>1 DEF ThreadState
  <2>2. th'[t] \in ThreadState
    BY <1>5, <2>1 DEF ThreadState
  <2> QED BY <1>1, <1>3, <1>4, <2>2 DEF HInv, HeapTypes
<1>8. UNCHANGED <<pin, live, content>> /\ Cur(t)' = Cur(t) /\ Other(t)' = Other(t)
      /\ Page(t)' = Page(t) /\ PageFrame(t)' = PageFrame(t) /\ Linked' = Linked
  BY <1>1, <1>6 DEF vars, Cur, Other, Page, PageFrame, Linked
<1>9. /\ ~Unpinned(th'[t]) /\ ~Unpinned(th[t]) /\ (Twice(th'[t]) <=> Twice(th[t]))
      /\ (Latched(th'[t]) <=> th[t].inside) /\ ~OnRow(th'[t])
  BY <1>1, <1>2, <1>6 DEF Unpinned, Twice, Latched, OnRow
<1>10. Pins(t)'
  BY <1>1, <1>6, <1>8, <1>9, Zenon DEF Own, Pins
<1>11. Places(t)'
  BY <1>1, <1>2, <1>6, <1>8, <1>9, Zenon DEF Own, Places
<1>12. Appends(t)'
  BY <1>6 DEF Appends
<1>13. Latches(t)'
  BY <1>1, <1>6, <1>8, Zenon DEF Own, Latches, WritesAt
<1>14. Scans(t)'
  <2>1. \A m \in must : Visible(m)'
    BY <1>1, <1>8 DEF Own, Scans, Visible
  <2>2. Ahead(t) => Ahead(t)'
    BY <1>2, <1>6, Zenon DEF Ahead
  <2> QED BY <1>1, <1>6, <2>1, <2>2 DEF Own, Scans
<1>15. Own(t)'
  BY <1>10, <1>11, <1>12, <1>13, <1>14 DEF Own
<1> QED BY <1>1, <1>5, <1>7, <1>15, PoolSame
===============================================================================
