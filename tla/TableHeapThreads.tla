--------------------------- MODULE TableHeapThreads ---------------------------
(* table/table_heap.cpp and table/table_iterator.cpp between threads, over the *)
(* buffer pool: every FetchPage(), NewPage() and UnpinPage() is a step, and so *)
(* is what a thread does to a page from WLatch() to WUnlatch().  A latch is    *)
(* RWMutex as its proofs allow to see it: a writer that has entered keeps      *)
(* readers out while it waits for those inside.  A page is reduced to its next *)
(* page id and its slots; it has room for a fixed number of tuples.  The model *)
(* ends when a null pointer is used or when the pool has lost a page.          *)
EXTENDS BufferPoolManager, FiniteSetsExt

CONSTANTS
  Thread,
  Slots,         \* the tuples that a page has room for
  Calls,         \* the methods that each thread calls
  MaxCalls,      \* bound: how many of them it calls
  None

Slot == 1 .. Slots
Rid == PageId \X Slot
End == <<INVALID_PAGE_ID, -1>>
first_page_id == 0

HeapPage == [next : PageId \cup {INVALID_PAGE_ID}, slots : [Slot -> {"free", "row", "marked"}]]
EmptyPage == [next |-> INVALID_PAGE_ID, slots |-> [i \in Slot |-> "free"]]

\* A thread has at most two pages pinned.  A page of zeros is none that was
\* initialized: its free space pointer is 0.
ASSUME ThreadsAssumption ==
  /\ Client = Thread \X {1, 2} /\ None \notin Thread
  /\ Data = HeapPage \cup {Zero} /\ Zero \notin HeapPage
  /\ Slots \in Nat \ {0} /\ MaxPages > 0 /\ MaxCalls \in Nat

VARIABLES
  writer,        \* per frame: the thread that has entered its latch for writing
  readers,       \* per frame: the threads that have it for reading
  th             \* the threads' own variables

heapVars == <<vars, writer, readers, th>>

Idle(n) == [pc |-> "idle", op |-> "none", at |-> first_page_id, rid |-> End, pinned |-> 1,
            flag |-> FALSE, then |-> "idle", inside |-> FALSE, must |-> {}, refused |-> FALSE,
            calls |-> n]

\* A table whose constructor has unpinned the first page.
HeapInit ==
  /\ pages = [f \in Frame |->
       IF f = 1 THEN [page_id |-> first_page_id, pin_count |-> 0, is_dirty |-> TRUE,
                      data |-> EmptyPage]
       ELSE [page_id |-> INVALID_PAGE_ID, pin_count |-> 0, is_dirty |-> FALSE, data |-> Zero]]
  /\ page_table = [p \in PageId |-> IF p = first_page_id THEN 1 ELSE NoFrame]
  /\ replacer = <<1>>
  /\ free_list = [i \in 1 .. PoolSize - 1 |-> i + 1]
  /\ disk = AllocatePage(Open(EmptyFile, 0))
  /\ aborted = FALSE
  /\ pin = [c \in Client |-> NoPin]
  /\ live = {first_page_id}
  /\ content = [p \in PageId |-> IF p = first_page_id THEN EmptyPage ELSE Zero]
  /\ writer = [f \in Frame |-> None]
  /\ readers = [f \in Frame |-> {}]
  /\ th = [t \in Thread |-> Idle(MaxCalls)]
-------------------------------------------------------------------------------
Running == ~aborted /\ ContentPreserved

At(t, op, pc) == Running /\ th[t].op \in op /\ th[t].pc = pc

\* The page that t works on, and the one it has pinned besides.
Cur(t) == <<t, th[t].pinned>>
Other(t) == <<t, 3 - th[t].pinned>>
Page(t) == pin[Cur(t)].page
PageFrame(t) == pin[Cur(t)].frame
View(t) == pages[PageFrame(t)].data

Visible(r) == content[r[1]] # Zero /\ content[r[1]].slots[r[2]] = "row"
VisibleFrom(page, i) == {j \in Slot : j >= i /\ page.slots[j] = "row"}

GoTo(t, pc) == th' = [th EXCEPT ![t].pc = pc]
Unpinning(t, flag, then) ==
  [th EXCEPT ![t].pc = "unpin", ![t].flag = flag, ![t].then = then]
Return(t) == th' = [th EXCEPT ![t] = Idle(th[t].calls)]
UnchangedPool == UNCHANGED vars
UnchangedLatches == UNCHANGED <<writer, readers>>

\* FetchPage() answers nullptr.
IsNull(p) == page_table[p] = NoFrame /\ victim = NoFrame

NullUsed ==
  /\ aborted' = TRUE
  /\ UNCHANGED <<pool, disk, pin, live, content, writer, readers, th>>

Fetch(t, c, p, pc) ==
  /\ ~IsNull(p) /\ FetchPage(c, p)
  /\ GoTo(t, pc) /\ UnchangedLatches

\* UnpinPage(); of two pins the other one is left.
UnpinStep(t) ==
  /\ Running /\ th[t].pc = "unpin"
  /\ Unpin(Cur(t), th[t].flag)
  /\ th' = IF th[t].then = "idle" THEN [th EXCEPT ![t] = Idle(th[t].calls)]
           ELSE [th EXCEPT ![t].pc = th[t].then,
                           ![t].pinned = IF pin[Other(t)] = NoPin THEN @ ELSE 3 - @]
  /\ UnchangedLatches

\* WLock() up to the wait for the readers, and the rest of it.
Enter(t) ==
  /\ Running /\ th[t].pc = "wlatch"
  /\ writer[PageFrame(t)] = None /\ readers[PageFrame(t)] # {}
  /\ writer' = [writer EXCEPT ![PageFrame(t)] = t]
  /\ UNCHANGED <<readers, th>> /\ UnchangedPool
CanWLatch(t) == writer[PageFrame(t)] \in {None, t} /\ readers[PageFrame(t)] = {}
CanRLatch(f) == writer[f] = None

\* Pages in frames get the contents new.
Store(new) ==
  /\ pages' = [f \in Frame |-> IF pages[f].page_id \in DOMAIN new
                               THEN [pages[f] EXCEPT !.data = new[pages[f].page_id]] ELSE pages[f]]
  /\ content' = [p \in PageId |-> IF p \in DOMAIN new THEN new[p] ELSE content[p]]
  /\ UNCHANGED <<page_table, replacer, free_list, disk, aborted, pin, live>>
-------------------------------------------------------------------------------
\* InsertTuple(), MarkDelete(): the pages that the call goes through.  A null pointer
\* for the first one is an answer, for a later one it is not tested.
Call(t, op, rid) ==
  /\ Running /\ th[t].pc = "idle" /\ th[t].calls > 0 /\ op \in Calls[t]
  /\ op = "delete" => Visible(rid)
  /\ th' = [th EXCEPT ![t] = [Idle(th[t].calls - 1) EXCEPT
              !.op = op, !.pc = "fetch", !.rid = rid,
              !.at = IF op = "delete" THEN rid[1] ELSE first_page_id]]
  /\ UnchangedPool /\ UnchangedLatches

FetchToWrite(t) ==
  LET p == th[t].at IN
  /\ At(t, {"insert", "delete"}, "fetch")
  /\ \/ Fetch(t, Cur(t), p, "wlatch")
     \/ /\ IsNull(p) /\ (th[t].op = "delete" \/ p = first_page_id)
        /\ Return(t) /\ UnchangedPool /\ UnchangedLatches
     \/ IsNull(p) /\ th[t].op = "insert" /\ p # first_page_id /\ NullUsed

Unlatched(t) == writer' = [writer EXCEPT ![PageFrame(t)] = None] /\ UNCHANGED readers

FreeSlots(page) == {i \in Slot : page.slots[i] = "free"}

\* Mutant: the page stays latched when the call goes on.
InsertKeepsLatch(t) ==
  LET page == View(t) IN
  /\ At(t, {"insert"}, "wlatch") /\ CanWLatch(t)
  /\ \/ /\ FreeSlots(page) # {}
        /\ Store([p \in {Page(t)} |-> [page EXCEPT !.slots[Min(FreeSlots(page))] = "row"]])
        /\ th' = Unpinning(t, TRUE, "idle") /\ Unlatched(t)
     \/ /\ FreeSlots(page) = {}
        /\ th' = IF page.next = INVALID_PAGE_ID THEN [th EXCEPT ![t].pc = "new"]
                 ELSE [Unpinning(t, FALSE, "fetch") EXCEPT ![t].at = page.next]
        /\ writer' = [writer EXCEPT ![PageFrame(t)] = t] /\ UNCHANGED readers
        /\ UnchangedPool

\* Mutant: the page is unlatched before the new page is made.
InsertLetsGo(t) ==
  LET page == View(t) IN
  /\ At(t, {"insert"}, "wlatch") /\ CanWLatch(t)
  /\ Unlatched(t)
  /\ \/ /\ FreeSlots(page) # {}
        /\ Store([p \in {Page(t)} |-> [page EXCEPT !.slots[Min(FreeSlots(page))] = "row"]])
        /\ th' = Unpinning(t, TRUE, "idle")
     \/ /\ FreeSlots(page) = {}
        /\ th' = IF page.next = INVALID_PAGE_ID THEN [th EXCEPT ![t].pc = "new"]
                 ELSE [Unpinning(t, FALSE, "fetch") EXCEPT ![t].at = page.next]
        /\ UnchangedPool

\* With the latch: the tuple goes to this page, or the call goes on to the next
\* page, or keeps the latch and asks for a new one.
InsertTuple(t) ==
  LET page == View(t) IN
  /\ At(t, {"insert"}, "wlatch") /\ CanWLatch(t)
  /\ \/ /\ FreeSlots(page) # {}
        /\ Store([p \in {Page(t)} |-> [page EXCEPT !.slots[Min(FreeSlots(page))] = "row"]])
        /\ th' = Unpinning(t, TRUE, "idle") /\ Unlatched(t)
     \/ /\ FreeSlots(page) = {} /\ page.next # INVALID_PAGE_ID
        /\ th' = [Unpinning(t, FALSE, "fetch") EXCEPT ![t].at = page.next]
        /\ Unlatched(t) /\ UnchangedPool
     \/ /\ FreeSlots(page) = {} /\ page.next = INVALID_PAGE_ID
        /\ GoTo(t, "new")
        /\ writer' = [writer EXCEPT ![PageFrame(t)] = t] /\ UNCHANGED readers
        /\ UnchangedPool

\* Mutant: a call that gets no new page leaves without UnpinPage().
NewTablePageKeepsPin(t) ==
  /\ At(t, {"insert"}, "new")
  /\ \/ victim # NoFrame /\ NewPage(Other(t)) /\ GoTo(t, "link") /\ UnchangedLatches
     \/ victim = NoFrame /\ Return(t) /\ Unlatched(t) /\ UnchangedPool

NewTablePage(t) ==
  /\ At(t, {"insert"}, "new")
  /\ \/ victim # NoFrame /\ NewPage(Other(t)) /\ GoTo(t, "link") /\ UnchangedLatches
     \/ /\ victim = NoFrame
        /\ th' = Unpinning(t, FALSE, "idle") /\ Unlatched(t) /\ UnchangedPool

\* The new page is latched, linked and initialized.
LinkPage(t) ==
  LET new == pin[Other(t)] IN
  /\ At(t, {"insert"}, "link")
  /\ Store([p \in {Page(t), new.page} |->
              IF p = Page(t) THEN [View(t) EXCEPT !.next = new.page] ELSE EmptyPage])
  /\ writer' = [writer EXCEPT ![PageFrame(t)] = None, ![new.frame] = t] /\ UNCHANGED readers
  /\ th' = Unpinning(t, TRUE, "wlatch")

MarkDelete(t) ==
  LET page == View(t)
      i == th[t].rid[2]
  IN
  /\ At(t, {"delete"}, "wlatch") /\ CanWLatch(t)
  /\ Store([p \in {Page(t)} |-> [page EXCEPT !.slots[i] = IF @ = "row" THEN "marked" ELSE @]])
  /\ th' = [u \in Thread |-> [Unpinning(t, TRUE, "idle")[u] EXCEPT !.must = @ \ {th[t].rid}]]
  /\ Unlatched(t)
-------------------------------------------------------------------------------
\* begin() and operator++.  What they fetch is used without a test.
FetchToScan(t) ==
  /\ At(t, {"scan"}, "fetch")
  /\ LET p == IF th[t].rid = End THEN first_page_id ELSE th[t].rid[1] IN
     \/ Fetch(t, Cur(t), p, IF th[t].rid = End THEN "begin" ELSE "rlatch")
     \/ IsNull(p) /\ NullUsed

Rows == {r \in Rid : Visible(r)}

ScanBegin(t) ==
  LET here == VisibleFrom(View(t), 1) IN
  /\ At(t, {"scan"}, "begin") /\ CanRLatch(PageFrame(t))
  /\ th' = IF here = {} THEN Unpinning(t, FALSE, "idle")
           ELSE [Unpinning(t, FALSE, "get") EXCEPT ![t].rid = <<Page(t), Min(here)>>,
                                                   ![t].must = Rows]
  /\ UnchangedPool /\ UnchangedLatches

\* Mutant: the slot number is not reset on a new page.
FromNextSlot(t) == th[t].rid[2] + 1

\* Where the search on t's page starts.
FromSlot(t) == IF th[t].rid[1] = Page(t) THEN th[t].rid[2] + 1 ELSE 1

\* RLatch() of a page, and the first row on it behind the current one.  The latch is
\* kept while the tuple is copied.
ScanPage(t) ==
  LET here == VisibleFrom(View(t), FromSlot(t))
      hop == here = {} /\ View(t).next # INVALID_PAGE_ID
  IN
  /\ At(t, {"scan"}, "rlatch") /\ CanRLatch(PageFrame(t))
  /\ readers' = [readers EXCEPT ![PageFrame(t)] = @ \cup {t}] /\ UNCHANGED writer
  /\ th' = [th EXCEPT ![t].inside = TRUE,
                      ![t].rid = IF here # {} THEN <<Page(t), Min(here)>> ELSE IF hop THEN @ ELSE End,
                      ![t].pc = IF here # {} THEN "get" ELSE IF hop THEN "hop" ELSE "leave"]
  /\ UnchangedPool

\* The next page is pinned before this one is let go, and latched afterwards.
ScanHop(t) ==
  /\ At(t, {"scan"}, "hop")
  /\ \/ /\ ~IsNull(View(t).next) /\ FetchPage(Other(t), View(t).next)
        /\ readers' = [readers EXCEPT ![PageFrame(t)] = @ \ {t}] /\ UNCHANGED writer
        /\ th' = [Unpinning(t, FALSE, "rlatch") EXCEPT ![t].inside = FALSE]
     \/ IsNull(View(t).next) /\ NullUsed

\* GetTuple() pins the page, again if operator++ has it, and latches it for reading.
\* The iterator does not look at its answer.
GetTuple(t) ==
  LET p == th[t].rid[1] IN
  /\ At(t, {"scan"}, "get")
  /\ \/ Fetch(t, IF th[t].inside THEN Other(t) ELSE Cur(t), p, "copy")
     \/ /\ IsNull(p)
        /\ th' = [th EXCEPT ![t].pc = "fetch", ![t].refused = TRUE]
        /\ UnchangedPool /\ UnchangedLatches

CopyTuple(t) ==
  /\ At(t, {"scan"}, "copy") /\ CanRLatch(PageFrame(t))
  /\ th' = [Unpinning(t, FALSE, IF th[t].inside THEN "leave" ELSE "fetch") EXCEPT
              ![t].must = @ \ {th[t].rid}]
  /\ UnchangedPool /\ UnchangedLatches

ScanLeave(t) ==
  /\ At(t, {"scan"}, "leave")
  /\ readers' = [readers EXCEPT ![PageFrame(t)] = @ \ {t}] /\ UNCHANGED writer
  /\ th' = [Unpinning(t, FALSE, IF th[t].rid = End THEN "idle" ELSE "fetch") EXCEPT
              ![t].inside = FALSE]
  /\ UnchangedPool

Step(t) ==
  \/ UnpinStep(t) \/ Enter(t)
  \/ FetchToWrite(t) \/ InsertTuple(t) \/ NewTablePage(t) \/ LinkPage(t) \/ MarkDelete(t)
  \/ FetchToScan(t) \/ ScanBegin(t) \/ ScanPage(t) \/ ScanHop(t) \/ ScanLeave(t)
  \/ GetTuple(t) \/ CopyTuple(t)

HeapNext ==
  \E t \in Thread :
    \/ Step(t)
    \/ \E r \in Rid : Call(t, "delete", r)
    \/ \E op \in {"insert", "scan"} : Call(t, op, End)

HeapSpec == HeapInit /\ [][HeapNext]_heapVars
-------------------------------------------------------------------------------
\* Following the next page ids from the first page meets every page once, whoever
\* appends pages at the same time; a page that was just made is its maker's.
ChainComplete ==
  LET made == {pin[Other(t)].page : t \in {u \in Thread : th[u].pc = "link"}}
  IN  \A p \in live \ (made \cup {first_page_id}) :
        Cardinality({q \in live : content[q] # Zero /\ content[q].next = p}) = 1

\* t cannot move before u does.
WaitsFor(t, u) ==
  LET f == PageFrame(t) IN
  \/ th[t].pc = "wlatch" /\ writer[f] \notin {None, t} /\ writer[f] = u
  \/ th[t].pc = "wlatch" /\ writer[f] = t /\ u \in readers[f]
  \/ th[t].pc \in {"begin", "rlatch", "copy"} /\ writer[f] = u

\* Threads that wait for one another are never all writers, nor scans that hold no
\* latch: in every cycle there is an operator++ that holds a page's latch and takes it
\* again to copy the tuple, after a writer has entered.
OnlyNestedLatchDeadlocks ==
  \A S \in (SUBSET Thread) \ {{}} :
    (\A t \in S : \E u \in S : WaitsFor(t, u))
      => \E t \in S : th[t].pc = "copy" /\ th[t].inside

\* A null pointer is used only when calls that have not returned have all frames
\* pinned and the table has more pages than the pool has frames.
NullExplained ==
  aborted => /\ Cardinality(live) > PoolSize
             /\ \A f \in Frame : \E c \in Client : pin[c].frame = f /\ th[c[1]].pc # "idle"

\* What was inserted, deleted and linked stays while the table fits into the pool,
\* although the calls that only look at a page unpin it as clean.
RowsStayInPool == Cardinality(live) <= PoolSize => ContentPreserved

\* A scan that started at a row and comes to the end has given every row that was
\* there all the time, whatever other threads did between its pages; unless the pool
\* had no frame for the first row, which is then given without its data.
ScanComplete ==
  [][\A t \in Thread : th[t].op = "scan" /\ th[t].pc = "rlatch" /\ th'[t].rid = End
       => th'[t].must = {} \/ th[t].refused]_heapVars
===============================================================================
