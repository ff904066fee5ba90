-------------------------- MODULE BufferPoolManager --------------------------
(* buffer/buffer_pool_manager.cpp over the disk manager and the replacer.     *)
(* Every method holds latch_ from its first line to its last, so a method is  *)
(* one action.  The page table is the map that ExtendibleHash implements.     *)
(*                                                                            *)
(* Clients are the callers' pins: a client holds at most one pin at a time,   *)
(* and a thread that holds several pages, or one page twice, is several       *)
(* clients.  A client works on the frame that the pool gave it, by its        *)
(* pointer, and never looks the page up again.                                *)
EXTENDS DiskManager, LRUList, FiniteSets

CONSTANTS
  PoolSize,      \* pool_size_
  Client,        \* pin holders
  UnpinFlags     \* the values clients that wrote nothing pass for is_dirty

ASSUME PoolAssumption ==
  /\ PoolSize \in Nat \ {0}
  /\ IsFiniteSet(Client)
  /\ TRUE \in UnpinFlags /\ UnpinFlags \subseteq BOOLEAN

VARIABLES
  pages,         \* pages_: the frames
  page_table,    \* page_table_: the frame of a page, NoFrame if not buffered
  replacer,      \* replacer_: the frames that may be evicted (module LRUList)
  free_list,     \* free_list_
  disk,          \* *disk_manager_ (module DiskManager)
  aborted,       \* an assert failed and ended the process
  pin,           \* what each client holds: page, frame, and whether it wrote
  live,          \* the pages NewPage handed out and nobody deleted
  content        \* what the last writer of a page left there

pool == <<pages, page_table, replacer, free_list>>
vars == <<pages, page_table, replacer, free_list, disk, aborted, pin, live, content>>

Frame == 1 .. PoolSize
NoFrame == 0

NoPin == [page |-> INVALID_PAGE_ID, frame |-> NoFrame, wrote |-> FALSE]

Init ==
  /\ pages = [f \in Frame |-> [page_id |-> INVALID_PAGE_ID, pin_count |-> 0,
                               is_dirty |-> FALSE, data |-> Zero]]
  /\ page_table = [p \in PageId |-> NoFrame]
  /\ replacer = <<>>
  /\ free_list = [i \in 1 .. PoolSize |-> i]
  /\ disk = Open(EmptyFile, 0)
  /\ aborted = FALSE
  /\ pin = [c \in Client |-> NoPin]
  /\ live = {}
  /\ content = [p \in PageId |-> Zero]
------------------------------------------------------------------------------
\* A client without a pin calls the pool.
MayCall(c) == ~aborted /\ pin[c] = NoPin

\* The frame GetVictimPage() returns: the free list goes first.
victim ==
  IF free_list # <<>> THEN Head(free_list)
  ELSE IF replacer # <<>> THEN Oldest(replacer) ELSE NoFrame

\* The two asserts of GetVictimPage().
VictimIsUnused ==
  /\ free_list # <<>> => pages[victim].page_id = INVALID_PAGE_ID
  /\ pages[victim].pin_count = 0

\* Mutant: a frame taken from the replacer stays in it.
TakeVictimKeepsReplacer ==
  /\ IF free_list # <<>> THEN free_list' = Tail(free_list) ELSE UNCHANGED free_list
  /\ UNCHANGED replacer

TakeVictim ==
  IF free_list # <<>>
  THEN free_list' = Tail(free_list) /\ UNCHANGED replacer
  ELSE replacer' = WithoutOldest(replacer) /\ UNCHANGED free_list

\* Mutant: a dirty victim is not saved.
NotWrittenBack(f) == disk

\* The disk after the victim's content has been saved, if it is dirty.
WrittenBack(f) ==
  IF pages[f].is_dirty THEN WritePage(disk, pages[f].page_id, pages[f].data)
  ELSE disk

\* Mutant: the page that comes into the frame is not entered.
RemappedForgets(f, p) ==
  [q \in PageId |-> IF q = pages[f].page_id THEN NoFrame ELSE page_table[q]]

\* The page table when frame f changes from the page it holds to page p.
\* Remove() of the INVALID_PAGE_ID of an unused frame finds nothing.
Remapped(f, p) ==
  [q \in PageId |-> IF q = p THEN f
                    ELSE IF q = pages[f].page_id THEN NoFrame
                    ELSE page_table[q]]

\* Frame f now holds page p, pinned once, and client c has its address.
Occupy(c, f, p, data) ==
  /\ pages' = [pages EXCEPT ![f] = [page_id |-> p, pin_count |-> 1,
                                    is_dirty |-> FALSE, data |-> data]]
  /\ page_table' = Remapped(f, p)
  /\ pin' = [pin EXCEPT ![c] = [page |-> p, frame |-> f, wrote |-> FALSE]]

\* A failed assert ends the process: nothing changes after it.
Abort == aborted' = TRUE /\ UNCHANGED <<pool, disk, pin, live, content>>
------------------------------------------------------------------------------
\* Mutant: a hit does not count the new pin.
FetchHitNoPin(c, p) ==
  LET f == page_table[p] IN
  /\ replacer' = Erased(replacer, f)
  /\ pin' = [pin EXCEPT ![c] = [page |-> p, frame |-> f, wrote |-> FALSE]]
  /\ UNCHANGED <<pages, page_table, free_list, disk, aborted, live, content>>

FetchHit(c, p) ==
  LET f == page_table[p] IN
  /\ pages' = [pages EXCEPT ![f].pin_count = @ + 1]
  /\ replacer' = Erased(replacer, f)
  /\ pin' = [pin EXCEPT ![c] = [page |-> p, frame |-> f, wrote |-> FALSE]]
  /\ UNCHANGED <<page_table, free_list, disk, aborted, live, content>>

FetchMiss(c, p) ==
  LET read == ReadPage(WrittenBack(victim), p, pages[victim].data) IN
  /\ TakeVictim
  /\ Occupy(c, victim, p, read.data)
  /\ disk' = read.disk
  /\ UNCHANGED <<aborted, live, content>>

\* With every frame pinned the answer is nullptr and nothing changes.
FetchPage(c, p) ==
  /\ MayCall(c)
  /\ p \in live
  /\ \/ page_table[p] # NoFrame /\ FetchHit(c, p)
     \/ page_table[p] = NoFrame /\ victim = NoFrame /\ UNCHANGED vars
     \/ page_table[p] = NoFrame /\ victim # NoFrame /\ VictimIsUnused /\ FetchMiss(c, p)
     \/ page_table[p] = NoFrame /\ victim # NoFrame /\ ~VictimIsUnused /\ Abort

\* The bound MaxPages stops the allocation of page ids.
NewPage(c) ==
  /\ MayCall(c)
  /\ disk.next < MaxPages
  /\ \/ victim = NoFrame /\ UNCHANGED vars
     \/ victim # NoFrame /\ ~VictimIsUnused /\ Abort
     \/ /\ victim # NoFrame
        /\ VictimIsUnused
        /\ TakeVictim
        /\ Occupy(c, victim, disk.next, Zero)
        /\ disk' = AllocatePage(WrittenBack(victim))
        /\ live' = live \cup {disk.next}
        /\ content' = [content EXCEPT ![disk.next] = Zero]
        /\ UNCHANGED aborted

\* Mutant: the last unpin does not make the frame evictable.
UnpinForgetsReplacer(p, is_dirty) ==
  LET f == page_table[p] IN
  /\ UNCHANGED replacer
  /\ IF f = NoFrame \/ pages[f].pin_count <= 0 THEN UNCHANGED pages
     ELSE pages' = [pages EXCEPT ![f].is_dirty = is_dirty, ![f].pin_count = @ - 1]

\* What UnpinPage() does to the frames.  The flag is overwritten before the
\* pin count is looked at; the answer is false if p has no frame or no pin.
UnpinPage(p, is_dirty) ==
  LET f == page_table[p] IN
  IF f = NoFrame THEN UNCHANGED <<pages, replacer>>
  ELSE IF pages[f].pin_count <= 0
  THEN pages' = [pages EXCEPT ![f].is_dirty = is_dirty] /\ UNCHANGED replacer
  ELSE /\ pages' = [pages EXCEPT ![f].is_dirty = is_dirty, ![f].pin_count = @ - 1]
       /\ replacer' = IF pages[f].pin_count = 1 THEN Inserted(replacer, f) ELSE replacer

\* A client gives its pin back, and says so if it wrote.
Unpin(c, is_dirty) ==
  /\ ~aborted
  /\ pin[c] # NoPin
  /\ pin[c].wrote => is_dirty
  /\ UnpinPage(pin[c].page, is_dirty)
  /\ pin' = [pin EXCEPT ![c] = NoPin]
  /\ UNCHANGED <<page_table, free_list, disk, aborted, live, content>>

\* A call for a page that nobody has pinned, which the method answers with false.
StrayUnpin(p, is_dirty) ==
  /\ ~aborted
  /\ p \in live
  /\ \A c \in Client : pin[c].page # p
  /\ UnpinPage(p, is_dirty)
  /\ UNCHANGED <<page_table, free_list, disk, aborted, pin, live, content>>

\* FlushPage() keeps the frame and its pins.
FlushPage(p) ==
  LET f == page_table[p] IN
  /\ ~aborted
  /\ p \in live
  /\ IF f # NoFrame /\ pages[f].page_id # INVALID_PAGE_ID /\ pages[f].is_dirty
     THEN /\ disk' = WritePage(disk, p, pages[f].data)
          /\ pages' = [pages EXCEPT ![f].is_dirty = FALSE]
     ELSE UNCHANGED <<disk, pages>>
  /\ UNCHANGED <<page_table, replacer, free_list, aborted, pin, live, content>>

\* DeletePage() keeps page_id_ in the frame it frees.  DeallocatePage() is empty.
DeletePage(p) ==
  LET f == page_table[p] IN
  /\ ~aborted
  /\ p \in live
  /\ IF f # NoFrame /\ pages[f].pin_count > 0
     THEN UNCHANGED <<pool, live>>
     ELSE /\ live' = live \ {p}
          /\ IF f = NoFrame THEN UNCHANGED pool
             ELSE /\ replacer' = Erased(replacer, f)
                  /\ page_table' = [page_table EXCEPT ![p] = NoFrame]
                  /\ pages' = [pages EXCEPT ![f].is_dirty = FALSE, ![f].data = Zero]
                  /\ free_list' = Append(free_list, f)
  /\ UNCHANGED <<disk, aborted, pin, content>>

\* A client writes through the pointer it was given.
Write(c, data) ==
  /\ ~aborted
  /\ pin[c] # NoPin
  /\ pages' = [pages EXCEPT ![pin[c].frame].data = data]
  /\ pin' = [pin EXCEPT ![c].wrote = TRUE]
  /\ content' = [content EXCEPT ![pin[c].page] = data]
  /\ UNCHANGED <<page_table, replacer, free_list, disk, aborted, live>>

Next ==
  \/ \E c \in Client : NewPage(c)
  \/ \E c \in Client, p \in PageId : FetchPage(c, p)
  \/ \E c \in Client, d \in UnpinFlags : Unpin(c, d)
  \/ \E p \in PageId, d \in UnpinFlags : StrayUnpin(p, d)
  \/ \E p \in PageId : FlushPage(p)
  \/ \E p \in PageId : DeletePage(p)
  \/ \E c \in Client, data \in Data \ {Zero} : Write(c, data)

Spec == Init /\ [][Next]_vars
------------------------------------------------------------------------------
FrameState == [page_id : PageId \cup {INVALID_PAGE_ID}, pin_count : Nat,
               is_dirty : BOOLEAN, data : Data]
PinState == [page : PageId \cup {INVALID_PAGE_ID}, frame : Frame \cup {NoFrame},
             wrote : BOOLEAN]

\* The types of the pool's variables: a frame is always one of the pool's, the
\* file never grows past the pages that were allocated.
TypeOK ==
  /\ pages \in [Frame -> FrameState]
  /\ page_table \in [PageId -> Frame \cup {NoFrame}]
  /\ replacer \in Seq(Frame)
  /\ free_list \in Seq(Frame)
  /\ disk \in Disk
  /\ disk.size <= disk.next
  /\ aborted \in BOOLEAN
  /\ pin \in [Client -> PinState]
  /\ live \in SUBSET (0 .. disk.next - 1)
  /\ content \in [PageId -> Data]

Mapped(f) == \E p \in PageId : page_table[p] = f

\* Every frame is in exactly one place: free, evictable, or pinned; and the page
\* table names for each page the one frame that holds it.  No sequence of
\* fetches, unpins, flushes and deletes leaks a frame or lists one twice.
FrameAccounting ==
  /\ IsInjective(free_list)
  /\ IsInjective(replacer)
  /\ \A f \in Frame : f \in Range(free_list) <=> ~Mapped(f)
  /\ \A f \in Frame : f \in Range(replacer) <=> Mapped(f) /\ pages[f].pin_count = 0
  /\ \A p \in PageId : page_table[p] # NoFrame => pages[page_table[p]].page_id = p

Holders(p) == {c \in Client : pin[c].page = p}

\* A pinned page stays where it is: the frame a client was given holds the
\* client's page until the client unpins it, and a frame's pin count is the
\* number of clients that hold its page, however the calls interleave.
PinnedPagesStay ==
  /\ \A c \in Client : pin[c] # NoPin => page_table[pin[c].page] = pin[c].frame
                                       /\ pin[c].frame # NoFrame
  /\ \A p \in PageId : page_table[p] # NoFrame =>
       pages[page_table[p]].pin_count = Cardinality(Holders(p))

\* "return nullptr if all the pages in pool are pinned": GetVictimPage() finds
\* no frame only when each frame is pinned by some client.
NullOnlyWhenAllPinned ==
  victim = NoFrame => \A f \in Frame : \E c \in Client : pin[c].frame = f

\* The content of a live page is in its frame, or in the file where a fetch
\* will find it: eviction, flushing and refetching lose nothing.  It holds as
\* long as clients pass is_dirty = true (UnpinFlags = {TRUE}).
ContentPreserved ==
  \A p \in live :
    IF page_table[p] # NoFrame THEN pages[page_table[p]].data = content[p]
    ELSE ~disk.failed /\ p < disk.size /\ disk.file[p] = content[p]

\* The file has the content of p.
Durable(p) == p < disk.size /\ disk.file[p] = content[p]

\* The content of p is in the file, or in a frame that will not be reused
\* before it has been written there.
Safe(p) ==
  LET f == page_table[p] IN
  /\ ~disk.failed
  /\ IF f = NoFrame THEN Durable(p)
     ELSE /\ pages[f].data = content[p]
          /\ pages[f].is_dirty \/ pages[f].pin_count > 0 \/ Durable(p)

\* UnpinPage(p, false), by a client that wrote nothing or by one without a pin.
CleanUnpin(p) ==
  \/ \E c \in Client : pin[c].page = p /\ Unpin(c, FALSE)
  \/ StrayUnpin(p, FALSE)

\* The stream fails over a page whose content had been lost before.
FailedRead == disk'.failed /\ \E p \in live : ~Safe(p)

\* "If the entry chosen for replacement is dirty, write it back to disk": what a
\* client wrote is lost only when another client unpins the page as clean, since
\* UnpinPage() overwrites the flag, and when the refetch of a page lost in this
\* way has failed the stream.  Evicting, flushing, deleting and refetching other
\* pages never lose it.
OnlyCleanUnpinsLose ==
  [][\A p \in live \cap live' : Safe(p) /\ ~Safe(p)' => CleanUnpin(p) \/ FailedRead]_vars

\* What the invariants need besides each other: only frames that hold a page
\* are dirty, only allocated pages are buffered, and a pin names a page.
Aux ==
  /\ \A f \in Frame : pages[f].is_dirty => Mapped(f)
  /\ \A p \in PageId : page_table[p] # NoFrame => p < disk.next
  /\ \A c \in Client : pin[c] # NoPin => pin[c].page \in PageId

\* The invariant that every step keeps.
IInv == TypeOK /\ FrameAccounting /\ PinnedPagesStay /\ Aux
==============================================================================
