---------------------------- MODULE StorageEngine ----------------------------
(* vtable/virtual_table.{h,cpp}: the extension is loaded into sqlite, makes a *)
(* disk manager and a buffer pool over the file vtable.db, and takes them     *)
(* down again.  A session is what lies between; the file is what is left of   *)
(* it.  The pool's operations are those of BufferPoolManager.                 *)
EXTENDS BufferPoolManager

CONSTANTS
  MaxLoads           \* bound on the number of sessions

VARIABLES
  loaded,            \* storage_engine_ exists
  loads              \* the sessions so far; the file exists after the first load

allVars == <<vars, loaded, loads>>

HEADER_PAGE_ID == 0

StartUp ==
  /\ Init
  /\ loaded = FALSE
  /\ loads = 0

\* A pool as its constructor leaves it.
EmptyPool ==
  /\ pages' = [f \in Frame |-> [page_id |-> INVALID_PAGE_ID, pin_count |-> 0,
                                is_dirty |-> FALSE, data |-> Zero]]
  /\ page_table' = [p \in PageId |-> NoFrame]
  /\ replacer' = <<>>
  /\ free_list' = [i \in 1 .. PoolSize |-> i]

\* The same pool after NewPage() has put the header page into its first frame,
\* and UnpinPage(HEADER_PAGE_ID, true).
HeaderPool ==
  /\ pages' = [f \in Frame |-> [page_id   |-> IF f = 1 THEN HEADER_PAGE_ID ELSE INVALID_PAGE_ID,
                                pin_count |-> 0, is_dirty |-> (f = 1), data |-> Zero]]
  /\ page_table' = [p \in PageId |-> IF p = HEADER_PAGE_ID THEN 1 ELSE NoFrame]
  /\ replacer' = <<1>>
  /\ free_list' = [i \in 1 .. PoolSize - 1 |-> i + 1]

\* Mutant: the file is opened with trunc although it exists.
ReopenedEmpty == Open(EmptyFile, 0)

Reopened == Open(disk.file, disk.size)

\* sqlite3_vtable_init(): the header page is made only if there is no file yet.
Load ==
  /\ ~loaded /\ loads < MaxLoads
  /\ loaded' = TRUE /\ loads' = loads + 1
  /\ IF loads = 0
     THEN HeaderPool /\ disk' = AllocatePage(Reopened) /\ live' = {HEADER_PAGE_ID}
     ELSE EmptyPool /\ disk' = Reopened /\ UNCHANGED live
  /\ UNCHANGED <<aborted, pin, content>>

\* VtabDisconnect() and ~StorageEngine(): the pool is dropped as it is, dirty
\* pages too.
Exit ==
  /\ loaded /\ ~aborted
  /\ \A c \in Client : pin[c] = NoPin
  /\ loaded' = FALSE
  /\ EmptyPool
  /\ UNCHANGED <<disk, aborted, pin, live, content, loads>>

\* What happens in a session.
Work ==
  /\ loaded
  /\ \/ \E c \in Client : NewPage(c)
     \/ \E c \in Client, p \in PageId : FetchPage(c, p)
     \/ \E c \in Client, d \in UnpinFlags : Unpin(c, d)
     \/ \E p \in PageId, d \in UnpinFlags : StrayUnpin(p, d)
     \/ \E p \in PageId : FlushPage(p)
     \/ \E p \in PageId \ {HEADER_PAGE_ID} : DeletePage(p)
     \/ \E c \in Client, data \in Data \ {Zero} : Write(c, data)
  /\ UNCHANGED <<loaded, loads>>

Step == Load \/ Exit \/ Work

Sessions == StartUp /\ [][Step]_allVars
------------------------------------------------------------------------------
\* The session ends while the pool holds p's last content.
LeftDirty(p) == Exit /\ ~Durable(p)

\* A later session counts page ids from 0 again and has come past p.
HandedOutAgain(p) == loads > 1 /\ p < disk'.next

\* Over several sessions the content of a page is lost in four ways only:
\* unpinned as clean, left behind in the pool by a host that did not flush,
\* its id handed out again after a restart, or the stream failed by the refetch
\* of a page lost before.
LossesExplained ==
  [][\A p \in live \cap live' : Safe(p) /\ ~Safe(p)' =>
       CleanUnpin(p) \/ LeftDirty(p) \/ HandedOutAgain(p) \/ FailedRead]_allVars
==============================================================================
