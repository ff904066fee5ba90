------------------------------ MODULE TableHeap ------------------------------
(* table/table_heap.cpp, table/table_iterator.cpp and                         *)
(* concurrency/transaction_manager.cpp: a chain of table pages, the write set *)
(* of the one transaction that works on it, and one scan.  The engine has one *)
(* transaction at a time (global_transaction_ of the virtual table) in one    *)
(* thread, so a method is one action.  The lock manager's methods are empty.  *)
(*                                                                            *)
(* A page is known by its place in the chain: a heap appends pages and never  *)
(* removes one.  The buffer pool keeps what is written to a page              *)
(* (BufferPoolManager), but may answer nullptr.                               *)
EXTENDS TablePage, FiniteSetsExt, Functions

CONSTANTS
  Tuple,          \* the tuples that are inserted: sequences of units
  MaxPages,       \* bound on the length of the chain
  MaxTxns,        \* bound on the number of transactions
  MaxWrites       \* bound on the length of a write set

ASSUME HeapAssumption ==
  /\ Tuple \subseteq Seq(Unit) \ {<<>>}
  /\ MaxPages \in Nat \ {0} /\ MaxTxns \in Nat /\ MaxWrites \in Nat

VARIABLES
  chain,          \* the pages from first_page_id_ on
  txn,            \* the transaction: its state, its write set, its client
  next_txn_id,    \* next_txn_id_: the transactions so far
  crashed,        \* an assert failed and ended the process
  before,         \* the rows that were there when the transaction began
  cursor,         \* the RID a TableIterator is at
  unseen          \* rows there since begin() that the iterator has not reached

vars == <<chain, txn, next_txn_id, crashed, before, cursor, unseen>>

NoTuple == <<>>
\* A slot is added only when all others hold a tuple of a unit or more.
MaxSlots == (PageSize - HeaderSize) \div (SlotSize + 1)
Rid == (1 .. MaxPages) \X (1 .. MaxSlots)
End == <<0, 0>>      \* RID(INVALID_PAGE_ID, -1)

IsVisible(ch, r) == r[1] \in DOMAIN ch /\ Visible(ch[r[1]], r[2])

\* What GetTuple() gives for every RID.
Rows(ch) ==
  [r \in Rid |-> IF IsVisible(ch, r) THEN GetTuple(ch[r[1]], r[2]) ELSE NoTuple]

\* The virtual table goes on after a call that failed and never aborts; other
\* clients heed the ABORTED state.
NoTxn == [state |-> "NONE", heeds |-> FALSE, write_set |-> <<>>]

\* The constructor that creates a table.
Init ==
  /\ chain = <<NewTablePage>>
  /\ txn = NoTxn
  /\ next_txn_id = 0
  /\ crashed = FALSE
  /\ before = Rows(chain)
  /\ cursor = End
  /\ unseen = {}
------------------------------------------------------------------------------
Running == ~crashed /\ txn # NoTxn

MayWrite ==
  /\ Running
  /\ Len(txn.write_set) < MaxWrites
  /\ txn.heeds => txn.state = "GROWING"

Fails == txn' = [txn EXCEPT !.state = "ABORTED"] /\ UNCHANGED <<chain, unseen>>

Logged(rid, wtype, tuple) ==
  [txn EXCEPT !.write_set = Append(@, [rid |-> rid, wtype |-> wtype, tuple |-> tuple])]

Begin(heeds) ==
  /\ ~crashed /\ txn = NoTxn /\ next_txn_id < MaxTxns
  /\ next_txn_id' = next_txn_id + 1
  /\ txn' = [state |-> "GROWING", heeds |-> heeds, write_set |-> <<>>]
  /\ before' = Rows(chain)
  /\ UNCHANGED <<chain, crashed, cursor, unseen>>

\* The pages InsertTuple() finds room on.
Roomy(tuple) == {k \in DOMAIN chain : Fits(chain[k], tuple)}

InsertOn(k, tuple) ==
  /\ chain' = [chain EXCEPT ![k] = InsertTuple(@, tuple)]
  /\ txn' = Logged(<<k, InsertSlot(chain[k])>>, "INSERT", NoTuple)

InsertOnNewPage(tuple) ==
  /\ chain' = Append(chain, InsertTuple(NewTablePage, tuple))
  /\ txn' = Logged(<<Len(chain) + 1, 1>>, "INSERT", NoTuple)

TooLarge(tuple) == Len(tuple) + HeaderSize + SlotSize > PageSize

\* The call fails if the tuple is larger than a page or the pool answers nullptr.
HeapInsertTuple(tuple) ==
  /\ MayWrite
  /\ \/ Fails
     \/ /\ ~TooLarge(tuple)
        /\ IF Roomy(tuple) # {} THEN InsertOn(Min(Roomy(tuple)), tuple)
           ELSE Len(chain) < MaxPages /\ InsertOnNewPage(tuple)
        /\ UNCHANGED unseen
  /\ UNCHANGED <<next_txn_id, crashed, before, cursor>>

\* A client deletes a row it found.
HeapMarkDelete(r) ==
  /\ MayWrite
  /\ IsVisible(chain, r)
  /\ \/ Fails
     \/ /\ chain' = [chain EXCEPT ![r[1]] = MarkDelete(@, r[2])]
        /\ txn' = Logged(r, "DELETE", NoTuple)
        /\ unseen' = unseen \ {r}
  /\ UNCHANGED <<next_txn_id, crashed, before, cursor>>

Marked(p) == {i \in DOMAIN p.slots : p.slots[i].size < 0}

\* The calls of UpdateTuple() that the promise of Table covers.  An update on a page
\* with a marked tuple does not move that tuple's offset, and the commit then removes
\* what lies at the old one.  A transaction that may abort does not shrink a tuple:
\* the slot of an insertion that is undone stays, and may keep the old tuple from
\* fitting again, which Abort() ignores.
MayUpdate(r, tuple) ==
  /\ Marked(chain[r[1]]) = {}
  /\ txn.heeds => Len(tuple) >= chain[r[1]].slots[r[2]].size

\* An update that is done in a transaction in state ABORTED is not logged.
HeapUpdateTuple(r, tuple) ==
  /\ MayWrite
  /\ IsVisible(chain, r)
  /\ MayUpdate(r, tuple)
  /\ LET page == chain[r[1]] IN
     \/ Fails /\ UNCHANGED crashed
     \/ ~CanUpdate(page, r[2], tuple) /\ UNCHANGED <<chain, txn, crashed, unseen>>
     \/ /\ CanUpdate(page, r[2], tuple) /\ ~OffsetIsValid(page, r[2])
        /\ crashed' = TRUE
        /\ UNCHANGED <<chain, txn, unseen>>
     \/ /\ CanUpdate(page, r[2], tuple) /\ OffsetIsValid(page, r[2])
        /\ chain' = [chain EXCEPT ![r[1]] = UpdateTuple(page, r[2], tuple)]
        /\ txn' = IF txn.state = "ABORTED" THEN txn
                  ELSE Logged(r, "UPDATE", GetTuple(page, r[2]))
        /\ UNCHANGED <<crashed, unseen>>
  /\ UNCHANGED <<next_txn_id, before, cursor>>
------------------------------------------------------------------------------
\* The methods that commit and abort call, on a heap that has not met a failed
\* assert.
HeapApplyDelete(h, r) ==
  LET page == h.chain[r[1]] IN
  IF ~h.ok \/ ~OffsetIsValid(page, r[2]) THEN [h EXCEPT !.ok = FALSE]
  ELSE [h EXCEPT !.chain = [@ EXCEPT ![r[1]] = ApplyDelete(page, r[2])]]

HeapRollbackDelete(h, r) ==
  LET page == h.chain[r[1]] IN
  [h EXCEPT !.chain = [@ EXCEPT ![r[1]] = RollbackDelete(page, r[2])]]

HeapUndoUpdate(h, r, tuple) ==
  LET page == h.chain[r[1]] IN
  IF ~h.ok \/ ~CanUpdate(page, r[2], tuple) THEN h
  ELSE IF ~OffsetIsValid(page, r[2]) THEN [h EXCEPT !.ok = FALSE]
  ELSE [h EXCEPT !.chain = [@ EXCEPT ![r[1]] = UpdateTuple(page, r[2], tuple)]]

CommitRecord(w, h) == IF w.wtype = "DELETE" THEN HeapApplyDelete(h, w.rid) ELSE h

AbortRecord(w, h) ==
  CASE w.wtype = "DELETE" -> HeapRollbackDelete(h, w.rid)
    [] w.wtype = "INSERT" -> HeapApplyDelete(h, w.rid)
    [] w.wtype = "UPDATE" -> HeapUndoUpdate(h, w.rid, w.tuple)

Heap == [chain |-> chain, ok |-> TRUE]

\* The write set is replayed from its end: the heap after m records.
Record(m) == txn.write_set[Len(txn.write_set) - m + 1]
Committed[m \in Nat] == IF m = 0 THEN Heap ELSE CommitRecord(Record(m), Committed[m - 1])
Undone[m \in Nat] == IF m = 0 THEN Heap ELSE AbortRecord(Record(m), Undone[m - 1])

EndAs(h) ==
  /\ IF h.ok
     THEN /\ chain' = h.chain /\ txn' = NoTxn
          /\ cursor' = End /\ unseen' = {}
          /\ UNCHANGED crashed
     ELSE crashed' = TRUE /\ UNCHANGED <<chain, txn, cursor, unseen>>
  /\ UNCHANGED <<next_txn_id, before>>

Commit == Running /\ EndAs(Committed[Len(txn.write_set)])
Abort == Running /\ txn.heeds /\ EndAs(Undone[Len(txn.write_set)])
------------------------------------------------------------------------------
VisibleFrom(k, i) == {j \in DOMAIN chain[k].slots : j >= i /\ Visible(chain[k], j)}

\* The virtual table's cursor scans, and closing it commits (VtabClose).
\* begin() looks for a row on the first page only.
ScanBegin ==
  /\ Running /\ ~txn.heeds /\ cursor = End
  /\ cursor' = IF VisibleFrom(1, 1) = {} THEN End ELSE <<1, Min(VisibleFrom(1, 1))>>
  /\ unseen' = {r \in Rid : IsVisible(chain, r)} \ {cursor'}
  /\ UNCHANGED <<chain, txn, next_txn_id, crashed, before>>

\* Mutant: the scan ends with its first page.
NoLaterPages(k) == {}

LaterPages(k) == {l \in DOMAIN chain : l > k /\ VisibleFrom(l, 1) # {}}

\* operator++: the next row on the page, or else the first on a later page.
ScanNext ==
  /\ Running /\ cursor # End
  /\ LET k == cursor[1]
         here == VisibleFrom(k, cursor[2] + 1)
     IN cursor' = IF here # {} THEN <<k, Min(here)>>
                  ELSE IF LaterPages(k) = {} THEN End
                  ELSE <<Min(LaterPages(k)), Min(VisibleFrom(Min(LaterPages(k)), 1))>>
  /\ unseen' = unseen \ {cursor'}
  /\ UNCHANGED <<chain, txn, next_txn_id, crashed, before>>

Next ==
  \/ \E heeds \in BOOLEAN : Begin(heeds)
  \/ \E t \in Tuple : HeapInsertTuple(t)
  \/ \E r \in Rid : HeapMarkDelete(r)
  \/ \E r \in Rid, t \in Tuple : HeapUpdateTuple(r, t)
  \/ Commit
  \/ Abort
  \/ ScanBegin
  \/ ScanNext

Spec == Init /\ [][Next]_vars
------------------------------------------------------------------------------
\* The types of the heap's variables.
TypeOK ==
  /\ chain \in Seq(Page) /\ Len(chain) \in 1 .. MaxPages
  /\ txn.state \in {"NONE", "GROWING", "ABORTED"}
  /\ \A w \in Range(txn.write_set) : w.rid \in Rid
  /\ crashed \in BOOLEAN
  /\ before \in [Rid -> Tuple \cup {NoTuple}]
  /\ cursor \in Rid \cup {End} /\ unseen \subseteq Rid

\* Insertions, updates, deletions, commits and aborts keep the layout of every
\* page: no tuple overlaps another, no space is lost between them, and the asserts
\* of table_page.cpp on offsets hold.
PagesLaidOut == TypeOK /\ ~crashed /\ \A k \in DOMAIN chain : LayoutOK(chain[k])

\* "tuple becomes visible again", "truly delete": a transaction sees its own
\* writes, a commit keeps them, an abort restores every row bit by bit.
Rows_ == INSTANCE Table WITH open <- txn # NoTxn, rows <- Rows(chain)
ImplementsTable == Rows_!Spec

\* A scan that started at a row has given, when it ends, every row that was
\* there all the time, whatever its own transaction did meanwhile.
ScanComplete == [][ScanNext /\ cursor' = End => unseen' = {}]_vars
==============================================================================
