----------------------------- MODULE VirtualTable -----------------------------
(* vtable/virtual_table.{h,cpp}: one table and its index behind sqlite's       *)
(* virtual table interface.  The callbacks work on the heap, on the index, on  *)
(* the header page and on the one global transaction; sqlite calls them for    *)
(* statements that overlap.  The heap is used as Table promises it, the index  *)
(* as OrderedMap does, and the header page by its operators.                   *)
EXTENDS HeaderPage, FiniteSetsExt

CONSTANTS
  Value,          \* the values of a column; a row has two columns
  KeyAttrs,       \* the indexed columns, in the index's order
  Large,          \* the rows that are larger than a page
  Pages, Slots,   \* the heap has room for Pages * Slots rows
  Stmt,           \* sqlite's statements
  Writer,         \* the one that writes, for sqlite runs one of them at a time
  Wheres,         \* each statement's WHERE clauses: sequences of constraints
  MaxUpdates,     \* bound on the calls of VtabUpdate()
  MaxFilters,     \* bound on the number of scans of a cursor
  MaxSessions,    \* bound on the number of connections
  None

Row == [1 .. 2 -> Value]
Key == [DOMAIN KeyAttrs -> Value]
Rid == (1 .. Pages) \X (1 .. Slots)
InvalidRid == <<0, 0>>       \* RID(), and TableHeap::end()
INVALID_PAGE_ID == -1
RootPageId == 1              \* the index's root page, whichever it is
TableName == "foo"
IndexName == "foo_pk"

ASSUME TableAssumption ==
  /\ Large \subseteq Row /\ {Pages, Slots} \subseteq Nat \ {0}
  /\ KeyAttrs \in Seq(1 .. 2) /\ {MaxUpdates, MaxFilters, MaxSessions} \subseteq Nat
  /\ Writer \in Stmt

ASSUME NoneAssumption ==
  None \notin Row /\ None \notin Rid \cup {InvalidRid} /\ None \notin [deletes : SUBSET Rid]

VARIABLES
  rows,          \* the row at each RID, None where there is none
  marked,        \* the RIDs of rows that are marked as deleted
  index,         \* [map, header]: its entries, the header page
  txn,           \* global_transaction_: its DELETE records, or None
  cursors,       \* each statement's cursor, or None
  sql,           \* sqlite: connected, sessions, an explicit transaction, the table's
                 \* place in aVTrans, and what the Writer is doing
  crashed,       \* why the process ended
  past           \* what has happened: updates, keys of refused rows, an index that
                 \* lacks rows or was emptied, a cursor closed in sqlite's transaction

vars == <<rows, marked, index, txn, cursors, sql, crashed, past>>

KeyOf(row) == [i \in DOMAIN KeyAttrs |-> row[KeyAttrs[i]]]
Visible(r) == r \in Rid /\ rows[r] # None /\ r \notin marked
Indexed(ix) == {k \in Key : ix.map[k] # None}

Init ==
  /\ rows = [r \in Rid |-> None]
  /\ marked = {}
  /\ index = [map |-> [k \in Key |-> None], header |-> <<>>]
  /\ txn = None
  /\ cursors = [s \in Stmt |-> None]
  /\ sql = [connected |-> FALSE, sessions |-> 0, explicit |-> FALSE, joined |-> FALSE,
            writes |-> "no"]
  /\ crashed = "no"
  /\ past = [updates |-> 0, refused |-> {}, spoiled |-> FALSE, emptied |-> FALSE,
             closed |-> FALSE]
------------------------------------------------------------------------------
\* The index.  Insert() starts a tree if there is none and refuses a key that is
\* there; Remove() may empty the tree.  The header page is told of the new root, and
\* again when a split or a merge moves it.
Told(header, moves) == IF moves THEN UpdateRecord(header, IndexName, RootPageId) ELSE header

\* Mutant: the header page is not told of a new tree.
InsertUntold(ix, key, rid, moves) ==
  IF ix.map[key] # None THEN ix ELSE [ix EXCEPT !.map[key] = rid]

InsertEntry(ix, key, rid, moves) ==
  IF ix.map[key] # None THEN ix
  ELSE [map    |-> [ix.map EXCEPT ![key] = rid],
        header |-> IF Indexed(ix) = {} THEN InsertRecord(ix.header, IndexName, RootPageId)
                   ELSE Told(ix.header, moves)]

\* Mutant: the entry stays.
KeepEntry(ix, key, moves) == ix

DeleteEntry(ix, key, moves) ==
  IF ix.map[key] = None THEN ix
  ELSE [map    |-> [ix.map EXCEPT ![key] = None],
        header |-> IF Indexed(ix) = {key}
                   THEN UpdateRecord(ix.header, IndexName, INVALID_PAGE_ID)
                   ELSE Told(ix.header, moves)]

\* What GetValue() leaves in a cursor's results: one entry if there is a tree,
\* even if it has no such key.
ScanKey(results, key) ==
  IF Indexed(index) = {} THEN results
  ELSE <<IF index.map[key] = None THEN InvalidRid ELSE index.map[key]>>
------------------------------------------------------------------------------
\* Scans: begin() looks on the first page only, operator++ on all that follow.
SlotsFrom(p, i) == {j \in i .. Slots : Visible(<<p, j>>)}
PagesFrom(p) == {q \in p .. Pages : SlotsFrom(q, 1) # {}}
FirstOf(ps) == IF ps = {} THEN InvalidRid ELSE <<Min(ps), Min(SlotsFrom(Min(ps), 1))>>
ScanBegin == FirstOf(PagesFrom(1) \cap {1})
ScanNext(r) ==
  IF SlotsFrom(r[1], r[2] + 1) # {} THEN <<r[1], Min(SlotsFrom(r[1], r[2] + 1))>>
  ELSE FirstOf(PagesFrom(r[1] + 1))

\* A constraint: a column, whether the operator is "=", and a value.  All of them are
\* usable, for they compare with constants.
Holds(row, c) == IF c.eq THEN row[c.column] = c.value ELSE row[c.column] # c.value
Matches(row, where) == \A i \in DOMAIN where : Holds(row, where[i])

\* Mutant: any operator will do.
IsIndexedScan(where) ==
  /\ Len(where) = Len(KeyAttrs)
  /\ \A i \in DOMAIN where : \E j \in DOMAIN KeyAttrs : KeyAttrs[j] = where[i].column

\* VtabBestIndex(): an index scan needs as many constraints as indexed columns,
\* each an equality on an indexed column.
IsIndexScan(where) ==
  /\ Len(where) = Len(KeyAttrs)
  /\ \A i \in DOMAIN where :
       /\ where[i].eq
       /\ \E j \in DOMAIN KeyAttrs : KeyAttrs[j] = where[i].column

\* argvIndex is the place of the constraint, so that is where its value goes.
Argv(where) == [i \in DOMAIN where |-> where[i].value]
------------------------------------------------------------------------------
Running == sql.connected /\ crashed = "no"

\* While a statement writes, sqlite makes no call for another one.
MayCall(s) == Running /\ (s = Writer <=> sql.writes # "no")

Crashes(why) ==
  /\ crashed' = why
  /\ UNCHANGED <<rows, marked, index, txn, cursors, sql, past>>

\* A row was written: what a reader goes on to be given is not looked at.
Disturbed ==
  [s \in Stmt |-> IF cursors[s] = None \/ s = Writer THEN cursors[s]
                  ELSE [cursors[s] EXCEPT !.clean = FALSE, !.given = {}]]

Begun == [deletes |-> {}]

\* Mutant: nothing is truly deleted.
CommitForgets == txn' = None /\ UNCHANGED <<rows, marked>>

\* TransactionManager::Commit() carries out the deletions, if there is a transaction.
VtabCommit ==
  /\ txn' = None
  /\ rows' = [r \in Rid |-> IF txn # None /\ r \in txn.deletes THEN None ELSE rows[r]]
  /\ marked' = IF txn = None THEN marked ELSE marked \ txn.deletes

\* Mutant: no transaction is made.
NoBegin(kind) ==
  /\ Running /\ sql.writes = "no"
  /\ sql' = [sql EXCEPT !.writes = kind, !.joined = TRUE]
  /\ UNCHANGED <<rows, marked, index, txn, cursors, crashed, past>>

\* sqlite starts a statement that writes, with VtabBegin() unless the table takes
\* part in sqlite's transaction already.  A transaction that is there is replaced.
VtabBegin(kind) ==
  /\ Running /\ sql.writes = "no"
  /\ sql' = [sql EXCEPT !.writes = kind, !.joined = TRUE]
  /\ txn' = IF sql.joined THEN txn ELSE Begun
  /\ UNCHANGED <<rows, marked, index, cursors, crashed, past>>

\* The statement is over: outside an explicit transaction sqlite commits.
EndWrite ==
  /\ Running /\ sql.writes \in {"insert", "done"}
  /\ sql' = [sql EXCEPT !.writes = "no", !.joined = sql.explicit]
  /\ IF sql.explicit THEN UNCHANGED <<txn, rows, marked>> ELSE VtabCommit
  /\ UNCHANGED <<index, cursors, crashed, past>>

\* BEGIN, COMMIT and ROLLBACK.  There is no xRollback.
SqlBegin ==
  /\ Running /\ sql.writes = "no" /\ ~sql.explicit
  /\ sql' = [sql EXCEPT !.explicit = TRUE]
  /\ past' = [past EXCEPT !.closed = FALSE]
  /\ UNCHANGED <<rows, marked, index, txn, cursors, crashed>>

SqlEnd(commits) ==
  /\ Running /\ sql.writes = "no" /\ sql.explicit
  /\ sql' = [sql EXCEPT !.explicit = FALSE, !.joined = FALSE]
  /\ IF commits /\ sql.joined THEN VtabCommit ELSE UNCHANGED <<txn, rows, marked>>
  /\ UNCHANGED <<index, cursors, crashed, past>>
------------------------------------------------------------------------------
\* VtabOpen(): the cursor's iterator is made here, and a transaction if there is none.
VtabOpen(s, where) ==
  /\ MayCall(s) /\ cursors[s] = None
  /\ sql.writes \in {"no", "delete", "update"}
  /\ txn' = IF txn = None THEN Begun ELSE txn
  /\ cursors' = [cursors EXCEPT ![s] =
       [where |-> where, iter |-> ScanBegin, results |-> <<>>, offset |-> 0,
        is_index_scan |-> FALSE, filters |-> 0, given |-> {}, clean |-> TRUE]]
  /\ UNCHANGED <<rows, marked, index, sql, crashed, past>>

IsEof(c) == IF c.is_index_scan THEN c.offset = Len(c.results) ELSE c.iter = InvalidRid
GetCurrentRid(c) == IF c.is_index_scan THEN c.results[c.offset + 1] ELSE c.iter

\* VtabFilter(), the second time for the next row of an outer loop: neither the
\* iterator nor the offset goes back.
Filtered(c) ==
  IF IsIndexScan(c.where)
  THEN [c EXCEPT !.is_index_scan = TRUE, !.results = ScanKey(@, Argv(c.where)),
                 !.filters = @ + 1, !.given = {}]
  ELSE [c EXCEPT !.filters = @ + 1, !.given = {}]

VtabFilter(s) ==
  /\ MayCall(s) /\ cursors[s] # None
  /\ \/ cursors[s].filters = 0
     \/ s # Writer /\ cursors[s].filters \in 1 .. MaxFilters - 1 /\ IsEof(cursors[s])
  /\ cursors' = [cursors EXCEPT ![s] = Filtered(cursors[s])]
  /\ UNCHANGED <<rows, marked, index, txn, sql, crashed, past>>

Advanced(c) ==
  IF c.is_index_scan THEN [c EXCEPT !.offset = @ + 1] ELSE [c EXCEPT !.iter = ScanNext(@)]

\* sqlite reads the row (VtabColumn(), VtabRowid()), tests it against the WHERE
\* clause and calls VtabNext().  A tuple that GetTuple() did not find has no data:
\* the process ends, or sqlite sees a row that does not match.
VtabNext(s) ==
  /\ MayCall(s) /\ cursors[s] # None /\ cursors[s].filters > 0 /\ ~IsEof(cursors[s])
  /\ LET c == cursors[s]
         r == GetCurrentRid(c)
         missing == c.is_index_scan /\ ~Visible(r)
         matches == c.clean /\ Visible(r) /\ Matches(rows[r], c.where)
         given == IF matches THEN c.given \cup {r} ELSE c.given
     IN  \/ missing /\ Crashes("bad tuple")
         \/ /\ cursors' = [cursors EXCEPT ![s] = [Advanced(c) EXCEPT !.given = given]]
            /\ UNCHANGED <<rows, marked, index, txn, sql, crashed, past>>

\* VtabClose() commits whatever transaction there is.
VtabClose(s) ==
  /\ MayCall(s) /\ cursors[s] # None
  /\ s = Writer => cursors[s].filters > 0 /\ IsEof(cursors[s]) /\ cursors[s].given = {}
  /\ VtabCommit
  /\ cursors' = [cursors EXCEPT ![s] = None]
  /\ sql' = IF s = Writer THEN [sql EXCEPT !.writes = "done"] ELSE sql
  /\ past' = [past EXCEPT !.closed = @ \/ sql.joined]
  /\ UNCHANGED <<index, crashed>>
------------------------------------------------------------------------------
\* Where TableHeap::InsertTuple() may put a row: into the first free slot of a
\* page, and on a later page only if the earlier ones are in use.
FreeRids ==
  {r \in Rid : /\ rows[r] = None
               /\ \A i \in 1 .. r[2] - 1 : rows[<<r[1], i>>] # None
               /\ \A p \in 1 .. r[1] - 1 : \E i \in 1 .. Slots : rows[<<p, i>>] # None}

\* UpdateTuple() keeps the row in its place if the page has room.  The heap's
\* promise does not cover an update beside a tuple that is marked as deleted.
MayFit(r, row) == row \notin Large /\ \A q \in marked : q[1] # r[1]

Noted(ix, key, refused) ==
  [past EXCEPT !.updates = @ + 1,
               !.refused = IF refused THEN @ \cup {key} ELSE @,
               !.spoiled = @ \/ refused \/ ix.map[key] # None]

MayUpdate(kind) == Running /\ sql.writes = kind /\ past.updates < MaxUpdates

\* VtabUpdate() with an insertion: the answer of InsertTuple() is not looked at.
VtabInsert(row) ==
  /\ MayUpdate("insert")
  /\ \/ txn = None /\ Crashes("null transaction")
     \/ /\ txn # None
        /\ \E rid \in IF row \in Large THEN {InvalidRid} ELSE FreeRids, moves \in BOOLEAN :
             /\ rows' = IF row \in Large THEN rows ELSE [rows EXCEPT ![rid] = row]
             /\ index' = InsertEntry(index, KeyOf(row), rid, moves)
        /\ past' = Noted(index, KeyOf(row), row \in Large)
        /\ cursors' = Disturbed
        /\ UNCHANGED <<marked, txn, sql, crashed>>

\* sqlite has collected the rows before it changes the first.
Collected ==
  LET c == cursors[Writer] IN
  IF c = None THEN {} ELSE IF c.filters > 0 /\ IsEof(c) THEN c.given ELSE {}

Settled(r) == [Disturbed EXCEPT ![Writer].given = @ \ {r}, ![Writer].clean = FALSE]

VtabDelete(r) ==
  /\ MayUpdate("delete") /\ r \in Collected
  /\ \E moves \in BOOLEAN : index' = DeleteEntry(index, KeyOf(rows[r]), moves)
  /\ marked' = marked \cup {r}
  /\ txn' = [txn EXCEPT !.deletes = @ \cup {r}]
  /\ past' = [past EXCEPT !.updates = @ + 1, !.emptied = @ \/ Indexed(index') = {}]
  /\ cursors' = Settled(r)
  /\ UNCHANGED <<rows, sql, crashed>>

\* "for update, index always delete and insert".  A row that does not fit is
\* marked and inserted elsewhere; its RID stays if that fails as well.
VtabUpdate(r, row) ==
  /\ MayUpdate("update") /\ r \in Collected
  /\ \E moves1, moves2 \in BOOLEAN :
       LET ix == DeleteEntry(index, KeyOf(rows[r]), moves1)
           Placed(rid) == /\ index' = InsertEntry(ix, KeyOf(row), rid, moves2)
                          /\ rows' = IF rid = r /\ row \in Large THEN rows
                                     ELSE [rows EXCEPT ![rid] = row]
       IN  /\ \/ MayFit(r, row) /\ Placed(r) /\ UNCHANGED <<marked, txn>>
              \/ /\ marked' = marked \cup {r}
                 /\ txn' = [txn EXCEPT !.deletes = @ \cup {r}]
                 /\ IF row \in Large THEN Placed(r) ELSE \E rid \in FreeRids : Placed(rid)
           /\ past' = [Noted(ix, KeyOf(row), row \in Large) EXCEPT
                         !.emptied = @ \/ Indexed(ix) = {}]
  /\ cursors' = Settled(r)
  /\ UNCHANGED <<sql, crashed>>
------------------------------------------------------------------------------
MayConnect == ~sql.connected /\ crashed = "no" /\ sql.sessions < MaxSessions
Connected == sql' = [sql EXCEPT !.connected = TRUE, !.sessions = @ + 1]

\* The first time sqlite creates the table.
VtabCreate ==
  /\ MayConnect /\ sql.sessions = 0
  /\ Connected
  /\ index' = [index EXCEPT !.header = InsertRecord(@, TableName, 1)]
  /\ UNCHANGED <<rows, marked, txn, cursors, crashed, past>>

\* A later session, after a host that has written every page to the file.  The root
\* of an index that never had an entry is an uninitialized variable.
VtabConnect ==
  /\ MayConnect /\ sql.sessions > 0
  /\ LET root == GetRootId(index.header, IndexName, None)
     IN  \/ root = None /\ Crashes("bad root")
         \/ /\ Connected
            /\ index' = IF root # None /\ root # INVALID_PAGE_ID THEN index
                        ELSE [index EXCEPT !.map = [k \in Key |-> None]]
            /\ past' = [past EXCEPT !.spoiled = @ \/ index' # index]
            /\ UNCHANGED <<rows, marked, txn, cursors, crashed>>

\* The table goes, and with it the storage engine.
VtabDisconnect ==
  /\ Running /\ sql.writes = "no" /\ ~sql.explicit
  /\ \A s \in Stmt : cursors[s] = None
  /\ sql' = [sql EXCEPT !.connected = FALSE]
  /\ txn' = None
  /\ UNCHANGED <<rows, marked, index, cursors, crashed, past>>

Next ==
  \/ VtabCreate \/ VtabConnect \/ VtabDisconnect
  \/ SqlBegin
  \/ \E commits \in BOOLEAN : SqlEnd(commits)
  \/ \E kind \in {"insert", "delete", "update"} : VtabBegin(kind)
  \/ EndWrite
  \/ \E s \in Stmt :
       \/ \E where \in Wheres[s] : VtabOpen(s, where)
       \/ VtabFilter(s) \/ VtabNext(s) \/ VtabClose(s)
  \/ \E row \in Row : VtabInsert(row)
  \/ \E r \in Rid : VtabDelete(r)
  \/ \E r \in Rid, row \in Row : VtabUpdate(r, row)

Spec == Init /\ [][Next]_vars
------------------------------------------------------------------------------
\* Insertions, updates and deletions keep heap and index in step: an entry names a
\* row that is there and has its key.  This holds for all keys but those of rows
\* that the heap refused, which are entered all the same; with equal keys too.
EntriesNameRows ==
  \A k \in Key \ past.refused :
    index.map[k] # None => Visible(index.map[k]) /\ KeyOf(rows[index.map[k]]) = k

\* Every row is found through the index, until a row is refused, two rows have the
\* same key, or a connection loses the index.
IndexComplete ==
  ~past.spoiled => \A r \in Rid : Visible(r) => index.map[KeyOf(rows[r])] = r

\* Heap and index agree in both directions.
IndexMatchesHeap == EntriesNameRows /\ IndexComplete

\* A deletion is carried out before its statement ends, also in an explicit
\* transaction and beside other statements' cursors: closing the cursor commits.
MarksEndWithStatement == sql.writes = "no" => marked = {}

\* "this txn can't fail": sqlite writes without a transaction only after a cursor
\* was closed in the explicit transaction that the statement belongs to.
NullTransactionExplained ==
  crashed = "null transaction" => sql.explicit /\ past.closed

InKeyOrder(where) == \A i \in DOMAIN where : where[i].column = KeyAttrs[i]

\* What a scan has to give: all rows that match, or those the index has.
Expected(c) ==
  {r \in Rid : /\ Visible(r) /\ Matches(rows[r], c.where)
               /\ c.is_index_scan => index.map[KeyOf(rows[r])] = r}

\* A statement that ends its first scan, with nothing written since it began, has
\* been given the rows that match.  Not so if the constraints of an index scan are
\* not in the index's order, or if the heap's first page holds no row; and a later
\* scan of the same cursor gives nothing at all, for VtabFilter() does not rewind.
ScansAnswer ==
  \A s \in Stmt :
    LET c == cursors[s] IN
    c # None => (c.filters > 0 /\ c.clean /\ IsEof(c) =>
      /\ c.given \subseteq Expected(c)
      /\ \/ c.filters > 1 /\ c.given = {}
         \/ c.is_index_scan /\ ~InKeyOrder(c.where)
         \/ ~c.is_index_scan /\ SlotsFrom(1, 1) = {}
         \/ c.given = Expected(c))

\* A later session finds the index as it was left, unless the index was emptied
\* before or never had an entry.
ReconnectKeepsIndex ==
  [][VtabConnect => \/ crashed' # "no" /\ Indexed(index) = {}
                    \/ index'.map = index.map
                    \/ past.emptied]_vars
===============================================================================
