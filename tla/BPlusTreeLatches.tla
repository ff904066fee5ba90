---------------------------- MODULE BPlusTreeLatches ----------------------------
(* index/b_plus_tree.cpp and include/index/index_iterator.h between threads:    *)
(* the descent latches one page after the other and lets go of those above when *)
(* the operation cannot reach them any more.  A step takes at most one latch;   *)
(* what a thread does to pages that only it has latched is one step, and so is  *)
(* letting go of them.  A latch is RWMutex as its proofs allow to see it: a     *)
(* writer that has entered keeps readers out while it waits for those inside.   *)
EXTENDS BPlusTree

CONSTANTS
  Thread,
  Calls,       \* Calls[t]: the calls that t may make, records of op, key and value
  MaxCalls,    \* bound: how many of them it makes
  Trees,       \* the trees to start from
  MaxPages,    \* bound on page ids, above what the calls can reach
  None

VARIABLES
  tree,
  answer,      \* what the last call returned that met the contents
  readers,     \* the threads that have a latch for reading
  writer,      \* the thread that has entered it for writing
  th,          \* the threads' own variables
  crashed      \* a null pointer was used

vars == <<tree, answer, readers, writer, th, crashed>>

\* The latches of the pages, and that of root_page_id_.
Root == 0
Latch == 0 .. MaxPages

Idle(n) == [pc |-> "idle", op |-> "none", key |-> 0, value |-> None, at |-> Root,
            held |-> {}, deleted |-> {}, index |-> 0,
            passed |-> <<>>, must |-> {}, sure |-> TRUE, calls |-> n]

Init ==
  /\ tree \in Trees
  /\ answer = NotFound
  /\ readers = [l \in Latch |-> {}]
  /\ writer = [l \in Latch |-> None]
  /\ th = [t \in Thread |-> Idle(MaxCalls)]
  /\ crashed = FALSE

Exclusive(t) == th[t].op \in {"INSERT", "DELETE"}

\* The latch that t needs for its next step.
Wanted(t) ==
  CASE th[t].pc \in {"test", "root"} -> {Root}
    [] th[t].pc \in {"page", "next"} -> {th[t].at}
    [] th[t].pc = "rebalance" /\ ~IsRootPage(tree.pages[th[t].at]) -> {Sibling(tree, th[t].at)}
    [] OTHER -> {}

\* WLock() up to the wait for the readers.
Enter(t) ==
  /\ Exclusive(t)
  /\ \E l \in Wanted(t) :
       /\ writer[l] = None
       /\ readers[l] # {}
       /\ writer' = [writer EXCEPT ![l] = t]
  /\ UNCHANGED <<tree, answer, readers, th, crashed>>

\* The rest of WLock(), or RLock().
CanLatch(t, l) ==
  IF Exclusive(t) THEN writer[l] \in {None, t} /\ readers[l] = {} ELSE writer[l] = None

\* From now on t has exactly the latches ls.
Holding(t, ls) ==
  /\ writer' = [l \in Latch |-> IF l \in ls /\ Exclusive(t) THEN t
                                ELSE IF writer[l] = t THEN None ELSE writer[l]]
  /\ readers' = [l \in Latch |-> IF l \in ls /\ ~Exclusive(t) THEN readers[l] \cup {t}
                                 ELSE readers[l] \ {t}]

\* The pages that t has pinned: those it has latched, and the one it waits for.
Pinned(t) == th[t].held \cup IF th[t].pc \in {"page", "next"} THEN {th[t].at} ELSE {}

\* Threads other than t, when t has removed key or moved entries between pages:
\* what a scan still owes, and whether it may have been overtaken.
Others(t, removed, moved) ==
  [s \in Thread \ {t} |->
     [th[s] EXCEPT !.must = @ \ removed, !.sure = @ /\ (~moved \/ th[s].op # "SCAN")]]

\* FreePagesInTransaction(): t lets go of everything, and deletes pages of newTree
\* unless somebody has them pinned.  A scan that was about to fetch one strays:
\* what it reads then is not modelled.
Free(t, newTree, deleted, others) ==
  LET gone == deleted \ UNION {Pinned(s) : s \in Thread \ {t}}
  IN  /\ tree' = DeletePages(newTree, gone)
      /\ Holding(t, {})
      /\ th' = [s \in Thread |->
                  IF s = t THEN Idle(th[t].calls)
                  ELSE IF th[s].pc = "fetch" /\ th[s].at \in gone
                  THEN [others[s] EXCEPT !.pc = "stray", !.at = Root]
                  ELSE others[s]]
Return(t) == Free(t, tree, {}, Others(t, {}, FALSE))
--------------------------------------------------------------------------------
\* A call begins.  Remove() looks at root_page_id_ without the latch.
Call(t, c) ==
  /\ th[t].pc = "idle" /\ th[t].calls > 0
  /\ LET n == [Idle(th[t].calls - 1) EXCEPT !.op = c.op, !.key = c.key, !.value = c.value]
     IN  IF c.op = "DELETE" /\ IsEmpty(tree)
         THEN th' = [th EXCEPT ![t] = Idle(th[t].calls - 1)] /\ answer' = NotFound
         ELSE th' = [th EXCEPT ![t] = [n EXCEPT !.pc = IF c.op = "INSERT" THEN "test" ELSE "root"]]
              /\ UNCHANGED answer
  /\ UNCHANGED <<tree, readers, writer, crashed>>

\* Insert() up to the end of its first critical section.
Test(t) ==
  /\ th[t].pc = "test"
  /\ CanLatch(t, Root)
  /\ IF IsEmpty(tree)
     THEN /\ Free(t, StartNewTree(tree, th[t].key, th[t].value), {}, Others(t, {}, FALSE))
          /\ answer' = TRUE
     ELSE /\ th' = [th EXCEPT ![t].pc = "root"]
          /\ Holding(t, {})
          /\ UNCHANGED <<tree, answer>>
  /\ UNCHANGED crashed

\* FindLeafPage() up to the root page.  Insert() and Remove() use the null pointer
\* that they get from an empty tree.
LatchRoot(t) ==
  /\ th[t].pc = "root"
  /\ CanLatch(t, Root)
  /\ IF IsEmpty(tree)
     THEN /\ Return(t)
          /\ crashed' = Exclusive(t)
          /\ answer' = IF th[t].op = "READ" THEN NotFound ELSE answer
     ELSE /\ th' = [th EXCEPT ![t].pc = "page", ![t].at = tree.root, ![t].held = {Root}]
          /\ Holding(t, {Root})
          /\ UNCHANGED <<tree, answer, crashed>>

\* Mutant: the latch of a page is let go before that of its child is taken.
LatchPageLetsGo(t) ==
  LET p == th[t].at
      page == tree.pages[p]
      held == IF page.leaf THEN {p} ELSE {Root}
  IN  /\ th[t].pc = "page"
      /\ CanLatch(t, p)
      /\ th' = [th EXCEPT ![t].held = held,
                          ![t].pc = IF page.leaf THEN "leaf" ELSE "page",
                          ![t].at = IF page.leaf THEN p ELSE ChildFor(page, th[t].key)]
      /\ Holding(t, held \ {Root})
      /\ UNCHANGED <<tree, answer, crashed>>

\* CrabingProtocalFetchPage() of a page on the way down, and the choice of the next.
LatchPage(t) ==
  LET p == th[t].at
      page == tree.pages[p]
      above == th[t].held
      first == above = {Root}
      held == IF ~first /\ (~Exclusive(t) \/ IsSafe(page, th[t].op)) THEN {p} ELSE above \cup {p}
  IN  /\ th[t].pc = "page"
      /\ CanLatch(t, p)
      /\ th' = [th EXCEPT ![t].held = held,
                          ![t].pc = IF page.leaf THEN "leaf" ELSE "page",
                          ![t].at = IF page.leaf THEN p ELSE ChildFor(page, th[t].key)]
      /\ Holding(t, held)
      /\ UNCHANGED <<tree, answer, crashed>>

\* GetValue() at the leaf.
Lookup(t) ==
  LET page == tree.pages[th[t].at]
  IN  /\ th[t].pc = "leaf" /\ th[t].op = "READ"
      /\ answer' = IF Contains(page, th[t].key) THEN ValueAt(page, KeyIndex(page, th[t].key))
                                                ELSE NotFound
      /\ Return(t)
      /\ UNCHANGED crashed

\* Mutant: nothing is let go when the key exists.
InsertKeepsLatches(t) ==
  LET p == th[t].at
      exists == Contains(tree.pages[p], th[t].key)
  IN  /\ th[t].pc = "leaf" /\ th[t].op = "INSERT"
      /\ answer' = ~exists
      /\ IF exists THEN th' = [th EXCEPT ![t] = Idle(th[t].calls)] /\ UNCHANGED <<tree, readers, writer>>
         ELSE Free(t, InsertIntoLeaf(tree, p, th[t].key, th[t].value), {}, Others(t, {}, FALSE))
      /\ UNCHANGED crashed

\* InsertIntoLeaf() at the leaf.  The pages that it splits off and the new root are
\* reachable only through pages that it has latched.
InsertAtLeaf(t) ==
  LET p == th[t].at
      exists == Contains(tree.pages[p], th[t].key)
  IN  /\ th[t].pc = "leaf" /\ th[t].op = "INSERT"
      /\ answer' = ~exists
      /\ Free(t, IF exists THEN tree ELSE InsertIntoLeaf(tree, p, th[t].key, th[t].value), {},
              Others(t, {}, FALSE))
      /\ UNCHANGED crashed

\* Remove() at the leaf.
RemoveAtLeaf(t) ==
  LET p == th[t].at
      removed == RemoveFromLeaf(tree, p, th[t].key)
      others == Others(t, {th[t].key}, FALSE)
  IN  /\ th[t].pc = "leaf" /\ th[t].op = "DELETE"
      /\ answer' = NotFound
      /\ IF Underflows(removed.pages[p])
         THEN /\ tree' = removed
              /\ th' = [s \in Thread |-> IF s = t THEN [th[t] EXCEPT !.pc = "rebalance"]
                                                  ELSE others[s]]
              /\ UNCHANGED <<readers, writer>>
         ELSE Free(t, removed, {}, others)
      /\ UNCHANGED crashed

\* CoalesceOrRedistribute() of one page: of the root, or with a sibling that is
\* latched first.
RebalanceRoot(t) ==
  LET r == AdjustRoot(tree, th[t].at)
  IN  /\ th[t].pc = "rebalance" /\ IsRootPage(tree.pages[th[t].at])
      /\ Free(t, r.tree, th[t].deleted \cup r.deleted, Others(t, {}, FALSE))
      /\ UNCHANGED <<answer, crashed>>

\* Mutant: the sibling is not latched.
RebalanceUnlatched(t) ==
  LET p == th[t].at
      r == Rebalance(tree, p, Sibling(tree, p))
      others == Others(t, {}, TRUE)
      deleted == th[t].deleted \cup r.deleted
  IN  /\ th[t].pc = "rebalance" /\ ~IsRootPage(tree.pages[p])
      /\ IF r.up
         THEN /\ tree' = r.tree
              /\ th' = [s \in Thread |->
                          IF s = t THEN [th[t] EXCEPT !.at = tree.pages[p].parent, !.deleted = deleted]
                                   ELSE others[s]]
              /\ UNCHANGED <<readers, writer>>
         ELSE Free(t, r.tree, deleted, others)
      /\ UNCHANGED <<answer, crashed>>

RebalanceWith(t) ==
  LET p == th[t].at
      sibling == Sibling(tree, p)
      r == Rebalance(tree, p, sibling)
      others == Others(t, {}, TRUE)
      deleted == th[t].deleted \cup r.deleted
      held == th[t].held \cup {sibling}
  IN  /\ th[t].pc = "rebalance" /\ ~IsRootPage(tree.pages[p])
      /\ CanLatch(t, sibling)
      /\ IF r.up
         THEN /\ tree' = r.tree
              /\ th' = [s \in Thread |->
                          IF s = t
                          THEN [th[t] EXCEPT !.at = tree.pages[p].parent, !.deleted = deleted,
                                             !.held = held]
                          ELSE others[s]]
              /\ Holding(t, held)
         ELSE Free(t, r.tree, deleted, others)
      /\ UNCHANGED <<answer, crashed>>
--------------------------------------------------------------------------------
\* Begin(key) at the leaf: the root latch is let go, the leaf stays latched.
StartScan(t) ==
  LET p == th[t].at
  IN  /\ th[t].pc = "leaf" /\ th[t].op = "SCAN"
      /\ th' = [th EXCEPT ![t].pc = "scan", ![t].held = {p},
                          ![t].index = KeyIndex(tree.pages[p], th[t].key),
                          ![t].must = KeysFrom(tree, th[t].key)]
      /\ Holding(t, {p})
      /\ UNCHANGED <<tree, answer, crashed>>

\* The rest of a leaf, and operator++ up to UnlockAndUnPin().  On a leaf that was
\* emptied by a merge a scan strays: it reads an old entry and an old next_page_id_.
ScanLeaf(t) ==
  LET page == tree.pages[th[t].at]
      rest == Drop(page.items, th[t].index)
  IN  /\ th[t].pc = "scan"
      /\ th' = [th EXCEPT ![t].passed = @ \o [i \in DOMAIN rest |-> rest[i].key],
                          ![t].at = page.next, ![t].index = 0, ![t].held = {},
                          ![t].pc = IF page.items = <<>> THEN "stray"
                                    ELSE IF page.next = INVALID_PAGE_ID THEN "end" ELSE "fetch"]
      /\ Holding(t, {})
      /\ UNCHANGED <<tree, answer, crashed>>

\* FetchPage() of the next leaf, RLatch() after it, and the end.
FetchNext(t) ==
  /\ th[t].pc = "fetch"
  /\ th' = [th EXCEPT ![t].pc = "next"]
  /\ UNCHANGED <<tree, answer, readers, writer, crashed>>
LatchNext(t) ==
  /\ th[t].pc = "next"
  /\ CanLatch(t, th[t].at)
  /\ th' = [th EXCEPT ![t].pc = "scan", ![t].held = {th[t].at}]
  /\ Holding(t, {th[t].at})
  /\ UNCHANGED <<tree, answer, crashed>>
EndScan(t) ==
  /\ th[t].pc \in {"end", "stray"}
  /\ Return(t)
  /\ UNCHANGED <<answer, crashed>>
--------------------------------------------------------------------------------
Step(t) ==
  \/ Enter(t) \/ Test(t) \/ LatchRoot(t) \/ LatchPage(t)
  \/ Lookup(t) \/ InsertAtLeaf(t) \/ RemoveAtLeaf(t) \/ RebalanceRoot(t) \/ RebalanceWith(t)
  \/ StartScan(t) \/ ScanLeaf(t) \/ FetchNext(t) \/ LatchNext(t) \/ EndScan(t)

Next == ~crashed /\ \E t \in Thread : Step(t) \/ \E c \in Calls[t] : Call(t, c)

\* Step(t) is enabled.
Ready(t) ==
  /\ ~crashed /\ th[t].pc # "idle"
  /\ \A l \in Wanted(t) : CanLatch(t, l) \/ (Exclusive(t) /\ writer[l] = None)

\* As long as threads in a call can go on, one of them does: weak fairness of the
\* steps, written with Ready.
Fairness == []<>(\A t \in Thread : ~Ready(t)) \/ []<><<\E t \in Thread : Step(t)>>_vars

Spec == Init /\ [][Next]_vars /\ Fairness
--------------------------------------------------------------------------------
\* Every call that gets through takes effect at one step between its beginning and
\* its end, as if the index were a map: latching makes the tree linearizable.
Map == INSTANCE OrderedMap WITH map <- Contents(tree)
ImplementsMap == [][Map!MapNext]_(Map!mapVars)

\* The entries of a page change only under its write latch, also those of parents
\* and siblings that a split or a merge reaches long after the way down.
WritesLatched ==
  [][\A p \in DOMAIN tree.pages \cap DOMAIN tree'.pages :
       tree'.pages[p].items # tree.pages[p].items =>
         \E t \in Thread : writer[p] = t \/ (writer[p] = None /\ readers[p] = {} /\ p \in Wanted(t))]_vars

\* A thread on its way down never waits at a page that has left the tree.
DescentsStayInTree ==
  \A t \in Thread :
    th[t].pc = "page" => ~IsEmpty(tree) /\ th[t].at \in Subtree(tree, tree.root)

\* When no thread is in a call the tree passes its own Check() and is linked; a
\* page is left over only if a scan had it pinned when it was to be deleted.
QuietTreeIsSound ==
  (\A t \in Thread : th[t].pc = "idle") =>
    /\ tree.ok
    /\ Check(tree)
    /\ Linked(DeletePages(tree, {p \in DOMAIN tree.pages :
                                   tree.pages[p].leaf /\ tree.pages[p].items = <<>>}))

\* Threads never see a tree that another one is still changing, and leave a sound
\* one behind.
TreeStaysSound == DescentsStayInTree /\ QuietTreeIsSound

\* A scan that no merge or borrowing overtakes passes every key that is there all
\* the time, in ascending order.
ScanComplete ==
  \A t \in Thread :
    LET passed == th[t].passed
    IN  th[t].pc = "end" /\ th[t].sure =>
          /\ th[t].must \subseteq {passed[i] : i \in DOMAIN passed}
          /\ \A i \in 2 .. Len(passed) : passed[i - 1] < passed[i]

\* Every call returns, up to a crash: latches are taken downwards, and sideways
\* only below a parent that the thread has latched, so that nobody waits in a circle.
CallsReturn ==
  (\E t \in Thread : th[t].pc # "idle") ~> (crashed \/ \A t \in Thread : th[t].pc = "idle")
================================================================================
